------------------------ MODULE ThreadCommands_proofs ------------------------
(***************************************************************************)
(* Proofs about ThreadCommands, for any threads, any number of overlapping *)
(* processes, any categories and any policy.                               *)
(***************************************************************************)
EXTENDS ThreadCommands, TLAPS

(* A status that some way of creating the thread leads to.                 *)
Legal(d) ==
    \E start \in {Initial[d.flavor], "draft"} : <<d.flavor, start, d.status>> \in Paths

(* What a command at this stage can rely on, E being the threads there are. *)
FineIn(E, stage, j) ==
    /\ j.doc # None => Legal(j.doc)
    /\ j.todo \subseteq E
    /\ j.peer # None => j.peer \in E
    /\ stage \in {"check", "read", "resolve", "guard", "back"} => j.t \in E
    /\ stage \in {"resolve", "guard", "write"} => j.doc # None /\ j.t \in Threads
    /\ stage \in {"idle", "check", "filter", "read", "resolve", "guard"} => ~j.second
    /\ j.second => j.op # "bulk" /\ j.t \in Threads /\ j.peer \in Threads
    /\ stage = "back" => j.second
    /\ stage \in {"filter", "guard"} => j.op = "bulk"
    /\ j.op \in {"say", "tui_say", "retype"} => j.kind # None
    /\ j.op \in {"link", "supersede"} => j.peer # None
    /\ stage = "resolve" => j.mark # None
    /\ stage = "read" /\ j.op \in {"mark", "tui_mark", "revise_body"} => j.mark # None
    /\ stage = "check" /\ j.op \in {"tui_mark", "revise_body"} => j.mark # None
    /\ j.op \in {"state", "bulk", "supersede"} /\ ~j.second => Canonical(j.to) \in Statuses
    /\ stage = "guard" =>
          <<j.doc.status, Canonical(j.to)>> \in Edges[j.doc.flavor]

Fine(stage, j) == FineIn(Existing, stage, j)

JobsFine == \A p \in Procs : Fine(pc[p], job[p])

IInv == TypeOK /\ StatusReachable /\ JobsFine

-----------------------------------------------------------------------------
(* Paths.                                                                  *)

LEMMA PathsFacts ==
    ASSUME NEW f \in Flavors, NEW from \in Statuses, NEW to \in Statuses
    PROVE  <<f, from, to>> \in Paths <=>
             \A S \in SUBSET Statuses : from \in S /\ Closed(f, S) => to \in S
<1> DEFINE From(g, a) == {<<g, a, b>> : b \in ReachableFrom(g, a)}
<1>1. Paths = UNION {From(g, a) : g \in Flavors, a \in Statuses}
  BY DEF Paths
<1>2. <<f, from, to>> \in Paths <=>
        \E g \in Flavors, a \in Statuses : <<f, from, to>> \in From(g, a)
  <2> DEFINE All == {From(g, a) : g \in Flavors, a \in Statuses}
  <2>1. \A F : F \in All <=> \E g \in Flavors, a \in Statuses : F = From(g, a)
    OBVIOUS
  <2>2. <<f, from, to>> \in UNION All <=> \E F \in All : <<f, from, to>> \in F
    OBVIOUS
  <2> HIDE DEF From, All
  <2> QED
    BY <1>1, <2>1, <2>2 DEF All
<1>3. \A g \in Flavors, a \in Statuses :
        <<f, from, to>> \in From(g, a) <=> g = f /\ a = from /\ to \in ReachableFrom(f, from)
  OBVIOUS
<1>4. <<f, from, to>> \in Paths <=> to \in ReachableFrom(f, from)
  BY <1>2, <1>3
<1> QED
  BY <1>4 DEF ReachableFrom

LEMMA PathsReflexive ==
    ASSUME NEW f \in Flavors, NEW s \in Statuses
    PROVE  <<f, s, s>> \in Paths
  BY PathsFacts

LEMMA PathsStep ==
    ASSUME NEW f \in Flavors, NEW a \in Statuses, NEW b \in Statuses, NEW c \in Statuses,
           <<f, a, b>> \in Paths,
           <<f, b, c>> \in Paths \/ <<b, c>> \in Edges[f]
    PROVE  <<f, a, c>> \in Paths
<1>1. SUFFICES ASSUME NEW S \in SUBSET Statuses, a \in S, Closed(f, S)
               PROVE  c \in S
  BY PathsFacts
<1>2. b \in S
  BY <1>1, PathsFacts
<1>3. CASE <<f, b, c>> \in Paths
  BY <1>1, <1>2, <1>3, PathsFacts
<1>4. CASE <<b, c>> \in Edges[f]
  BY <1>1, <1>2, <1>4 DEF Closed
<1> QED
  BY <1>3, <1>4

LEMMA LegalMove ==
    ASSUME NEW d \in Doc, NEW e \in Doc, Legal(d), e.flavor = d.flavor,
           \/ e.status = d.status
           \/ <<d.status, e.status>> \in Edges[d.flavor]
           \/ <<d.flavor, d.status, e.status>> \in Paths
    PROVE  Legal(e)
<1>1. PICK start \in {Initial[d.flavor], "draft"} : <<d.flavor, start, d.status>> \in Paths
  BY DEF Legal
<1>2. d.flavor \in Flavors /\ d.status \in Statuses /\ e.status \in Statuses
      /\ start \in Statuses
  BY RegistryAssumption DEF Doc
<1>3. <<d.flavor, start, e.status>> \in Paths
  BY <1>1, <1>2, PathsStep
<1> QED
  BY <1>3 DEF Legal

-----------------------------------------------------------------------------
(* What the edits in memory return.                                        *)

LEMMA NewDocFacts ==
    ASSUME NEW f \in Flavors, NEW s \in {Initial[f], "draft"}, NEW L \in SUBSET Link
    PROVE  /\ NewDoc(f, s, L) \in Doc
           /\ Legal(NewDoc(f, s, L))
<1>1. s \in Statuses
  BY RegistryAssumption
<1> QED
  BY <1>1, PathsReflexive DEF NewDoc, Doc, Legal

Kept(e, d) == e \in Doc /\ e.flavor = d.flavor /\ e.status = d.status

LEMMA MarkFacts ==
    ASSUME NEW d \in Doc, NEW S, NEW s \in NodeStatuses
    PROVE  Kept(Mark(d, S, s), d)
<1> DEFINE N == [n \in Nodes |-> IF n \in S /\ Has(d, n)
                                 THEN [kind |-> d.nodes[n].kind, status |-> s]
                                 ELSE d.nodes[n]]
<1>1. N \in [Nodes -> NodeRecord \cup {None}]
  BY DEF Doc, NodeRecord, Has
<1>2. [d EXCEPT !.nodes = N] \in Doc
  BY <1>1 DEF Doc
<1> QED
  BY <1>2 DEF Mark, Kept, Doc

LEMMA RetypedFacts ==
    ASSUME NEW d \in Doc, NEW S, NEW k \in NodeKinds
    PROVE  Kept(Retyped(d, S, k), d)
<1> DEFINE N == [n \in Nodes |-> IF n \in S /\ Has(d, n)
                                 THEN [kind |-> k, status |-> d.nodes[n].status]
                                 ELSE d.nodes[n]]
<1>1. N \in [Nodes -> NodeRecord \cup {None}]
  BY DEF Doc, NodeRecord, Has
<1>2. [d EXCEPT !.nodes = N] \in Doc
  BY <1>1 DEF Doc
<1> QED
  BY <1>2 DEF Retyped, Kept, Doc

LEMMA AddLinkFacts ==
    ASSUME NEW d \in Doc, NEW rel \in {"implements", "supersedes", "superseded-by"},
           NEW t \in Threads
    PROVE  Kept(AddLink(d, rel, t), d)
  BY DEF AddLink, Kept, Doc, Link

LEMMA WithNodeFacts ==
    ASSUME NEW d \in Doc, NEW k \in NodeKinds, NEW e \in WithNode(d, k)
    PROVE  Kept(e, d)
<1>1. CASE k = "comment"
  BY <1>1 DEF WithNode, Kept
<1>2. CASE k # "comment"
  <2>1. PICK n \in FreshNodes :
          e = [d EXCEPT !.nodes = [d.nodes EXCEPT ![n] = [kind |-> k, status |-> "open"]]]
    BY <1>2 DEF WithNode
  <2>2. [d.nodes EXCEPT ![n] = [kind |-> k, status |-> "open"]]
            \in [Nodes -> NodeRecord \cup {None}]
    BY <2>1 DEF Doc, NodeRecord, NodeStatuses, FreshNodes
  <2> QED
    BY <2>1, <2>2 DEF Kept, Doc
<1> QED
  BY <1>1, <1>2

LEMMA MovedFacts ==
    ASSUME NEW d \in Doc, NEW s \in Statuses, NEW flags, NEW e \in Moved(d, s, flags)
    PROVE  e \in Doc /\ e.flavor = d.flavor /\ e.status = s
<1> DEFINE a == SetStatus(d, s)
           b == Resolved(a, flags)
<1>1. a \in Doc /\ a.flavor = d.flavor /\ a.status = s
  BY DEF SetStatus, Doc
<1>2. Kept(b, a)
  BY <1>1, MarkFacts DEF Resolved, NodeStatuses, Kept
<1>3. e \in WithNode(b, "approval") \/ e = b
  BY DEF Moved
<1>4. Kept(e, b)
  BY <1>2, <1>3, WithNodeFacts DEF Kept, NodeKinds
<1> QED
  BY <1>1, <1>2, <1>4 DEF Kept

LEMMA EditedFacts ==
    ASSUME NEW stage, NEW j \in Job, Fine(stage, j), NEW d \in Doc, NEW e \in Edited(j, d)
    PROVE  Kept(e, d)
<1>1. CASE j.op \in {"say", "tui_say"}
  <2>1. j.kind \in NodeKinds
    BY <1>1 DEF Fine, FineIn, Job
  <2> QED
    BY <1>1, <2>1, WithNodeFacts DEF Edited
<1>2. CASE j.op = "link"
  <2>1. j.peer \in Threads
    BY <1>2 DEF Fine, FineIn, Existing
  <2> QED
    BY <1>2, <2>1, AddLinkFacts DEF Edited
<1>3. CASE j.op = "evidence"
  <2>1. e = d \/ e = [d EXCEPT !.commit = TRUE]
    BY <1>3 DEF Edited
  <2> QED
    BY <2>1 DEF Kept, Doc
<1>4. CASE j.op = "retype"
  <2>1. j.kind \in NodeKinds
    BY <1>4 DEF Fine, FineIn, Job
  <2>2. e = Retyped(d, j.nodes, j.kind)
    BY <1>4 DEF Edited
  <2> QED
    BY <2>1, <2>2, RetypedFacts
<1>5. CASE j.op = "revise_node"
  BY <1>5 DEF Edited, Kept
<1>6. CASE j.op \notin {"say", "tui_say", "link", "evidence", "retype", "revise_node"}
  BY <1>6 DEF Edited, Kept
<1> QED
  BY <1>1, <1>2, <1>3, <1>4, <1>5, <1>6

LEMMA LegalDocs ==
    ASSUME IInv, NEW t \in Existing
    PROVE  docs[t] \in Doc /\ Legal(docs[t])
  BY DEF IInv, TypeOK, StatusReachable, Existing, Legal

-----------------------------------------------------------------------------
(* The kinds of step a process makes.                                      *)

LEMMA NoJobFine == NoJob \in Job /\ Fine("idle", NoJob)
<1>1. NoJob \in Job
  BY DEF NoJob, Job, Ops, CheckedOps
<1>2. Fine("idle", NoJob)
  BY NoneAssumption DEF NoJob, Fine, FineIn
<1> QED
  BY <1>1, <1>2

(* A step that leaves the refs alone and changes one process.              *)
LEMMA JobStep ==
    ASSUME IInv, NEW p \in Procs, NEW stage \in Stages, NEW j \in Job, Fine(stage, j),
           docs' = docs,
           pc' = [pc EXCEPT ![p] = stage],
           job' = [job EXCEPT ![p] = j],
           issued' \in Nat,
           halfway' \in SUBSET (Threads \X Threads),
           clobbered' \in BOOLEAN
    PROVE  IInv'
<1>1. TypeOK'
  BY DEF IInv, TypeOK
<1>2. StatusReachable'
  BY DEF IInv, StatusReachable, Existing
<1>3. Existing' = Existing
  BY DEF Existing
<1>4. ASSUME NEW q \in Procs PROVE Fine(pc[q], job[q])'
  <2>1. CASE q = p
    <3>1. pc'[q] = stage /\ job'[q] = j
      BY <2>1 DEF IInv, TypeOK
    <3> QED
      BY <3>1, <1>3 DEF Fine, FineIn
  <2>2. CASE q # p
    <3>1. pc'[q] = pc[q] /\ job'[q] = job[q]
      BY <2>2 DEF IInv, TypeOK
    <3>2. Fine(pc[q], job[q])
      BY DEF IInv, JobsFine
    <3> QED
      BY <3>1, <3>2, <1>3 DEF Fine, FineIn
  <2> QED
    BY <2>1, <2>2
<1> QED
  BY <1>1, <1>2, <1>4 DEF IInv, JobsFine

LEMMA ProceedStep ==
    ASSUME IInv, NEW p \in Procs, NEW stage \in Stages, NEW j \in Job, Fine(stage, j),
           Proceed(p, stage, j)
    PROVE  IInv'
  BY JobStep DEF Proceed, IInv, TypeOK

LEMMA FinishStep ==
    ASSUME IInv, NEW p \in Procs, Finish(p)
    PROVE  IInv'
  BY JobStep, NoJobFine DEF Finish, Stop, IInv, TypeOK, Stages

LEMMA GiveUpStep ==
    ASSUME IInv, NEW p \in Procs, GiveUp(p)
    PROVE  IInv'
<1>1. Fine(pc[p], job[p])
  BY DEF IInv, JobsFine
<1>2. halfway' \in SUBSET (Threads \X Threads)
  BY <1>1 DEF GiveUp, Fine, FineIn, Pair, IInv, TypeOK
<1> QED
  BY <1>2, JobStep, NoJobFine DEF GiveUp, Stop, IInv, TypeOK, Stages

LEMMA FailStep ==
    ASSUME IInv, NEW p \in Procs, Fail(p)
    PROVE  IInv'
<1>1. CASE job[p].op = "bulk"
  <2> DEFINE j == [job[p] EXCEPT !.t = None, !.doc = None]
  <2>1. job[p] \in Job /\ Fine(pc[p], job[p])
    BY DEF IInv, TypeOK, JobsFine
  <2>2. j \in Job
    BY <2>1 DEF Job
  <2>3. Fine("filter", j)
    BY <1>1, <2>1 DEF Fine, FineIn, Job
  <2> QED
    BY <1>1, <2>2, <2>3, ProceedStep DEF Fail, NextOfBulk, Stages
<1>2. CASE job[p].op # "bulk"
  BY <1>2, GiveUpStep DEF Fail
<1> QED
  BY <1>1, <1>2

LEMMA IssueStep ==
    ASSUME IInv, NEW p \in Procs, NEW stage \in Stages, NEW j \in Job, Fine(stage, j),
           Issue(p, stage, j)
    PROVE  IInv'
<1>1. issued' \in Nat
  BY DEF Issue, IInv, TypeOK
<1>2. halfway' \in SUBSET (Threads \X Threads) /\ clobbered' \in BOOLEAN
  BY DEF Issue, IInv, TypeOK
<1> QED
  BY <1>1, <1>2, JobStep DEF Issue

-----------------------------------------------------------------------------
(* Commands as they are issued.                                            *)

LEMMA NewStep ==
    ASSUME IInv, NEW p \in Procs, NEW t \in Threads, NEW f \in Flavors,
           NEW peer \in Existing \cup {None}, NEW rel \in {"implements", "supersedes"},
           NEW kind \in Kinds \ {"approval"}, New(p, t, f, peer, rel, kind)
    PROVE  IInv'
<1> DEFINE L == IF peer = None THEN {} ELSE {<<rel, peer>>}
           j(d, c) == [NoJob EXCEPT !.op = "new", !.t = t, !.doc = [d EXCEPT !.commit = c],
                                    !.peer = IF rel = "supersedes" THEN peer ELSE None]
<1>1. PICK d \in WithNode(NewDoc(f, Initial[f], L), kind), c \in {FALSE, rel = "implements"} :
        Issue(p, "write", j(d, c))
  BY DEF New
<1>2. L \in SUBSET Link
  BY DEF Link, Existing
<1>3. NewDoc(f, Initial[f], L) \in Doc /\ Legal(NewDoc(f, Initial[f], L))
  BY <1>2, NewDocFacts
<1>4. kind \in NodeKinds
  BY RegistryAssumption
<1>5. Kept(d, NewDoc(f, Initial[f], L))
  BY <1>3, <1>4, WithNodeFacts
<1>6. d \in Doc /\ Legal(d)
  BY <1>3, <1>5, LegalMove DEF Kept
<1> DEFINE e == [d EXCEPT !.commit = c]
<1>7. e \in Doc /\ e.flavor = d.flavor /\ e.status = d.status
  BY <1>6 DEF Doc
<1>8. Legal(e)
  BY <1>6, <1>7, LegalMove
<1> DEFINE src == IF rel = "supersedes" THEN peer ELSE None
           k == [NoJob EXCEPT !.op = "new", !.t = t, !.doc = e, !.peer = src]
<1>9. j(d, c) = k
  OBVIOUS
<1>10. src \in Existing \cup {None}
  OBVIOUS
<1> HIDE DEF e, src, j
<1>11. k \in Job
  BY <1>7, <1>10, NoJobFine DEF Job, Ops, Existing
<1>12. Fine("write", k)
  BY <1>7, <1>8, <1>10, NoneAssumption DEF Fine, FineIn, NoJob
<1> QED
  BY <1>1, <1>9, <1>11, <1>12, IssueStep DEF Stages

LEMMA TuiNewStep ==
    ASSUME IInv, NEW p \in Procs, NEW t \in Threads, NEW f \in Flavors, TuiNew(p, t, f)
    PROVE  IInv'
<1> DEFINE d == NewDoc(f, "draft", {})
           j == [NoJob EXCEPT !.op = "tui_new", !.t = t, !.doc = d]
<1>1. d \in Doc /\ Legal(d)
  BY NewDocFacts
<1> HIDE DEF d
<1>2. j \in Job
  BY <1>1, NoJobFine DEF Job, Ops
<1>3. Fine("write", j)
  BY <1>1, NoneAssumption DEF Fine, FineIn, NoJob
<1> QED
  BY <1>2, <1>3, IssueStep DEF TuiNew, d, Stages

LEMMA SayStep ==
    ASSUME IInv, NEW p \in Procs, NEW t \in Existing, NEW kind \in Kinds, Say(p, t, kind)
    PROVE  IInv'
<1> DEFINE j == [NoJob EXCEPT !.op = "say", !.t = t, !.kind = kind]
<1>1. t \in Threads
  BY DEF Existing
<1>2. j \in Job
  BY <1>1, RegistryAssumption, NoJobFine DEF Job, Ops, CheckedOps, NodeStatuses, Existing
<1>3. Fine("check", j)
  BY RegistryAssumption, NoneAssumption DEF Fine, FineIn, NoJob, NodeKinds, NodeStatuses, Existing
<1> QED
  BY <1>2, <1>3, IssueStep DEF Say, Stages

LEMMA TuiSayStep ==
    ASSUME IInv, NEW p \in Procs, NEW t \in Existing, NEW kind \in Kinds, TuiSay(p, t, kind)
    PROVE  IInv'
<1> DEFINE j == [NoJob EXCEPT !.op = "tui_say", !.t = t, !.kind = kind]
<1>1. t \in Threads
  BY DEF Existing
<1>2. j \in Job
  BY <1>1, RegistryAssumption, NoJobFine DEF Job, Ops, CheckedOps, NodeStatuses, Existing
<1>3. Fine("read", j)
  BY RegistryAssumption, NoneAssumption DEF Fine, FineIn, NoJob, NodeKinds, NodeStatuses, Existing
<1> QED
  BY <1>2, <1>3, IssueStep DEF TuiSay, Stages

LEMMA TuiReviseStep ==
    ASSUME IInv, NEW p \in Procs, NEW t \in Existing, TuiRevise(p, t)
    PROVE  IInv'
<1> DEFINE j == [NoJob EXCEPT !.op = "tui_revise", !.t = t]
<1>1. t \in Threads
  BY DEF Existing
<1>2. j \in Job
  BY <1>1, NoJobFine DEF Job, Ops, CheckedOps, NodeStatuses, Existing
<1>3. Fine("read", j)
  BY NoneAssumption DEF Fine, FineIn, NoJob, NodeKinds, NodeStatuses, Existing
<1> QED
  BY <1>2, <1>3, IssueStep DEF TuiRevise, Stages

LEMMA EditFieldStep ==
    ASSUME IInv, NEW p \in Procs, NEW t \in Existing, EditField(p, t)
    PROVE  IInv'
<1> DEFINE j == [NoJob EXCEPT !.op = "edit", !.t = t]
<1>1. t \in Threads
  BY DEF Existing
<1>2. j \in Job
  BY <1>1, NoJobFine DEF Job, Ops, CheckedOps, NodeStatuses, Existing
<1>3. Fine("read", j)
  BY NoneAssumption DEF Fine, FineIn, NoJob, NodeKinds, NodeStatuses, Existing
<1> QED
  BY <1>2, <1>3, IssueStep DEF EditField, Stages

LEMMA LinkToStep ==
    ASSUME IInv, NEW p \in Procs, NEW t \in Existing, NEW peer \in Existing, LinkTo(p, t, peer)
    PROVE  IInv'
<1> DEFINE j == [NoJob EXCEPT !.op = "link", !.t = t, !.peer = peer]
<1>1. t \in Threads
  BY DEF Existing
<1>2. j \in Job
  BY <1>1, NoJobFine DEF Job, Ops, CheckedOps, NodeStatuses, Existing
<1>3. Fine("read", j)
  BY NoneAssumption DEF Fine, FineIn, NoJob, NodeKinds, NodeStatuses, Existing
<1> QED
  BY <1>2, <1>3, IssueStep DEF LinkTo, Stages

LEMMA AddEvidenceStep ==
    ASSUME IInv, NEW p \in Procs, NEW t \in Existing, AddEvidence(p, t)
    PROVE  IInv'
<1> DEFINE j == [NoJob EXCEPT !.op = "evidence", !.t = t]
<1>1. t \in Threads
  BY DEF Existing
<1>2. j \in Job
  BY <1>1, NoJobFine DEF Job, Ops, CheckedOps, NodeStatuses, Existing
<1>3. Fine("check", j)
  BY NoneAssumption DEF Fine, FineIn, NoJob, NodeKinds, NodeStatuses, Existing
<1> QED
  BY <1>2, <1>3, IssueStep DEF AddEvidence, Stages

LEMMA MarkNodesStep ==
    ASSUME IInv, NEW p \in Procs, NEW t \in Existing, NEW S \in SUBSET Nodes, NEW s \in {"resolved", "open", "retracted"}, MarkNodes(p, t, S, s)
    PROVE  IInv'
<1> DEFINE j == [NoJob EXCEPT !.op = "mark", !.t = t, !.nodes = S, !.mark = s]
<1>1. t \in Threads
  BY DEF Existing
<1>2. j \in Job
  BY <1>1, NoJobFine DEF Job, Ops, CheckedOps, NodeStatuses, Existing
<1>3. Fine("read", j)
  BY NoneAssumption DEF Fine, FineIn, NoJob, NodeKinds, NodeStatuses, Existing
<1> QED
  BY <1>2, <1>3, IssueStep DEF MarkNodes, Stages

LEMMA TuiMarkStep ==
    ASSUME IInv, NEW p \in Procs, NEW t \in Existing, NEW n \in Nodes, NEW s \in {"resolved", "open", "retracted"}, TuiMark(p, t, n, s)
    PROVE  IInv'
<1> DEFINE j == [NoJob EXCEPT !.op = "tui_mark", !.t = t, !.nodes = {n}, !.mark = s]
<1>1. t \in Threads
  BY DEF Existing
<1>2. j \in Job
  BY ZenonT(30), <1>1, NoJobFine DEF Job, Ops, CheckedOps, NodeStatuses, Existing
<1>3. Fine("check", j)
  BY NoneAssumption DEF Fine, FineIn, NoJob, NodeKinds, NodeStatuses, Existing
<1> QED
  BY <1>2, <1>3, IssueStep DEF TuiMark, Stages

LEMMA ReviseBodyStep ==
    ASSUME IInv, NEW p \in Procs, NEW t \in Existing, NEW S \in SUBSET Nodes, ReviseBody(p, t, S)
    PROVE  IInv'
<1> DEFINE j == [NoJob EXCEPT !.op = "revise_body", !.t = t, !.nodes = S, !.mark = "incorporated"]
<1>1. t \in Threads
  BY DEF Existing
<1>2. j \in Job
  BY <1>1, NoJobFine DEF Job, Ops, CheckedOps, NodeStatuses, Existing
<1>3. Fine("check", j)
  BY NoneAssumption DEF Fine, FineIn, NoJob, NodeKinds, NodeStatuses, Existing
<1> QED
  BY <1>2, <1>3, IssueStep DEF ReviseBody, Stages

LEMMA ReviseNodeStep ==
    ASSUME IInv, NEW p \in Procs, NEW t \in Existing, NEW n \in Nodes, ReviseNode(p, t, n)
    PROVE  IInv'
<1> DEFINE j == [NoJob EXCEPT !.op = "revise_node", !.t = t, !.nodes = {n}]
<1>1. t \in Threads
  BY DEF Existing
<1>2. j \in Job
  BY <1>1, NoJobFine DEF Job, Ops, CheckedOps, NodeStatuses, Existing
<1>3. Fine("check", j)
  BY NoneAssumption DEF Fine, FineIn, NoJob, NodeKinds, NodeStatuses, Existing
<1> QED
  BY <1>2, <1>3, IssueStep DEF ReviseNode, Stages

LEMMA RetypeStep ==
    ASSUME IInv, NEW p \in Procs, NEW t \in Existing, NEW n \in Nodes, NEW kind \in Kinds, Retype(p, t, n, kind)
    PROVE  IInv'
<1> DEFINE j == [NoJob EXCEPT !.op = "retype", !.t = t, !.nodes = {n}, !.kind = kind]
<1>1. t \in Threads
  BY DEF Existing
<1>2. j \in Job
  BY <1>1, RegistryAssumption, NoJobFine DEF Job, Ops, CheckedOps, NodeStatuses, Existing
<1>3. Fine("check", j)
  BY RegistryAssumption, NoneAssumption DEF Fine, FineIn, NoJob, NodeKinds, NodeStatuses, Existing
<1> QED
  BY <1>2, <1>3, IssueStep DEF Retype, Stages

LEMMA StateStep ==
    ASSUME IInv, NEW p \in Procs, NEW t \in Existing, NEW name \in Names, NEW flags \in SUBSET Flags,
           NEW peer \in Existing \cup {None}, State(p, t, name, flags, peer)
    PROVE  IInv'
<1> DEFINE j == [NoJob EXCEPT !.op = "state", !.t = t, !.to = name, !.flags = flags,
                              !.peer = peer]
<1>1. t \in Threads
  BY DEF Existing
<1>2. j \in Job
  BY <1>1, RegistryAssumption, NoJobFine DEF Job, Ops, CheckedOps, NodeStatuses, Existing
<1>3. Fine("read", j)
  BY RegistryAssumption, NoneAssumption DEF Fine, FineIn, NoJob, NodeKinds, NodeStatuses, Existing
<1> QED
  BY <1>2, <1>3, IssueStep DEF State, Stages

LEMMA BulkStep ==
    ASSUME IInv, NEW p \in Procs, NEW T \in SUBSET Existing, NEW name \in Names,
           NEW flags \in SUBSET Flags, Bulk(p, T, name, flags)
    PROVE  IInv'
<1> DEFINE j == [NoJob EXCEPT !.op = "bulk", !.todo = T, !.to = name,
                              !.flags = flags \ {"fast", "comment"}]
<1>1. j \in Job
  BY NoJobFine DEF Job, Ops, Existing
<1>2. Fine("filter", j)
  BY RegistryAssumption, NoneAssumption DEF Fine, FineIn, NoJob
<1> QED
  BY <1>1, <1>2, IssueStep DEF Bulk, Stages

LEMMA SupersedeStep ==
    ASSUME IInv, NEW p \in Procs, NEW old \in Existing, NEW new \in Existing,
           NEW flags \in SUBSET Flags, Supersede(p, old, new, flags)
    PROVE  IInv'
<1> DEFINE j == [NoJob EXCEPT !.op = "supersede", !.t = old, !.peer = new,
                              !.to = "deprecated",
                              !.flags = (flags \cap {"fast"}) \cup {"comment"}]
<1>1. j \in Job
  BY RegistryAssumption, NoJobFine DEF Job, Ops, Existing
<1>2. Canonical("deprecated") \in Statuses
  BY RegistryAssumption DEF Canonical
<1>3. Fine("read", j)
  BY <1>2, NoneAssumption DEF Fine, FineIn, NoJob, Existing
<1> QED
  BY <1>1, <1>3, IssueStep DEF Supersede, Stages

LEMMA IssueCommandStep ==
    ASSUME IInv, NEW p \in Procs, IssueCommand(p)
    PROVE  IInv'
<1>1. CASE \E t \in Threads \ Existing, f \in Flavors, peer \in Existing \cup {None},
              rel \in {"implements", "supersedes"}, kind \in Kinds \ {"approval"} :
             New(p, t, f, peer, rel, kind)
  BY <1>1, NewStep
<1>2. CASE \E t \in Threads \ Existing, f \in Flavors : TuiNew(p, t, f)
  BY <1>2, TuiNewStep
<1>3. CASE \E T \in (SUBSET Existing) \ {{}}, name \in Names, flags \in SUBSET Flags :
             Bulk(p, T, name, flags)
  BY <1>3, BulkStep
<1>4. ASSUME NEW t \in Existing, ThreadCommand(p, t) PROVE IInv'
  <2>1. CASE \E kind \in Kinds : Say(p, t, kind) \/ TuiSay(p, t, kind)
    BY <2>1, SayStep, TuiSayStep
  <2>2. CASE TuiRevise(p, t) \/ EditField(p, t) \/ AddEvidence(p, t)
    BY <2>2, TuiReviseStep, EditFieldStep, AddEvidenceStep
  <2>3. CASE \E peer \in Existing : LinkTo(p, t, peer)
    BY <2>3, LinkToStep
  <2>4. CASE \E S \in SUBSET Nodes : ReviseBody(p, t, S)
    BY <2>4, ReviseBodyStep
  <2>5. CASE \E S \in (SUBSET Nodes) \ {{}}, s \in {"resolved", "open", "retracted"} :
               MarkNodes(p, t, S, s)
    BY <2>5, MarkNodesStep
  <2>6. CASE \E n \in Nodes, s \in {"resolved", "open", "retracted"} : TuiMark(p, t, n, s)
    BY <2>6, TuiMarkStep
  <2>7. CASE \E n \in Nodes : ReviseNode(p, t, n)
    BY <2>7, ReviseNodeStep
  <2>8. CASE \E n \in Nodes, kind \in Kinds : Retype(p, t, n, kind)
    BY <2>8, RetypeStep
  <2>9. CASE \E name \in Names, flags \in SUBSET Flags, peer \in Existing \cup {None} :
               State(p, t, name, flags, peer)
    BY <2>9, StateStep
  <2>10. CASE \E new \in Existing, flags \in SUBSET Flags : Supersede(p, t, new, flags)
    BY <2>10, SupersedeStep
  <2> QED
    BY <1>4, <2>1, <2>2, <2>3, <2>4, <2>5, <2>6, <2>7, <2>8, <2>9, <2>10 DEF ThreadCommand
<1> QED
  BY <1>1, <1>2, <1>3, <1>4 DEF IssueCommand

-----------------------------------------------------------------------------
(* Reads and checks.                                                       *)

LEMMA JobFacts ==
    ASSUME IInv, NEW p \in Procs
    PROVE  job[p] \in Job /\ Fine(pc[p], job[p]) /\ pc[p] \in Stages
  BY DEF IInv, TypeOK, JobsFine

(* A command takes a document into memory, edited or not.                  *)
LEMMA LoadStep ==
    ASSUME IInv, NEW p \in Procs, NEW e \in Doc, Legal(e),
           NEW alone \in BOOLEAN, NEW current \in BOOLEAN,
           job[p].t \in Threads,
           Proceed(p, "write", [job[p] EXCEPT !.doc = e, !.alone = alone, !.current = current]),
           pc[p] \in {"read", "resolve", "guard", "back"}
    PROVE  IInv'
<1> DEFINE j == [job[p] EXCEPT !.doc = e, !.alone = alone, !.current = current]
<1>1. j \in Job
  BY ZenonT(30), JobFacts DEF Job
<1>2. /\ j.doc = e /\ j.t = job[p].t /\ j.peer = job[p].peer /\ j.op = job[p].op
      /\ j.second = job[p].second /\ j.todo = job[p].todo /\ j.to = job[p].to
      /\ j.kind = job[p].kind
  BY JobFacts DEF Job
<1>3. e # None
  BY NoneAssumption
<1>4. Fine("write", j)
  <2> HIDE DEF j
  <2> QED
    BY <1>2, <1>3, JobFacts DEF Fine, FineIn
<1> QED
  BY <1>1, <1>4, ProceedStep DEF Stages

LEMMA CheckPolicyStep ==
    ASSUME IInv, NEW p \in Procs, CheckPolicy(p)
    PROVE  IInv'
<1> DEFINE j == [job[p] EXCEPT !.alone = TRUE]
<1>1. CASE Fail(p)
  BY <1>1, FailStep
<1>2. CASE Proceed(p, "read", j)
  <2>1. j \in Job
    BY JobFacts DEF Job
  <2>2. Fine("read", j)
    BY JobFacts DEF Fine, FineIn, Job, CheckPolicy, CheckedOps
  <2> QED
    BY <1>2, <2>1, <2>2, ProceedStep DEF Stages
<1> QED
  BY <1>1, <1>2 DEF CheckPolicy

LEMMA CheckNodeStep ==
    ASSUME IInv, NEW p \in Procs, CheckNode(p)
    PROVE  IInv'
<1> DEFINE j == [job[p] EXCEPT !.alone = TRUE]
<1>1. CASE Fail(p)
  BY <1>1, FailStep
<1>2. CASE Finish(p)
  BY <1>2, FinishStep
<1>3. CASE Proceed(p, "read", j)
  <2>1. j \in Job
    BY JobFacts DEF Job
  <2>2. Fine("read", j)
    BY JobFacts DEF Fine, FineIn, Job, CheckNode
  <2> QED
    BY <1>3, <2>1, <2>2, ProceedStep DEF Stages
<1> QED
  BY <1>1, <1>2, <1>3 DEF CheckNode

LEMMA ReadAndEditStep ==
    ASSUME IInv, NEW p \in Procs, ReadAndEdit(p)
    PROVE  IInv'
<1> DEFINE j == job[p]
           d == docs[j.t]
           marks == j.op \in {"mark", "tui_mark", "revise_body"}
           next == IF marks THEN "resolve" ELSE "write"
           first == j.op \notin CheckedOps \cup {"tui_mark"}
<1>1. CASE Fail(p)
  BY <1>1, FailStep
<1>2. ASSUME NEW e \in Edited(j, d),
             Proceed(p, next, [j EXCEPT !.doc = e, !.alone = @ \/ first, !.current = TRUE])
      PROVE  IInv'
  <2>1. pc[p] = "read" /\ j.t \in Existing /\ j.t \in Threads
    BY JobFacts DEF ReadAndEdit, Fine, FineIn, Existing
  <2>2. d \in Doc /\ Legal(d)
    BY <2>1, LegalDocs
  <2>3. Kept(e, d)
    BY <2>2, JobFacts, EditedFacts
  <2>4. e \in Doc /\ Legal(e)
    BY <2>2, <2>3, LegalMove DEF Kept
  <2> DEFINE k == [j EXCEPT !.doc = e, !.alone = @ \/ first, !.current = TRUE]
  <2>5. k \in Job
    BY ZenonT(30), <2>4, JobFacts DEF Job
  <2>6. Fine(next, k)
    BY ZenonT(30), <2>1, <2>4, JobFacts, NoneAssumption DEF Fine, FineIn, Job
  <2> QED
    BY <1>2, <2>5, <2>6, ProceedStep DEF Stages
<1> QED
  BY <1>1, <1>2 DEF ReadAndEdit

LEMMA ResolveNodesStep ==
    ASSUME IInv, NEW p \in Procs, ResolveNodes(p)
    PROVE  IInv'
<1> DEFINE j == job[p]
           found == {n \in j.nodes : Has(docs[j.t], n)}
           held == {n \in found : Has(j.doc, n)}
           e == Mark(j.doc, held, j.mark)
           k == [j EXCEPT !.doc = e]
<1>1. CASE Fail(p)
  BY <1>1, FailStep
<1>2. CASE Proceed(p, "write", k)
  <2>1. pc[p] = "resolve" /\ j.doc \in Doc /\ Legal(j.doc) /\ j.mark \in NodeStatuses
        /\ j.t \in Threads
    BY JobFacts DEF ResolveNodes, Fine, FineIn, Job
  <2>2. Kept(e, j.doc)
    BY <2>1, MarkFacts
  <2>3. e \in Doc /\ Legal(e)
    BY <2>1, <2>2, LegalMove DEF Kept
  <2> HIDE DEF e
  <2>4. k \in Job
    BY <2>3, JobFacts DEF Job
  <2>5. Fine("write", k)
    BY <2>1, <2>3, JobFacts, NoneAssumption DEF Fine, FineIn, Job
  <2> QED
    BY <1>2, <2>4, <2>5, ProceedStep DEF Stages
<1> QED
  BY <1>1, <1>2 DEF ResolveNodes

LEMMA ReadForStateStep ==
    ASSUME IInv, NEW p \in Procs, ReadForState(p)
    PROVE  IInv'
<1> DEFINE j == job[p]
           d == docs[j.t]
           to == Canonical(j.to)
           linked == IF j.op = "supersede" THEN AddLink(d, "superseded-by", j.peer)
                     ELSE IF j.peer # None THEN AddLink(d, "implements", j.peer) ELSE d
           load(e) == Proceed(p, "write", [j EXCEPT !.doc = e, !.alone = TRUE, !.current = TRUE])
<1>1. /\ pc[p] = "read" /\ j.op \in {"state", "supersede"}
      /\ j.t \in Existing /\ j.t \in Threads /\ to \in Statuses
  BY JobFacts DEF ReadForState, Fine, FineIn, Existing
<1>2. d \in Doc /\ Legal(d)
  BY <1>1, LegalDocs
<1>3. CASE Fail(p)
  BY <1>3, FailStep
<1>4. CASE Finish(p)
  BY <1>4, FinishStep
<1>5. CASE load(d)
  BY <1>1, <1>2, <1>5, LoadStep
<1>6. ASSUME \/ <<d.flavor, d.status, to>> \in Paths
             \/ AllowsTransition(d.flavor, d.status, to),
             NEW e \in Moved(linked, to, j.flags), load(e)
      PROVE  IInv'
  <2>1. Kept(linked, d)
    <3>1. j.peer # None => j.peer \in Threads
      BY JobFacts DEF Fine, FineIn, Existing
    <3>2. j.op = "supersede" => j.peer # None
      BY JobFacts DEF Fine, FineIn
    <3> QED
      BY <1>2, <3>1, <3>2, AddLinkFacts DEF Kept
  <2> HIDE DEF linked, to
  <2>2. e \in Doc /\ e.flavor = linked.flavor /\ e.status = to
    BY <1>1, <2>1, MovedFacts DEF Kept
  <2>3. Legal(e)
    BY <1>2, <1>6, <2>1, <2>2, LegalMove DEF AllowsTransition, Kept
  <2> QED
    BY <1>1, <1>6, <2>2, <2>3, LoadStep
<1> QED
  BY <1>3, <1>4, <1>5, <1>6 DEF ReadForState

LEMMA FilterBulkStep ==
    ASSUME IInv, NEW p \in Procs, FilterBulk(p)
    PROVE  IInv'
<1> DEFINE j == job[p]
           rest(t) == [j EXCEPT !.todo = @ \ {t}]
           taken(t) == [rest(t) EXCEPT !.t = t, !.alone = TRUE]
<1>1. CASE Finish(p)
  BY <1>1, FinishStep
<1>2. ASSUME NEW t \in j.todo, Proceed(p, "filter", rest(t))
      PROVE  IInv'
  <2>1. rest(t) \in Job
    BY JobFacts DEF Job
  <2>2. Fine("filter", rest(t))
    BY JobFacts DEF Fine, FineIn, Job, FilterBulk
  <2> QED
    BY <1>2, <2>1, <2>2, ProceedStep DEF Stages
<1>3. ASSUME NEW t \in j.todo, Proceed(p, "read", taken(t))
      PROVE  IInv'
  <2>1. t \in Threads /\ t \in Existing /\ pc[p] = "filter" /\ j.op = "bulk"
    BY JobFacts DEF Job, Fine, FineIn, FilterBulk
  <2>2. taken(t) \in Job
    <3>1. rest(t) \in Job
      BY JobFacts DEF Job
    <3> HIDE DEF rest
    <3> QED
      BY <2>1, <3>1 DEF Job
  <2>3. Fine("read", taken(t))
    BY <2>1, JobFacts DEF Fine, FineIn, Job
  <2> QED
    BY <1>3, <2>2, <2>3, ProceedStep DEF Stages
<1> QED
  BY <1>1, <1>2, <1>3 DEF FilterBulk

LEMMA ReadForBulkStep ==
    ASSUME IInv, NEW p \in Procs, ReadForBulk(p)
    PROVE  IInv'
<1> DEFINE j == job[p]
           d == docs[j.t]
           k == [j EXCEPT !.doc = d, !.current = TRUE]
<1>1. CASE Fail(p)
  BY <1>1, FailStep
<1>2. CASE AllowsTransition(d.flavor, d.status, Canonical(j.to)) /\ Proceed(p, "guard", k)
  <2>1. pc[p] = "read" /\ j.op = "bulk" /\ j.t \in Existing /\ j.t \in Threads
    BY JobFacts DEF ReadForBulk, Fine, FineIn, Existing
  <2>2. d \in Doc /\ Legal(d)
    BY <2>1, LegalDocs
  <2>3. k \in Job
    BY ZenonT(30), <2>2, JobFacts DEF Job
  <2>4. Fine("guard", k)
    BY ZenonT(30), <1>2, <2>1, <2>2, JobFacts, NoneAssumption DEF Fine, FineIn, Job, AllowsTransition
  <2> QED
    BY <1>2, <2>3, <2>4, ProceedStep DEF Stages
<1> QED
  BY <1>1, <1>2 DEF ReadForBulk

LEMMA GuardBulkStep ==
    ASSUME IInv, NEW p \in Procs, GuardBulk(p)
    PROVE  IInv'
<1> DEFINE j == job[p]
           to == Canonical(j.to)
<1>1. CASE Fail(p)
  BY <1>1, FailStep
<1>2. ASSUME NEW e \in Moved(j.doc, to, j.flags),
             Proceed(p, "write", [j EXCEPT !.doc = e])
      PROVE  IInv'
  <2>1. /\ pc[p] = "guard" /\ j.doc \in Doc /\ Legal(j.doc) /\ j.t \in Threads
        /\ <<j.doc.status, to>> \in Edges[j.doc.flavor]
    BY JobFacts DEF GuardBulk, Fine, FineIn, Job
  <2>2. j.doc.flavor \in Flavors /\ to \in Statuses
    BY <2>1, RegistryAssumption DEF Doc
  <2> HIDE DEF to
  <2>3. e \in Doc /\ e.flavor = j.doc.flavor /\ e.status = to
    BY <2>1, <2>2, MovedFacts
  <2>4. Legal(e)
    BY <2>1, <2>3, LegalMove
  <2>5. [j EXCEPT !.doc = e] = [j EXCEPT !.doc = e, !.alone = j.alone, !.current = j.current]
    BY JobFacts DEF Job
  <2>6. j.alone \in BOOLEAN /\ j.current \in BOOLEAN
    BY JobFacts DEF Job
  <2> QED
    BY <1>2, <2>1, <2>3, <2>4, <2>5, <2>6, LoadStep
<1> QED
  BY <1>1, <1>2 DEF GuardBulk

LEMMA ReadForBackStep ==
    ASSUME IInv, NEW p \in Procs, ReadForBack(p)
    PROVE  IInv'
<1> DEFINE j == job[p]
           d == docs[j.t]
           e(rel) == AddLink(d, rel, j.peer)
           load(x) == Proceed(p, "write", [j EXCEPT !.doc = x, !.current = TRUE, !.alone = TRUE])
<1>1. CASE Finish(p)
  BY <1>1, FinishStep
<1>2. ASSUME NEW rel \in {"implements", "supersedes", "superseded-by"}, load(e(rel))
      PROVE  IInv'
  <2>1. pc[p] = "back" /\ j.t \in Existing /\ j.t \in Threads /\ j.peer \in Threads
    BY JobFacts DEF ReadForBack, Fine, FineIn, Existing
  <2>2. d \in Doc /\ Legal(d)
    BY <2>1, LegalDocs
  <2>3. Kept(e(rel), d)
    BY <2>1, <2>2, AddLinkFacts
  <2>4. e(rel) \in Doc /\ Legal(e(rel))
    BY <2>2, <2>3, LegalMove DEF Kept
  <2> HIDE DEF e
  <2>5. [j EXCEPT !.doc = e(rel), !.current = TRUE, !.alone = TRUE]
          = [j EXCEPT !.doc = e(rel), !.alone = TRUE, !.current = TRUE]
    BY JobFacts DEF Job
  <2> QED
    BY <1>2, <2>1, <2>4, <2>5, LoadStep
<1> QED
  BY <1>1, <1>2 DEF ReadForBack

-----------------------------------------------------------------------------
(* write_snapshot.                                                         *)

LEMMA NextJobFacts ==
    ASSUME IInv, NEW p \in Procs, pc[p] = "write"
    PROVE  /\ NextStage(job[p]) \in Stages
           /\ NextJob(job[p]) \in Job
           /\ docs' = [docs EXCEPT ![job[p].t] = job[p].doc]
                => FineIn(Existing', NextStage(job[p]), NextJob(job[p]))
<1> DEFINE j == job[p]
<1>1. j \in Job /\ Fine("write", j)
  BY JobFacts
<1>2. j.doc \in Doc /\ j.t \in Threads
  BY <1>1 DEF Fine, FineIn, Job
<1>3. CASE NextStage(j) = "back"
  <2>1. j.peer \in Existing /\ j.peer \in Threads
    BY <1>1, <1>3 DEF NextStage, TwoThreads, Fine, FineIn, Existing
  <2> DEFINE k == [NoJob EXCEPT !.op = j.op, !.t = j.peer, !.peer = j.t, !.second = TRUE]
  <2>2. NextJob(j) = k /\ j.op \in {"new", "supersede"}
    BY <1>3 DEF NextJob, NextStage, TwoThreads
  <2>3. k \in Job
    BY <1>1, <1>2, <2>1, NoJobFine DEF Job
  <2>4. ASSUME docs' = [docs EXCEPT ![j.t] = j.doc]
        PROVE  j.t \in Existing' /\ j.peer \in Existing'
    BY <1>2, <2>1, <2>4, NoneAssumption DEF Existing, IInv, TypeOK
  <2>5. ASSUME docs' = [docs EXCEPT ![j.t] = j.doc]
        PROVE  FineIn(Existing', "back", k)
    BY <1>2, <2>1, <2>2, <2>4, <2>5, NoneAssumption DEF Fine, FineIn, NoJob
  <2> QED
    BY <1>3, <2>2, <2>3, <2>5 DEF Stages
<1>4. CASE NextStage(j) = "filter"
  <2> DEFINE k == [j EXCEPT !.t = None, !.doc = None]
  <2>1. NextJob(j) = k /\ j.op = "bulk"
    BY <1>4 DEF NextJob, NextStage
  <2>2. k \in Job
    BY <1>1 DEF Job
  <2>3. ASSUME docs' = [docs EXCEPT ![j.t] = j.doc]
        PROVE  Existing \subseteq Existing'
    BY <1>2, <2>3, NoneAssumption DEF Existing, IInv, TypeOK
  <2>4. ASSUME docs' = [docs EXCEPT ![j.t] = j.doc]
        PROVE  FineIn(Existing', "filter", k)
    BY <1>1, <2>1, <2>3, <2>4 DEF Fine, FineIn, Job
  <2> QED
    BY <1>4, <2>1, <2>2, <2>4 DEF Stages
<1>5. CASE NextStage(j) = "idle"
  <2>1. NextJob(j) = NoJob
    BY <1>5 DEF NextJob
  <2>2. FineIn(Existing', "idle", NoJob)
    BY NoneAssumption DEF NoJob, Fine, FineIn
  <2> QED
    BY <1>5, <2>1, <2>2, NoJobFine DEF Stages
<1> QED
  BY <1>3, <1>4, <1>5 DEF NextStage

LEMMA WriteStep ==
    ASSUME IInv, NEW p \in Procs, Write(p)
    PROVE  IInv'
<1> DEFINE j == job[p]
           seen(q) == [job[q] EXCEPT !.alone = FALSE, !.current = FALSE]
<1>1. /\ pc[p] = "write"
      /\ docs' = [docs EXCEPT ![j.t] = j.doc]
      /\ pc' = [pc EXCEPT ![p] = NextStage(j)]
      /\ clobbered' = (clobbered \/ ~j.current)
      /\ issued' = issued /\ halfway' = halfway
  BY DEF Write
<1>2. \A q \in Procs :
        job'[q] = IF q = p THEN NextJob(j) ELSE IF job[q].t = j.t THEN seen(q) ELSE job[q]
  BY DEF Write
<1>3. j.doc \in Doc /\ Legal(j.doc) /\ j.t \in Threads
  BY <1>1, JobFacts DEF Fine, FineIn, Job
<1>4. \A q \in Procs : seen(q) \in Job
  BY ZenonT(30), JobFacts DEF Job
<1>5. TypeOK'
  <2>1. job' \in [Procs -> Job]
    <3>1. job' = [q \in Procs |-> IF q = p THEN NextJob(j)
                                  ELSE IF job[q].t = j.t THEN seen(q) ELSE job[q]]
      BY DEF Write
    <3>2. NextJob(j) \in Job
      BY <1>1, NextJobFacts
    <3> HIDE DEF seen
    <3> QED
      BY <1>4, <3>1, <3>2, JobFacts
  <2>2. docs' \in [Threads -> Doc \cup {None}]
    BY <1>1, <1>3 DEF IInv, TypeOK
  <2>3. pc' \in [Procs -> Stages]
    BY <1>1, NextJobFacts DEF IInv, TypeOK
  <2> QED
    BY <1>1, <2>1, <2>2, <2>3 DEF IInv, TypeOK
<1>6. StatusReachable'
  <2>1. SUFFICES ASSUME NEW t \in Threads, docs'[t] # None PROVE Legal(docs'[t])
    BY DEF StatusReachable, Existing, Legal
  <2>2. CASE t = j.t
    BY <1>1, <1>3, <2>2 DEF IInv, TypeOK
  <2>3. CASE t # j.t
    BY <1>1, <2>1, <2>3, LegalDocs DEF IInv, TypeOK, Existing
  <2> QED
    BY <2>2, <2>3
<1>7. Existing \subseteq Existing'
  BY <1>1, <1>3, NoneAssumption DEF Existing, IInv, TypeOK
<1>8. ASSUME NEW q \in Procs PROVE Fine(pc[q], job[q])'
  <2>1. CASE q = p
    <3>1. pc'[q] = NextStage(j) /\ job'[q] = NextJob(j)
      BY <1>1, <1>2, <2>1 DEF IInv, TypeOK
    <3>2. FineIn(Existing', NextStage(j), NextJob(j))
      BY <1>1, NextJobFacts
    <3> QED
      BY <3>1, <3>2 DEF Fine
  <2>2. CASE q # p
    <3>1. Fine(pc[q], job[q]) /\ job[q] \in Job
      BY JobFacts
    <3>2. pc'[q] = pc[q] /\ (job'[q] = seen(q) \/ job'[q] = job[q])
      BY <1>1, <1>2, <2>2 DEF IInv, TypeOK
    <3> QED
      BY ZenonT(30), <1>7, <3>1, <3>2 DEF Fine, FineIn, Job
  <2> QED
    BY <2>1, <2>2
<1> QED
  BY <1>5, <1>6, <1>8 DEF IInv, JobsFine

-----------------------------------------------------------------------------
LEMMA NextStep ==
    ASSUME IInv, Next
    PROVE  IInv'
<1>1. PICK p \in Procs :
        \/ IssueCommand(p)
        \/ CheckPolicy(p) \/ CheckNode(p) \/ ReadAndEdit(p) \/ ResolveNodes(p)
        \/ ReadForState(p) \/ FilterBulk(p) \/ ReadForBulk(p) \/ GuardBulk(p)
        \/ ReadForBack(p) \/ Write(p) \/ WriteFails(p) \/ Crash(p)
  BY DEF Next
<1>2. CASE IssueCommand(p)
  BY <1>2, IssueCommandStep
<1>3. CASE CheckPolicy(p) \/ CheckNode(p) \/ ReadAndEdit(p) \/ ResolveNodes(p)
  BY <1>3, CheckPolicyStep, CheckNodeStep, ReadAndEditStep, ResolveNodesStep
<1>4. CASE ReadForState(p) \/ FilterBulk(p) \/ ReadForBulk(p) \/ GuardBulk(p)
  BY <1>4, ReadForStateStep, FilterBulkStep, ReadForBulkStep, GuardBulkStep
<1>5. CASE ReadForBack(p) \/ Write(p)
  BY <1>5, ReadForBackStep, WriteStep
<1>6. CASE WriteFails(p)
  BY <1>6, FailStep DEF WriteFails
<1>7. CASE Crash(p)
  BY <1>7, GiveUpStep DEF Crash
<1> QED
  BY <1>1, <1>2, <1>3, <1>4, <1>5, <1>6, <1>7

(* The invariant that makes types and statuses inductive: documents in     *)
(* memory are as legal as those at the refs, so writing one back over any   *)
(* other keeps every status reachable.                                     *)
THEOREM CommandsInvariant == Spec => []IInv
<1>1. Init => IInv
  <2>1. SUFFICES ASSUME Init PROVE IInv
    OBVIOUS
  <2>2. \A f \in Flavors : NewDoc(f, Initial[f], {}) \in Doc /\ Legal(NewDoc(f, Initial[f], {}))
    BY NewDocFacts
  <2>3. \A t \in Threads : docs[t] = None \/ (docs[t] \in Doc /\ Legal(docs[t]))
    BY <2>1, <2>2 DEF Init
  <2>4. TypeOK
    BY <2>1, <2>3, NoJobFine DEF Init, TypeOK, Stages
  <2>5. StatusReachable
    BY <2>3 DEF StatusReachable, Existing, Legal
  <2>6. JobsFine
    BY <2>1, NoJobFine DEF Init, JobsFine
  <2> QED
    BY <2>4, <2>5, <2>6 DEF IInv
<1>2. IInv /\ [Next]_vars => IInv'
  <2>1. SUFFICES ASSUME IInv, [Next]_vars PROVE IInv'
    OBVIOUS
  <2>2. CASE Next
    BY <2>1, <2>2, NextStep
  <2>3. CASE UNCHANGED vars
    BY <2>1, <2>3 DEF vars, IInv, TypeOK, StatusReachable, Existing, JobsFine, Fine, FineIn
  <2> QED
    BY <2>1, <2>2, <2>3
<1> QED
  BY <1>1, <1>2, PTL DEF Spec

(* Every variable keeps its type: no command puts a malformed document at a *)
(* ref or in memory.                                                       *)
THEOREM CommandsTypes == Spec => []TypeOK
  BY CommandsInvariant, PTL DEF IInv

(* For every category graph and any overlap of commands, a thread's status *)
(* is reachable from one that the thread can be created in.                *)
THEOREM CommandsStatuses == Spec => []StatusReachable
  BY CommandsInvariant, PTL DEF IInv

-----------------------------------------------------------------------------
(***************************************************************************)
(* What overlapping commands cannot break: a command that nobody disturbs  *)
(* between its check and its write respects the operation checks and the   *)
(* guards of the policy, and the links of a supersession come in pairs.    *)
(***************************************************************************)

(* What a command still knows of the thread if nobody else wrote it since  *)
(* the check. d is the document at the ref, which no read locks.     *)
Checked(d, stage, j) ==
    stage \in {"read", "resolve", "write"} /\ j.op \in CheckedOps /\ j.alone
        => PassesCheck(j, d)

Guarded(d, stage, j) ==
    /\ stage = "guard" /\ j.alone => j.doc = d
    /\ stage = "write" /\ j.op = "bulk" /\ j.alone
          => GuardsPass(j.doc, d.status, j.doc.status, {})
    /\ stage = "resolve" => j.op # "bulk"
    /\ stage = "back" => j.op \in {"new", "supersede"}

Sound(stage, j) == Checked(docs[j.t], stage, j) /\ Guarded(docs[j.t], stage, j)

AloneInv == IInv /\ \A p \in Procs : Sound(pc[p], job[p])

-----------------------------------------------------------------------------
(* Guards and the edits that bulk makes.                                   *)

LEMMA ResolvedStatus ==
    ASSUME NEW d \in Doc, NEW s \in Statuses, NEW flags
    PROVE  /\ Resolved(SetStatus(d, s), flags).nodes = Resolved(d, flags).nodes
           /\ Resolved(SetStatus(d, s), flags).commit = Resolved(d, flags).commit
<1> DEFINE e == SetStatus(d, s)
<1>1. e \in Doc /\ e.nodes = d.nodes /\ e.commit = d.commit
  BY DEF SetStatus, Doc
<1>2. OpenOf(e, "action") = OpenOf(d, "action")
  BY <1>1 DEF OpenOf, Has
<1> DEFINE N(x) == [n \in Nodes |-> IF n \in OpenOf(x, "action") /\ Has(x, n)
                                    THEN [kind |-> x.nodes[n].kind, status |-> "resolved"]
                                    ELSE x.nodes[n]]
<1>3. N(e) = N(d)
  BY <1>1, <1>2 DEF Has
<1>4. ASSUME NEW x \in Doc
      PROVE  /\ Mark(x, OpenOf(x, "action"), "resolved").nodes = N(x)
             /\ Mark(x, OpenOf(x, "action"), "resolved").commit = x.commit
  <2> HIDE DEF N
  <2>1. Mark(x, OpenOf(x, "action"), "resolved") = [x EXCEPT !.nodes = N(x)]
    BY DEF Mark, N
  <2> QED
    BY <2>1 DEF Doc
<1> HIDE DEF e, N
<1> QED
  BY <1>1, <1>3, <1>4 DEF Resolved, e

(* The guards that passed on the projection pass on the document written:   *)
(* the approval it adds is no objection and no action.                     *)
LEMMA MovedSatisfies ==
    ASSUME NEW d \in Doc, NEW s \in Statuses, NEW flags, NEW e \in Moved(d, s, flags),
           NEW rule \in GuardRules,
           rule \notin Cured(flags) => Satisfies(Resolved(d, flags), rule)
    PROVE  Satisfies(e, rule)
<1> DEFINE x == Resolved(d, flags)
           b == Resolved(SetStatus(d, s), flags)
<1>1. b.nodes = x.nodes /\ b.commit = x.commit
  BY ResolvedStatus
<1>2. SetStatus(d, s) \in Doc /\ x \in Doc /\ b \in Doc
  <2>1. SetStatus(d, s) \in Doc
    BY DEF SetStatus, Doc
  <2>2. \A y \in Doc : Resolved(y, flags) \in Doc
    BY MarkFacts DEF Resolved, NodeStatuses, Kept
  <2> QED
    BY <2>1, <2>2
<1> HIDE DEF x, b
<1>3. CASE "approve" \notin flags
  <2>1. e = b
    BY <1>3 DEF Moved, b
  <2>2. Satisfies(x, rule)
    BY <1>3 DEF Cured, x
  <2>3. OpenOf(e, "objection") = OpenOf(x, "objection") /\ OpenOf(e, "action") = OpenOf(x, "action")
    BY <1>1, <2>1 DEF OpenOf, Has
  <2> QED
    BY <1>1, <2>1, <2>2, <2>3 DEF Satisfies, GuardRules, Has
<1>4. CASE "approve" \in flags
  <2>1. PICK n \in FreshNodes :
          e = [b EXCEPT !.nodes = [b.nodes EXCEPT ![n] = [kind |-> "approval", status |-> "open"]]]
    BY <1>4 DEF Moved, WithNode, b
  <2>2. n \in Nodes
    BY <2>1 DEF FreshNodes
  <2>3. e.nodes = [x.nodes EXCEPT ![n] = [kind |-> "approval", status |-> "open"]]
    BY <1>1, <1>2, <2>1 DEF Doc
  <2>4. e.commit = x.commit
    BY <1>1, <1>2, <2>1 DEF Doc
  <2>5. x.nodes \in [Nodes -> NodeRecord \cup {None}]
    BY <1>2 DEF Doc
  <2>6. e.nodes[n] = [kind |-> "approval", status |-> "open"]
    BY <2>2, <2>3, <2>5
  <2>7. \A m \in Nodes : m # n => e.nodes[m] = x.nodes[m]
    BY <2>2, <2>3, <2>5
  <2>8. OpenOf(e, "objection") \subseteq OpenOf(x, "objection")
    BY <2>6, <2>7 DEF OpenOf, Has
  <2>9. OpenOf(e, "action") \subseteq OpenOf(x, "action")
    BY <2>6, <2>7 DEF OpenOf, Has
  <2>10. CASE rule = "one_approval"
    <3>1. e.nodes[n] # None
      BY <2>6, NoneAssumption DEF NodeRecord, NodeKinds, NodeStatuses
    <3> QED
      BY <2>2, <2>6, <2>10, <3>1 DEF Satisfies, Has
  <2>11. CASE rule # "one_approval"
    <3>1. Satisfies(x, rule)
      BY <2>11 DEF Cured, x
    <3> QED
      BY <2>4, <2>8, <2>9, <2>11, <3>1 DEF Satisfies, GuardRules
  <2> QED
    BY <2>10, <2>11
<1> QED
  BY <1>3, <1>4

-----------------------------------------------------------------------------
(* A step that leaves the refs alone and changes one process.              *)

LEMMA AloneJob ==
    ASSUME AloneInv, IInv', NEW p \in Procs, NEW stage, NEW j, Sound(stage, j),
           docs' = docs,
           pc' = [pc EXCEPT ![p] = stage],
           job' = [job EXCEPT ![p] = j]
    PROVE  AloneInv'
<1>1. ASSUME NEW q \in Procs PROVE Sound(pc[q], job[q])'
  <2>1. CASE q = p
    <3>1. pc'[q] = stage /\ job'[q] = j
      BY <2>1 DEF AloneInv, IInv, TypeOK
    <3> QED
      BY <3>1 DEF Sound
  <2>2. CASE q # p
    <3>1. pc'[q] = pc[q] /\ job'[q] = job[q]
      BY <2>2 DEF AloneInv, IInv, TypeOK
    <3>2. Sound(pc[q], job[q])
      BY DEF AloneInv
    <3> QED
      BY <3>1, <3>2 DEF Sound
  <2> QED
    BY <2>1, <2>2
<1> QED
  BY <1>1 DEF AloneInv

LEMMA AloneStop ==
    ASSUME AloneInv, IInv', NEW p \in Procs, Finish(p) \/ Fail(p) \/ GiveUp(p)
    PROVE  AloneInv'
<1>1. CASE Finish(p) \/ GiveUp(p)
  <2>1. Sound("idle", NoJob)
    BY DEF Sound, Checked, Guarded
  <2> QED
    BY <1>1, <2>1, AloneJob DEF Finish, GiveUp, Stop
<1>2. CASE Proceed(p, "filter", [job[p] EXCEPT !.t = None, !.doc = None])
  <2>1. Sound("filter", [job[p] EXCEPT !.t = None, !.doc = None])
    BY DEF Sound, Checked, Guarded
  <2> QED
    BY <1>2, <2>1, AloneJob DEF Proceed
<1> QED
  BY <1>1, <1>2 DEF Fail, NextOfBulk

(* How the commands that start with a read or a check look when issued.    *)
Begins(stage, j) ==
    /\ ~j.second
    /\ j.op = "supersede" => j.to = "deprecated"
    /\ \/ stage \in {"check", "filter"}
       \/ stage = "read" /\ j.op \notin CheckedOps \cup {"bulk"}

LEMMA IssueShape ==
    ASSUME NEW p \in Procs, IssueCommand(p)
    PROVE  \/ \E stage, j : Issue(p, stage, j) /\ Begins(stage, j)
           \/ \E t \in Threads \ Existing, f \in Flavors, peer \in Existing \cup {None},
                 rel \in {"implements", "supersedes"}, kind \in Kinds \ {"approval"} :
                New(p, t, f, peer, rel, kind)
           \/ \E t \in Threads \ Existing, f \in Flavors : TuiNew(p, t, f)
<1> DEFINE Begun == \E stage, j : Issue(p, stage, j) /\ Begins(stage, j)
<1>1. ASSUME NEW t, NEW kind, Say(p, t, kind) PROVE Begun
  <2> DEFINE j == [NoJob EXCEPT !.op = "say", !.t = t, !.kind = kind]
  <2>1. Begins("check", j)
    BY DEF NoJob, Begins, CheckedOps
  <2> HIDE DEF j
  <2> QED
    BY <1>1, <2>1 DEF Say, j
<1>2. ASSUME NEW t, AddEvidence(p, t) PROVE Begun
  <2> DEFINE j == [NoJob EXCEPT !.op = "evidence", !.t = t]
  <2>1. Begins("check", j)
    BY DEF NoJob, Begins, CheckedOps
  <2> HIDE DEF j
  <2> QED
    BY <1>2, <2>1 DEF AddEvidence, j
<1>3. ASSUME NEW t, NEW S, ReviseBody(p, t, S) PROVE Begun
  <2> DEFINE j == [NoJob EXCEPT !.op = "revise_body", !.t = t, !.nodes = S, !.mark = "incorporated"]
  <2>1. Begins("check", j)
    BY DEF NoJob, Begins, CheckedOps
  <2> HIDE DEF j
  <2> QED
    BY <1>3, <2>1 DEF ReviseBody, j
<1>4. ASSUME NEW t, NEW n, NEW s, TuiMark(p, t, n, s) PROVE Begun
  <2> DEFINE j == [NoJob EXCEPT !.op = "tui_mark", !.t = t, !.nodes = {n}, !.mark = s]
  <2>1. Begins("check", j)
    BY DEF NoJob, Begins, CheckedOps
  <2> HIDE DEF j
  <2> QED
    BY <1>4, <2>1 DEF TuiMark, j
<1>5. ASSUME NEW t, NEW n, ReviseNode(p, t, n) PROVE Begun
  <2> DEFINE j == [NoJob EXCEPT !.op = "revise_node", !.t = t, !.nodes = {n}]
  <2>1. Begins("check", j)
    BY DEF NoJob, Begins, CheckedOps
  <2> HIDE DEF j
  <2> QED
    BY <1>5, <2>1 DEF ReviseNode, j
<1>6. ASSUME NEW t, NEW n, NEW kind, Retype(p, t, n, kind) PROVE Begun
  <2> DEFINE j == [NoJob EXCEPT !.op = "retype", !.t = t, !.nodes = {n}, !.kind = kind]
  <2>1. Begins("check", j)
    BY DEF NoJob, Begins, CheckedOps
  <2> HIDE DEF j
  <2> QED
    BY <1>6, <2>1 DEF Retype, j
<1>7. ASSUME NEW T, NEW name, NEW flags, Bulk(p, T, name, flags) PROVE Begun
  <2> DEFINE j == [NoJob EXCEPT !.op = "bulk", !.todo = T, !.to = name,
                       !.flags = flags \ {"fast", "comment"}]
  <2>1. Begins("filter", j)
    BY DEF NoJob, Begins, CheckedOps
  <2> HIDE DEF j
  <2> QED
    BY <1>7, <2>1 DEF Bulk, j
<1>8. ASSUME NEW t, NEW kind, TuiSay(p, t, kind) PROVE Begun
  <2> DEFINE j == [NoJob EXCEPT !.op = "tui_say", !.t = t, !.kind = kind]
  <2>1. Begins("read", j)
    BY DEF NoJob, Begins, CheckedOps
  <2> HIDE DEF j
  <2> QED
    BY <1>8, <2>1 DEF TuiSay, j
<1>9. ASSUME NEW t, TuiRevise(p, t) PROVE Begun
  <2> DEFINE j == [NoJob EXCEPT !.op = "tui_revise", !.t = t]
  <2>1. Begins("read", j)
    BY DEF NoJob, Begins, CheckedOps
  <2> HIDE DEF j
  <2> QED
    BY <1>9, <2>1 DEF TuiRevise, j
<1>10. ASSUME NEW t, EditField(p, t) PROVE Begun
  <2> DEFINE j == [NoJob EXCEPT !.op = "edit", !.t = t]
  <2>1. Begins("read", j)
    BY DEF NoJob, Begins, CheckedOps
  <2> HIDE DEF j
  <2> QED
    BY <1>10, <2>1 DEF EditField, j
<1>11. ASSUME NEW t, NEW peer, LinkTo(p, t, peer) PROVE Begun
  <2> DEFINE j == [NoJob EXCEPT !.op = "link", !.t = t, !.peer = peer]
  <2>1. Begins("read", j)
    BY DEF NoJob, Begins, CheckedOps
  <2> HIDE DEF j
  <2> QED
    BY <1>11, <2>1 DEF LinkTo, j
<1>12. ASSUME NEW t, NEW S, NEW s, MarkNodes(p, t, S, s) PROVE Begun
  <2> DEFINE j == [NoJob EXCEPT !.op = "mark", !.t = t, !.nodes = S, !.mark = s]
  <2>1. Begins("read", j)
    BY DEF NoJob, Begins, CheckedOps
  <2> HIDE DEF j
  <2> QED
    BY <1>12, <2>1 DEF MarkNodes, j
<1>13. ASSUME NEW t, NEW name, NEW flags, NEW peer, State(p, t, name, flags, peer) PROVE Begun
  <2> DEFINE j == [NoJob EXCEPT !.op = "state", !.t = t, !.to = name, !.flags = flags,
                       !.peer = peer]
  <2>1. Begins("read", j)
    BY DEF NoJob, Begins, CheckedOps
  <2> HIDE DEF j
  <2> QED
    BY <1>13, <2>1 DEF State, j
<1>14. ASSUME NEW t, NEW peer, NEW flags, Supersede(p, t, peer, flags) PROVE Begun
  <2> DEFINE j == [NoJob EXCEPT !.op = "supersede", !.t = t, !.peer = peer, !.to = "deprecated",
                       !.flags = (flags \cap {"fast"}) \cup {"comment"}]
  <2>1. Begins("read", j)
    BY DEF NoJob, Begins, CheckedOps
  <2> HIDE DEF j
  <2> QED
    BY <1>14, <2>1 DEF Supersede, j
<1> HIDE DEF Begun
<1>15. ASSUME NEW t, ThreadCommand(p, t) PROVE Begun
  BY <1>1, <1>2, <1>3, <1>4, <1>5, <1>6, <1>8, <1>9, <1>10, <1>11, <1>12, <1>13, <1>14, <1>15 DEF ThreadCommand
<1> QED
  BY <1>7, <1>15 DEF IssueCommand, Begun

(* A command claims nothing when it starts.                                *)
LEMMA AloneIssue ==
    ASSUME AloneInv, IInv', NEW p \in Procs, IssueCommand(p)
    PROVE  AloneInv'
<1>1. ASSUME NEW stage, NEW j, Issue(p, stage, j), Begins(stage, j) PROVE AloneInv'
  <2>1. Sound(stage, j)
    BY <1>1 DEF Sound, Checked, Guarded, Begins
  <2> QED
    BY <1>1, <2>1, AloneJob DEF Issue
<1>2. ASSUME NEW j, Issue(p, "write", j), j.op \in {"new", "tui_new"} PROVE AloneInv'
  <2>1. Sound("write", j)
    BY <1>2 DEF Sound, Checked, Guarded, CheckedOps
  <2> QED
    BY <1>2, <2>1, AloneJob DEF Issue
<1>3. ASSUME NEW t, NEW f, NEW peer, NEW rel, NEW kind, New(p, t, f, peer, rel, kind)
      PROVE  AloneInv'
  <2> DEFINE j(d, c) == [NoJob EXCEPT !.op = "new", !.t = t, !.doc = [d EXCEPT !.commit = c],
                                      !.peer = IF rel = "supersedes" THEN peer ELSE None]
  <2>1. PICK d, c : Issue(p, "write", j(d, c))
    BY <1>3 DEF New
  <2>2. j(d, c).op = "new"
    BY DEF NoJob
  <2> HIDE DEF j
  <2> QED
    BY <1>2, <2>1, <2>2
<1>4. ASSUME NEW t, NEW f, TuiNew(p, t, f) PROVE AloneInv'
  <2> DEFINE j == [NoJob EXCEPT !.op = "tui_new", !.t = t, !.doc = NewDoc(f, "draft", {})]
  <2>1. j.op = "tui_new" /\ Issue(p, "write", j)
    BY <1>4 DEF NoJob, TuiNew
  <2> HIDE DEF j
  <2> QED
    BY <1>2, <2>1
<1> QED
  BY <1>1, <1>3, <1>4, IssueShape

-----------------------------------------------------------------------------
(* Reads and checks.                                                       *)

LEMMA AloneCheckPolicy ==
    ASSUME AloneInv, IInv', NEW p \in Procs, CheckPolicy(p)
    PROVE  AloneInv'
<1> DEFINE j == job[p]
           k == [j EXCEPT !.alone = TRUE]
<1>1. j \in Job
  BY JobFacts DEF AloneInv
<1>2. CASE PassesCheck(j, docs[j.t]) /\ Proceed(p, "read", k)
  <2>1. k.op = j.op /\ k.t = j.t /\ k.kind = j.kind
    BY <1>1 DEF Job
  <2>2. PassesCheck(k, docs[k.t])
    BY <1>2, <2>1 DEF PassesCheck, Rule
  <2>3. Sound("read", k)
    BY <2>2 DEF Sound, Checked, Guarded
  <2> QED
    BY <1>2, <2>3, AloneJob DEF Proceed
<1> QED
  BY <1>2, AloneStop DEF CheckPolicy

LEMMA AloneCheckNode ==
    ASSUME AloneInv, IInv', NEW p \in Procs, CheckNode(p)
    PROVE  AloneInv'
<1> DEFINE k == [job[p] EXCEPT !.alone = TRUE]
<1>1. CASE Proceed(p, "read", k)
  <2>1. k.op = "tui_mark"
    BY JobFacts DEF AloneInv, CheckNode, Job
  <2>2. Sound("read", k)
    BY SMTT(30), <2>1 DEF Sound, Checked, Guarded, CheckedOps
  <2> QED
    BY <1>1, <2>2, AloneJob DEF Proceed
<1> QED
  BY <1>1, AloneStop DEF CheckNode

LEMMA AloneReadAndEdit ==
    ASSUME AloneInv, IInv', NEW p \in Procs, ReadAndEdit(p)
    PROVE  AloneInv'
<1> DEFINE j == job[p]
           d == docs[j.t]
           next == IF j.op \in {"mark", "tui_mark", "revise_body"} THEN "resolve" ELSE "write"
           first == j.op \notin CheckedOps \cup {"tui_mark"}
<1>1. CASE Fail(p)
  BY <1>1, AloneStop
<1>2. ASSUME NEW e \in Edited(j, d),
             Proceed(p, next, [j EXCEPT !.doc = e, !.alone = @ \/ first, !.current = TRUE])
      PROVE  AloneInv'
  <2> DEFINE k == [j EXCEPT !.doc = e, !.alone = @ \/ first, !.current = TRUE]
  <2>1. pc[p] = "read" /\ j.op \in EditOps /\ j \in Job /\ Sound("read", j)
    BY JobFacts DEF ReadAndEdit, AloneInv
  <2>2. k.op = j.op /\ k.t = j.t /\ k.kind = j.kind /\ (k.alone <=> j.alone \/ first)
    BY <2>1 DEF Job
  <2> HIDE DEF k
  <2>3. next \in {"resolve", "write"} /\ k.op # "bulk"
    BY <2>1, <2>2 DEF EditOps
  <2>4. Checked(docs[k.t], next, k)
    BY <2>1, <2>2 DEF Sound, Checked, PassesCheck, Rule
  <2>5. Sound(next, k)
    BY <2>3, <2>4 DEF Sound, Guarded
  <2> QED
    BY <1>2, <2>5, AloneJob DEF Proceed, k
<1> QED
  BY <1>1, <1>2 DEF ReadAndEdit

LEMMA AloneResolve ==
    ASSUME AloneInv, IInv', NEW p \in Procs, ResolveNodes(p)
    PROVE  AloneInv'
<1> DEFINE j == job[p]
           found == {n \in j.nodes : Has(docs[j.t], n)}
           held == {n \in found : Has(j.doc, n)}
           k == [j EXCEPT !.doc = Mark(j.doc, held, j.mark)]
<1>1. CASE Proceed(p, "write", k)
  <2>1. pc[p] = "resolve" /\ j \in Job /\ Sound("resolve", j)
    BY JobFacts DEF ResolveNodes, AloneInv
  <2>2. k.op = j.op /\ k.t = j.t /\ k.kind = j.kind /\ k.alone = j.alone
    BY <2>1 DEF Job
  <2> HIDE DEF k
  <2>3. j.op # "bulk"
    BY <2>1 DEF Sound, Guarded
  <2>4. Sound("write", k)
    BY <2>1, <2>2, <2>3 DEF Sound, Checked, Guarded, PassesCheck, Rule
  <2> QED
    BY <1>1, <2>4, AloneJob DEF Proceed, k
<1> QED
  BY <1>1, AloneStop DEF ResolveNodes

LEMMA AloneReadForState ==
    ASSUME AloneInv, IInv', NEW p \in Procs, ReadForState(p)
    PROVE  AloneInv'
<1> DEFINE j == job[p]
           k(e) == [j EXCEPT !.doc = e, !.alone = TRUE, !.current = TRUE]
<1>1. \/ Fail(p) \/ Finish(p)
      \/ \E e : Proceed(p, "write", k(e))
  BY DEF ReadForState
<1>2. ASSUME NEW e, Proceed(p, "write", k(e)) PROVE AloneInv'
  <2>1. k(e).op = j.op /\ j.op \in {"state", "supersede"}
    BY JobFacts DEF AloneInv, ReadForState, Job
  <2> HIDE DEF k
  <2>2. Sound("write", k(e))
    BY <2>1 DEF Sound, Checked, Guarded, CheckedOps
  <2> QED
    BY <1>2, <2>2, AloneJob DEF Proceed
<1> QED
  BY <1>1, <1>2, AloneStop

LEMMA AloneFilterBulk ==
    ASSUME AloneInv, IInv', NEW p \in Procs, FilterBulk(p)
    PROVE  AloneInv'
<1> DEFINE j == job[p]
           rest(t) == [j EXCEPT !.todo = @ \ {t}]
           taken(t) == [rest(t) EXCEPT !.t = t, !.alone = TRUE]
<1>1. ASSUME NEW t \in j.todo, Proceed(p, "filter", rest(t)) PROVE AloneInv'
  <2>1. Sound("filter", rest(t))
    BY DEF Sound, Checked, Guarded
  <2> HIDE DEF rest
  <2> QED
    BY <1>1, <2>1, AloneJob DEF Proceed
<1>2. ASSUME NEW t \in j.todo, Proceed(p, "read", taken(t)) PROVE AloneInv'
  <2>1. taken(t).op = "bulk"
    BY JobFacts DEF AloneInv, FilterBulk, Fine, FineIn, Job
  <2> HIDE DEF taken
  <2>2. Sound("read", taken(t))
    BY <2>1 DEF Sound, Checked, Guarded, CheckedOps
  <2> QED
    BY <1>2, <2>2, AloneJob DEF Proceed
<1> QED
  BY <1>1, <1>2, AloneStop DEF FilterBulk

LEMMA AloneReadForBulk ==
    ASSUME AloneInv, IInv', NEW p \in Procs, ReadForBulk(p)
    PROVE  AloneInv'
<1> DEFINE j == job[p]
           d == docs[j.t]
           k == [j EXCEPT !.doc = d, !.current = TRUE]
<1>1. CASE Proceed(p, "guard", k)
  <2>1. k.t = j.t /\ k.doc = d /\ k.op = "bulk"
    BY JobFacts DEF AloneInv, ReadForBulk, Job
  <2> HIDE DEF k
  <2>2. Sound("guard", k)
    BY <2>1 DEF Sound, Checked, Guarded
  <2> QED
    BY <1>1, <2>2, AloneJob DEF Proceed
<1> QED
  BY <1>1, AloneStop DEF ReadForBulk

(* The heart of BulkGuarded: undisturbed, the document that bulk edits is   *)
(* the one whose projection the guards were evaluated on.                  *)
LEMMA AloneGuardBulk ==
    ASSUME AloneInv, IInv', NEW p \in Procs, GuardBulk(p)
    PROVE  AloneInv'
<1> DEFINE j == job[p]
           to == Canonical(j.to)
           projected == Resolved(docs[j.t], j.flags)
           k(e) == [j EXCEPT !.doc = e]
<1>1. CASE Fail(p)
  BY <1>1, AloneStop
<1>2. ASSUME GuardsPass(projected, j.doc.status, to, Cured(j.flags)),
             NEW e \in Moved(j.doc, to, j.flags), Proceed(p, "write", k(e))
      PROVE  AloneInv'
  <2>1. pc[p] = "guard" /\ j \in Job /\ Sound("guard", j) /\ j.doc \in Doc
    BY JobFacts DEF AloneInv, GuardBulk, Fine, FineIn, Job
  <2>2. <<j.doc.status, to>> \in Edges[j.doc.flavor]
    BY <2>1, JobFacts DEF AloneInv, Fine, FineIn
  <2>3. j.doc.flavor \in Flavors /\ j.doc.status \in Statuses /\ to \in Statuses
    BY <2>1, <2>2, RegistryAssumption DEF Doc
  <2>4. k(e).op = j.op /\ k(e).t = j.t /\ k(e).alone = j.alone /\ k(e).doc = e
    BY <2>1 DEF Job
  <2> HIDE DEF k, to
  <2>5. e.flavor = j.doc.flavor /\ e.status = to
    BY <2>1, <2>3, MovedFacts
  <2>6. ASSUME j.alone PROVE GuardsPass(e, docs[j.t].status, e.status, {})
    <3>1. docs[j.t] = j.doc
      BY <2>1, <2>6 DEF Sound, Guarded
    <3>2. projected.flavor = j.doc.flavor
      BY <2>1, <3>1, MarkFacts DEF Resolved, Kept, NodeStatuses
    <3>3. Guards(j.doc.flavor, j.doc.status, to) \subseteq GuardRules
      BY <2>3, GuardsAssumption
    <3>4. ASSUME NEW rule \in Guards(j.doc.flavor, j.doc.status, to)
          PROVE  Satisfies(e, rule)
      <4>1. rule \notin Cured(j.flags) => Satisfies(Resolved(j.doc, j.flags), rule)
        BY <1>2, <3>1, <3>2, <3>4 DEF GuardsPass
      <4> QED
        BY <2>1, <2>3, <3>3, <3>4, <4>1, MovedSatisfies
    <3> QED
      BY <2>5, <3>1, <3>4 DEF GuardsPass
  <2>7. j.op \notin CheckedOps
    BY <2>1, JobFacts DEF AloneInv, Fine, FineIn, CheckedOps
  <2>8. Sound("write", k(e))
    BY <2>4, <2>6, <2>7 DEF Sound, Checked, Guarded
  <2> QED
    BY <1>2, <2>8, AloneJob DEF Proceed
<1> QED
  BY <1>1, <1>2 DEF GuardBulk

LEMMA AloneReadForBack ==
    ASSUME AloneInv, IInv', NEW p \in Procs, ReadForBack(p)
    PROVE  AloneInv'
<1> DEFINE j == job[p]
           k(e) == [j EXCEPT !.doc = e, !.current = TRUE, !.alone = TRUE]
<1>1. Finish(p) \/ \E e : Proceed(p, "write", k(e))
  BY DEF ReadForBack
<1>2. ASSUME NEW e, Proceed(p, "write", k(e)) PROVE AloneInv'
  <2>1. k(e).op = j.op /\ Sound("back", j)
    BY JobFacts DEF AloneInv, ReadForBack, Job
  <2> HIDE DEF k
  <2>2. j.op \notin CheckedOps /\ j.op # "bulk"
    BY <2>1 DEF Sound, Guarded, CheckedOps
  <2>3. Sound("write", k(e))
    BY <2>1, <2>2 DEF Sound, Checked, Guarded
  <2> QED
    BY <1>2, <2>3, AloneJob DEF Proceed
<1> QED
  BY <1>1, <1>2, AloneStop

-----------------------------------------------------------------------------
(* write_snapshot ends every claim about the thread but the writer's.      *)
LEMMA AloneWrite ==
    ASSUME AloneInv, IInv', NEW p \in Procs, Write(p)
    PROVE  AloneInv'
<1> DEFINE j == job[p]
           seen(q) == [job[q] EXCEPT !.alone = FALSE, !.current = FALSE]
<1>1. /\ pc[p] = "write"
      /\ docs' = [docs EXCEPT ![j.t] = j.doc]
      /\ pc' = [pc EXCEPT ![p] = NextStage(j)]
  BY DEF Write
<1>2. \A q \in Procs :
        job'[q] = IF q = p THEN NextJob(j) ELSE IF job[q].t = j.t THEN seen(q) ELSE job[q]
  BY DEF Write
<1>3. ASSUME NEW q \in Procs PROVE Sound(pc[q], job[q])'
  <2>1. CASE q = p
    <3>1. pc'[q] = NextStage(j) /\ job'[q] = NextJob(j)
      BY <1>1, <1>2, <2>1 DEF AloneInv, IInv, TypeOK
    <3>2. NextStage(j) \in {"back", "filter", "idle"}
      BY DEF NextStage
    <3>3. NextStage(j) = "back" => NextJob(j).op \in {"new", "supersede"}
      BY DEF NextStage, NextJob, TwoThreads, NoJob
    <3> QED
      BY <3>1, <3>2, <3>3 DEF Sound, Checked, Guarded, CheckedOps
  <2>2. CASE q # p /\ job[q].t = j.t
    <3>1. pc'[q] = pc[q] /\ job'[q] = seen(q)
      BY <1>1, <1>2, <2>2 DEF AloneInv, IInv, TypeOK
    <3>2. seen(q).op = job[q].op /\ seen(q).alone = FALSE
      BY JobFacts DEF AloneInv, Job
    <3>3. Sound(pc[q], job[q])
      BY DEF AloneInv
    <3> HIDE DEF seen
    <3> QED
      BY <3>1, <3>2, <3>3 DEF Sound, Checked, Guarded
  <2>3. CASE q # p /\ job[q].t # j.t
    <3>1. pc'[q] = pc[q] /\ job'[q] = job[q]
      BY <1>1, <1>2, <2>3 DEF AloneInv, IInv, TypeOK
    <3>2. docs'[job[q].t] = docs[job[q].t]
      BY <1>1, <2>3 DEF AloneInv, IInv, TypeOK
    <3>3. Sound(pc[q], job[q])
      BY DEF AloneInv
    <3> QED
      BY <3>1, <3>2, <3>3 DEF Sound
  <2> QED
    BY <2>1, <2>2, <2>3
<1> QED
  BY <1>3 DEF AloneInv

LEMMA AloneNext ==
    ASSUME AloneInv, Next
    PROVE  AloneInv'
<1>1. IInv'
  BY NextStep DEF AloneInv
<1>2. PICK p \in Procs :
        \/ IssueCommand(p)
        \/ CheckPolicy(p) \/ CheckNode(p) \/ ReadAndEdit(p) \/ ResolveNodes(p)
        \/ ReadForState(p) \/ FilterBulk(p) \/ ReadForBulk(p) \/ GuardBulk(p)
        \/ ReadForBack(p) \/ Write(p) \/ WriteFails(p) \/ Crash(p)
  BY DEF Next
<1>3. CASE IssueCommand(p)
  BY <1>1, <1>3, AloneIssue
<1>4. CASE CheckPolicy(p) \/ CheckNode(p) \/ ReadAndEdit(p) \/ ResolveNodes(p)
  BY <1>1, <1>4, AloneCheckPolicy, AloneCheckNode, AloneReadAndEdit, AloneResolve
<1>5. CASE ReadForState(p) \/ FilterBulk(p) \/ ReadForBulk(p) \/ GuardBulk(p)
  BY <1>1, <1>5, AloneReadForState, AloneFilterBulk, AloneReadForBulk, AloneGuardBulk
<1>6. CASE ReadForBack(p) \/ Write(p)
  BY <1>1, <1>6, AloneReadForBack, AloneWrite
<1>7. CASE WriteFails(p) \/ Crash(p)
  BY <1>1, <1>7, AloneStop DEF WriteFails, Crash
<1> QED
  BY <1>2, <1>3, <1>4, <1>5, <1>6, <1>7

(* Undisturbed since it first read its thread, a command knows the thread  *)
(* to be as its checks saw it.                                             *)
THEOREM CommandsAlone == Spec => []AloneInv
<1>1. Spec => []IInv
  BY CommandsInvariant
<1>2. Init => Init /\ \A p \in Procs : Sound(pc[p], job[p])
  BY DEF Init, Sound, Checked, Guarded
<1>3. Init /\ IInv => AloneInv
  BY <1>2 DEF AloneInv
<1>4. AloneInv /\ [Next]_vars => AloneInv'
  <2>1. SUFFICES ASSUME AloneInv, [Next]_vars PROVE AloneInv'
    OBVIOUS
  <2>2. CASE Next
    BY <2>1, <2>2, AloneNext
  <2>3. CASE UNCHANGED vars
    BY ZenonT(30), <2>1, <2>3 DEF vars, AloneInv, IInv, TypeOK, StatusReachable, Existing, JobsFine,
                      Fine, FineIn, Sound
  <2> QED
    BY <2>1, <2>2, <2>3
<1> QED
  BY <1>1, <1>3, <1>4, PTL DEF Spec

(* The document that an undisturbed state bulk writes satisfies every guard *)
(* of the transition it makes, whatever rules the policy lists for it.      *)
THEOREM CommandsBulkGuarded == Spec => []BulkGuarded
<1>1. AloneInv => BulkGuarded
  BY DEF AloneInv, BulkGuarded, Sound, Guarded
<1> QED
  BY <1>1, CommandsAlone, PTL

(* An undisturbed say, revise, retype or evidence writes to a thread whose  *)
(* status admits it, for every set of operation checks.                     *)
THEOREM CommandsChecked == Spec => []ChecksRespected
<1>1. AloneInv => ChecksRespected
  BY DEF AloneInv, ChecksRespected, Sound, Checked
<1> QED
  BY <1>1, CommandsAlone, PTL

-----------------------------------------------------------------------------
(* Supersede links. Where no write replaced a document its command had not *)
(* read, links only accumulate, and every command knows which it adds.     *)

SupersededBy(d) == {t \in Threads : <<"superseded-by", t>> \in d.links}
Supersedes(d) == {t \in Threads : <<"supersedes", t>> \in d.links}

(* What the document e that command j holds has over d, the one it read:   *)
(* the first half of new and the second half of supersede write the new     *)
(* thread's link, the other two halves the old thread's.                   *)
Carries(d, j, e) ==
    /\ d # None => /\ SupersededBy(d) \subseteq SupersededBy(e)
                   /\ Supersedes(d) \subseteq Supersedes(e)
                   /\ d.status = "deprecated" => e.status = "deprecated"
    /\ \A t \in SupersededBy(e) :
          \/ d # None /\ t \in SupersededBy(d)
          \/ /\ t = j.peer
             /\ \/ j.op = "new" /\ j.second
                \/ j.op = "supersede" /\ ~j.second
    /\ \A t \in Supersedes(e) :
          \/ d # None /\ t \in Supersedes(d)
          \/ /\ t = j.peer
             /\ \/ j.op = "new" /\ ~j.second
                \/ j.op = "supersede" /\ j.second
    /\ j.op = "new" /\ j.second => j.peer \in SupersededBy(e)
    /\ j.op = "new" /\ ~j.second /\ j.peer # None => j.peer \in Supersedes(e)
    /\ j.op = "supersede" /\ j.second => j.peer \in Supersedes(e)
    /\ j.op = "supersede" /\ ~j.second => e.status = "deprecated"

Holds(d, stage, j) ==
    stage \in {"resolve", "guard", "write"} /\ j.current => Carries(d, j, j.doc)

(* The thread that the first half wrote bears its mark.                    *)
HalfDone(j) ==
    /\ j.op = "supersede" /\ ~j.second => j.to = "deprecated"
    /\ j.second => j.op \in {"new", "supersede"} /\ j.peer # None /\ docs[j.peer] # None
    /\ j.second /\ j.op = "new" => j.t \in Supersedes(docs[j.peer])
    /\ j.second /\ j.op = "supersede" => \/ j.t \in SupersededBy(docs[j.peer])
                                         \/ docs[j.peer].status = "deprecated"

Interrupted(old, new) ==
    \/ <<old, new>> \in halfway
    \/ \E p \in Procs : job[p].second /\ Pair(job[p]) = <<old, new>>

(* Nothing is missing from the pair old, new but what may always be.       *)
Complete(old, new) ==
    /\ new \in SupersededBy(docs[old]) => old \in Supersedes(docs[new])
    /\ old \in Supersedes(docs[new]) => \/ new \in SupersededBy(docs[old])
                                        \/ docs[old].status = "deprecated"

LinksFine ==
    /\ \A t \in Existing : SupersededBy(docs[t]) \cup Supersedes(docs[t]) \subseteq Existing
    /\ \A old, new \in Existing : Complete(old, new) \/ Interrupted(old, new)
    /\ \A p \in Procs : Holds(docs[job[p].t], pc[p], job[p]) /\ HalfDone(job[p])

PairInv == IInv /\ (~clobbered => LinksFine)

(* No category leads out of deprecated, as none of the built-in ones does.  *)
DeprecatedIsFinal == \A f \in Flavors, s \in Statuses : <<"deprecated", s>> \notin Edges[f]

-----------------------------------------------------------------------------
(* What the edits do to the supersede links.                               *)

SameLinks(e, d) == SupersededBy(e) = SupersededBy(d) /\ Supersedes(e) = Supersedes(d)

LEMMA MarkLinks ==
    ASSUME NEW d \in Doc, NEW S, NEW s
    PROVE  SameLinks(Mark(d, S, s), d)
<1> DEFINE N == [n \in Nodes |-> IF n \in S /\ Has(d, n)
                                 THEN [kind |-> d.nodes[n].kind, status |-> s]
                                 ELSE d.nodes[n]]
<1>1. Mark(d, S, s) = [d EXCEPT !.nodes = N]
  BY DEF Mark
<1> HIDE DEF N
<1>2. [d EXCEPT !.nodes = N].links = d.links
  BY DEF Doc
<1> QED
  BY <1>1, <1>2 DEF SameLinks, SupersededBy, Supersedes

LEMMA RetypedLinks ==
    ASSUME NEW d \in Doc, NEW S, NEW k
    PROVE  SameLinks(Retyped(d, S, k), d)
<1> DEFINE N == [n \in Nodes |-> IF n \in S /\ Has(d, n)
                                 THEN [kind |-> k, status |-> d.nodes[n].status]
                                 ELSE d.nodes[n]]
<1>1. Retyped(d, S, k) = [d EXCEPT !.nodes = N]
  BY DEF Retyped
<1> HIDE DEF N
<1>2. [d EXCEPT !.nodes = N].links = d.links
  BY DEF Doc
<1> QED
  BY <1>1, <1>2 DEF SameLinks, SupersededBy, Supersedes

LEMMA WithNodeLinks ==
    ASSUME NEW d \in Doc, NEW k, NEW e \in WithNode(d, k)
    PROVE  SameLinks(e, d)
<1>1. e.links = d.links
  BY DEF WithNode, Doc
<1> QED
  BY <1>1 DEF SameLinks, SupersededBy, Supersedes

LEMMA AddLinkLinks ==
    ASSUME NEW d \in Doc, NEW t \in Threads
    PROVE  /\ SameLinks(AddLink(d, "implements", t), d)
           /\ SupersededBy(AddLink(d, "superseded-by", t)) = SupersededBy(d) \cup {t}
           /\ Supersedes(AddLink(d, "superseded-by", t)) = Supersedes(d)
           /\ SupersededBy(AddLink(d, "supersedes", t)) = SupersededBy(d)
           /\ Supersedes(AddLink(d, "supersedes", t)) = Supersedes(d) \cup {t}
<1>1. \A rel : AddLink(d, rel, t).links = d.links \cup {<<rel, t>>}
  BY DEF AddLink, Doc
<1> QED
  BY <1>1 DEF SameLinks, SupersededBy, Supersedes

LEMMA MovedLinks ==
    ASSUME NEW d \in Doc, NEW s \in Statuses, NEW flags, NEW e \in Moved(d, s, flags)
    PROVE  SameLinks(e, d)
<1> DEFINE a == SetStatus(d, s)
           b == Resolved(a, flags)
<1>1. a \in Doc /\ SameLinks(a, d)
  BY DEF SetStatus, Doc, SameLinks, SupersededBy, Supersedes
<1>2. b \in Doc /\ SameLinks(b, a)
  BY <1>1, MarkFacts, MarkLinks DEF Resolved, NodeStatuses, Kept, SameLinks
<1>3. e \in WithNode(b, "approval") \/ e = b
  BY DEF Moved
<1>4. SameLinks(e, b)
  BY <1>2, <1>3, WithNodeLinks DEF SameLinks
<1> QED
  BY <1>1, <1>2, <1>4 DEF SameLinks

LEMMA EditedLinks ==
    ASSUME NEW stage, NEW j \in Job, Fine(stage, j), NEW d \in Doc, NEW e \in Edited(j, d)
    PROVE  SameLinks(e, d)
<1>1. CASE j.op \in {"say", "tui_say"}
  BY <1>1, WithNodeLinks DEF Edited
<1>2. CASE j.op = "link"
  <2>1. j.peer \in Threads
    BY <1>2 DEF Fine, FineIn, Existing
  <2> QED
    BY <1>2, <2>1, AddLinkLinks DEF Edited
<1>3. CASE j.op = "evidence"
  <2>1. e.links = d.links
    BY <1>3 DEF Edited, Doc
  <2> QED
    BY <2>1 DEF SameLinks, SupersededBy, Supersedes
<1>4. CASE j.op = "retype"
  <2>1. e = Retyped(d, j.nodes, j.kind)
    BY <1>4 DEF Edited
  <2> QED
    BY <2>1, RetypedLinks
<1>5. CASE j.op \notin {"say", "tui_say", "link", "evidence", "retype"}
  <2>1. e = d
    BY <1>5 DEF Edited
  <2> QED
    BY <2>1 DEF SameLinks
<1> QED
  BY <1>1, <1>2, <1>3, <1>4, <1>5

LEMMA FinalStatus ==
    ASSUME DeprecatedIsFinal, NEW f \in Flavors, NEW to \in Statuses,
           <<f, "deprecated", to>> \in Paths
    PROVE  to = "deprecated"
<1>1. {"deprecated"} \in SUBSET Statuses
  BY RegistryAssumption
<1>2. Closed(f, {"deprecated"})
  <2>1. ASSUME NEW e \in Edges[f], e[1] = "deprecated" PROVE FALSE
    <3>1. e \in Statuses \X Statuses
      BY RegistryAssumption
    <3>2. e = <<e[1], e[2]>> /\ e[2] \in Statuses
      BY <3>1
    <3> QED
      BY <2>1, <3>2 DEF DeprecatedIsFinal
  <2> QED
    BY <2>1 DEF Closed
<1> QED
  BY <1>1, <1>2, PathsFacts, RegistryAssumption

-----------------------------------------------------------------------------
(* A step that leaves the refs alone and changes one process.              *)
LEMMA PairJob ==
    ASSUME PairInv, IInv', NEW p \in Procs, NEW stage, NEW j,
           docs' = docs,
           pc' = [pc EXCEPT ![p] = stage],
           job' = [job EXCEPT ![p] = j],
           clobbered' = clobbered,
           halfway \subseteq halfway',
           ~clobbered => Holds(docs[j.t], stage, j) /\ HalfDone(j),
           ~clobbered /\ job[p].second =>
              \/ Pair(job[p]) \in halfway'
              \/ j.second /\ Pair(j) = Pair(job[p])
              \/ Complete(Pair(job[p])[1], Pair(job[p])[2])
    PROVE  PairInv'
<1> SUFFICES ASSUME ~clobbered PROVE LinksFine'
  BY DEF PairInv
<1>1. LinksFine
  BY DEF PairInv
<1>2. Existing' = Existing
  BY DEF Existing
<1>3. \A q \in Procs : pc'[q] = (IF q = p THEN stage ELSE pc[q])
                       /\ job'[q] = (IF q = p THEN j ELSE job[q])
  BY DEF PairInv, IInv, TypeOK
<1>4. \A t \in Existing' : SupersededBy(docs'[t]) \cup Supersedes(docs'[t]) \subseteq Existing'
  BY <1>1, <1>2 DEF LinksFine
<1>5. ASSUME NEW old \in Existing, NEW new \in Existing
      PROVE  (Complete(old, new) \/ Interrupted(old, new))'
  <2>1. CASE Complete(old, new)
    BY <2>1 DEF Complete
  <2>2. CASE <<old, new>> \in halfway
    BY <2>2 DEF Interrupted
  <2>3. ASSUME NEW q \in Procs, job[q].second, Pair(job[q]) = <<old, new>>
        PROVE  (Complete(old, new) \/ Interrupted(old, new))'
    <3>1. CASE q # p
      BY <1>3, <2>3, <3>1 DEF Interrupted
    <3>2. CASE q = p
      BY <1>3, <2>3, <3>2 DEF Interrupted, Complete
    <3> QED
      BY <3>1, <3>2
  <2> QED
    BY <1>1, <2>1, <2>2, <2>3 DEF LinksFine, Interrupted
<1>6. ASSUME NEW q \in Procs
      PROVE  (Holds(docs[job[q].t], pc[q], job[q]) /\ HalfDone(job[q]))'
  <2>1. CASE q = p
    BY <1>3, <2>1 DEF HalfDone
  <2>2. CASE q # p
    BY <1>1, <1>3, <2>2 DEF LinksFine, HalfDone
  <2> QED
    BY <2>1, <2>2
<1> QED
  BY <1>2, <1>4, <1>5, <1>6 DEF LinksFine

LEMMA PairStop ==
    ASSUME PairInv, IInv', NEW p \in Procs,
           \/ GiveUp(p) \/ Fail(p)
           \/ /\ Finish(p)
              /\ ~clobbered /\ job[p].second =>
                    Complete(Pair(job[p])[1], Pair(job[p])[2])
    PROVE  PairInv'
<1>1. Holds(docs[NoJob.t], "idle", NoJob) /\ HalfDone(NoJob)
  BY DEF Holds, HalfDone, NoJob
<1>2. CASE GiveUp(p)
  BY <1>1, <1>2, PairJob DEF GiveUp, Stop
<1>3. CASE Fail(p) /\ job[p].op # "bulk"
  BY <1>2, <1>3 DEF Fail
<1>4. CASE Fail(p) /\ job[p].op = "bulk"
  <2> DEFINE k == [job[p] EXCEPT !.t = None, !.doc = None]
  <2>1. ~job[p].second
    BY <1>4, JobFacts DEF PairInv, Fine, FineIn
  <2>2. k.op = "bulk" /\ k.second = job[p].second
    BY <1>4, JobFacts DEF PairInv, Job
  <2> HIDE DEF k
  <2>3. Holds(docs[k.t], "filter", k) /\ HalfDone(k)
    BY <2>1, <2>2 DEF Holds, HalfDone
  <2>4. Proceed(p, "filter", k)
    BY <1>4 DEF Fail, NextOfBulk, k
  <2> QED
    BY <2>1, <2>3, <2>4, PairJob DEF Proceed
<1>5. CASE Finish(p) /\ (~clobbered /\ job[p].second =>
                           Complete(Pair(job[p])[1], Pair(job[p])[2]))
  BY <1>1, <1>5, PairJob DEF Finish, Stop
<1> QED
  BY <1>2, <1>3, <1>4, <1>5

(* The command goes on: what it holds now must be what its kind may add.   *)
LEMMA PairKeep ==
    ASSUME PairInv, IInv', NEW p \in Procs, NEW stage, NEW k, Proceed(p, stage, k),
           k.op = job[p].op, k.t = job[p].t, k.peer = job[p].peer, k.to = job[p].to,
           k.second = job[p].second,
           ~clobbered /\ stage \in {"resolve", "guard", "write"} /\ k.current =>
              Carries(docs[k.t], job[p], k.doc)
    PROVE  PairInv'
<1>1. ~clobbered => HalfDone(job[p])
  BY DEF PairInv, LinksFine
<1>2. ~clobbered => HalfDone(k)
  BY <1>1 DEF HalfDone
<1>3. ~clobbered => Holds(docs[k.t], stage, k)
  BY DEF Holds, Carries
<1>4. Pair(k) = Pair(job[p])
  BY DEF Pair
<1> QED
  BY <1>2, <1>3, <1>4, PairJob DEF Proceed

(* An edit that adds no supersede link and keeps a final status.           *)
LEMMA CarriesSame ==
    ASSUME NEW d \in Doc, NEW e \in Doc, NEW j, SameLinks(e, d),
           d.status = "deprecated" => e.status = "deprecated",
           j.op \notin {"new", "supersede"}
    PROVE  Carries(d, j, e)
<1>1. d # None
  BY NoneAssumption
<1> QED
  BY <1>1 DEF Carries, SameLinks

LEMMA PairIssue ==
    ASSUME PairInv, IInv', NEW p \in Procs, IssueCommand(p)
    PROVE  PairInv'
<1>1. ~job[p].second
  BY JobFacts DEF PairInv, IssueCommand, Fine, FineIn
<1>2. ASSUME NEW stage, NEW j, Issue(p, stage, j), ~j.second,
             Holds(docs[j.t], stage, j), j.op = "supersede" => j.to = "deprecated"
      PROVE  PairInv'
  <2>1. HalfDone(j)
    BY <1>2 DEF HalfDone
  <2> QED
    BY <1>1, <1>2, <2>1, PairJob DEF Issue
<1>3. ASSUME NEW stage, NEW j, Issue(p, stage, j), Begins(stage, j) PROVE PairInv'
  <2>1. Holds(docs[j.t], stage, j)
    BY <1>3 DEF Begins, Holds
  <2> QED
    BY <1>2, <1>3, <2>1 DEF Begins
<1>4. ASSUME NEW t \in Threads \ Existing, NEW f \in Flavors, NEW peer \in Existing \cup {None},
             NEW rel \in {"implements", "supersedes"}, NEW kind \in Kinds \ {"approval"},
             New(p, t, f, peer, rel, kind)
      PROVE  PairInv'
  <2> DEFINE L == IF peer = None THEN {} ELSE {<<rel, peer>>}
             src == IF rel = "supersedes" THEN peer ELSE None
             new == NewDoc(f, Initial[f], L)
             j(d, c) == [NoJob EXCEPT !.op = "new", !.t = t, !.doc = [d EXCEPT !.commit = c],
                                      !.peer = src]
  <2>1. PICK d \in WithNode(new, kind), c \in {FALSE, rel = "implements"} :
          Issue(p, "write", j(d, c))
    BY <1>4 DEF New
  <2>2. L \in SUBSET Link
    BY DEF Link, Existing
  <2>3. new \in Doc /\ new.links = L
    BY <2>2, NewDocFacts DEF NewDoc
  <2>4. kind \in NodeKinds
    BY RegistryAssumption
  <2> HIDE DEF new
  <2>5. d \in Doc /\ SameLinks(d, new)
    BY <2>3, <2>4, WithNodeFacts, WithNodeLinks DEF Kept
  <2> DEFINE e == [d EXCEPT !.commit = c]
  <2>6. e.links = d.links
    BY <2>5 DEF Doc
  <2>7. SupersededBy(e) = {} /\ Supersedes(e) = (IF src = None THEN {} ELSE {src})
    <3>1. SupersededBy(new) = {}
      BY <2>3 DEF SupersededBy
    <3>2. Supersedes(new) = (IF src = None THEN {} ELSE {src})
      BY <2>3 DEF Supersedes, Existing
    <3> QED
      BY <2>5, <2>6, <3>1, <3>2 DEF SameLinks, SupersededBy, Supersedes
  <2>8. /\ j(d, c).doc = e /\ j(d, c).t = t /\ j(d, c).peer = src
        /\ j(d, c).op = "new" /\ ~j(d, c).second
    BY DEF NoJob
  <2>9. docs[t] = None
    BY DEF Existing
  <2> HIDE DEF e, j, src
  <2>10. Holds(docs[j(d, c).t], "write", j(d, c))
    BY <2>7, <2>8, <2>9 DEF Holds, Carries
  <2> QED
    BY <1>2, <2>1, <2>8, <2>10
<1>5. ASSUME NEW t \in Threads \ Existing, NEW f \in Flavors, TuiNew(p, t, f)
      PROVE  PairInv'
  <2> DEFINE d == NewDoc(f, "draft", {})
             j == [NoJob EXCEPT !.op = "tui_new", !.t = t, !.doc = d]
  <2>1. SupersededBy(d) = {} /\ Supersedes(d) = {}
    BY DEF NewDoc, SupersededBy, Supersedes
  <2>2. j.doc = d /\ j.t = t /\ j.op = "tui_new" /\ ~j.second
    BY DEF NoJob
  <2>3. docs[t] = None
    BY DEF Existing
  <2>4. Issue(p, "write", j)
    BY <1>5 DEF TuiNew
  <2> HIDE DEF d, j
  <2>5. Holds(docs[j.t], "write", j)
    BY <2>1, <2>2, <2>3 DEF Holds, Carries
  <2> QED
    BY <1>2, <2>2, <2>4, <2>5
<1> QED
  BY <1>3, <1>4, <1>5, IssueShape

-----------------------------------------------------------------------------
(* Reads and edits.                                                        *)

LEMMA PairChecks ==
    ASSUME PairInv, IInv', NEW p \in Procs, CheckPolicy(p) \/ CheckNode(p)
    PROVE  PairInv'
<1> DEFINE k == [job[p] EXCEPT !.alone = TRUE]
<1>1. ~job[p].second
  BY JobFacts DEF PairInv, CheckPolicy, CheckNode, Fine, FineIn
<1>2. CASE Proceed(p, "read", k)
  <2>1. /\ k.op = job[p].op /\ k.t = job[p].t /\ k.peer = job[p].peer
        /\ k.to = job[p].to /\ k.second = job[p].second
    BY JobFacts DEF PairInv, Job
  <2> HIDE DEF k
  <2> QED
    BY <1>2, <2>1, PairKeep
<1> QED
  BY SMTT(30), <1>1, <1>2, PairStop DEF CheckPolicy, CheckNode

LEMMA PairReadAndEdit ==
    ASSUME PairInv, IInv', NEW p \in Procs, ReadAndEdit(p)
    PROVE  PairInv'
<1> DEFINE j == job[p]
           d == docs[j.t]
           next == IF j.op \in {"mark", "tui_mark", "revise_body"} THEN "resolve" ELSE "write"
           first == j.op \notin CheckedOps \cup {"tui_mark"}
<1>1. CASE Fail(p)
  BY <1>1, PairStop
<1>2. ASSUME NEW e \in Edited(j, d),
             Proceed(p, next, [j EXCEPT !.doc = e, !.alone = @ \/ first, !.current = TRUE])
      PROVE  PairInv'
  <2> DEFINE k == [j EXCEPT !.doc = e, !.alone = @ \/ first, !.current = TRUE]
  <2>1. pc[p] = "read" /\ j.op \in EditOps /\ j \in Job /\ Fine("read", j) /\ j.t \in Existing
    BY JobFacts DEF PairInv, ReadAndEdit, Fine, FineIn
  <2>2. /\ k.op = j.op /\ k.t = j.t /\ k.peer = j.peer /\ k.to = j.to
        /\ k.second = j.second /\ k.doc = e
    BY <2>1 DEF Job
  <2> HIDE DEF k
  <2>3. d \in Doc
    BY <2>1, LegalDocs DEF PairInv
  <2>4. Kept(e, d) /\ SameLinks(e, d)
    BY <2>1, <2>3, EditedFacts, EditedLinks
  <2>5. Carries(d, j, e)
    BY <2>1, <2>3, <2>4, CarriesSame DEF Kept, EditOps
  <2> QED
    BY <1>2, <2>2, <2>5, PairKeep DEF k
<1> QED
  BY <1>1, <1>2 DEF ReadAndEdit

LEMMA PairResolve ==
    ASSUME PairInv, IInv', NEW p \in Procs, ResolveNodes(p)
    PROVE  PairInv'
<1> DEFINE j == job[p]
           found == {n \in j.nodes : Has(docs[j.t], n)}
           held == {n \in found : Has(j.doc, n)}
           e == Mark(j.doc, held, j.mark)
           k == [j EXCEPT !.doc = e]
<1>1. CASE Proceed(p, "write", k)
  <2>1. pc[p] = "resolve" /\ j \in Job /\ j.doc \in Doc /\ j.mark \in NodeStatuses
    BY JobFacts DEF PairInv, ResolveNodes, Fine, FineIn, Job
  <2> HIDE DEF held
  <2>2. Kept(e, j.doc) /\ SameLinks(e, j.doc)
    BY <2>1, MarkFacts, MarkLinks
  <2> HIDE DEF e
  <2>3. /\ k.op = j.op /\ k.t = j.t /\ k.peer = j.peer /\ k.to = j.to
        /\ k.second = j.second /\ k.doc = e /\ k.current = j.current
    BY <2>1 DEF Job
  <2> HIDE DEF k
  <2>4. ~clobbered /\ j.current => Carries(docs[j.t], j, j.doc)
    BY <2>1 DEF PairInv, LinksFine, Holds
  <2>5. ~clobbered /\ j.current => Carries(docs[j.t], j, e)
    BY <2>2, <2>4 DEF Carries, SameLinks, Kept
  <2> QED
    BY <1>1, <2>3, <2>5, PairKeep DEF k, e, held
<1>2. CASE Fail(p)
  BY <1>2, PairStop
<1> QED
  BY <1>1, <1>2 DEF ResolveNodes

LEMMA PairReadForState ==
    ASSUME DeprecatedIsFinal, PairInv, IInv', NEW p \in Procs, ReadForState(p)
    PROVE  PairInv'
<1> DEFINE j == job[p]
           d == docs[j.t]
           to == Canonical(j.to)
           linked == IF j.op = "supersede" THEN AddLink(d, "superseded-by", j.peer)
                     ELSE IF j.peer # None THEN AddLink(d, "implements", j.peer) ELSE d
           k(e) == [j EXCEPT !.doc = e, !.alone = TRUE, !.current = TRUE]
<1>1. /\ pc[p] = "read" /\ j.op \in {"state", "supersede"} /\ ~j.second
      /\ j \in Job /\ j.t \in Existing /\ to \in Statuses
      /\ j.op = "supersede" => j.peer # None
      /\ j.peer # None => j.peer \in Threads
  BY JobFacts DEF PairInv, ReadForState, Fine, FineIn, Existing
<1>2. d \in Doc /\ d # None
  BY <1>1, LegalDocs DEF PairInv, Existing
<1>3. ~clobbered /\ j.op = "supersede" => to = "deprecated"
  BY <1>1 DEF PairInv, LinksFine, HalfDone, Canonical
<1>4. ASSUME NEW e, Proceed(p, "write", k(e)), ~clobbered => Carries(d, j, e)
      PROVE  PairInv'
  <2>1. /\ k(e).op = j.op /\ k(e).t = j.t /\ k(e).peer = j.peer /\ k(e).to = j.to
        /\ k(e).second = j.second /\ k(e).doc = e
    BY <1>1 DEF Job
  <2> HIDE DEF k
  <2> QED
    BY <1>4, <2>1, PairKeep
<1>5. CASE Fail(p) \/ Finish(p)
  BY <1>1, <1>5, PairStop
<1>6. CASE d.status = to /\ Proceed(p, "write", k(d))
  <2>1. ~clobbered => Carries(d, j, d)
    BY <1>1, <1>2, <1>3, <1>6, NoneAssumption DEF Carries
  <2> HIDE DEF k
  <2> QED
    BY <1>4, <1>6, <2>1
<1>7. ASSUME \/ <<d.flavor, d.status, to>> \in Paths
             \/ AllowsTransition(d.flavor, d.status, to),
             d.status # to,
             NEW e \in Moved(linked, to, j.flags), Proceed(p, "write", k(e))
      PROVE  PairInv'
  <2>1. d.status # "deprecated"
    <3>1. d.flavor \in Flavors /\ to \in Statuses
      BY <1>1, <1>2 DEF Doc
    <3> HIDE DEF d, to
    <3> QED
      BY <1>7, <3>1, FinalStatus DEF AllowsTransition, DeprecatedIsFinal
  <2>2. Kept(linked, d)
    BY <1>1, <1>2, AddLinkFacts DEF Kept
  <2>3. /\ j.op = "state" => SameLinks(linked, d)
        /\ j.op = "supersede" => /\ SupersededBy(linked) = SupersededBy(d) \cup {j.peer}
                                 /\ Supersedes(linked) = Supersedes(d)
    BY <1>1, <1>2, AddLinkLinks DEF SameLinks
  <2> HIDE DEF linked, to, d, k
  <2>4. e \in Doc /\ e.status = to /\ SameLinks(e, linked)
    BY <1>1, <1>7, <2>2, MovedFacts, MovedLinks DEF Kept
  <2>5. ~clobbered => Carries(d, j, e)
    BY <1>1, <1>2, <1>3, <2>1, <2>3, <2>4 DEF Carries, SameLinks
  <2> QED
    BY <1>4, <1>7, <2>5
<1> HIDE DEF k
<1> QED
  BY <1>5, <1>6, <1>7 DEF ReadForState, k

LEMMA PairFilterBulk ==
    ASSUME PairInv, IInv', NEW p \in Procs, FilterBulk(p)
    PROVE  PairInv'
<1> DEFINE j == job[p]
           rest(t) == [j EXCEPT !.todo = @ \ {t}]
           taken(t) == [rest(t) EXCEPT !.t = t, !.alone = TRUE]
<1>1. j.op = "bulk" /\ ~j.second /\ j \in Job
  BY JobFacts DEF PairInv, FilterBulk, Fine, FineIn
<1>2. ASSUME NEW stage \in {"filter", "read"}, NEW k, k.op = "bulk", ~k.second,
             Proceed(p, stage, k)
      PROVE  PairInv'
  <2>1. Holds(docs[k.t], stage, k) /\ HalfDone(k)
    BY <1>2 DEF Holds, HalfDone
  <2> QED
    BY <1>1, <1>2, <2>1, PairJob DEF Proceed
<1>3. ASSUME NEW t
      PROVE  /\ rest(t).op = "bulk" /\ ~rest(t).second
             /\ taken(t).op = "bulk" /\ ~taken(t).second
  BY <1>1 DEF Job
<1> HIDE DEF rest, taken
<1> QED
  BY <1>1, <1>2, <1>3, PairStop DEF FilterBulk, rest, taken

LEMMA PairReadForBulk ==
    ASSUME PairInv, IInv', NEW p \in Procs, ReadForBulk(p)
    PROVE  PairInv'
<1> DEFINE j == job[p]
           d == docs[j.t]
           k == [j EXCEPT !.doc = d, !.current = TRUE]
<1>1. CASE Proceed(p, "guard", k)
  <2>1. j \in Job /\ j.op = "bulk" /\ j.t \in Existing
    BY JobFacts DEF PairInv, ReadForBulk, Fine, FineIn
  <2>2. d \in Doc
    BY <2>1, LegalDocs DEF PairInv
  <2>3. /\ k.op = j.op /\ k.t = j.t /\ k.peer = j.peer /\ k.to = j.to
        /\ k.second = j.second /\ k.doc = d
    BY <2>1 DEF Job
  <2> HIDE DEF k
  <2>4. Carries(d, j, d)
    BY <2>1, <2>2, CarriesSame DEF SameLinks
  <2> QED
    BY <1>1, <2>3, <2>4, PairKeep
<1>2. CASE Fail(p)
  BY <1>2, PairStop
<1> QED
  BY <1>1, <1>2 DEF ReadForBulk

LEMMA PairGuardBulk ==
    ASSUME DeprecatedIsFinal, PairInv, IInv', NEW p \in Procs, GuardBulk(p)
    PROVE  PairInv'
<1> DEFINE j == job[p]
           to == Canonical(j.to)
           k(e) == [j EXCEPT !.doc = e]
<1>1. CASE Fail(p)
  BY <1>1, PairStop
<1>2. ASSUME NEW e \in Moved(j.doc, to, j.flags), Proceed(p, "write", k(e))
      PROVE  PairInv'
  <2>1. /\ pc[p] = "guard" /\ j \in Job /\ j.doc \in Doc
        /\ <<j.doc.status, to>> \in Edges[j.doc.flavor]
    BY JobFacts DEF PairInv, GuardBulk, Fine, FineIn, Job
  <2>2. j.doc.flavor \in Flavors /\ to \in Statuses
    BY <2>1, RegistryAssumption DEF Doc
  <2>3. j.doc.status # "deprecated"
    BY <2>1, <2>2 DEF DeprecatedIsFinal
  <2>4. /\ k(e).op = j.op /\ k(e).t = j.t /\ k(e).peer = j.peer /\ k(e).to = j.to
        /\ k(e).second = j.second /\ k(e).doc = e /\ k(e).current = j.current
    BY <2>1 DEF Job
  <2> HIDE DEF k, to
  <2>5. SameLinks(e, j.doc)
    BY <2>1, <2>2, MovedLinks
  <2>6. ~j.second /\ j.op # "supersede"
    BY <2>1, JobFacts DEF PairInv, Fine, FineIn
  <2>7. ~clobbered /\ j.current => Carries(docs[j.t], j, j.doc)
    BY <2>1 DEF PairInv, LinksFine, Holds
  <2>8. ~clobbered /\ j.current => Carries(docs[j.t], j, e)
    BY <2>3, <2>5, <2>6, <2>7 DEF Carries, SameLinks
  <2> QED
    BY <1>2, <2>4, <2>8, PairKeep
<1> QED
  BY <1>1, <1>2 DEF GuardBulk

(* The second half adds the missing link, or finds it there.               *)
LEMMA PairReadForBack ==
    ASSUME PairInv, IInv', NEW p \in Procs, ReadForBack(p)
    PROVE  PairInv'
<1> DEFINE j == job[p]
           d == docs[j.t]
           k(e) == [j EXCEPT !.doc = e, !.current = TRUE, !.alone = TRUE]
<1>1. /\ pc[p] = "back" /\ j \in Job /\ j.second /\ j.t \in Existing /\ j.peer \in Threads
  BY JobFacts DEF PairInv, ReadForBack, Fine, FineIn
<1>2. d \in Doc /\ d # None
  BY <1>1, LegalDocs DEF PairInv, Existing
<1>3. ~clobbered => HalfDone(j)
  BY DEF PairInv, LinksFine
<1>4. ASSUME NEW e, Proceed(p, "write", k(e)), ~clobbered => Carries(d, j, e)
      PROVE  PairInv'
  <2>1. /\ k(e).op = j.op /\ k(e).t = j.t /\ k(e).peer = j.peer /\ k(e).to = j.to
        /\ k(e).second = j.second /\ k(e).doc = e
    BY <1>1 DEF Job
  <2> HIDE DEF k
  <2> QED
    BY <1>4, <2>1, PairKeep
<1>5. CASE j.op = "new" /\ Proceed(p, "write", k(AddLink(d, "superseded-by", j.peer)))
  <2> DEFINE e == AddLink(d, "superseded-by", j.peer)
  <2>1. Kept(e, d)
    BY <1>1, <1>2, AddLinkFacts
  <2>2. SupersededBy(e) = SupersededBy(d) \cup {j.peer} /\ Supersedes(e) = Supersedes(d)
    BY <1>1, <1>2, AddLinkLinks
  <2> HIDE DEF e, k
  <2>3. Carries(d, j, e)
    BY <1>1, <1>2, <1>5, <2>1, <2>2 DEF Carries, Kept
  <2> QED
    BY <1>4, <1>5, <2>3 DEF e
<1>6. CASE j.op # "new" /\ Proceed(p, "write", k(AddLink(d, "supersedes", j.peer)))
  <2> DEFINE e == AddLink(d, "supersedes", j.peer)
  <2>1. Kept(e, d)
    BY <1>1, <1>2, AddLinkFacts
  <2>2. SupersededBy(e) = SupersededBy(d) /\ Supersedes(e) = Supersedes(d) \cup {j.peer}
    BY <1>1, <1>2, AddLinkLinks
  <2>3. ~clobbered => j.op = "supersede"
    BY <1>1, <1>3, <1>6 DEF HalfDone
  <2> HIDE DEF e, k
  <2>4. ~clobbered => Carries(d, j, e)
    BY <1>1, <1>2, <2>1, <2>2, <2>3 DEF Carries, Kept
  <2> QED
    BY <1>4, <1>6, <2>4 DEF e
<1>7. CASE j.op # "new" /\ <<"supersedes", j.peer>> \in d.links /\ Finish(p)
  <2>1. ~clobbered => Complete(j.peer, j.t)
    BY <1>1, <1>3, <1>7 DEF HalfDone, Complete, Supersedes
  <2>2. Pair(j)[1] = j.peer /\ Pair(j)[2] = j.t
    BY <1>7 DEF Pair
  <2> QED
    BY <1>7, <2>1, <2>2, PairStop
<1> HIDE DEF k
<1> QED
  BY <1>5, <1>6, <1>7 DEF ReadForBack, k

-----------------------------------------------------------------------------
(* write_snapshot of a document that its command had read: the links of    *)
(* the thread grow by the command's own, and the second half is on its way. *)
LEMMA PairWrite ==
    ASSUME PairInv, IInv', NEW p \in Procs, Write(p)
    PROVE  PairInv'
<1> DEFINE j == job[p]
           d == docs[j.t]
           e == j.doc
           k == NextJob(j)
           seen(q) == [job[q] EXCEPT !.alone = FALSE, !.current = FALSE]
<1>1. /\ pc[p] = "write"
      /\ docs' = [docs EXCEPT ![j.t] = e]
      /\ pc' = [pc EXCEPT ![p] = NextStage(j)]
      /\ clobbered' = (clobbered \/ ~j.current)
      /\ halfway' = halfway
  BY DEF Write
<1>2. \A q \in Procs :
        job'[q] = IF q = p THEN k ELSE IF job[q].t = j.t THEN seen(q) ELSE job[q]
  BY DEF Write
<1>3. /\ j \in Job /\ Fine("write", j) /\ e \in Doc /\ e # None /\ j.t \in Threads
      /\ j.peer # None => j.peer \in Existing /\ j.peer \in Threads
  BY <1>1, JobFacts DEF PairInv, Fine, FineIn, Job, Existing
<1> SUFFICES ASSUME ~clobbered, j.current PROVE LinksFine'
  BY <1>1 DEF PairInv
<1>4. LinksFine
  BY DEF PairInv
<1>5. Carries(d, j, e) /\ HalfDone(j)
  BY <1>1, <1>4 DEF LinksFine, Holds
<1>6. /\ docs'[j.t] = e
      /\ \A t \in Threads : t # j.t => docs'[t] = docs[t]
  BY <1>1, <1>3 DEF PairInv, IInv, TypeOK
<1>7. Existing' = Existing \cup {j.t}
  BY <1>3, <1>6 DEF Existing
(* Threads keep their links, and stay deprecated.                          *)
<1>8. ASSUME NEW t \in Existing
      PROVE  /\ SupersededBy(docs[t]) \subseteq SupersededBy(docs'[t])
             /\ Supersedes(docs[t]) \subseteq Supersedes(docs'[t])
             /\ docs[t].status = "deprecated" => docs'[t].status = "deprecated"
  <2>1. CASE t = j.t
    BY <1>5, <1>6, <2>1 DEF Existing, Carries
  <2>2. CASE t # j.t
    BY <1>6, <2>2 DEF Existing
  <2> QED
    BY <2>1, <2>2
(* The writer's next job is the other half, if there is one.               *)
<1>9. pc'[p] = NextStage(j) /\ job'[p] = k /\ NextStage(j) \in {"back", "filter", "idle"}
  BY <1>1, <1>2 DEF PairInv, IInv, TypeOK, NextStage
<1>10. ASSUME TwoThreads(j), ~j.second
       PROVE  /\ job'[p].op = j.op /\ job'[p].second
              /\ job'[p].t = j.peer /\ job'[p].peer = j.t
  <2> DEFINE back == [NoJob EXCEPT !.op = j.op, !.t = j.peer, !.peer = j.t, !.second = TRUE]
  <2>1. k = back
    BY <1>10 DEF NextJob, NextStage
  <2>2. back.op = j.op /\ back.second /\ back.t = j.peer /\ back.peer = j.t
    BY DEF NoJob
  <2> HIDE DEF back, k
  <2> QED
    BY <1>9, <2>1, <2>2
<1>11. ASSUME ~(TwoThreads(j) /\ ~j.second)
       PROVE  ~job'[p].second /\ job'[p].op # "supersede"
  <2>1. CASE j.op = "bulk"
    <3>1. ~j.second
      BY <1>3, <2>1 DEF Fine, FineIn
    <3>2. k = [j EXCEPT !.t = None, !.doc = None]
      BY <1>11, <2>1 DEF NextJob, NextStage
    <3> QED
      BY <1>3, <1>9, <2>1, <3>1, <3>2 DEF Job
  <2>2. CASE j.op # "bulk"
    BY <1>9, <1>11, <2>2 DEF NextJob, NextStage, NoJob
  <2> QED
    BY <2>1, <2>2
<1>12. HalfDone(job[p])'
  <2>1. CASE TwoThreads(j) /\ ~j.second
    <3>1. j.op \in {"new", "supersede"} /\ j.peer # None
      BY <2>1 DEF TwoThreads
    <3>2. j.op = "new" => j.peer \in Supersedes(e)
      BY <1>5, <2>1, <3>1 DEF Carries
    <3>3. j.op = "supersede" => e.status = "deprecated"
      BY <1>5, <2>1 DEF Carries
    <3> QED
      BY <1>3, <1>6, <1>10, <2>1, <3>1, <3>2, <3>3, NoneAssumption DEF HalfDone
  <2>2. CASE ~(TwoThreads(j) /\ ~j.second)
    BY <1>11, <2>2 DEF HalfDone
  <2> QED
    BY <2>1, <2>2
<1>13. Holds(docs[job[p].t], pc[p], job[p])'
  BY <1>9 DEF Holds
(* The others' jobs.                                                       *)
<1>14. ASSUME NEW q \in Procs, q # p
       PROVE  /\ pc'[q] = pc[q]
              /\ job'[q].op = job[q].op /\ job'[q].second = job[q].second
              /\ job'[q].t = job[q].t /\ job'[q].peer = job[q].peer /\ job'[q].to = job[q].to
              /\ job[q].t # j.t => job'[q] = job[q]
              /\ job[q].t = j.t => ~job'[q].current
  <2>1. job[q] \in Job
    BY JobFacts DEF PairInv
  <2>2. pc'[q] = pc[q] /\ job'[q] = IF job[q].t = j.t THEN seen(q) ELSE job[q]
    BY <1>1, <1>2, <1>14 DEF PairInv, IInv, TypeOK
  <2> QED
    BY <2>1, <2>2 DEF Job
<1>15. ASSUME NEW q \in Procs, q # p
       PROVE  Holds(docs[job[q].t], pc[q], job[q])'
  <2>1. CASE job[q].t = j.t
    BY <1>14, <1>15, <2>1 DEF Holds
  <2>2. CASE job[q].t # j.t
    <3>1. docs'[job[q].t] = docs[job[q].t]
      BY <1>1, <2>2 DEF PairInv, IInv, TypeOK
    <3> QED
      BY <1>4, <1>14, <1>15, <2>2, <3>1 DEF LinksFine
  <2> QED
    BY <2>1, <2>2
<1>16. ASSUME NEW q \in Procs, q # p
       PROVE  HalfDone(job[q])'
  <2>1. HalfDone(job[q])
    BY <1>4 DEF LinksFine
  <2>2. job[q].second => job[q].peer \in Existing
    BY <2>1, JobFacts DEF HalfDone, PairInv, Fine, FineIn
  <2>3. job[q].second => docs'[job[q].peer] # None
    BY <1>3, <1>6, <2>2 DEF Existing
  <2> QED
    BY ZenonT(30), <1>8, <1>14, <1>16, <2>1, <2>2, <2>3 DEF HalfDone
<1>17. ASSUME NEW t \in Existing'
       PROVE  SupersededBy(docs'[t]) \cup Supersedes(docs'[t]) \subseteq Existing'
  <2>1. CASE t # j.t
    BY <1>4, <1>6, <1>7, <1>17, <2>1 DEF LinksFine, Existing
  <2>2. CASE t = j.t
    <3>1. d # None => SupersededBy(d) \cup Supersedes(d) \subseteq Existing
      BY <1>3, <1>4 DEF LinksFine, Existing
    <3>2. j.peer \in Threads => j.peer \in Existing
      BY <1>3, NoneAssumption
    <3>3. SupersededBy(e) \subseteq Threads /\ Supersedes(e) \subseteq Threads
      BY DEF SupersededBy, Supersedes
    <3> QED
      BY <1>5, <1>6, <1>7, <2>2, <3>1, <3>2, <3>3 DEF Carries
  <2> QED
    BY <2>1, <2>2
<1>18. j.second => /\ j.peer \in Existing
                   /\ j.op = "new" => j.t \in Supersedes(docs'[j.peer])
                   /\ j.op = "supersede" => \/ j.t \in SupersededBy(docs'[j.peer])
                                            \/ docs'[j.peer].status = "deprecated"
  BY <1>3, <1>5, <1>8 DEF HalfDone
(* A pair that something kept incomplete is complete now or still is kept.  *)
<1>19. ASSUME NEW old, NEW new, Interrupted(old, new)
       PROVE  (Complete(old, new) \/ Interrupted(old, new))'
  <2>1. CASE <<old, new>> \in halfway
    BY <1>1, <2>1 DEF Interrupted
  <2>2. ASSUME NEW q \in Procs, q # p, job[q].second, Pair(job[q]) = <<old, new>>
        PROVE  Interrupted(old, new)'
    BY <1>14, <2>2 DEF Interrupted, Pair
  <2>3. CASE j.second /\ Pair(j) = <<old, new>>
    <3>1. j.op \in {"new", "supersede"}
      BY <1>5, <2>3 DEF HalfDone
    <3>2. CASE j.op = "new"
      <4>1. old = j.t /\ new = j.peer
        BY <2>3, <3>2 DEF Pair
      <4>2. j.peer \in SupersededBy(e)
        BY <1>5, <2>3, <3>2 DEF Carries
      <4> QED
        BY <1>6, <1>18, <2>3, <3>2, <4>1, <4>2 DEF Complete
    <3>3. CASE j.op = "supersede"
      <4>1. old = j.peer /\ new = j.t
        BY <2>3, <3>3 DEF Pair
      <4>2. j.peer \in Supersedes(e)
        BY <1>5, <2>3, <3>3 DEF Carries
      <4> QED
        BY <1>6, <1>18, <2>3, <3>3, <4>1, <4>2 DEF Complete
    <3> QED
      BY <3>1, <3>2, <3>3
  <2> QED
    BY <1>19, <2>1, <2>2, <2>3 DEF Interrupted
<1>20. ASSUME NEW old \in Existing', NEW new \in Existing',
              new \in SupersededBy(docs'[old]), old \notin Supersedes(docs'[new])
       PROVE  (Complete(old, new) \/ Interrupted(old, new))'
  <2>1. CASE old \in Existing /\ new \in SupersededBy(docs[old])
    <3>1. new \in Existing
      BY <1>4, <2>1 DEF LinksFine
    <3>2. old \notin Supersedes(docs[new])
      BY <1>8, <1>20, <3>1
    <3> QED
      BY <1>4, <1>19, <2>1, <3>1, <3>2 DEF LinksFine, Complete
  <2>2. CASE ~(old \in Existing /\ new \in SupersededBy(docs[old]))
    <3>1. old = j.t /\ new \in SupersededBy(e) /\ ~(d # None /\ new \in SupersededBy(d))
      BY <1>3, <1>6, <1>7, <1>20, <2>2 DEF Existing
    <3>2. new = j.peer /\ ((j.op = "new" /\ j.second) \/ (j.op = "supersede" /\ ~j.second))
      BY <1>5, <3>1 DEF Carries
    <3>3. ~j.second /\ j.op = "supersede"
      BY <1>18, <1>20, <3>1, <3>2
    <3>4. TwoThreads(j)
      BY <1>3, <3>3 DEF TwoThreads, Fine, FineIn
    <3> QED
      BY <1>10, <3>1, <3>2, <3>3, <3>4 DEF Interrupted, Pair
  <2> QED
    BY <2>1, <2>2
<1>21. ASSUME NEW old \in Existing', NEW new \in Existing',
              old \in Supersedes(docs'[new]), new \notin SupersededBy(docs'[old]),
              docs'[old].status # "deprecated"
       PROVE  (Complete(old, new) \/ Interrupted(old, new))'
  <2>1. CASE new \in Existing /\ old \in Supersedes(docs[new])
    <3>1. old \in Existing
      BY <1>4, <2>1 DEF LinksFine
    <3>2. new \notin SupersededBy(docs[old]) /\ docs[old].status # "deprecated"
      BY <1>8, <1>21, <3>1
    <3> QED
      BY <1>4, <1>19, <2>1, <3>1, <3>2 DEF LinksFine, Complete
  <2>2. CASE ~(new \in Existing /\ old \in Supersedes(docs[new]))
    <3>1. new = j.t /\ old \in Supersedes(e) /\ ~(d # None /\ old \in Supersedes(d))
      BY <1>3, <1>6, <1>7, <1>21, <2>2 DEF Existing
    <3>2. old = j.peer /\ ((j.op = "new" /\ ~j.second) \/ (j.op = "supersede" /\ j.second))
      BY <1>5, <3>1 DEF Carries
    <3>3. ~j.second /\ j.op = "new"
      BY <1>18, <1>21, <3>1, <3>2
    <3>4. TwoThreads(j)
      <4>1. old # None
        BY <1>3, <1>21, <3>1, NoneAssumption DEF Supersedes
      <4> QED
        BY <3>2, <3>3, <4>1 DEF TwoThreads
    <3> QED
      BY <1>10, <3>1, <3>2, <3>3, <3>4 DEF Interrupted, Pair
  <2> QED
    BY <2>1, <2>2
<1>22. ASSUME NEW old \in Existing', NEW new \in Existing'
       PROVE  (Complete(old, new) \/ Interrupted(old, new))'
  BY <1>20, <1>21 DEF Complete
<1> QED
  BY <1>12, <1>13, <1>15, <1>16, <1>17, <1>22 DEF LinksFine

LEMMA PairNext ==
    ASSUME DeprecatedIsFinal, PairInv, Next
    PROVE  PairInv'
<1>1. IInv'
  BY NextStep DEF PairInv
<1>2. PICK p \in Procs :
        \/ IssueCommand(p)
        \/ CheckPolicy(p) \/ CheckNode(p) \/ ReadAndEdit(p) \/ ResolveNodes(p)
        \/ ReadForState(p) \/ FilterBulk(p) \/ ReadForBulk(p) \/ GuardBulk(p)
        \/ ReadForBack(p) \/ Write(p) \/ WriteFails(p) \/ Crash(p)
  BY DEF Next
<1>3. CASE IssueCommand(p)
  BY <1>1, <1>3, PairIssue
<1>4. CASE CheckPolicy(p) \/ CheckNode(p) \/ ReadAndEdit(p) \/ ResolveNodes(p)
  BY <1>1, <1>4, PairChecks, PairReadAndEdit, PairResolve
<1>5. CASE ReadForState(p) \/ FilterBulk(p) \/ ReadForBulk(p) \/ GuardBulk(p)
  BY <1>1, <1>5, PairReadForState, PairFilterBulk, PairReadForBulk, PairGuardBulk
<1>6. CASE ReadForBack(p) \/ Write(p)
  BY <1>1, <1>6, PairReadForBack, PairWrite
<1>7. CASE WriteFails(p) \/ Crash(p)
  BY <1>1, <1>7, PairStop DEF WriteFails, Crash
<1> QED
  BY <1>2, <1>3, <1>4, <1>5, <1>6, <1>7

(* Where no category leads out of deprecated, supersede links come in pairs *)
(* or a command is between its two writes, or stopped there, however        *)
(* supersessions overlap each other and every other command.               *)
THEOREM CommandsPairLinks ==
    ASSUME DeprecatedIsFinal
    PROVE  Spec => []SupersedeBothSides
<1>1. Spec => []IInv
  BY CommandsInvariant
<1>2. Init /\ IInv => PairInv
  <2>1. SUFFICES ASSUME Init, IInv PROVE LinksFine
    BY DEF PairInv
  <2>2. \A t \in Existing : SupersededBy(docs[t]) = {} /\ Supersedes(docs[t]) = {}
    BY <2>1 DEF Init, Existing, NewDoc, SupersededBy, Supersedes
  <2>3. \A old, new \in Existing : Complete(old, new)
    BY <2>2 DEF Complete
  <2>4. \A p \in Procs : Holds(docs[job[p].t], pc[p], job[p]) /\ HalfDone(job[p])
    BY <2>1 DEF Init, Holds, HalfDone, NoJob
  <2> QED
    BY <2>2, <2>3, <2>4 DEF LinksFine
<1>3. PairInv /\ [Next]_vars => PairInv'
  <2>1. SUFFICES ASSUME PairInv, [Next]_vars PROVE PairInv'
    OBVIOUS
  <2>2. CASE Next
    BY <2>1, <2>2, PairNext
  <2>3. CASE UNCHANGED vars
    BY <2>1, <2>3 DEF vars, PairInv, IInv, TypeOK, StatusReachable, Existing, JobsFine, Fine,
                      FineIn, LinksFine, Holds, HalfDone, Complete, Interrupted
  <2> QED
    BY <2>1, <2>2, <2>3
<1>4. PairInv => SupersedeBothSides
  <2>1. SUFFICES ASSUME PairInv, ~clobbered, NEW old \in Existing, NEW new \in Existing
                 PROVE  LET onOld == <<"superseded-by", new>> \in docs[old].links
                            onNew == <<"supersedes", old>> \in docs[new].links
                        IN  /\ onOld /\ ~onNew => Interrupted(old, new)
                            /\ onNew /\ ~onOld => \/ Interrupted(old, new)
                                                  \/ docs[old].status = "deprecated"
    BY DEF SupersedeBothSides, Interrupted
  <2>2. old \in Threads /\ new \in Threads
    BY DEF Existing
  <2>3. Complete(old, new) \/ Interrupted(old, new)
    BY <2>1 DEF PairInv, LinksFine
  <2> QED
    BY <2>2, <2>3 DEF Complete, SupersededBy, Supersedes
<1> QED
  BY <1>1, <1>2, <1>3, <1>4, PTL DEF Spec
===============================================================================
