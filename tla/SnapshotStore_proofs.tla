------------------------- MODULE SnapshotStore_proofs -------------------------
(***************************************************************************)
(* Proofs about SnapshotStore, for any number of threads, processes and     *)
(* commands and any combination of faults.                                 *)
(*                                                                         *)
(* The argument: a command that runs holds an identity nobody else holds    *)
(* and that is recorded nowhere until its ref move succeeds; the document   *)
(* it holds is its edit of a state its thread has already been in; and a    *)
(* ref only ever grows. IInv says so for every process, and the safety      *)
(* properties of SnapshotStore follow from it.                             *)
(***************************************************************************)
EXTENDS SnapshotStore, SequenceTheorems, TLAPS

(* What holds of commit c when it is placed on top of history h.           *)
CommitOK(c, h) ==
    /\ c.kind = "migrate" => c.doc = Projection(h) /\ c.archive = EventTail(h)
    /\ c.kind = "edit" => /\ c.archive = ParentArchive(h)
                          /\ \E d \in Bases(h) : c.doc = Edited(d, c.by)

HistoryOK(h) == \A i \in DOMAIN h : CommitOK(h[i], SubSeq(h, 1, i - 1))

(* The document of process p is its edit of a state of its thread.         *)
HoldsEdit(p) ==
    \E d \in Bases(refs[work[p].thread]) : work[p].doc = Edited(d, work[p].by)

Idle(p) == pc[p] = "idle" /\ work[p] = NoWork

Running(p) ==
    /\ pc[p] # "idle"
    /\ work[p].thread \in Threads
    /\ work[p].by \in issued
    /\ work[p].by \notin rejected
    /\ IsLogged(work[p].by) <=> pc[p] = "moved"
    /\ pc[p] \notin {"move", "moved"} => ~work[p].pinned
    /\ pc[p] \in {"resolve", "check_published"} => HoldsEdit(p)
    /\ pc[p] = "move" =>
           IF work[p].pinned THEN work[p].doc = Projection(work[p].parent) ELSE HoldsEdit(p)

ProcsOK ==
    /\ \A p \in Procs : Idle(p) \/ Running(p)
    /\ \A p, q \in Procs :
           p # q /\ pc[p] # "idle" /\ pc[q] # "idle" => work[p].by # work[q].by

IssuedOK ==
    /\ \A c \in Commands : IsLogged(c) => c \in issued
    /\ rejected \subseteq issued

IInv ==
    /\ TypeOK
    /\ IssuedOK
    /\ OutcomesTrue
    /\ ProcsOK
    /\ \A t \in Threads : HistoryOK(refs[t])

-----------------------------------------------------------------------------
(* Histories.                                                              *)

LEMMA EmptyHistory == DOMAIN <<>> = {} /\ <<>> \in Seq(Commit)
<1>1. <<>> \in Seq(Commit) /\ Len(<<>>) = 0
  BY EmptySeq
<1>2. DOMAIN <<>> = 1..Len(<<>>)
  BY <1>1, LenProperties
<1>3. 1..0 = {}
  OBVIOUS
<1> QED BY <1>1, <1>2, <1>3

(* Below the new commit, an extended history reads as it did before.       *)
LEMMA AppendBelow ==
    ASSUME NEW h \in Seq(Commit), NEW c \in Commit
    PROVE  /\ Append(h, c) \in Seq(Commit)
           /\ DOMAIN Append(h, c) = DOMAIN h \cup {Len(h) + 1}
           /\ \A i \in DOMAIN h : Append(h, c)[i] = h[i]
           /\ Append(h, c)[Len(h) + 1] = c
           /\ \A i \in 1..(Len(h) + 1) :
                  SubSeq(Append(h, c), 1, i - 1) = SubSeq(h, 1, i - 1)
           /\ SubSeq(h, 1, Len(h)) = h
<1>1. /\ Append(h, c) \in Seq(Commit)
      /\ DOMAIN Append(h, c) = DOMAIN h \cup {Len(h) + 1}
      /\ \A i \in DOMAIN h : Append(h, c)[i] = h[i]
      /\ Append(h, c)[Len(h) + 1] = c
  OBVIOUS
<1>2. ASSUME NEW i \in 1..(Len(h) + 1)
      PROVE  SubSeq(Append(h, c), 1, i - 1) = SubSeq(h, 1, i - 1)
  <2> DEFINE a == SubSeq(Append(h, c), 1, i - 1)
             b == SubSeq(h, 1, i - 1)
  <2>1. Len(h) \in Nat /\ i - 1 \in Int /\ i - 1 <= Len(h)
    OBVIOUS
  <2>2. \A j \in 1..(i - 1) : h[j] \in Commit /\ Append(h, c)[j] = h[j]
    BY <1>1, <2>1
  <2>3. /\ a \in Seq(Commit)
        /\ Len(a) = IF 1 <= i - 1 THEN i - 1 - 1 + 1 ELSE 0
        /\ \A j \in 1..(i - 1 - 1 + 1) : a[j] = Append(h, c)[1 + j - 1]
    BY <2>1, <2>2, SubSeqProperties
  <2>4. /\ b \in Seq(Commit)
        /\ Len(b) = IF 1 <= i - 1 THEN i - 1 - 1 + 1 ELSE 0
        /\ \A j \in 1..(i - 1 - 1 + 1) : b[j] = h[1 + j - 1]
    BY <2>1, <2>2, SubSeqProperties
  <2> HIDE DEF a, b
  <2>5. Len(a) = Len(b) /\ \A j \in 1..Len(a) : a[j] = b[j]
    BY <2>1, <2>2, <2>3, <2>4
  <2>6. a = b
    BY <2>3, <2>4, <2>5, SeqEqual
  <2> QED BY <2>6 DEF a, b
<1>3. SubSeq(h, 1, Len(h)) = h
  BY SubSeqFull
<1> QED BY <1>1, <1>2, <1>3

(* A commit that fits on top of a well-formed history extends it to one.    *)
LEMMA HistoryExtends ==
    ASSUME NEW h \in Seq(Commit), NEW c \in Commit, HistoryOK(h), CommitOK(c, h)
    PROVE  HistoryOK(Append(h, c))
<1> SUFFICES ASSUME NEW i \in DOMAIN Append(h, c)
             PROVE  CommitOK(Append(h, c)[i], SubSeq(Append(h, c), 1, i - 1))
  BY DEF HistoryOK
<1>1. DOMAIN h = 1..Len(h) /\ Len(h) \in Nat
  OBVIOUS
<1>2. CASE i \in DOMAIN h
  <2>1. SubSeq(Append(h, c), 1, i - 1) = SubSeq(h, 1, i - 1)
    BY <1>1, <1>2, AppendBelow
  <2>2. Append(h, c)[i] = h[i]
    BY <1>2, AppendBelow
  <2>3. CommitOK(h[i], SubSeq(h, 1, i - 1))
    BY <1>2 DEF HistoryOK
  <2> QED BY <2>1, <2>2, <2>3
<1>3. CASE i = Len(h) + 1
  <2>1. SubSeq(Append(h, c), 1, i - 1) = SubSeq(h, 1, i - 1) /\ i - 1 = Len(h)
    BY <1>1, <1>3, AppendBelow
  <2>2. SubSeq(h, 1, Len(h)) = h
    BY AppendBelow
  <2>3. Append(h, c)[i] = c
    BY <1>3, AppendBelow
  <2> QED BY <2>1, <2>2, <2>3
<1> QED BY <1>2, <1>3, AppendBelow

(* Extending a history keeps every document a write may start from.        *)
LEMMA BasesGrow ==
    ASSUME NEW h \in Seq(Commit), NEW c \in Commit
    PROVE  Bases(h) \subseteq Bases(Append(h, c))
<1> SUFFICES ASSUME NEW i \in DOMAIN h, IsSnapshot(h[i])
             PROVE  h[i].doc \in Bases(Append(h, c))
  BY Zenon DEF Bases
<1>1. i \in DOMAIN Append(h, c) /\ Append(h, c)[i] = h[i]
  BY AppendBelow
<1> QED BY <1>1 DEF Bases

(* What is read from a history has the types of a document and an archive. *)
LEMMA HistoryTypes ==
    ASSUME NEW h \in Seq(Commit)
    PROVE  /\ EventTail(h) \subseteq Commands
           /\ Projection(h) \in Doc
           /\ ParentArchive(h) \subseteq Commands
           /\ Bases(h) \subseteq Doc
<1>1. \A i \in DOMAIN h : h[i] \in Commit
  OBVIOUS
<1>2. \A c \in Commit : /\ c.by \in Commands /\ c.doc \in Doc
                        /\ c.doc.shows \subseteq Commands
                        /\ c.archive \subseteq Commands
  BY DEF Commit, Doc
<1>3. EventTail(h) \subseteq Commands
  BY <1>1, <1>2 DEF EventTail
<1>4. UNION {h[i].doc.shows : i \in NewestSnapshot(h)} \subseteq Commands
  BY <1>1, <1>2 DEF NewestSnapshot
<1>5. Projection(h) \in Doc
  BY <1>3, <1>4 DEF Projection, Doc
<1>6. h # <<>> => Tip(h) \in Commit
  BY DEF Tip
<1>7. ParentArchive(h) \subseteq Commands
  BY <1>2, <1>6 DEF ParentArchive
<1>8. EmptyDoc \in Doc /\ SanitizedDoc \in Doc
  BY DEF EmptyDoc, SanitizedDoc, Doc
<1>9. Bases(h) \subseteq Doc
  BY <1>1, <1>2, <1>8 DEF Bases
<1> QED BY <1>3, <1>5, <1>7, <1>9

LEMMA EditedType ==
    ASSUME NEW d \in Doc, NEW c \in Commands
    PROVE  Edited(d, c) \in Doc
BY DEF Edited, Doc

-----------------------------------------------------------------------------
(* The invariant is inductive.                                             *)

LEMMA InitInv == Init => IInv
<1> SUFFICES ASSUME Init PROVE IInv
  OBVIOUS
<1>1. \A t \in Threads : refs[t] = <<>> /\ DOMAIN refs[t] = {}
  BY EmptyHistory DEF Init
<1>2. NoWork \in Work
  BY DEF NoWork, Work, Doc, EmptyDoc
<1>3. TypeOK
  BY <1>2, EmptyHistory DEF Init, TypeOK, Locations
<1>4. \A c : ~IsLogged(c)
  BY <1>1 DEF IsLogged
<1>5. IssuedOK /\ OutcomesTrue
  BY <1>4 DEF Init, IssuedOK, OutcomesTrue
<1>6. ProcsOK
  BY DEF Init, ProcsOK, Idle
<1>7. \A t \in Threads : HistoryOK(refs[t])
  BY <1>1 DEF HistoryOK
<1> QED BY <1>3, <1>5, <1>6, <1>7 DEF IInv

(* A step of one process that moves no ref and tells its caller nothing.   *)
LEMMA LocalStep ==
    ASSUME IInv, NEW p \in Procs, NEW l \in Locations, NEW w \in Work,
           pc' = [pc EXCEPT ![p] = l],
           work' = [work EXCEPT ![p] = w],
           UNCHANGED <<refs, published, issued, acked, rejected>>,
           exposed' \subseteq Commands,
           l # "idle" => pc[p] # "idle" /\ w.by = work[p].by,
           (Idle(p) \/ Running(p))'
    PROVE  IInv'
<1>1. TypeOK'
  BY DEF IInv, TypeOK
<1>2. \A c : IsLogged(c)' <=> IsLogged(c)
  BY DEF IsLogged
<1>3. IssuedOK' /\ OutcomesTrue'
  BY <1>2 DEF IInv, IssuedOK, OutcomesTrue
<1>4. ASSUME NEW q \in Procs, q # p
      PROVE  pc'[q] = pc[q] /\ work'[q] = work[q]
  BY <1>4 DEF IInv, TypeOK
<1>5. pc'[p] = l /\ work'[p] = w
  BY DEF IInv, TypeOK
<1>6. ASSUME NEW q \in Procs, q # p
      PROVE  (Idle(q) \/ Running(q))'
  <2>1. Idle(q) \/ Running(q)
    BY DEF IInv, ProcsOK
  <2>2. Idle(q) => Idle(q)'
    BY <1>4, <1>6 DEF Idle
  <2>3. Running(q) => Running(q)'
    BY <1>2, <1>4, <1>6 DEF Running, HoldsEdit
  <2> QED BY <2>1, <2>2, <2>3
<1>7. ASSUME NEW q \in Procs, NEW r \in Procs, q # r, pc'[q] # "idle", pc'[r] # "idle"
      PROVE  work'[q].by # work'[r].by
  BY <1>4, <1>5, <1>7 DEF IInv, ProcsOK
<1>8. ProcsOK'
  BY <1>6, <1>7 DEF ProcsOK
<1>9. \A t \in Threads : HistoryOK(refs[t])'
  BY DEF IInv
<1> QED BY <1>1, <1>3, <1>8, <1>9 DEF IInv

(* A caller is told an error: its command is recorded nowhere, and no other *)
(* command can record it.                                                  *)
LEMMA ErrorStep ==
    ASSUME IInv, NEW p \in Procs, pc[p] \notin {"idle", "moved"}, ReturnErr(p)
    PROVE  IInv'
<1> USE DEF ReturnErr, Leave
<1>1. Running(p)
  BY DEF IInv, ProcsOK, Idle
<1>2. /\ work[p].by \in issued
      /\ work[p].by \in Commands
      /\ ~IsLogged(work[p].by)
  BY <1>1 DEF Running, IInv, TypeOK
<1>3. NoWork \in Work
  BY DEF NoWork, Work, Doc, EmptyDoc
<1>4. TypeOK'
  BY <1>2, <1>3 DEF IInv, TypeOK, Locations
<1>5. \A c : IsLogged(c)' <=> IsLogged(c)
  BY DEF IsLogged
<1>6. IssuedOK'
  BY <1>2, <1>5 DEF IInv, IssuedOK
<1>7. OutcomesTrue'
  BY <1>2, <1>5 DEF IInv, OutcomesTrue
<1>8. ASSUME NEW q \in Procs, q # p
      PROVE  pc'[q] = pc[q] /\ work'[q] = work[q]
  BY <1>8 DEF IInv, TypeOK
<1>9. pc'[p] = "idle" /\ work'[p] = NoWork
  BY DEF IInv, TypeOK
<1>10. ASSUME NEW q \in Procs
       PROVE  (Idle(q) \/ Running(q))'
  <2>1. CASE q = p
    BY <1>9, <2>1 DEF Idle
  <2>2. CASE q # p
    <3>1. Idle(q) \/ Running(q)
      BY DEF IInv, ProcsOK
    <3>2. Idle(q) => Idle(q)'
      BY <1>8, <2>2 DEF Idle
    <3>3. pc[q] # "idle" => work[q].by # work[p].by
      BY <2>2 DEF IInv, ProcsOK
    <3>4. Running(q) => Running(q)'
      BY <1>5, <1>8, <2>2, <3>3 DEF Running, HoldsEdit
    <3> QED BY <3>1, <3>2, <3>4
  <2> QED BY <2>1, <2>2
<1>11. ASSUME NEW q \in Procs, NEW r \in Procs, q # r, pc'[q] # "idle", pc'[r] # "idle"
       PROVE  work'[q].by # work'[r].by
  BY <1>8, <1>9, <1>11 DEF IInv, ProcsOK
<1>12. ProcsOK'
  BY <1>10, <1>11 DEF ProcsOK
<1>13. \A t \in Threads : HistoryOK(refs[t])'
  BY DEF IInv
<1> QED BY <1>4, <1>6, <1>7, <1>12, <1>13 DEF IInv

(* A command starts, with an identity that nobody has used.                *)
LEMMA BeginStep ==
    ASSUME IInv, NEW p \in Procs, NEW c \in Commands, NEW t \in Threads,
           NEW l \in {"read_auth", "resolve", "probe_auth"}, NEW d \in Doc,
           Begin(p, c, t, l, d),
           l = "resolve" => d = Edited(EmptyDoc, c)
    PROVE  IInv'
<1> USE DEF Begin
<1> DEFINE w == [thread |-> t, by |-> c, doc |-> d, pinned |-> FALSE, parent |-> <<>>]
<1>1. w.thread = t /\ w.by = c /\ w.doc = d /\ w.pinned = FALSE
  OBVIOUS
<1>2. w \in Work
  BY EmptyHistory DEF Work
<1>3. pc'[p] = l /\ work'[p] = w
  BY DEF IInv, TypeOK
<1>4. ASSUME NEW q \in Procs, q # p
      PROVE  pc'[q] = pc[q] /\ work'[q] = work[q]
  BY <1>4 DEF IInv, TypeOK
<1>5. work' = [work EXCEPT ![p] = w]
  OBVIOUS
<1> HIDE DEF w
<1>6. TypeOK'
  BY <1>2, <1>5 DEF IInv, TypeOK, Locations
<1>7. \A x : IsLogged(x)' <=> IsLogged(x)
  BY DEF IsLogged
<1>8. c \notin issued /\ ~IsLogged(c) /\ c \notin rejected
  BY DEF IInv, IssuedOK
<1>9. IssuedOK' /\ OutcomesTrue'
  BY <1>7 DEF IInv, IssuedOK, OutcomesTrue
<1>10. EmptyDoc \in Bases(refs[t])
  BY DEF Bases
<1>11. Running(p)'
  <2>1. l = "resolve" => HoldsEdit(p)'
    BY <1>1, <1>3, <1>10 DEF HoldsEdit
  <2>2. l \notin {"idle", "check_published", "move", "moved"}
    OBVIOUS
  <2>3. ~IsLogged(c)' /\ c \in issued' /\ c \notin rejected'
    BY <1>7, <1>8
  <2> QED BY <1>1, <1>3, <2>1, <2>2, <2>3 DEF Running
<1>12. ASSUME NEW q \in Procs, q # p
       PROVE  (Idle(q) \/ Running(q))'
  <2>1. Idle(q) \/ Running(q)
    BY DEF IInv, ProcsOK
  <2>2. Idle(q) => Idle(q)'
    BY <1>4, <1>12 DEF Idle
  <2>3. Running(q) => Running(q)'
    BY <1>4, <1>7, <1>12 DEF Running, HoldsEdit
  <2> QED BY <2>1, <2>2, <2>3
<1>13. \A q \in Procs : q # p /\ pc'[q] # "idle" => work'[q].by \in issued
  BY <1>4 DEF IInv, ProcsOK, Idle, Running
<1>14. w.by = c
  BY <1>1
<1>15. ASSUME NEW q \in Procs, NEW r \in Procs, q # r, pc'[q] # "idle", pc'[r] # "idle"
       PROVE  work'[q].by # work'[r].by
  <2>1. CASE q = p \/ r = p
    BY <1>3, <1>8, <1>13, <1>14, <1>15, <2>1
  <2>2. CASE q # p /\ r # p
    BY <1>4, <1>15, <2>2 DEF IInv, ProcsOK
  <2> QED BY <2>1, <2>2
<1>16. ProcsOK'
  BY <1>11, <1>12, <1>15 DEF ProcsOK
<1>17. \A x \in Threads : HistoryOK(refs[x])'
  BY DEF IInv
<1> QED BY <1>6, <1>9, <1>16, <1>17 DEF IInv

(* What appending one commit to one ref does to the histories.             *)
LEMMA AppendRef ==
    ASSUME IInv, NEW t \in Threads, NEW c \in Commit, CommitOK(c, refs[t]),
           refs' = [refs EXCEPT ![t] = Append(refs[t], c)]
    PROVE  /\ refs' \in [Threads -> Seq(Commit)]
           /\ \A x : IsLogged(x)' <=> IsLogged(x) \/ x = c.by
           /\ \A u \in Threads : Bases(refs[u]) \subseteq Bases(refs'[u])
           /\ \A u \in Threads : HistoryOK(refs'[u])
<1>1. refs \in [Threads -> Seq(Commit)] /\ refs[t] \in Seq(Commit)
  BY DEF IInv, TypeOK
<1>2. refs' \in [Threads -> Seq(Commit)]
  BY <1>1, AppendBelow
<1>3. refs'[t] = Append(refs[t], c) /\ \A u \in Threads : u # t => refs'[u] = refs[u]
  BY <1>1
<1>4. ASSUME NEW x PROVE IsLogged(x)' <=> IsLogged(x) \/ x = c.by
  <2>1. ASSUME IsLogged(x)' PROVE IsLogged(x) \/ x = c.by
    <3>1. PICK u \in Threads : \E i \in DOMAIN refs'[u] : refs'[u][i].by = x
      BY <2>1 DEF IsLogged
    <3>2. PICK i \in DOMAIN refs'[u] : refs'[u][i].by = x
      BY <3>1
    <3>3. CASE u # t
      BY <1>3, <3>2, <3>3 DEF IsLogged
    <3>4. CASE u = t
      <4>1. i \in DOMAIN refs[t] \/ i = Len(refs[t]) + 1
        BY <1>1, <1>3, <3>2, <3>4, AppendBelow
      <4>2. i \in DOMAIN refs[t] => refs[t][i].by = x
        BY <1>1, <1>3, <3>2, <3>4, AppendBelow
      <4>3. i = Len(refs[t]) + 1 => x = c.by
        BY <1>1, <1>3, <3>2, <3>4, AppendBelow
      <4> QED BY <4>1, <4>2, <4>3 DEF IsLogged
    <3> QED BY <3>3, <3>4
  <2>2. ASSUME IsLogged(x) PROVE IsLogged(x)'
    <3>1. PICK u \in Threads : \E i \in DOMAIN refs[u] : refs[u][i].by = x
      BY <2>2 DEF IsLogged
    <3>2. PICK i \in DOMAIN refs[u] : refs[u][i].by = x
      BY <3>1
    <3>3. i \in DOMAIN refs'[u] /\ refs'[u][i] = refs[u][i]
      BY <1>1, <1>3, <3>2, AppendBelow
    <3> QED BY <3>2, <3>3 DEF IsLogged
  <2>3. ASSUME x = c.by PROVE IsLogged(x)'
    <3>1. Len(refs[t]) + 1 \in DOMAIN refs'[t] /\ refs'[t][Len(refs[t]) + 1] = c
      BY <1>1, <1>3, AppendBelow
    <3> QED BY <2>3, <3>1 DEF IsLogged
  <2> QED BY <2>1, <2>2, <2>3
<1>5. ASSUME NEW u \in Threads PROVE Bases(refs[u]) \subseteq Bases(refs'[u])
  BY <1>1, <1>3, BasesGrow
<1>6. ASSUME NEW u \in Threads PROVE HistoryOK(refs'[u])
  <2>1. HistoryOK(refs[u])
    BY DEF IInv
  <2>2. CASE u = t
    BY <1>1, <1>3, <2>1, <2>2, HistoryExtends
  <2>3. CASE u # t
    BY <1>3, <2>1, <2>3
  <2> QED BY <2>2, <2>3
<1> QED BY <1>2, <1>4, <1>5, <1>6

(* The steps of a process that does not move while another commits.        *)
LEMMA OthersUndisturbed ==
    ASSUME IInv, NEW q \in Procs, NEW b,
           pc'[q] = pc[q], work'[q] = work[q],
           issued \subseteq issued', UNCHANGED rejected,
           \A x : IsLogged(x)' <=> IsLogged(x) \/ x = b,
           \A u \in Threads : Bases(refs[u]) \subseteq Bases(refs'[u]),
           pc[q] # "idle" => work[q].by # b
    PROVE  (Idle(q) \/ Running(q))'
<1>1. Idle(q) \/ Running(q)
  BY DEF IInv, ProcsOK
<1>2. Idle(q) => Idle(q)'
  BY DEF Idle
<1>3. ASSUME Running(q) PROVE Running(q)'
  <2>1. HoldsEdit(q) => HoldsEdit(q)'
    BY <1>3 DEF Running, HoldsEdit
  <2>2. IsLogged(work[q].by)' <=> IsLogged(work[q].by)
    BY <1>3 DEF Running
  <2> QED BY <1>3, <2>1, <2>2 DEF Running
<1> QED BY <1>1, <1>2, <1>3

(* A commit of somebody outside the modelled processes, under an identity   *)
(* that nobody has used.                                                   *)
LEMMA OutsideCommit ==
    ASSUME IInv, NEW t \in Threads, NEW c \in Commit, CommitOK(c, refs[t]),
           c.by \notin issued, issued' = issued \cup {c.by},
           refs' = [refs EXCEPT ![t] = Append(refs[t], c)],
           UNCHANGED <<published, pc, work, acked, rejected>>,
           exposed' \subseteq Commands
    PROVE  IInv'
<1>1. /\ refs' \in [Threads -> Seq(Commit)]
      /\ \A x : IsLogged(x)' <=> IsLogged(x) \/ x = c.by
      /\ \A u \in Threads : Bases(refs[u]) \subseteq Bases(refs'[u])
      /\ \A u \in Threads : HistoryOK(refs'[u])
  BY AppendRef
<1>2. c.by \in Commands
  BY DEF Commit
<1>3. TypeOK'
  BY <1>1, <1>2 DEF IInv, TypeOK
<1>4. c.by \notin rejected
  BY DEF IInv, IssuedOK
<1>5. IssuedOK' /\ OutcomesTrue'
  BY <1>1, <1>4 DEF IInv, IssuedOK, OutcomesTrue
<1>6. \A q \in Procs : pc[q] # "idle" => work[q].by # c.by
  BY DEF IInv, ProcsOK, Idle, Running
<1>7. ASSUME NEW q \in Procs PROVE (Idle(q) \/ Running(q))'
  BY <1>1, <1>6, OthersUndisturbed
<1>8. ProcsOK'
  BY <1>7 DEF IInv, ProcsOK
<1>9. \A u \in Threads : HistoryOK(refs[u])'
  BY <1>1
<1> QED BY <1>3, <1>5, <1>8, <1>9 DEF IInv

(* The commit a process writes fits on the history it expects.             *)
LEMMA NewCommitOK ==
    ASSUME IInv, NEW p \in Procs, pc[p] = "move", HoldsExpected(p)
    PROVE  /\ NewCommit(p) \in Commit
           /\ NewCommit(p).by = work[p].by
           /\ CommitOK(NewCommit(p), refs[work[p].thread])
<1> DEFINE w == work[p]
<1>1. Running(p) /\ w \in Work
  BY DEF IInv, TypeOK, ProcsOK, Idle
<1>2. /\ w.doc \in Doc
      /\ w.parent \in Seq(Commit)
      /\ w.by \in Commands
  BY <1>1 DEF Running, Work, IInv, TypeOK
<1>3. w.pinned \in BOOLEAN
  BY <1>1 DEF Work
<1>4. /\ NewCommit(p).kind = IF w.pinned THEN "migrate" ELSE "edit"
      /\ NewCommit(p).by = w.by
      /\ NewCommit(p).doc = w.doc
      /\ NewCommit(p).archive =
             IF w.pinned THEN EventTail(w.parent) ELSE ParentArchive(w.parent)
  BY DEF NewCommit
<1>5. EventTail(w.parent) \subseteq Commands /\ ParentArchive(w.parent) \subseteq Commands
  BY <1>2, HistoryTypes
<1>6. NewCommit(p) \in Commit
  BY <1>2, <1>3, <1>5 DEF NewCommit, Commit
<1>7. refs[w.thread] = w.parent
  BY DEF HoldsExpected
<1>8. w.pinned => w.doc = Projection(w.parent)
  BY <1>1 DEF Running
<1>9. ~w.pinned => \E d \in Bases(w.parent) : w.doc = Edited(d, w.by)
  BY <1>1, <1>7 DEF Running, HoldsEdit
<1>10. CommitOK(NewCommit(p), w.parent)
  BY <1>3, <1>4, <1>8, <1>9 DEF CommitOK
<1> QED BY <1>4, <1>6, <1>7, <1>10

LEMMA MoveStep ==
    ASSUME IInv, NEW p \in Procs, MoveRef(p)
    PROVE  IInv'
<1> USE DEF MoveRef, Goto
<1> DEFINE t == work[p].thread
           c == NewCommit(p)
<1>1. Running(p) /\ t \in Threads
  BY DEF IInv, ProcsOK, Idle, Running
<1>2. c \in Commit /\ c.by = work[p].by /\ CommitOK(c, refs[t])
  BY NewCommitOK
<1>3. refs' = [refs EXCEPT ![t] = Append(refs[t], c)]
  BY DEF HoldsExpected
<1> HIDE DEF c
<1>4. /\ refs' \in [Threads -> Seq(Commit)]
      /\ \A x : IsLogged(x)' <=> IsLogged(x) \/ x = c.by
      /\ \A u \in Threads : Bases(refs[u]) \subseteq Bases(refs'[u])
      /\ \A u \in Threads : HistoryOK(refs'[u])
  BY <1>1, <1>2, <1>3, AppendRef
<1>5. TypeOK'
  BY <1>4 DEF IInv, TypeOK, Locations
<1>6. c.by \in issued /\ c.by \notin rejected
  BY <1>1, <1>2 DEF Running
<1>7. IssuedOK' /\ OutcomesTrue'
  BY <1>4, <1>6 DEF IInv, IssuedOK, OutcomesTrue
<1>8. ASSUME NEW q \in Procs, q # p
      PROVE  pc'[q] = pc[q] /\ (Idle(q) \/ Running(q))'
  <2>1. pc'[q] = pc[q] /\ work'[q] = work[q]
    BY <1>8 DEF IInv, TypeOK
  <2>2. pc[q] # "idle" => work[q].by # c.by
    BY <1>2, <1>8 DEF IInv, ProcsOK
  <2> QED BY <1>4, <2>1, <2>2, OthersUndisturbed
<1>9. pc'[p] = "moved"
  BY DEF IInv, TypeOK
<1>10. Running(p)'
  BY <1>1, <1>2, <1>4, <1>9 DEF Running
<1>11. ProcsOK'
  BY <1>8, <1>10 DEF IInv, ProcsOK
<1>12. \A u \in Threads : HistoryOK(refs[u])'
  BY <1>4
<1> QED BY <1>5, <1>7, <1>11, <1>12 DEF IInv

(* A caller is told Ok after its ref has moved.                            *)
LEMMA OkStep ==
    ASSUME IInv, NEW p \in Procs, ReturnOk(p)
    PROVE  IInv'
<1> USE DEF ReturnOk, Leave
<1>1. Running(p)
  BY DEF IInv, ProcsOK, Idle
<1>2. IsLogged(work[p].by) /\ work[p].by \in Commands
  BY <1>1 DEF Running, IInv, TypeOK
<1>3. NoWork \in Work
  BY EmptyHistory DEF NoWork, Work, Doc, EmptyDoc
<1>4. TypeOK'
  BY <1>2, <1>3 DEF IInv, TypeOK, Locations
<1>5. \A x : IsLogged(x)' <=> IsLogged(x)
  BY DEF IsLogged
<1>6. IssuedOK' /\ OutcomesTrue'
  BY <1>2, <1>5 DEF IInv, IssuedOK, OutcomesTrue
<1>7. ASSUME NEW q \in Procs, q # p
      PROVE  pc'[q] = pc[q] /\ work'[q] = work[q] /\ (Idle(q) \/ Running(q))'
  <2>1. pc'[q] = pc[q] /\ work'[q] = work[q]
    BY <1>7 DEF IInv, TypeOK
  <2>2. Idle(q) \/ Running(q)
    BY DEF IInv, ProcsOK
  <2>3. Idle(q) => Idle(q)'
    BY <2>1 DEF Idle
  <2>4. Running(q) => Running(q)'
    BY <1>5, <2>1 DEF Running, HoldsEdit
  <2> QED BY <2>1, <2>2, <2>3, <2>4
<1>8. pc'[p] = "idle" /\ work'[p] = NoWork
  BY DEF IInv, TypeOK
<1>9. ProcsOK'
  BY <1>7, <1>8 DEF IInv, ProcsOK, Idle
<1>10. \A u \in Threads : HistoryOK(refs[u])'
  BY DEF IInv
<1> QED BY <1>4, <1>6, <1>9, <1>10 DEF IInv

(* A step that only changes where a process is.                            *)
LEMMA GotoStep ==
    ASSUME IInv, NEW p \in Procs, NEW l \in Locations \ {"idle"}, pc[p] # "idle",
           Goto(p, l), UNCHANGED <<refs, published, work, issued, acked, rejected>>,
           exposed' \subseteq Commands, Running(p)'
    PROVE  IInv'
<1>1. work[p] \in Work /\ work' = [work EXCEPT ![p] = work[p]]
  BY DEF IInv, TypeOK
<1>2. pc' = [pc EXCEPT ![p] = l]
  BY DEF Goto
<1> QED BY <1>1, <1>2, LocalStep

(* A read that ends with a document to edit: the base it found is a state   *)
(* its thread has been in.                                                 *)
LEMMA ReadStep ==
    ASSUME IInv, NEW p \in Procs, pc[p] \in {"read_auth", "read_published"},
           NEW d \in Bases(refs[work[p].thread]),
           Goto(p, "resolve"),
           work' = [work EXCEPT ![p].doc = Edited(d, work[p].by)],
           UNCHANGED <<refs, published, issued, acked, rejected, exposed>>
    PROVE  IInv'
<1> DEFINE w == [work[p] EXCEPT !.doc = Edited(d, work[p].by)]
<1>1. Running(p)
  BY DEF IInv, ProcsOK, Idle
<1>2. work[p] \in Work /\ work[p].by \in Commands /\ work[p].thread \in Threads
  BY <1>1 DEF Running, IInv, TypeOK
<1>3. d \in Doc
  BY <1>2, HistoryTypes DEF IInv, TypeOK
<1>4. Edited(d, work[p].by) \in Doc
  BY <1>2, <1>3, EditedType
<1>5. w \in Work
  BY <1>2, <1>4 DEF Work
<1>6. /\ w.thread = work[p].thread
      /\ w.by = work[p].by
      /\ w.pinned = work[p].pinned
      /\ w.doc = Edited(d, work[p].by)
  BY <1>2 DEF Work
<1>7. work' = [work EXCEPT ![p] = w]
  BY DEF IInv, TypeOK
<1> HIDE DEF w
<1>8. pc' = [pc EXCEPT ![p] = "resolve"] /\ pc'[p] = "resolve" /\ work'[p] = w
  BY <1>7 DEF Goto, IInv, TypeOK
<1>9. HoldsEdit(p)'
  BY <1>6, <1>8 DEF HoldsEdit
<1>10. \A x : IsLogged(x)' <=> IsLogged(x)
  BY DEF IsLogged
<1>11. Running(p)'
  BY <1>1, <1>6, <1>8, <1>9, <1>10 DEF Running
<1>12. "resolve" \in Locations
  BY DEF Locations
<1>13. exposed' \subseteq Commands
  BY DEF IInv, TypeOK
<1> QED BY <1>5, <1>6, <1>7, <1>8, <1>11, <1>12, <1>13, LocalStep

(* The parent is recorded, with the document a migration builds from it.    *)
LEMMA ResolveStep ==
    ASSUME IInv, NEW p \in Procs, ResolveParent(p)
    PROVE  IInv'
<1> USE DEF ResolveParent
<1> DEFINE w == [work[p] EXCEPT !.parent = refs[work[p].thread]]
<1>1. Running(p)
  BY DEF IInv, ProcsOK, Idle
<1>2. work[p] \in Work /\ refs[work[p].thread] \in Seq(Commit)
  BY <1>1 DEF Running, IInv, TypeOK
<1>3. w \in Work
  BY <1>2 DEF Work
<1>4. /\ w.thread = work[p].thread
      /\ w.by = work[p].by
      /\ w.pinned = work[p].pinned
      /\ w.doc = work[p].doc
  BY <1>2 DEF Work
<1>5. work' = [work EXCEPT ![p] = w]
  BY DEF IInv, TypeOK
<1> HIDE DEF w
<1>6. pc' = [pc EXCEPT ![p] = "move"] /\ pc'[p] = "move" /\ work'[p] = w
  BY <1>5 DEF Goto, IInv, TypeOK
<1>7. HoldsEdit(p) /\ ~work[p].pinned
  BY <1>1 DEF Running
<1>8. HoldsEdit(p)'
  BY <1>4, <1>6, <1>7 DEF HoldsEdit
<1>9. \A x : IsLogged(x)' <=> IsLogged(x)
  BY DEF IsLogged
<1>10. Running(p)'
  BY <1>1, <1>4, <1>6, <1>7, <1>8, <1>9 DEF Running
<1>11. "move" \in Locations
  BY DEF Locations
<1>12. exposed' \subseteq Commands
  BY DEF IInv, TypeOK
<1> QED BY <1>3, <1>4, <1>5, <1>6, <1>10, <1>11, <1>12, LocalStep

LEMMA PinStep ==
    ASSUME IInv, NEW p \in Procs, Pin(p)
    PROVE  IInv'
<1> USE DEF Pin
<1> DEFINE h == refs[work[p].thread]
           w == [work[p] EXCEPT !.doc = Projection(h), !.pinned = TRUE, !.parent = h]
<1>1. Running(p)
  BY DEF IInv, ProcsOK, Idle
<1>2. work[p] \in Work /\ h \in Seq(Commit)
  BY <1>1 DEF Running, IInv, TypeOK
<1>3. Projection(h) \in Doc
  BY <1>2, HistoryTypes
<1>4. w \in Work
  BY <1>2, <1>3 DEF Work
<1>5. /\ w.thread = work[p].thread
      /\ w.by = work[p].by
      /\ w.pinned = TRUE
      /\ w.parent = h
      /\ w.doc = Projection(h)
  BY <1>2 DEF Work
<1>6. work' = [work EXCEPT ![p] = w]
  BY DEF IInv, TypeOK
<1> HIDE DEF w
<1>7. pc' = [pc EXCEPT ![p] = "move"] /\ pc'[p] = "move" /\ work'[p] = w
  BY <1>6 DEF Goto, IInv, TypeOK
<1>8. \A x : IsLogged(x)' <=> IsLogged(x)
  BY DEF IsLogged
<1>9. Running(p)'
  BY <1>1, <1>5, <1>7, <1>8 DEF Running
<1>10. "move" \in Locations
  BY DEF Locations
<1>11. exposed' \subseteq Commands
  BY DEF IInv, TypeOK
<1> QED BY <1>4, <1>5, <1>6, <1>7, <1>9, <1>10, <1>11, LocalStep

(* A command that ends without a word to its caller, or dies.              *)
LEMMA SilentStep ==
    ASSUME IInv, NEW p \in Procs, ReturnUnchanged(p)
    PROVE  IInv'
<1> USE DEF ReturnUnchanged, Leave
<1>1. NoWork \in Work /\ "idle" \in Locations
  BY EmptyHistory DEF NoWork, Work, Doc, EmptyDoc, Locations
<1>2. Idle(p)' /\ exposed' \subseteq Commands
  BY DEF Idle, IInv, TypeOK
<1> QED BY <1>1, <1>2, LocalStep

LEMMA ReadInv ==
    ASSUME IInv, NEW p \in Procs, Read(p)
    PROVE  IInv'
<1>1. Idle(p) \/ Running(p)
  BY DEF IInv, ProcsOK
<1>2. CASE ReadAuthSnapshot(p)
  <2> DEFINE h == refs[work[p].thread]
  <2>1. Running(p) /\ h \in Seq(Commit)
    BY <1>1, <1>2 DEF ReadAuthSnapshot, Idle, Running, IInv, TypeOK
  <2>2. Len(h) \in DOMAIN h /\ IsSnapshot(h[Len(h)])
    BY <1>2, <2>1, EmptySeq, LenProperties DEF ReadAuthSnapshot, Tip
  <2>3. Tip(h).doc \in Bases(h)
    BY <2>2 DEF Bases, Tip
  <2> QED BY <1>2, <2>3, ReadStep DEF ReadAuthSnapshot
<1>3. CASE ReadAuthEvent(p)
  BY <1>3, ErrorStep DEF ReadAuthEvent
<1>4. CASE ReadAuthAbsent(p)
  <2>1. Running(p)'
    BY <1>1, <1>4 DEF ReadAuthAbsent, Goto, Idle, Running, IsLogged, HoldsEdit, IInv, TypeOK
  <2>2. work[p].by \in Commands /\ exposed \subseteq Commands
    BY <1>1, <1>4 DEF ReadAuthAbsent, Idle, Running, IInv, TypeOK
  <2>3. exposed' \subseteq Commands
    BY <1>4, <2>2 DEF ReadAuthAbsent
  <2> QED BY <1>4, <2>1, <2>3, GotoStep DEF ReadAuthAbsent, Locations
<1>5. CASE ReadPublishedSnapshot(p)
  <2>1. SanitizedDoc \in Bases(refs[work[p].thread])
    BY DEF Bases
  <2> QED BY <1>5, <2>1, ReadStep DEF ReadPublishedSnapshot
<1>6. CASE ReadPublishedAbsent(p)
  BY <1>6, ErrorStep DEF ReadPublishedAbsent
<1> QED BY <1>2, <1>3, <1>4, <1>5, <1>6 DEF Read

LEMMA ResolveInv ==
    ASSUME IInv, NEW p \in Procs, Resolve(p)
    PROVE  IInv'
<1>1. Idle(p) \/ Running(p)
  BY DEF IInv, ProcsOK
<1>2. CASE ResolveParent(p)
  BY <1>2, ResolveStep
<1>3. CASE ResolveNoParent(p)
  <2>1. Running(p)'
    BY <1>1, <1>3 DEF ResolveNoParent, Goto, Idle, Running, IsLogged, HoldsEdit, IInv, TypeOK
  <2> QED BY <1>3, <2>1, GotoStep DEF ResolveNoParent, Locations, IInv, TypeOK
<1>4. CASE RefuseToPromote(p)
  BY <1>4, ErrorStep DEF RefuseToPromote
<1>5. CASE NothingPublished(p)
  <2>1. Running(p)'
    BY <1>1, <1>5 DEF NothingPublished, Goto, Idle, Running, IsLogged, HoldsEdit, IInv, TypeOK
  <2>2. work[p].by \in Commands /\ exposed \subseteq Commands
    BY <1>1, <1>5 DEF NothingPublished, Idle, Running, IInv, TypeOK
  <2>3. exposed' \subseteq Commands
    BY <1>5, <2>2 DEF NothingPublished
  <2> QED BY <1>5, <2>1, <2>3, GotoStep DEF NothingPublished, Locations
<1> QED BY <1>2, <1>3, <1>4, <1>5 DEF Resolve

LEMMA MigrateInv ==
    ASSUME IInv, NEW p \in Procs, Migrate(p)
    PROVE  IInv'
<1>1. Idle(p) \/ Running(p)
  BY DEF IInv, ProcsOK
<1>2. CASE ProbeEvent(p)
  <2>1. Running(p)'
    BY <1>1, <1>2 DEF ProbeEvent, Goto, Idle, Running, IsLogged, HoldsEdit, IInv, TypeOK
  <2> QED BY <1>2, <2>1, GotoStep DEF ProbeEvent, Locations, IInv, TypeOK
<1>3. CASE ProbeAlreadyMigrated(p)
  BY <1>3, SilentStep DEF ProbeAlreadyMigrated
<1>4. CASE ProbeAbsent(p)
  <2>1. Running(p)'
    BY <1>1, <1>4 DEF ProbeAbsent, Goto, Idle, Running, IsLogged, HoldsEdit, IInv, TypeOK
  <2> QED BY <1>4, <2>1, GotoStep DEF ProbeAbsent, Locations, IInv, TypeOK
<1>5. CASE ProbePublished(p)
  <2>1. pc[p] \notin {"idle", "moved"}
    BY <1>5 DEF ProbePublished
  <2>2. ReturnUnchanged(p) \/ ReturnErr(p)
    BY <1>5 DEF ProbePublished
  <2> QED BY <2>1, <2>2, SilentStep, ErrorStep
<1>6. CASE Pin(p)
  BY <1>6, PinStep
<1>7. CASE PinAbsent(p)
  BY <1>7, ErrorStep DEF PinAbsent
<1> QED BY <1>2, <1>3, <1>4, <1>5, <1>6, <1>7 DEF Migrate

LEMMA StartInv ==
    ASSUME IInv, NEW p \in Procs, Start(p)
    PROVE  IInv'
<1>1. PICK c \in Commands, t \in Threads :
          StartEdit(p, c, t) \/ StartNew(p, c, t) \/ StartMigrate(p, c, t)
  BY DEF Start
<1>2. EmptyDoc \in Doc
  BY DEF EmptyDoc, Doc
<1>3. Edited(EmptyDoc, c) \in Doc
  BY <1>2, EditedType
<1>4. CASE StartEdit(p, c, t)
  BY <1>2, <1>4, BeginStep DEF StartEdit
<1>5. CASE StartNew(p, c, t)
  BY <1>3, <1>5, BeginStep DEF StartNew
<1>6. CASE StartMigrate(p, c, t)
  BY <1>2, <1>6, BeginStep DEF StartMigrate
<1> QED BY <1>1, <1>4, <1>5, <1>6

(* The commands that the surroundings expose are commands.                  *)
LEMMA ExposedType ==
    ASSUME IInv, NEW t \in Threads
    PROVE  /\ exposed \subseteq Commands
           /\ FallingBack(t) \subseteq Commands
           /\ HoldingProjection(t) \subseteq Commands
<1>1. \A q \in Procs : work[q].thread = t => work[q].by \in Commands
  BY NoneAssumption DEF IInv, TypeOK, ProcsOK, Idle, Running, NoWork
<1> QED BY <1>1 DEF FallingBack, HoldingProjection, IInv, TypeOK

LEMMA SurroundingsInv ==
    ASSUME IInv, Surroundings
    PROVE  IInv'
<1>1. CASE \E c \in Commands, t \in Threads : LegacyWrite(c, t) \/ FetchThread(c, t)
  <2>1. PICK c \in Commands, t \in Threads : LegacyWrite(c, t) \/ FetchThread(c, t)
    BY <1>1
  <2>2. EmptyDoc \in Doc /\ Edited(EmptyDoc, c) \in Doc
    BY EditedType DEF EmptyDoc, Doc
  <2>3. CASE LegacyWrite(c, t)
    <3> DEFINE e == [kind |-> "event", by |-> c, doc |-> EmptyDoc, archive |-> {}]
    <3>1. e \in Commit /\ e.by = c /\ CommitOK(e, refs[t])
      BY <2>2 DEF Commit, CommitOK
    <3>2. /\ c \notin issued /\ issued' = issued \cup {c}
          /\ refs' = [refs EXCEPT ![t] = Append(refs[t], e)]
          /\ UNCHANGED <<published, pc, work, acked, rejected>>
          /\ exposed' \subseteq Commands
      BY <2>3 DEF LegacyWrite, IInv, TypeOK
    <3> HIDE DEF e
    <3> QED BY <3>1, <3>2, OutsideCommit
  <2>4. CASE FetchThread(c, t)
    <3> DEFINE e == [kind |-> "edit", by |-> c, archive |-> {}, doc |-> Edited(EmptyDoc, c)]
    <3>1. e \in Commit /\ e.by = c /\ e.kind = "edit" /\ e.archive = {}
          /\ e.doc = Edited(EmptyDoc, c)
      BY <2>2 DEF Commit
    <3>2. /\ c \notin issued /\ issued' = issued \cup {c}
          /\ refs[t] = <<>>
          /\ refs' = [refs EXCEPT ![t] = Append(refs[t], e)]
          /\ UNCHANGED <<published, pc, work, acked, rejected>>
          /\ exposed' \subseteq Commands
      BY <2>4, ExposedType DEF FetchThread
    <3>3. ParentArchive(refs[t]) = {} /\ EmptyDoc \in Bases(refs[t])
      BY <3>2 DEF ParentArchive, Bases
    <3> HIDE DEF e
    <3>4. CommitOK(e, refs[t])
      BY <3>1, <3>3 DEF CommitOK
    <3> QED BY <3>1, <3>2, <3>4, OutsideCommit
  <2> QED BY <2>1, <2>3, <2>4
<1>2. CASE \E t \in Threads : PublishedAppears(t) \/ PublishedVanishes(t)
  <2>1. /\ UNCHANGED <<refs, pc, work, issued, acked, rejected>>
        /\ published' \subseteq Threads
        /\ exposed' \subseteq Commands
    BY <1>2, ExposedType DEF PublishedAppears, PublishedVanishes, IInv, TypeOK
  <2>2. \A x : IsLogged(x)' <=> IsLogged(x)
    BY <2>1 DEF IsLogged
  <2>3. TypeOK' /\ IssuedOK' /\ OutcomesTrue'
    BY <2>1, <2>2 DEF IInv, TypeOK, IssuedOK, OutcomesTrue
  <2>4. \A q \in Procs : (Idle(q) => Idle(q)') /\ (Running(q) => Running(q)')
    BY <2>1, <2>2 DEF Idle, Running, HoldsEdit
  <2>5. ProcsOK'
    BY <2>1, <2>4 DEF IInv, ProcsOK
  <2>6. \A t \in Threads : HistoryOK(refs[t])'
    BY <2>1 DEF IInv
  <2> QED BY <2>3, <2>5, <2>6 DEF IInv
<1> QED BY <1>1, <1>2 DEF Surroundings

LEMMA NextInv == IInv /\ [Next]_vars => IInv'
<1> SUFFICES ASSUME IInv, [Next]_vars PROVE IInv'
  OBVIOUS
<1>1. ASSUME NEW p \in Procs, Start(p) PROVE IInv'
  BY <1>1, StartInv
<1>2. ASSUME NEW p \in Procs, Continue(p) PROVE IInv'
  <2>1. CASE Move(p)
    <3>1. CASE MoveRef(p)
      BY <3>1, MoveStep
    <3>2. CASE Conflict(p)
      BY <3>2, ErrorStep DEF Conflict
    <3>3. CASE ReturnOk(p)
      BY <3>3, OkStep
    <3> QED BY <2>1, <3>1, <3>2, <3>3 DEF Move
  <2> QED BY <1>2, <2>1, ReadInv, ResolveInv, MigrateInv DEF Continue
<1>3. ASSUME NEW p \in Procs, GitFails(p) PROVE IInv'
  BY <1>3, ErrorStep DEF GitFails
<1>4. ASSUME NEW p \in Procs, Crash(p) PROVE IInv'
  BY <1>4, SilentStep DEF Crash
<1>5. CASE UNCHANGED vars
  <2>1. UNCHANGED <<refs, published, pc, work, issued, acked, rejected, exposed>>
    BY <1>5 DEF vars
  <2>2. TypeOK' /\ IssuedOK' /\ OutcomesTrue'
    BY <2>1 DEF IInv, TypeOK, IssuedOK, OutcomesTrue, IsLogged
  <2>3. ProcsOK'
    BY <2>1 DEF IInv, ProcsOK, Idle, Running, HoldsEdit, IsLogged
  <2>4. \A t \in Threads : HistoryOK(refs[t])'
    BY <2>1 DEF IInv
  <2> QED BY <2>2, <2>3, <2>4 DEF IInv
<1> QED BY <1>1, <1>2, <1>3, <1>4, <1>5, SurroundingsInv DEF Next

-----------------------------------------------------------------------------
(* The theorems.                                                           *)

THEOREM StoreInvariant == Spec => []IInv
BY InitInv, NextInv, PTL DEF Spec

(* Every variable of the store stays in its type.                          *)
THEOREM StoreTypes == Spec => []TypeOK
BY StoreInvariant, PTL DEF IInv

(* Ok means recorded and an error means never recorded, whatever processes  *)
(* race, crash or find git failing (write_snapshot_inner, process_one).    *)
THEOREM StoreOutcomes == Spec => []OutcomesTrue
BY StoreInvariant, PTL DEF IInv

(* A migration snapshot shows and archives exactly the history it is placed *)
(* on (write_snapshot_with_archive_pinned).                                *)
THEOREM StoreMigrations == Spec => []MigrationFaithful
<1>1. IInv => MigrationFaithful
  BY DEF IInv, HistoryOK, CommitOK, MigrationFaithful
<1> QED BY <1>1, StoreInvariant, PTL

(* A normal write keeps the archive of the commit it lands on              *)
(* (ArchiveSource::PreserveParent).                                        *)
THEOREM StoreArchives == Spec => []ArchivePreserved
<1>1. IInv => ArchivePreserved
  BY DEF IInv, HistoryOK, CommitOK, ArchivePreserved
<1> QED BY <1>1, StoreInvariant, PTL

(* A normal write commits its edit of one earlier state of its thread, never *)
(* a mixture of several (read_snapshot, write_snapshot).                   *)
THEOREM StoreEdits == Spec => []EditsOneState
<1>1. IInv => EditsOneState
  BY DEF IInv, HistoryOK, CommitOK, EditsOneState
<1> QED BY <1>1, StoreInvariant, PTL

-----------------------------------------------------------------------------
(* Published projections. A document read from a projection is held by a    *)
(* command that cannot move the ref, unless the command is exposed; and a   *)
(* command that is about to create its ref has the thread to itself.       *)

(* This clone has the published projection of thread t and nothing else.    *)
Vacant(t) == refs[t] = <<>> /\ t \in published

Tainted(t) == \E i \in DOMAIN refs[t] : refs[t][i].doc.sanitized /\ refs[t][i].by \in exposed

(* The command of process p, or one it may have read from, is exposed.      *)
Doubtful(p) == work[p].by \in exposed \/ Tainted(work[p].thread)

Creating(p) ==
    /\ pc[p] \in {"resolve", "check_published", "move"}
    /\ ~work[p].doc.sanitized
    /\ refs[work[p].thread] = <<>>

Alone(p) ==
    /\ work[p].doc = Edited(EmptyDoc, work[p].by)
    /\ work[p].thread \notin published
    /\ \A q \in Procs : q # p => work[q].thread # work[p].thread

KeepsApart(p) ==
    /\ work[p].doc.sanitized =>
           \/ Vacant(work[p].thread) /\ pc[p] \in {"resolve", "check_published"}
           \/ Doubtful(p)
    /\ pc[p] = "read_published" => refs[work[p].thread] = <<>> \/ Doubtful(p)
    /\ Creating(p) => Alone(p)

ApartInv == NoPromotion /\ \A p \in Procs : KeepsApart(p)

LEMMA ApartInit == Init => ApartInv
<1> SUFFICES ASSUME Init PROVE ApartInv
  OBVIOUS
<1>1. NoPromotion
  BY EmptyHistory DEF Init, NoPromotion
<1>2. ASSUME NEW p \in Procs PROVE KeepsApart(p)
  BY DEF Init, KeepsApart, Creating, NoWork, EmptyDoc
<1> QED BY <1>1, <1>2 DEF ApartInv

(* A sanitized commit in a history makes its thread tainted.               *)
LEMMA SanitizedTaints ==
    ASSUME NoPromotion, TypeOK, NEW t \in Threads,
           NEW i \in DOMAIN refs[t], refs[t][i].doc.sanitized
    PROVE  Tainted(t)
<1>1. refs[t] \in Seq(Commit)
  BY DEF TypeOK
<1>2. DOMAIN refs[t] = 1..Len(refs[t]) /\ Len(refs[t]) \in Nat
  BY <1>1
<1>3. PICK j \in 1..i : refs[t][j].doc.sanitized /\ refs[t][j].by \in exposed
  BY DEF NoPromotion
<1>4. j \in DOMAIN refs[t]
  BY <1>2, <1>3
<1> QED BY <1>3, <1>4 DEF Tainted

(* Who works on a thread is running.                                       *)
LEMMA CreatorRuns ==
    ASSUME IInv, NEW p \in Procs, pc[p] # "idle"
    PROVE  /\ work[p].thread \in Threads /\ work[p].thread # None
           /\ work[p].by \in Commands
BY NoneAssumption DEF IInv, TypeOK, ProcsOK, Idle, Running

(* A step of one process that moves no ref.                                *)
LEMMA ApartLocal ==
    ASSUME IInv, ApartInv, NEW p \in Procs,
           \A q \in Procs : q # p => pc'[q] = pc[q] /\ work'[q] = work[q],
           UNCHANGED <<refs, published>>, exposed \subseteq exposed',
           KeepsApart(p)',
           \A q \in Procs : q # p /\ Creating(q) => work'[p].thread # work[q].thread
    PROVE  ApartInv'
<1>1. NoPromotion'
  BY DEF ApartInv, NoPromotion
<1>2. ASSUME NEW q \in Procs, q # p PROVE KeepsApart(q)'
  <2>1. pc'[q] = pc[q] /\ work'[q] = work[q] /\ KeepsApart(q)
    BY <1>2 DEF ApartInv
  <2>2. Doubtful(q) => Doubtful(q)'
    BY <2>1 DEF Doubtful, Tainted
  <2>3. Vacant(work[q].thread)' <=> Vacant(work[q].thread)
    BY <2>1 DEF Vacant
  <2>4. Creating(q)' => Creating(q)
    BY <2>1 DEF Creating
  <2>5. ASSUME Creating(q) PROVE Alone(q)'
    <3>1. Alone(q)
      BY <2>1, <2>5 DEF KeepsApart
    <3>2. ASSUME NEW r \in Procs, r # q PROVE work'[r].thread # work[q].thread
      BY <1>2, <2>5, <3>1, <3>2 DEF Alone
    <3> QED BY <2>1, <3>1, <3>2 DEF Alone
  <2> QED BY <2>1, <2>2, <2>3, <2>4, <2>5 DEF KeepsApart, Vacant
<1> QED BY <1>1, <1>2 DEF ApartInv

(* The same, for a process that stays on its thread.                       *)
LEMMA ApartOnThread ==
    ASSUME IInv, ApartInv, NEW p \in Procs, pc[p] # "idle",
           NEW l, NEW w, w.thread = work[p].thread,
           pc' = [pc EXCEPT ![p] = l], work' = [work EXCEPT ![p] = w],
           UNCHANGED <<refs, published>>, exposed \subseteq exposed',
           KeepsApart(p)'
    PROVE  ApartInv'
<1>1. /\ \A q \in Procs : q # p => pc'[q] = pc[q] /\ work'[q] = work[q]
      /\ work'[p].thread = work[p].thread
  BY DEF IInv, TypeOK
<1>2. \A q \in Procs : q # p /\ Creating(q) => work'[p].thread # work[q].thread
  BY <1>1 DEF ApartInv, KeepsApart, Alone
<1> QED BY <1>1, <1>2, ApartLocal

LEMMA ApartGoto ==
    ASSUME IInv, ApartInv, NEW p \in Procs, pc[p] # "idle", NEW l,
           Goto(p, l), UNCHANGED <<refs, published, work>>, exposed \subseteq exposed',
           KeepsApart(p)'
    PROVE  ApartInv'
<1>1. work' = [work EXCEPT ![p] = work[p]]
  BY DEF IInv, TypeOK
<1> QED BY <1>1, ApartOnThread DEF Goto

LEMMA ApartLeave ==
    ASSUME IInv, ApartInv, NEW p \in Procs, Leave(p), UNCHANGED <<refs, published, exposed>>
    PROVE  ApartInv'
<1>1. /\ pc'[p] = "idle" /\ work'[p] = NoWork
      /\ \A q \in Procs : q # p => pc'[q] = pc[q] /\ work'[q] = work[q]
  BY DEF Leave, IInv, TypeOK
<1>2. KeepsApart(p)'
  BY <1>1 DEF KeepsApart, Creating, NoWork, EmptyDoc
<1>3. \A q \in Procs : q # p /\ Creating(q) => work'[p].thread # work[q].thread
  BY <1>1, CreatorRuns DEF Creating, NoWork
<1> QED BY <1>1, <1>2, <1>3, ApartLocal

LEMMA EditedSanitized ==
    ASSUME NEW d \in Doc, NEW c PROVE Edited(d, c).sanitized = d.sanitized
BY DEF Edited, Doc

(* A commit that is not sanitized unless it or one below it is exposed, on   *)
(* a thread that is not empty or that nobody else works on.                *)
LEMMA ApartAppend ==
    ASSUME IInv, ApartInv, NEW t \in Threads, NEW c \in Commit,
           c.doc.sanitized => c.by \in exposed \/ Tainted(t),
           refs' = [refs EXCEPT ![t] = Append(refs[t], c)],
           exposed \subseteq exposed', UNCHANGED <<published, work>>,
           \A q \in Procs : pc'[q] = pc[q] \/ (pc[q] = "move" /\ pc'[q] = "moved"),
           refs[t] = <<>> =>
               \A q \in Procs : work[q].thread = t /\ ~Doubtful(q)' =>
                   ~work[q].doc.sanitized /\ pc[q] # "read_published"
    PROVE  ApartInv'
<1>1. refs[t] \in Seq(Commit)
  BY DEF IInv, TypeOK
<1>2. refs'[t] = Append(refs[t], c) /\ \A u \in Threads : u # t => refs'[u] = refs[u]
  BY DEF IInv, TypeOK
<1>3. /\ refs'[t] # <<>>
      /\ Len(refs[t]) + 1 \in DOMAIN refs'[t] /\ refs'[t][Len(refs[t]) + 1] = c
      /\ \A i \in DOMAIN refs[t] : i \in DOMAIN refs'[t] /\ refs'[t][i] = refs[t][i]
      /\ \A i \in DOMAIN refs'[t] : i \in DOMAIN refs[t] \/ i = Len(refs[t]) + 1
  BY <1>1, <1>2, AppendBelow, EmptyHistory
<1>4. ASSUME NEW u \in Threads, Tainted(u) PROVE Tainted(u)'
  BY <1>2, <1>3, <1>4 DEF Tainted
<1>5. DOMAIN refs[t] = 1..Len(refs[t]) /\ Len(refs[t]) \in Nat
  BY <1>1
<1>6. ASSUME NEW u \in Threads, NEW i \in DOMAIN refs'[u], refs'[u][i].doc.sanitized
      PROVE  \E j \in 1..i : refs'[u][j].doc.sanitized /\ refs'[u][j].by \in exposed'
  <2>1. CASE u # t
    BY <1>2, <1>6, <2>1 DEF ApartInv, NoPromotion
  <2>2. CASE u = t /\ i \in DOMAIN refs[t]
    <3>1. PICK j \in 1..i : refs[t][j].doc.sanitized /\ refs[t][j].by \in exposed
      BY <1>3, <1>6, <2>2 DEF ApartInv, NoPromotion
    <3>2. j \in DOMAIN refs[t]
      BY <1>5, <2>2, <3>1
    <3> QED BY <1>3, <2>2, <3>1, <3>2
  <2>3. CASE u = t /\ i = Len(refs[t]) + 1
    <3>1. CASE c.by \in exposed
      BY <1>3, <1>5, <1>6, <2>3, <3>1
    <3>2. CASE Tainted(t)
      <4>1. PICK j \in DOMAIN refs[t] : refs[t][j].doc.sanitized /\ refs[t][j].by \in exposed
        BY <3>2 DEF Tainted
      <4>2. j \in 1..i
        BY <1>5, <2>3, <4>1
      <4> QED BY <1>3, <2>3, <4>1, <4>2
    <3> QED BY <1>3, <1>6, <2>3, <3>1, <3>2
  <2> QED BY <1>3, <1>6, <2>1, <2>2, <2>3
<1>7. NoPromotion'
  BY <1>6 DEF NoPromotion
<1>8. ASSUME NEW q \in Procs PROVE KeepsApart(q)'
  <2>1. KeepsApart(q) /\ work'[q] = work[q]
    BY DEF ApartInv
  <2>2. CASE pc[q] = "idle"
    BY <2>1, <2>2 DEF KeepsApart, Creating, IInv, ProcsOK, Idle, Running, NoWork, EmptyDoc
  <2>3. CASE pc[q] # "idle"
    <3>1. work[q].thread \in Threads
      BY <2>3, CreatorRuns
    <3>2. Doubtful(q) => Doubtful(q)'
      BY <1>4, <2>1, <3>1 DEF Doubtful
    <3>3. Creating(q)' => Creating(q) /\ Alone(q)'
      <4>1. Creating(q)' => work[q].thread # t /\ pc'[q] = pc[q]
        BY <1>3, <2>1 DEF Creating
      <4>2. Creating(q)' => Creating(q)
        BY <1>2, <2>1, <3>1, <4>1 DEF Creating
      <4>3. Creating(q) => Alone(q)
        BY <2>1 DEF KeepsApart
      <4>4. Alone(q) => Alone(q)'
        BY DEF Alone
      <4> QED BY <4>2, <4>3, <4>4
    <3>4. CASE work[q].thread # t
      <4>1. refs'[work[q].thread] = refs[work[q].thread]
        BY <1>2, <3>1, <3>4
      <4>2. pc'[q] \in {"resolve", "check_published", "read_published"} => pc'[q] = pc[q]
        OBVIOUS
      <4>3. work[q].doc.sanitized /\ pc[q] = "move" => Doubtful(q)
        BY <2>1 DEF KeepsApart
      <4> QED BY <2>1, <3>2, <3>3, <4>1, <4>2, <4>3 DEF KeepsApart, Vacant
    <3>5. CASE work[q].thread = t
      <4>1. work[q].doc.sanitized => Doubtful(q)'
        BY <2>1, <3>2, <3>5 DEF KeepsApart, Vacant
      <4>2. pc'[q] = "read_published" => Doubtful(q)'
        BY <2>1, <3>2, <3>5 DEF KeepsApart, Doubtful
      <4> QED BY <2>1, <3>3, <4>1, <4>2 DEF KeepsApart
    <3> QED BY <3>4, <3>5
  <2> QED BY <2>2, <2>3
<1> QED BY <1>7, <1>8 DEF ApartInv

LEMMA ApartMove ==
    ASSUME IInv, ApartInv, NEW p \in Procs, MoveRef(p)
    PROVE  ApartInv'
<1> USE DEF MoveRef
<1> DEFINE t == work[p].thread
           c == NewCommit(p)
<1>1. pc[p] = "move" /\ t \in Threads
  BY CreatorRuns
<1>2. c \in Commit /\ c.by = work[p].by /\ refs[t] = work[p].parent
  BY NewCommitOK DEF HoldsExpected
<1>3. c.doc = work[p].doc
  BY DEF NewCommit
<1>4. work[p].doc.sanitized => Doubtful(p)
  BY <1>1 DEF ApartInv, KeepsApart
<1>5. c.doc.sanitized => c.by \in exposed \/ Tainted(t)
  BY <1>2, <1>3, <1>4 DEF Doubtful
<1>6. refs' = [refs EXCEPT ![t] = Append(refs[t], c)]
  BY <1>2
<1>7. /\ pc'[p] = "moved"
      /\ \A q \in Procs : q # p => pc'[q] = pc[q]
  BY DEF Goto, IInv, TypeOK
<1>8. ASSUME NEW q \in Procs, q # p, work[q].thread = t, refs[t] = <<>>
      PROVE  Doubtful(q)'
  <2>1. work[p].doc.sanitized
    BY <1>1, <1>8 DEF ApartInv, KeepsApart, Creating, Alone
  <2>2. ~Tainted(t)
    BY <1>8, EmptyHistory DEF Tainted
  <2>3. c.doc.sanitized /\ c.by \in exposed
    BY <1>2, <1>3, <1>4, <2>1, <2>2 DEF Doubtful
  <2>4. refs[t] \in Seq(Commit) /\ refs'[t] = Append(refs[t], c)
    BY <1>1, <1>6 DEF IInv, TypeOK
  <2> HIDE DEF c
  <2>5. Len(refs[t]) + 1 \in DOMAIN refs'[t] /\ refs'[t][Len(refs[t]) + 1] = c
    BY <1>2, <2>4, AppendBelow
  <2>6. exposed' = exposed
    OBVIOUS
  <2>7. Tainted(t)'
    BY <2>3, <2>5, <2>6 DEF Tainted
  <2> QED BY <1>8, <2>7 DEF Doubtful
<1>9. ASSUME refs[t] = <<>>, NEW q \in Procs, work[q].thread = t, ~Doubtful(q)'
      PROVE  ~work[q].doc.sanitized /\ pc[q] # "read_published"
  <2>1. q = p
    BY <1>8, <1>9
  <2>2. ~Tainted(t)
    BY <1>9, EmptyHistory DEF Tainted
  <2>3. ~Doubtful(p)
    BY <1>9, <2>1, <2>2 DEF Doubtful
  <2> QED BY <1>1, <1>4, <2>1, <2>3
<1>10. \A q \in Procs : pc'[q] = pc[q] \/ (pc[q] = "move" /\ pc'[q] = "moved")
  BY <1>1, <1>7
<1>11. exposed \subseteq exposed' /\ UNCHANGED <<published, work>>
  OBVIOUS
<1>12. refs[t] = <<>> =>
           \A q \in Procs : work[q].thread = t /\ ~Doubtful(q)' =>
               ~work[q].doc.sanitized /\ pc[q] # "read_published"
  BY <1>9
<1> HIDE DEF c, t, MoveRef
<1> QED BY <1>1, <1>2, <1>5, <1>6, <1>10, <1>11, <1>12, ApartAppend

LEMMA ApartRead ==
    ASSUME IInv, ApartInv, NEW p \in Procs, Read(p)
    PROVE  ApartInv'
<1> DEFINE t == work[p].thread
<1>1. TypeOK /\ KeepsApart(p)
  BY DEF IInv, ApartInv
<1>2. pc[p] # "idle" /\ t \in Threads /\ work[p] \in Work /\ work[p].by \in Commands
  BY <1>1, CreatorRuns DEF Read, ReadAuthSnapshot, ReadAuthEvent, ReadAuthAbsent,
     ReadPublishedSnapshot, ReadPublishedAbsent, TypeOK
<1>3. CASE ReadAuthSnapshot(p)
  <2> DEFINE d == Edited(Tip(refs[t]).doc, work[p].by)
             w == [work[p] EXCEPT !.doc = d]
  <2>1. refs[t] \in Seq(Commit) /\ Len(refs[t]) \in DOMAIN refs[t] /\ refs[t] # <<>>
    BY <1>1, <1>2, <1>3, EmptySeq, LenProperties DEF ReadAuthSnapshot, TypeOK
  <2>2. Tip(refs[t]) \in Commit /\ Tip(refs[t]) = refs[t][Len(refs[t])]
    BY <2>1 DEF Tip
  <2>3. d.sanitized => Tainted(t)
    BY <1>1, <1>2, <2>1, <2>2, EditedSanitized, SanitizedTaints DEF Commit, ApartInv
  <2>4. w.thread = t /\ w.doc = d
    BY <1>2 DEF Work
  <2>5. work' = [work EXCEPT ![p] = w] /\ pc' = [pc EXCEPT ![p] = "resolve"]
        /\ UNCHANGED <<refs, published, exposed>>
    BY <1>1, <1>3 DEF ReadAuthSnapshot, Goto, TypeOK
  <2> HIDE DEF w, d
  <2>6. work'[p] = w /\ pc'[p] = "resolve"
    BY <1>1, <2>5 DEF TypeOK
  <2>7. Tainted(t) => Doubtful(p)'
    BY <2>4, <2>5, <2>6 DEF Doubtful, Tainted
  <2>8. KeepsApart(p)'
    BY <2>1, <2>3, <2>4, <2>5, <2>6, <2>7 DEF KeepsApart, Creating
  <2> QED BY <1>2, <2>4, <2>5, <2>8, ApartOnThread
<1>4. CASE ReadAuthEvent(p) \/ ReadPublishedAbsent(p)
  BY <1>4, ApartLeave DEF ReadAuthEvent, ReadPublishedAbsent, ReturnErr
<1>5. CASE ReadAuthAbsent(p)
  <2>1. /\ pc'[p] = "read_published" /\ UNCHANGED <<refs, published, work>>
        /\ exposed' = exposed \cup (IF refs[t] # <<>> THEN {work[p].by} ELSE {})
    BY <1>1, <1>5 DEF ReadAuthAbsent, Goto, TypeOK
  <2>2. exposed \subseteq exposed' /\ (refs[t] = <<>> \/ work[p].by \in exposed')
    BY <2>1
  <2>3. Doubtful(p) => Doubtful(p)'
    BY <2>1, <2>2 DEF Doubtful, Tainted
  <2>4. refs[t] # <<>> => Doubtful(p)'
    BY <2>1, <2>2 DEF Doubtful
  <2>5. work[p].doc.sanitized => Doubtful(p)
    BY <1>1, <1>5 DEF KeepsApart, ReadAuthAbsent
  <2>6. KeepsApart(p)'
    BY <2>1, <2>3, <2>4, <2>5 DEF KeepsApart, Creating
  <2> QED BY <1>2, <1>5, <2>1, <2>2, <2>6, ApartGoto DEF ReadAuthAbsent
<1>6. CASE ReadPublishedSnapshot(p)
  <2> DEFINE d == Edited(SanitizedDoc, work[p].by)
             w == [work[p] EXCEPT !.doc = d]
  <2>1. w.thread = t /\ w.by = work[p].by /\ w.doc = d
    BY <1>2 DEF Work
  <2>2. work' = [work EXCEPT ![p] = w] /\ pc' = [pc EXCEPT ![p] = "resolve"]
        /\ UNCHANGED <<refs, published, exposed>>
    BY <1>1, <1>6 DEF ReadPublishedSnapshot, Goto, TypeOK
  <2>3. d.sanitized
    BY DEF Edited, SanitizedDoc
  <2> HIDE DEF w, d
  <2>4. work'[p] = w /\ pc'[p] = "resolve"
    BY <1>1, <2>2 DEF TypeOK
  <2>5. Doubtful(p) => Doubtful(p)'
    BY <2>1, <2>2, <2>4 DEF Doubtful, Tainted
  <2>6. Doubtful(p) \/ Vacant(t)
    BY <1>1, <1>6 DEF ReadPublishedSnapshot, KeepsApart, Vacant
  <2>7. Vacant(t) => Vacant(work[p].thread)'
    BY <2>1, <2>2, <2>4 DEF Vacant
  <2>8. KeepsApart(p)'
    BY <2>1, <2>3, <2>4, <2>5, <2>6, <2>7 DEF KeepsApart, Creating, Vacant
  <2> QED BY <1>2, <2>1, <2>2, <2>8, ApartOnThread
<1> QED BY <1>3, <1>4, <1>5, <1>6 DEF Read

LEMMA ApartResolve ==
    ASSUME IInv, ApartInv, NEW p \in Procs, Resolve(p)
    PROVE  ApartInv'
<1> DEFINE t == work[p].thread
<1>1. TypeOK /\ KeepsApart(p)
  BY DEF IInv, ApartInv
<1>2. pc[p] # "idle" /\ t \in Threads /\ work[p] \in Work
  BY <1>1, CreatorRuns DEF Resolve, ResolveParent, ResolveNoParent, RefuseToPromote,
     NothingPublished, TypeOK
<1>3. CASE ResolveParent(p)
  <2> DEFINE w == [work[p] EXCEPT !.parent = refs[t]]
  <2>1. refs[t] # <<>> /\ (work[p].doc.sanitized => Doubtful(p))
    BY <1>1, <1>3 DEF ResolveParent, KeepsApart, Vacant
  <2>2. w.thread = t /\ w.by = work[p].by /\ w.doc = work[p].doc
    BY <1>2 DEF Work
  <2>3. work' = [work EXCEPT ![p] = w] /\ pc' = [pc EXCEPT ![p] = "move"]
        /\ UNCHANGED <<refs, published, exposed>>
    BY <1>1, <1>3 DEF ResolveParent, Goto, TypeOK
  <2> HIDE DEF w
  <2>4. work'[p] = w /\ pc'[p] = "move"
    BY <1>1, <2>3 DEF TypeOK
  <2>5. Doubtful(p) => Doubtful(p)'
    BY <2>2, <2>3, <2>4 DEF Doubtful, Tainted
  <2>6. KeepsApart(p)'
    BY <2>1, <2>2, <2>3, <2>4, <2>5 DEF KeepsApart, Creating
  <2> QED BY <1>2, <2>2, <2>3, <2>6, ApartOnThread
<1>4. CASE ResolveNoParent(p)
  <2>1. /\ pc[p] = "resolve" /\ pc'[p] = "check_published"
        /\ UNCHANGED <<refs, published, work, exposed>>
    BY <1>1, <1>4 DEF ResolveNoParent, Goto, TypeOK
  <2>2. Doubtful(p)' <=> Doubtful(p)
    BY <2>1 DEF Doubtful, Tainted
  <2>3. Creating(p)' => Creating(p)
    BY <2>1 DEF Creating
  <2>4. Creating(p) => Alone(p)'
    BY <1>1, <2>1 DEF KeepsApart, Alone
  <2>5. Vacant(t) => Vacant(work[p].thread)'
    BY <2>1 DEF Vacant
  <2>6. KeepsApart(p)'
    BY <1>1, <2>1, <2>2, <2>3, <2>4, <2>5 DEF KeepsApart, Vacant
  <2> QED BY <1>2, <1>4, <2>1, <2>6, ApartGoto DEF ResolveNoParent
<1>5. CASE RefuseToPromote(p)
  BY <1>5, ApartLeave DEF RefuseToPromote, ReturnErr
<1>6. CASE NothingPublished(p)
  <2>1. /\ pc[p] = "check_published" /\ pc'[p] = "move"
        /\ UNCHANGED <<refs, published, work>>
        /\ exposed' = exposed \cup (IF t \in published THEN {work[p].by} ELSE {})
    BY <1>1, <1>6 DEF NothingPublished, Goto, TypeOK
  <2>2. exposed \subseteq exposed' /\ (Vacant(t) => work[p].by \in exposed')
    BY <2>1 DEF Vacant
  <2>3. Doubtful(p) => Doubtful(p)'
    BY <2>1, <2>2 DEF Doubtful, Tainted
  <2>4. Vacant(t) => Doubtful(p)'
    BY <2>1, <2>2 DEF Doubtful
  <2>5. Creating(p)' => Creating(p)
    BY <2>1 DEF Creating
  <2>6. Creating(p) => Alone(p)'
    BY <1>1, <2>1 DEF KeepsApart, Alone
  <2>7. KeepsApart(p)'
    BY <1>1, <2>1, <2>3, <2>4, <2>5, <2>6 DEF KeepsApart
  <2> QED BY <1>2, <1>6, <2>1, <2>2, <2>7, ApartGoto DEF NothingPublished
<1> QED BY <1>3, <1>4, <1>5, <1>6 DEF Resolve

LEMMA ApartMigrate ==
    ASSUME IInv, ApartInv, NEW p \in Procs, Migrate(p)
    PROVE  ApartInv'
<1> DEFINE t == work[p].thread
           h == refs[t]
<1>1. TypeOK /\ KeepsApart(p)
  BY DEF IInv, ApartInv
<1>2. pc[p] # "idle" /\ t \in Threads /\ work[p] \in Work
  BY <1>1, CreatorRuns DEF Migrate, ProbeEvent, ProbeAlreadyMigrated, ProbeAbsent,
     ProbePublished, Pin, PinAbsent, TypeOK
<1>3. CASE ProbeEvent(p) \/ ProbeAbsent(p)
  <2>1. /\ pc[p] = "probe_auth" /\ UNCHANGED <<refs, published, work, exposed>>
        /\ pc'[p] \in {"pin", "probe_published"}
    BY <1>1, <1>3 DEF ProbeEvent, ProbeAbsent, Goto, TypeOK
  <2>2. Doubtful(p)' <=> Doubtful(p)
    BY <2>1 DEF Doubtful, Tainted
  <2>3. KeepsApart(p)'
    BY <1>1, <2>1, <2>2 DEF KeepsApart, Creating
  <2> QED BY <1>2, <1>3, <2>1, <2>3, ApartGoto DEF ProbeEvent, ProbeAbsent
<1>4. CASE ProbeAlreadyMigrated(p) \/ ProbePublished(p) \/ PinAbsent(p)
  <2>1. ReturnUnchanged(p) \/ ReturnErr(p)
    BY <1>4 DEF ProbeAlreadyMigrated, ProbePublished, PinAbsent
  <2> QED BY <2>1, ApartLeave DEF ReturnUnchanged, ReturnErr
<1>5. CASE Pin(p)
  <2> DEFINE w == [work[p] EXCEPT !.doc = Projection(h), !.pinned = TRUE, !.parent = h]
  <2>1. h # <<>>
    BY <1>5 DEF Pin
  <2>2. Projection(h).sanitized => Tainted(t)
    BY <1>1, <1>2, SanitizedTaints DEF Projection, NewestSnapshot, ApartInv
  <2>3. w.thread = t /\ w.doc = Projection(h)
    BY <1>2 DEF Work
  <2>4. work' = [work EXCEPT ![p] = w] /\ pc' = [pc EXCEPT ![p] = "move"]
        /\ UNCHANGED <<refs, published, exposed>>
    BY <1>1, <1>5 DEF Pin, Goto, TypeOK
  <2> HIDE DEF w
  <2>5. work'[p] = w /\ pc'[p] = "move"
    BY <1>1, <2>4 DEF TypeOK
  <2>6. Tainted(t) => Doubtful(p)'
    BY <2>3, <2>4, <2>5 DEF Doubtful, Tainted
  <2>7. KeepsApart(p)'
    BY <2>1, <2>2, <2>3, <2>4, <2>5, <2>6 DEF KeepsApart, Creating
  <2> QED BY <1>2, <2>3, <2>4, <2>7, ApartOnThread
<1> QED BY <1>3, <1>4, <1>5 DEF Migrate

LEMMA ApartStart ==
    ASSUME IInv, ApartInv, NEW p \in Procs, Start(p)
    PROVE  ApartInv'
<1>1. PICK c \in Commands, t \in Threads :
          StartEdit(p, c, t) \/ StartNew(p, c, t) \/ StartMigrate(p, c, t)
  BY DEF Start
<1>2. ~EmptyDoc.sanitized /\ EmptyDoc \in Doc
  BY DEF EmptyDoc, Doc
<1>3. ~Edited(EmptyDoc, c).sanitized
  BY <1>2, EditedSanitized
<1>4. \A q \in Procs : Creating(q) =>
          /\ refs[work[q].thread] = <<>>
          /\ work[q].thread \notin published
          /\ BeingCreated(work[q].thread)
  BY DEF ApartInv, KeepsApart, Alone, Creating, BeingCreated
<1>5. \A q \in Procs : Creating(q) => work[q].thread # t
  <2>1. CASE StartNew(p, c, t)
    BY <2>1 DEF StartNew, Fresh
  <2>2. CASE StartEdit(p, c, t) \/ StartMigrate(p, c, t)
    BY <1>4, <2>2 DEF StartEdit, StartMigrate
  <2> QED BY <1>1, <2>1, <2>2
<1>6. ASSUME NEW l \in {"read_auth", "resolve", "probe_auth"}, NEW d,
             Begin(p, c, t, l, d), ~d.sanitized,
             l = "resolve" => Fresh(t) /\ d = Edited(EmptyDoc, c)
      PROVE  ApartInv'
  <2>1. /\ pc'[p] = l /\ work'[p].thread = t /\ work'[p].doc = d /\ work'[p].by = c
        /\ \A q \in Procs : q # p => pc'[q] = pc[q] /\ work'[q] = work[q]
        /\ UNCHANGED <<refs, published, exposed>>
    BY <1>6 DEF Begin, IInv, TypeOK
  <2>2. l = "resolve" => Alone(p)'
    BY <1>6, <2>1 DEF Alone, Fresh
  <2>3. KeepsApart(p)'
    BY <1>6, <2>1, <2>2 DEF KeepsApart, Creating
  <2>4. \A q \in Procs : q # p /\ Creating(q) => work'[p].thread # work[q].thread
    BY <1>5, <2>1
  <2> QED BY <2>1, <2>3, <2>4, ApartLocal
<1>7. CASE StartEdit(p, c, t)
  BY <1>2, <1>6, <1>7 DEF StartEdit
<1>8. CASE StartNew(p, c, t)
  BY <1>3, <1>6, <1>8 DEF StartNew
<1>9. CASE StartMigrate(p, c, t)
  BY <1>2, <1>6, <1>9 DEF StartMigrate
<1> QED BY <1>1, <1>7, <1>8, <1>9

(* A published ref appears or vanishes.                                    *)
LEMMA ApartPublished ==
    ASSUME IInv, ApartInv, NEW t \in Threads, PublishedAppears(t) \/ PublishedVanishes(t)
    PROVE  ApartInv'
<1>1. /\ UNCHANGED <<refs, pc, work>> /\ exposed \subseteq exposed'
      /\ \/ /\ published' = published \cup {t}
            /\ refs[t] # <<>> \/ ~BeingCreated(t)
         \/ /\ published' = published \ {t}
            /\ HoldingProjection(t) \subseteq exposed'
  BY DEF PublishedAppears, PublishedVanishes
<1>2. NoPromotion'
  BY <1>1 DEF ApartInv, NoPromotion
<1>3. ASSUME NEW q \in Procs PROVE KeepsApart(q)'
  <2>1. KeepsApart(q)
    BY DEF ApartInv
  <2>2. Doubtful(q) => Doubtful(q)'
    BY <1>1 DEF Doubtful, Tainted
  <2>3. work[q].doc.sanitized /\ Vacant(work[q].thread) =>
            Vacant(work[q].thread)' \/ Doubtful(q)'
    <3>1. work[q].doc.sanitized /\ work[q].thread = t => work[q].by \in HoldingProjection(t)
      BY DEF HoldingProjection
    <3> QED BY <1>1, <3>1 DEF Vacant, Doubtful
  <2>4. ASSUME Creating(q) PROVE Alone(q)'
    <3>1. Alone(q) /\ BeingCreated(work[q].thread) /\ refs[work[q].thread] = <<>>
      BY <2>1, <2>4 DEF KeepsApart, Alone, BeingCreated, Creating
    <3>2. work[q].thread \notin published'
      BY <1>1, <3>1 DEF Alone
    <3> QED BY <1>1, <3>1, <3>2 DEF Alone
  <2>5. Creating(q)' => Creating(q)
    BY <1>1 DEF Creating
  <2> QED BY <1>1, <2>1, <2>2, <2>3, <2>4, <2>5 DEF KeepsApart, Vacant
<1> QED BY <1>2, <1>3 DEF ApartInv

LEMMA ApartSurroundings ==
    ASSUME IInv, ApartInv, Surroundings
    PROVE  ApartInv'
<1>1. ASSUME NEW c \in Commands, NEW t \in Threads, LegacyWrite(c, t)
      PROVE  ApartInv'
  <2> DEFINE e == [kind |-> "event", by |-> c, doc |-> EmptyDoc, archive |-> {}]
  <2>1. e \in Commit /\ ~e.doc.sanitized
    BY DEF Commit, EmptyDoc, Doc
  <2>2. refs[t] = <<>> => \A q \in Procs : work[q].thread # t
    BY <1>1 DEF LegacyWrite, Fresh
  <2>3. /\ refs' = [refs EXCEPT ![t] = Append(refs[t], e)]
        /\ UNCHANGED <<published, pc, work, exposed>>
    BY <1>1 DEF LegacyWrite
  <2> HIDE DEF e
  <2> QED BY <2>1, <2>2, <2>3, ApartAppend
<1>2. ASSUME NEW c \in Commands, NEW t \in Threads, FetchThread(c, t)
      PROVE  ApartInv'
  <2> DEFINE e == [kind |-> "edit", by |-> c, archive |-> {}, doc |-> Edited(EmptyDoc, c)]
  <2>1. EmptyDoc \in Doc /\ ~EmptyDoc.sanitized
    BY DEF EmptyDoc, Doc
  <2>2. e \in Commit /\ ~e.doc.sanitized
    BY <2>1, EditedType, EditedSanitized DEF Commit
  <2>3. /\ refs' = [refs EXCEPT ![t] = Append(refs[t], e)]
        /\ UNCHANGED <<published, pc, work>>
        /\ exposed' = exposed \cup FallingBack(t) \cup HoldingProjection(t)
    BY <1>2 DEF FetchThread
  <2> HIDE DEF e
  <2>4. ASSUME NEW q \in Procs, work[q].thread = t, ~Doubtful(q)'
        PROVE  ~work[q].doc.sanitized /\ pc[q] # "read_published"
    <3>1. work[q].by \notin exposed'
      BY <2>3, <2>4 DEF Doubtful
    <3> QED BY <2>3, <2>4, <3>1 DEF FallingBack, HoldingProjection
  <2> QED BY <2>2, <2>3, <2>4, ApartAppend
<1> QED BY <1>1, <1>2, ApartPublished DEF Surroundings

LEMMA ApartNext == IInv /\ ApartInv /\ [Next]_vars => ApartInv'
<1> SUFFICES ASSUME IInv, ApartInv, [Next]_vars PROVE ApartInv'
  OBVIOUS
<1>1. ASSUME NEW p \in Procs, Move(p) PROVE ApartInv'
  <2>1. CASE MoveRef(p)
    BY <2>1, ApartMove
  <2>2. CASE Conflict(p) \/ ReturnOk(p)
    BY <2>2, ApartLeave DEF Conflict, ReturnOk, ReturnErr
  <2> QED BY <1>1, <2>1, <2>2 DEF Move
<1>2. ASSUME NEW p \in Procs, GitFails(p) \/ Crash(p) PROVE ApartInv'
  BY <1>2, ApartLeave DEF GitFails, Crash, ReturnErr, ReturnUnchanged
<1>3. CASE UNCHANGED vars
  BY <1>3 DEF vars, ApartInv, NoPromotion, KeepsApart, Creating, Alone, Doubtful, Tainted, Vacant
<1> QED BY <1>1, <1>2, <1>3, ApartStart, ApartRead, ApartResolve, ApartMigrate,
           ApartSurroundings DEF Next, Continue

(* Whatever fetches, pushes and withdrawals of this clone, commands, 2.x     *)
(* clients and failing lookups interleave, a published projection is         *)
(* committed to refs/forum/threads/* only under a command whose thread was    *)
(* fetched or whose published ref was removed while it worked, or whose      *)
(* lookup git did not answer: else the check in write_snapshot_inner, which   *)
(* comes after the parent was found missing, still finds the published ref.   *)
THEOREM StoreNoPromotion == Spec => []NoPromotion
<1>1. Init => ApartInv
  BY ApartInit
<1>2. IInv /\ ApartInv /\ [Next]_vars => ApartInv'
  BY ApartNext
<1>3. ApartInv => NoPromotion
  BY DEF ApartInv
<1> QED BY <1>1, <1>2, <1>3, StoreInvariant, PTL DEF Spec

-----------------------------------------------------------------------------
(* The store implements ThreadLog.                                         *)

LEMMA BysProperties ==
    ASSUME NEW h \in Seq(Commit), NEW c \in Commit
    PROVE  /\ Bys(<<>>) = <<>>
           /\ Bys(Append(h, c)) = Append(Bys(h), c.by)
<1>1. \A g \in Seq(Commit) : /\ Bys(g) \in Seq(Commands)
                             /\ Len(Bys(g)) = Len(g)
                             /\ DOMAIN Bys(g) = DOMAIN g
                             /\ \A i \in DOMAIN g : Bys(g)[i] = g[i].by
  <2> TAKE g \in Seq(Commit)
  <2>1. DOMAIN g = 1..Len(g) /\ Len(g) \in Nat /\ \A i \in 1..Len(g) : g[i] \in Commit
    BY LenProperties, ElementOfSeq
  <2>2. \A i \in 1..Len(g) : g[i].by \in Commands
    BY <2>1 DEF Commit
  <2>3. Bys(g) \in [1..Len(g) -> Commands]
    BY <2>1, <2>2 DEF Bys
  <2>4. Bys(g) \in Seq(Commands)
    BY <2>1, <2>3, SeqDef
  <2>5. Len(Bys(g)) = Len(g)
    BY <2>1, <2>3, <2>4, LenProperties
  <2> QED BY <2>1, <2>3, <2>4, <2>5 DEF Bys
<1>2. Bys(<<>>) = <<>>
  BY <1>1, EmptyHistory, EmptySeq
<1>3. Append(h, c) \in Seq(Commit) /\ Len(Append(h, c)) = Len(h) + 1 /\ Len(h) \in Nat
  OBVIOUS
<1>4. c.by \in Commands
  BY DEF Commit
<1> DEFINE a == Bys(Append(h, c))
           b == Append(Bys(h), c.by)
<1>5. /\ a \in Seq(Commands) /\ Len(a) = Len(h) + 1
      /\ \A i \in DOMAIN Append(h, c) : a[i] = Append(h, c)[i].by
  BY <1>1, <1>3
<1>6. b \in Seq(Commands) /\ Len(b) = Len(h) + 1
  BY <1>1, <1>3, <1>4
<1>7. ASSUME NEW i \in 1..(Len(h) + 1) PROVE a[i] = b[i]
  <2>1. i \in 1..Len(h) \/ i = Len(h) + 1
    BY <1>3
  <2>2. i \in DOMAIN Append(h, c)
    BY <1>3
  <2>3. ASSUME i \in 1..Len(h) PROVE a[i] = h[i].by /\ b[i] = h[i].by
    <3>1. i \in DOMAIN h /\ i \in DOMAIN Bys(h) /\ Bys(h)[i] = h[i].by
      BY <1>1, <2>3, LenProperties
    <3>2. Append(h, c)[i] = h[i]
      BY <3>1, AppendBelow
    <3>3. b[i] = Bys(h)[i]
      BY <1>1, <1>4, <2>3
    <3> QED BY <1>5, <2>2, <3>1, <3>2, <3>3
  <2>4. ASSUME i = Len(h) + 1 PROVE a[i] = c.by /\ b[i] = c.by
    <3>1. Append(h, c)[i] = c
      BY <2>4, AppendBelow
    <3>2. b[i] = c.by
      BY <1>1, <1>4, <2>4
    <3> QED BY <1>5, <2>2, <3>1, <3>2
  <2> HIDE DEF a, b
  <2> QED BY <2>1, <2>3, <2>4
<1> HIDE DEF a, b
<1>8. a = b
  BY <1>5, <1>6, <1>7, SeqEqual
<1> QED BY <1>2, <1>8 DEF a, b

(* The abstract log records the commands that the histories do.            *)
LEMMA SameLogged ==
    ASSUME TypeOK
    PROVE  \A x : TL!IsLogged(x) <=> IsLogged(x)
<1>1. \A t \in Threads : \A i : i \in DOMAIN Bys(refs[t]) <=> i \in DOMAIN refs[t]
  BY DEF Bys
<1>2. \A t \in Threads : \A i \in DOMAIN refs[t] : Bys(refs[t])[i] = refs[t][i].by
  BY DEF Bys
<1> QED BY <1>1, <1>2 DEF TL!IsLogged, IsLogged

LEMMA RecordStep ==
    ASSUME IInv, NEW t \in Threads, NEW c \in Commit,
           ~IsLogged(c.by), c.by \notin rejected,
           refs' = [refs EXCEPT ![t] = Append(refs[t], c)],
           UNCHANGED <<acked, rejected>>
    PROVE  TL!Next
<1> DEFINE log == [u \in Threads |-> Bys(refs[u])]
<1>1. refs \in [Threads -> Seq(Commit)] /\ TypeOK
  BY DEF IInv, TypeOK
<1>2. ~TL!IsLogged(c.by)
  BY <1>1, SameLogged
<1>3. Bys(refs'[t]) = Append(Bys(refs[t]), c.by)
  BY <1>1, BysProperties
<1>4. \A u \in Threads : u # t => Bys(refs'[u]) = Bys(refs[u])
  BY <1>1
<1>5. log' = [log EXCEPT ![t] = Append(log[t], c.by)]
  <2>1. log' = [u \in Threads |-> Bys(refs'[u])]
    BY DEF Bys
  <2>2. [log EXCEPT ![t] = Append(log[t], c.by)] =
            [u \in Threads |-> IF u = t THEN Append(Bys(refs[t]), c.by) ELSE Bys(refs[u])]
    OBVIOUS
  <2> QED BY <1>3, <1>4, <2>1, <2>2
<1>6. TL!Record(t, c.by)
  BY <1>2, <1>5 DEF TL!Record
<1>7. c.by \in Commands
  BY DEF Commit
<1> QED BY <1>6, <1>7 DEF TL!Next

(* A step that tells one caller an error, or Ok, and moves no ref.         *)
LEMMA RejectStep ==
    ASSUME IInv, NEW p \in Procs, pc[p] \notin {"idle", "moved"}, ReturnErr(p)
    PROVE  TL!Next
<1>1. Running(p)
  BY DEF IInv, ProcsOK, Idle
<1>2. ~TL!IsLogged(work[p].by) /\ work[p].by \in Commands
  BY <1>1, SameLogged DEF Running, IInv, TypeOK
<1>3. TL!Reject(work[p].by)
  BY <1>2 DEF TL!Reject, ReturnErr, Bys
<1> QED BY <1>2, <1>3 DEF TL!Next

LEMMA AcknowledgeStep ==
    ASSUME IInv, NEW p \in Procs, ReturnOk(p)
    PROVE  TL!Next
<1>1. Running(p) /\ pc[p] = "moved"
  BY DEF IInv, ProcsOK, Idle, ReturnOk
<1>2. TL!IsLogged(work[p].by) /\ work[p].by \in Commands
  BY <1>1, SameLogged DEF Running, IInv, TypeOK
<1>3. TL!Acknowledge(work[p].by)
  BY <1>2 DEF TL!Acknowledge, ReturnOk, Bys
<1> QED BY <1>2, <1>3 DEF TL!Next

LEMMA Stutter ==
    ASSUME UNCHANGED <<refs, acked, rejected>>
    PROVE  UNCHANGED TL!vars
BY DEF TL!vars, Bys

(* The snapshot store implements the log promised to its callers.          *)
THEOREM StoreImplementsLog == Spec => LogPromise
<1>1. Init => TL!Init
  <2> SUFFICES ASSUME Init PROVE TL!Init
    OBVIOUS
  <2>1. \A t \in Threads : refs[t] = <<>>
    BY DEF Init
  <2>2. Bys(<<>>) = <<>>
    BY EmptyHistory, EmptySeq DEF Bys
  <2> QED BY <2>1, <2>2 DEF Init, TL!Init
<1>2. IInv /\ [Next]_vars => [TL!Next]_TL!vars
  <2> SUFFICES ASSUME IInv, [Next]_vars PROVE TL!Next \/ UNCHANGED TL!vars
    OBVIOUS
  <2>1. ASSUME NEW p \in Procs, Start(p) PROVE UNCHANGED TL!vars
    BY <2>1, Stutter DEF Start, StartEdit, StartNew, StartMigrate, Begin
  <2>2. ASSUME NEW p \in Procs, Read(p) PROVE TL!Next \/ UNCHANGED TL!vars
    BY <2>2, Stutter, RejectStep
       DEF Read, ReadAuthSnapshot, ReadAuthEvent, ReadAuthAbsent,
           ReadPublishedSnapshot, ReadPublishedAbsent
  <2>3. ASSUME NEW p \in Procs, Resolve(p) PROVE TL!Next \/ UNCHANGED TL!vars
    BY <2>3, Stutter, RejectStep
       DEF Resolve, ResolveParent, ResolveNoParent, RefuseToPromote, NothingPublished
  <2>4. ASSUME NEW p \in Procs, Migrate(p) PROVE TL!Next \/ UNCHANGED TL!vars
    BY <2>4, Stutter, RejectStep
       DEF Migrate, ProbeEvent, ProbeAlreadyMigrated, ProbeAbsent, ProbePublished,
           Pin, PinAbsent, ReturnUnchanged
  <2>5. ASSUME NEW p \in Procs, Move(p) PROVE TL!Next \/ UNCHANGED TL!vars
    <3>1. CASE MoveRef(p)
      <4> DEFINE c == NewCommit(p)
                 t == work[p].thread
      <4>1. Running(p) /\ pc[p] = "move"
        BY <3>1 DEF MoveRef, IInv, ProcsOK, Idle
      <4>2. c \in Commit /\ c.by = work[p].by
        BY <3>1, NewCommitOK DEF MoveRef
      <4>3. /\ t \in Threads /\ c.by \notin rejected /\ ~IsLogged(c.by)
            /\ refs' = [refs EXCEPT ![t] = Append(refs[t], c)]
            /\ UNCHANGED <<acked, rejected>>
        BY <3>1, <4>1, <4>2 DEF Running, MoveRef, HoldsExpected
      <4> HIDE DEF c, t
      <4> QED BY <4>2, <4>3, RecordStep
    <3>2. CASE Conflict(p)
      BY <3>2, RejectStep DEF Conflict
    <3>3. CASE ReturnOk(p)
      BY <3>3, AcknowledgeStep
    <3> QED BY <2>5, <3>1, <3>2, <3>3 DEF Move
  <2>6. ASSUME NEW p \in Procs, GitFails(p) PROVE TL!Next
    BY <2>6, RejectStep DEF GitFails
  <2>7. ASSUME NEW p \in Procs, Crash(p) PROVE UNCHANGED TL!vars
    BY <2>7, Stutter DEF Crash, ReturnUnchanged
  <2>8. ASSUME Surroundings PROVE TL!Next \/ UNCHANGED TL!vars
    <3>1. ASSUME NEW c \in Commands, NEW t \in Threads, LegacyWrite(c, t) PROVE TL!Next
      <4> DEFINE e == [kind |-> "event", by |-> c, doc |-> EmptyDoc, archive |-> {}]
      <4>1. e \in Commit /\ e.by = c
        BY DEF Commit, EmptyDoc, Doc
      <4>2. /\ refs' = [refs EXCEPT ![t] = Append(refs[t], e)]
            /\ c \notin issued /\ UNCHANGED <<acked, rejected>>
        BY <3>1 DEF LegacyWrite
      <4>3. ~IsLogged(c) /\ c \notin rejected
        BY <4>2 DEF IInv, IssuedOK
      <4> HIDE DEF e
      <4> QED BY <4>1, <4>2, <4>3, RecordStep
    <3>2. ASSUME NEW c \in Commands, NEW t \in Threads, FetchThread(c, t) PROVE TL!Next
      <4> DEFINE e == [kind |-> "edit", by |-> c, archive |-> {}, doc |-> Edited(EmptyDoc, c)]
      <4>0. Edited(EmptyDoc, c) \in Doc
        BY EditedType DEF EmptyDoc, Doc
      <4>1. e \in Commit /\ e.by = c
        BY <4>0 DEF Commit
      <4>2. /\ refs' = [refs EXCEPT ![t] = Append(refs[t], e)]
            /\ c \notin issued /\ UNCHANGED <<acked, rejected>>
        BY <3>2 DEF FetchThread
      <4>3. ~IsLogged(c) /\ c \notin rejected
        BY <4>2 DEF IInv, IssuedOK
      <4> HIDE DEF e
      <4> QED BY <4>1, <4>2, <4>3, RecordStep
    <3>3. ASSUME NEW t \in Threads, PublishedAppears(t) \/ PublishedVanishes(t)
          PROVE  UNCHANGED TL!vars
      BY <3>3, Stutter DEF PublishedAppears, PublishedVanishes
    <3> QED BY <2>8, <3>1, <3>2, <3>3 DEF Surroundings
  <2>9. CASE UNCHANGED vars
    BY <2>9, Stutter DEF vars
  <2> QED BY <2>1, <2>2, <2>3, <2>4, <2>5, <2>6, <2>7, <2>8, <2>9 DEF Next, Continue
<1>3. Spec => []IInv
  BY StoreInvariant
<1> QED BY <1>1, <1>2, <1>3, PTL DEF Spec, LogPromise, TL!Spec
=============================================================================
