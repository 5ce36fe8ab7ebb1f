--------------------------- MODULE Publish_proofs ---------------------------
(***************************************************************************)
(* Proofs about Publish, for any threads and every combination of          *)
(* disturbances. What is shown is proved for any number of overlapping     *)
(* pushes; what is withdrawn and what success means, for pushes that do    *)
(* not overlap (OnePush): that is when the code promises them.             *)
(***************************************************************************)
EXTENDS Publish, TLAPS

(* What every push holds in memory may be shown already: the trees of its   *)
(* plan, and the threads it takes for public.                              *)
PlansShowable ==
    \A p \in Pushers : \A t \in Threads : Showable(job[p].plan[t].tree, t)

PublicKnown == \A p \in Pushers : \A u \in job[p].public : WasPublic(u)

IInv == TypeOK /\ OnlyPublicShown /\ PlansShowable /\ PublicKnown

-----------------------------------------------------------------------------
(* Histories of documents only grow, so what was showable stays showable.  *)
Grows ==
    \A t \in Threads :
        \/ versions'[t] = versions[t]
        \/ \E d \in Doc : versions'[t] = Append(versions[t], d)

LEMMA AppendKeeps ==
    ASSUME NEW S, NEW s \in Seq(S), NEW x \in S, NEW i \in DOMAIN s
    PROVE  i \in DOMAIN Append(s, x) /\ Append(s, x)[i] = s[i]
  OBVIOUS

LEMMA VersionsStay ==
    ASSUME versions \in [Threads -> Seq(Doc)], Grows,
           NEW t \in Threads, NEW i \in DOMAIN versions[t]
    PROVE  i \in DOMAIN versions'[t] /\ versions'[t][i] = versions[t][i]
<1>1. CASE versions'[t] = versions[t]
  BY <1>1
<1>2. ASSUME NEW d \in Doc, versions'[t] = Append(versions[t], d)
      PROVE  i \in DOMAIN versions'[t] /\ versions'[t][i] = versions[t][i]
  <2>1. versions[t] \in Seq(Doc)
    OBVIOUS
  <2> QED
    BY <1>2, <2>1, AppendKeeps
<1> QED
  BY <1>1, <1>2 DEF Grows

LEMMA PublicStays ==
    ASSUME versions \in [Threads -> Seq(Doc)], Grows,
           NEW u \in Threads, WasPublic(u)
    PROVE  WasPublic(u)'
<1>1. PICK i \in DOMAIN versions[u] : versions[u][i].public
  BY DEF WasPublic
<1>2. i \in DOMAIN versions'[u] /\ versions'[u][i] = versions[u][i]
  BY <1>1, VersionsStay
<1> QED
  BY <1>1, <1>2 DEF WasPublic

LEMMA ShowableStays ==
    ASSUME versions \in [Threads -> Seq(Doc)], Grows,
           NEW t \in Threads, NEW tree \in Tree, Showable(tree, t)
    PROVE  Showable(tree, t)'
<1>1. SUFFICES ASSUME tree # NoTree
               PROVE  /\ tree.version \in DOMAIN versions'[t]
                      /\ versions'[t][tree.version].public
                      /\ tree.names \subseteq versions'[t][tree.version].names
                      /\ \A u \in tree.names : WasPublic(u)'
  BY DEF Showable, NoTree
<1>2. /\ tree.version \in DOMAIN versions[t]
      /\ versions[t][tree.version].public
      /\ tree.names \subseteq versions[t][tree.version].names
      /\ \A u \in tree.names : WasPublic(u)
  BY <1>1 DEF Showable
<1>3. /\ tree.version \in DOMAIN versions'[t]
      /\ versions'[t][tree.version] = versions[t][tree.version]
  BY <1>2, VersionsStay
<1>4. tree.names \subseteq Threads
  BY DEF Tree
<1> QED
  BY <1>2, <1>3, <1>4, PublicStays

LEMMA NoTreeFacts == NoTree \in Tree /\ \A t : Showable(NoTree, t)
  BY DEF NoTree, Tree, Showable

LEMMA NoJobFacts == NoJob \in Job
  BY NoTreeFacts DEF NoJob, Job, NoPlan, Entry

-----------------------------------------------------------------------------
(* What read_snapshot and exclusion::apply return.                         *)

LEMMA ReadFacts ==
    ASSUME TypeOK, OnlyPublicShown, NEW t \in Threads, Readable(t), ReadPublic(t)
    PROVE  /\ ReadTree(t) \in Tree
           /\ ReadTree(t).version \in DOMAIN versions[t]
           /\ versions[t][ReadTree(t).version].public
           /\ ReadTree(t).names \subseteq versions[t][ReadTree(t).version].names
<1>1. versions[t] \in Seq(Doc) /\ published[t] \in Tree
  BY DEF TypeOK
<1>2. CASE Exists(t)
  <2>1. Len(versions[t]) \in DOMAIN versions[t]
    BY <1>1, <1>2 DEF Exists
  <2>2. Current(t) \in Doc
    BY <1>1, <2>1 DEF Current
  <2>3. ReadTree(t) = [version |-> Len(versions[t]), names |-> Current(t).names]
    BY <1>2 DEF ReadTree
  <2> QED
    BY <1>1, <1>2, <2>1, <2>2, <2>3 DEF ReadPublic, Tree, Doc, Current
<1>3. CASE ~Exists(t)
  <2>1. ReadTree(t) = published[t] /\ published[t] # NoTree
    BY <1>3 DEF ReadTree, Readable
  <2>2. Showable(published[t], t)
    BY DEF OnlyPublicShown
  <2> QED
    BY <1>1, <2>1, <2>2 DEF Showable
<1> QED
  BY <1>2, <1>3

LEMMA PublicNowIsPublic ==
    ASSUME TypeOK, OnlyPublicShown, NEW t \in Threads, Readable(t), ReadPublic(t)
    PROVE  WasPublic(t)
  BY ReadFacts DEF WasPublic

(* An exclusion by threads that were public yields a tree that may be shown. *)
LEMMA ExcludeFacts ==
    ASSUME TypeOK, OnlyPublicShown, PublicKnown, NEW p \in Pushers,
           NEW t \in Threads, Readable(t), ReadPublic(t)
    PROVE  /\ Exclude(ReadTree(t), job[p]) \in Tree
           /\ Showable(Exclude(ReadTree(t), job[p]), t)
<1> DEFINE r == ReadTree(t)
           e == Exclude(r, job[p])
<1>1. r \in Tree /\ r.version \in DOMAIN versions[t]
      /\ versions[t][r.version].public
      /\ r.names \subseteq versions[t][r.version].names
  BY ReadFacts
<1>2. e = [version |-> r.version, names |-> r.names \cap job[p].public]
  BY <1>1 DEF Exclude, Tree
<1>3. \A u \in job[p].public : WasPublic(u)
  BY DEF PublicKnown
<1> QED
  BY <1>1, <1>2, <1>3 DEF Tree, Showable

-----------------------------------------------------------------------------
(* The inductive invariant, with its quantified parts on trees spelled out. *)
LEMMA InitIInv == Init => IInv
<1> SUFFICES ASSUME Init PROVE IInv
  OBVIOUS
<1>1. TypeOK
  BY NoTreeFacts, NoJobFacts DEF Init, TypeOK, Phases
<1>2. OnlyPublicShown
  BY NoTreeFacts DEF Init, OnlyPublicShown
<1>3. PlansShowable /\ PublicKnown
  BY NoTreeFacts DEF Init, PlansShowable, PublicKnown, NoJob, NoPlan
<1> QED
  BY <1>1, <1>2, <1>3 DEF IInv

(* A step that leaves documents and trees alone and replaces the memory of  *)
(* one push by one that is well typed and shows nothing else.              *)
LEMMA JobStep ==
    ASSUME IInv, NEW p \in Pushers, NEW j \in Job, NEW l \in Phases,
           UNCHANGED <<versions, deleted, published, remote>>,
           job' = [job EXCEPT ![p] = j],
           pc' = pc \/ pc' = [pc EXCEPT ![p] = l],
           \A t \in Threads : Showable(j.plan[t].tree, t),
           \A u \in j.public : WasPublic(u)
    PROVE  IInv'
<1> USE DEF IInv
<1>1. job' \in [Pushers -> Job] /\ pc' \in [Pushers -> Phases]
  BY DEF TypeOK
<1>2. TypeOK'
  BY <1>1 DEF TypeOK
<1>3. OnlyPublicShown'
  BY DEF OnlyPublicShown, Showable, WasPublic
<1>4. \A q \in Pushers : job'[q] = IF q = p THEN j ELSE job[q]
  BY DEF TypeOK
<1>5. PlansShowable'
  <2>1. \A q \in Pushers, t \in Threads : Showable(job'[q].plan[t].tree, t)
    BY <1>4 DEF PlansShowable
  <2> QED
    BY ZenonT(30), <2>1 DEF PlansShowable, Showable, WasPublic
<1>6. PublicKnown'
  <2>1. \A q \in Pushers : \A u \in job'[q].public : WasPublic(u)
    BY <1>4 DEF PublicKnown
  <2> QED
    BY <2>1 DEF PublicKnown, WasPublic
<1> QED
  BY <1>2, <1>3, <1>5, <1>6

(* A push that ends, whatever it has done to the trees.                    *)
LEMMA ReturnStep ==
    ASSUME IInv, NEW p \in Pushers, Return(p),
           UNCHANGED <<versions, deleted, published, remote>>
    PROVE  IInv'
<1>1. /\ NoJob \in Job
      /\ \A t \in Threads : Showable(NoJob.plan[t].tree, t)
      /\ \A u \in NoJob.public : WasPublic(u)
  BY NoTreeFacts, NoJobFacts DEF NoJob, NoPlan
<1>2. "idle" \in Phases
  BY DEF Phases
<1> QED
  BY <1>1, <1>2, JobStep DEF Return, Hold

(* A step that changes trees, but not documents or what pushes hold.       *)
LEMMA TreeStep ==
    ASSUME IInv, UNCHANGED <<versions, deleted>>,
           published' \in [Threads -> Tree], remote' \in [Threads -> Tree],
           \A t \in Threads : Showable(published'[t], t) /\ Showable(remote'[t], t),
           job' \in [Pushers -> Job], pc' \in [Pushers -> Phases],
           \A q \in Pushers : job'[q].public \subseteq job[q].public,
           \A q \in Pushers : \A t \in Threads :
               job'[q].plan[t].tree \in {job[q].plan[t].tree, NoTree}
    PROVE  IInv'
<1> USE DEF IInv
<1>1. TypeOK'
  BY DEF TypeOK
<1>2. OnlyPublicShown'
  BY DEF OnlyPublicShown, Showable, WasPublic
<1>3. PlansShowable'
  <2>1. \A q \in Pushers : \A t \in Threads : Showable(job'[q].plan[t].tree, t)
    BY NoTreeFacts DEF PlansShowable
  <2> QED
    BY <2>1 DEF PlansShowable, Showable, WasPublic
<1>4. PublicKnown'
  BY DEF PublicKnown, WasPublic
<1> QED
  BY <1>1, <1>2, <1>3, <1>4

-----------------------------------------------------------------------------
(* One lemma per group of actions.                                         *)

LEMMA ListStep ==
    ASSUME IInv, NEW p \in Pushers, NEW strict \in BOOLEAN,
           ListThreads(p, strict) \/ ListNothing(p, strict)
    PROVE  IInv'
<1>1. PICK ids \in SUBSET Threads, quiet \in BOOLEAN : List(p, strict, ids, quiet)
  BY DEF ListThreads, ListNothing
<1> DEFINE j == [NoJob EXCEPT !.listed = ids, !.unread = ids, !.unprojected = ids,
                              !.strict = strict, !.quiet = quiet]
<1>2. j \in Job /\ j.plan = NoPlan /\ j.public = {}
  BY NoJobFacts DEF Job, NoJob
<1>3. job' = [job EXCEPT ![p] = j] /\ pc' = [pc EXCEPT ![p] = "lint"]
      /\ UNCHANGED <<versions, deleted, published, remote>>
  BY <1>1 DEF List, Hold
<1>4. \A t \in Threads : Showable(j.plan[t].tree, t)
  BY <1>2, NoTreeFacts DEF NoPlan
<1>5. "lint" \in Phases
  BY DEF Phases
<1> HIDE DEF j
<1> QED
  BY <1>2, <1>3, <1>4, <1>5, JobStep

LEMMA PartitionStep ==
    ASSUME IInv, NEW p \in Pushers, NEW t \in Threads,
           \/ PartitionPublic(p, t)
           \/ PartitionPrivate(p, t)
           \/ PartitionUnreadable(p, t)
    PROVE  IInv'
<1> DEFINE o == job[p]
<1>1. o \in Job
  BY DEF IInv, TypeOK
<1>2. \A v \in Threads : Showable(o.plan[v].tree, v)
  BY DEF IInv, PlansShowable
<1>3. \A u \in o.public : WasPublic(u)
  BY DEF IInv, PublicKnown
<1>4. "lint" \in Phases /\ UNCHANGED <<versions, deleted, published, remote, pc>>
  BY DEF Phases, PartitionPublic, PartitionPrivate, PartitionUnreadable
<1>5. PICK n \in Job : /\ job' = [job EXCEPT ![p] = n]
                       /\ n.plan = o.plan
                       /\ \A u \in n.public : WasPublic(u)
  <2>1. CASE PartitionPublic(p, t)
    <3> DEFINE n == [o EXCEPT !.unread = @ \ {t}, !.public = @ \cup {t}]
    <3>1. n \in Job /\ n.plan = o.plan /\ n.public = o.public \cup {t}
      BY <1>1 DEF Job
    <3>2. job' = [job EXCEPT ![p] = n]
      BY <2>1 DEF PartitionPublic, Hold
    <3>3. WasPublic(t)
      BY <2>1, PublicNowIsPublic DEF PartitionPublic, IInv
    <3> HIDE DEF n
    <3> QED
      BY <1>3, <3>1, <3>2, <3>3
  <2>2. CASE PartitionPrivate(p, t)
    <3> DEFINE n == [o EXCEPT !.unread = @ \ {t}, !.private = @ \cup {t}]
    <3>1. n \in Job /\ n.plan = o.plan /\ n.public = o.public
      BY <1>1 DEF Job
    <3>2. job' = [job EXCEPT ![p] = n]
      BY <2>2 DEF PartitionPrivate, Hold
    <3> HIDE DEF n
    <3> QED
      BY <1>3, <3>1, <3>2
  <2>3. CASE PartitionUnreadable(p, t)
    <3> DEFINE n == [o EXCEPT !.unread = @ \ {t}, !.private = @ \cup {t},
                              !.quiet = FALSE]
    <3>1. n \in Job /\ n.plan = o.plan /\ n.public = o.public
      BY <1>1 DEF Job
    <3>2. job' = [job EXCEPT ![p] = n]
      BY <2>3 DEF PartitionUnreadable, Hold
    <3> HIDE DEF n
    <3> QED
      BY <1>3, <3>1, <3>2
  <2> QED
    BY <2>1, <2>2, <2>3
<1> QED
  BY <1>2, <1>4, <1>5, JobStep

LEMMA ProjectStep ==
    ASSUME IInv, NEW p \in Pushers, NEW t \in Threads,
           ProjectPublic(p, t) \/ ProjectPrivate(p, t)
    PROVE  IInv'
<1> DEFINE o == job[p]
<1>1. o \in Job /\ o.plan \in [Threads -> Entry]
  BY DEF IInv, TypeOK, Job
<1>2. \A v \in Threads : Showable(o.plan[v].tree, v)
  BY DEF IInv, PlansShowable
<1>3. \A u \in o.public : WasPublic(u)
  BY DEF IInv, PublicKnown
<1>4. "lint" \in Phases /\ UNCHANGED <<versions, deleted, published, remote, pc>>
  BY DEF Phases, ProjectPublic, ProjectPrivate
<1>5. PICK n \in Job : /\ job' = [job EXCEPT ![p] = n]
                       /\ n.public = o.public
                       /\ \A v \in Threads : Showable(n.plan[v].tree, v)
  <2>1. CASE ProjectPublic(p, t)
    <3> DEFINE tree == Exclude(ReadTree(t), o)
               plan == ToPublish(o.plan, t, tree)
               warned == o.warned \/ Warns(ReadTree(t), o)
               n == [o EXCEPT !.unprojected = @ \ {t},
                              !.plan = plan, !.warned = warned]
    <3>1. tree \in Tree /\ Showable(tree, t)
      BY <2>1, ExcludeFacts DEF ProjectPublic, IInv
    <3>2. plan \in [Threads -> Entry]
      BY <1>1, <3>1 DEF ToPublish, Entry
    <3>3. \A v \in Threads : Showable(plan[v].tree, v)
      BY <1>1, <1>2, <3>1 DEF ToPublish
    <3>4. warned \in BOOLEAN
      BY <1>1 DEF Job, Warns
    <3>5. job' = [job EXCEPT ![p] = n]
      BY <2>1 DEF ProjectPublic, Hold
    <3> HIDE DEF plan, warned
    <3>6. n \in Job /\ n.plan = plan /\ n.public = o.public
      BY <1>1, <3>2, <3>4 DEF Job
    <3> HIDE DEF n
    <3> QED
      BY <3>3, <3>5, <3>6
  <2>2. CASE ProjectPrivate(p, t)
    <3> DEFINE n == [o EXCEPT !.unprojected = @ \ {t}]
    <3>1. n \in Job /\ n.plan = o.plan /\ n.public = o.public
      BY <1>1 DEF Job
    <3>2. job' = [job EXCEPT ![p] = n]
      BY <2>2 DEF ProjectPrivate, Hold
    <3> HIDE DEF n
    <3> QED
      BY <1>2, <3>1, <3>2
  <2> QED
    BY <2>1, <2>2
<1> QED
  BY <1>3, <1>4, <1>5, JobStep

LEMMA StageStep ==
    ASSUME IInv, NEW p \in Pushers, Stage(p) \/ StageNothing(p)
    PROVE  IInv'
<1> DEFINE o == job[p]
<1>1. o \in Job
  BY DEF IInv, TypeOK
<1>2. PICK ids \in SUBSET Threads, quiet \in BOOLEAN : StageIds(p, ids, quiet)
  BY <1>1 DEF Stage, StageNothing, Orphaned, Job
<1> DEFINE n == [NoJob EXCEPT !.plan = o.plan, !.staged = ids, !.quiet = quiet]
<1>3. n \in Job /\ n.plan = o.plan /\ n.public = {}
  BY <1>1, NoJobFacts DEF Job, NoJob
<1>4. \A v \in Threads : Showable(o.plan[v].tree, v)
  BY DEF IInv, PlansShowable
<1>5. /\ job' = [job EXCEPT ![p] = n]
      /\ pc' = [pc EXCEPT ![p] = "commit"]
      /\ UNCHANGED <<versions, deleted, published, remote>>
  BY <1>2 DEF StageIds, Hold
<1>6. "commit" \in Phases
  BY DEF Phases
<1> HIDE DEF n
<1> QED
  BY <1>3, <1>4, <1>5, <1>6, JobStep

LEMMA WriteStep ==
    ASSUME IInv, NEW p \in Pushers, NEW t \in Threads, WritePublished(p, t)
    PROVE  IInv'
<1> DEFINE o == job[p]
           tree == o.plan[t].tree
           action == IF published[t] = tree THEN "skipped" ELSE "written"
           n == [o EXCEPT !.plan[t].action = action]
<1>1. /\ o \in Job /\ o.plan \in [Threads -> Entry]
      /\ job \in [Pushers -> Job]
      /\ published \in [Threads -> Tree] /\ remote \in [Threads -> Tree]
      /\ pc \in [Pushers -> Phases]
  BY DEF IInv, TypeOK, Job
<1>2. tree \in Tree /\ Showable(tree, t)
  BY <1>1 DEF IInv, PlansShowable, Entry
<1>3. /\ published' = [published EXCEPT ![t] = tree]
      /\ job' = [job EXCEPT ![p] = n]
      /\ UNCHANGED <<versions, deleted, remote, pc>>
  BY DEF WritePublished, Hold
<1>4. action \in {"written", "skipped"}
  OBVIOUS
<1> HIDE DEF action
<1>5. n \in Job /\ n.public = o.public
      /\ \A v \in Threads : n.plan[v].tree = o.plan[v].tree
  <2>1. [o.plan EXCEPT ![t].action = action] \in [Threads -> Entry]
    BY <1>1, <1>4 DEF Entry
  <2>2. \A v \in Threads :
            [o.plan EXCEPT ![t].action = action][v].tree = o.plan[v].tree
    BY <1>1 DEF Entry
  <2> QED
    BY <1>1, <2>1, <2>2 DEF Job
<1> HIDE DEF n
<1>6. \A v \in Threads : Showable(published'[v], v) /\ Showable(remote'[v], v)
  BY <1>1, <1>2, <1>3 DEF IInv, OnlyPublicShown
<1>7. published' \in [Threads -> Tree]
  BY <1>1, <1>2, <1>3
<1>8. \A q \in Pushers : job'[q] = IF q = p THEN n ELSE job[q]
  BY <1>1, <1>3
<1>9. job' \in [Pushers -> Job]
  BY <1>1, <1>3, <1>5
<1> QED
  BY <1>1, <1>3, <1>5, <1>6, <1>7, <1>8, <1>9, TreeStep

LEMMA CleanStep ==
    ASSUME IInv, NEW p \in Pushers, NEW t \in Threads, DeletePublished(p, t)
    PROVE  IInv'
<1> DEFINE o == job[p]
           n == [o EXCEPT !.staged = @ \ {t}]
<1>1. /\ o \in Job
      /\ job \in [Pushers -> Job]
      /\ published \in [Threads -> Tree] /\ remote \in [Threads -> Tree]
      /\ pc \in [Pushers -> Phases]
  BY DEF IInv, TypeOK
<1>2. /\ published' = [published EXCEPT ![t] = NoTree] \/ published' = published
      /\ job' = [job EXCEPT ![p] = n]
      /\ UNCHANGED <<versions, deleted, remote, pc>>
  BY DEF DeletePublished, Hold
<1>3. n \in Job /\ n.public = o.public /\ n.plan = o.plan
  BY <1>1 DEF Job
<1> HIDE DEF n
<1>4. \A v \in Threads : Showable(published'[v], v) /\ Showable(remote'[v], v)
  BY <1>1, <1>2, NoTreeFacts DEF IInv, OnlyPublicShown
<1>5. published' \in [Threads -> Tree]
  BY <1>1, <1>2, NoTreeFacts
<1>6. \A q \in Pushers : job'[q] = IF q = p THEN n ELSE job[q]
  BY <1>1, <1>2
<1>7. job' \in [Pushers -> Job]
  BY <1>1, <1>2, <1>3
<1> QED
  BY <1>1, <1>2, <1>3, <1>4, <1>5, <1>6, <1>7, TreeStep

LEMMA SendStep ==
    ASSUME IInv, NEW p \in Pushers, NEW acc \in SUBSET Threads,
           PushAccepted(p) \/ PushRefused(p, acc)
    PROVE  IInv'
<1>1. /\ job \in [Pushers -> Job] /\ pc \in [Pushers -> Phases]
      /\ published \in [Threads -> Tree] /\ remote \in [Threads -> Tree]
  BY DEF IInv, TypeOK
<1>2. PICK ids : remote' = RemoteAfter(job[p], ids)
  BY DEF PushAccepted, PushRefused
<1>3. UNCHANGED <<versions, deleted, published>>
  BY DEF PushAccepted, PushRefused
<1>4. \A t \in Threads : remote'[t] \in {remote[t], published[t], NoTree}
  BY <1>2 DEF RemoteAfter
<1>5. remote' \in [Threads -> Tree]
  BY <1>1, <1>2, NoTreeFacts DEF RemoteAfter
<1>6. \A t \in Threads : Showable(published'[t], t) /\ Showable(remote'[t], t)
  BY <1>3, <1>4, NoTreeFacts DEF IInv, OnlyPublicShown
<1>7. \/ job' = job /\ pc' = [pc EXCEPT ![p] = "clean"]
      \/ job' = [job EXCEPT ![p] = NoJob] /\ pc' = [pc EXCEPT ![p] = "idle"]
  BY DEF PushAccepted, PushRefused, Return, Hold
<1>8. job' \in [Pushers -> Job] /\ pc' \in [Pushers -> Phases]
  BY <1>1, <1>7, NoJobFacts DEF Phases
<1>9. \A q \in Pushers : job'[q] \in {job[q], NoJob}
  BY <1>1, <1>7
<1>10. \A q \in Pushers :
           /\ job'[q].public \subseteq job[q].public
           /\ \A t \in Threads : job'[q].plan[t].tree \in {job[q].plan[t].tree, NoTree}
  BY <1>9 DEF NoJob, NoPlan
<1> QED
  BY <1>1, <1>3, <1>5, <1>6, <1>8, <1>10, TreeStep

(* The surroundings change the history variable quiet and nothing else of   *)
(* what pushes hold.                                                       *)
LEMMA DisturbedFacts ==
    ASSUME IInv
    PROVE  /\ Disturbed \in [Pushers -> Job]
           /\ \A q \in Pushers : /\ Disturbed[q].plan = job[q].plan
                                 /\ Disturbed[q].public = job[q].public
<1>1. \A q \in Pushers : job[q] \in Job
  BY DEF IInv, TypeOK
<1>2. \A q \in Pushers : LET n == [job[q] EXCEPT !.quiet = FALSE] IN
          n \in Job /\ n.plan = job[q].plan /\ n.public = job[q].public
  BY <1>1 DEF Job
<1> QED
  BY <1>1, <1>2 DEF Disturbed

LEMMA FetchStep ==
    ASSUME IInv, FetchPublished
    PROVE  IInv'
<1>1. /\ published \in [Threads -> Tree] /\ remote \in [Threads -> Tree]
      /\ pc \in [Pushers -> Phases]
  BY DEF IInv, TypeOK
<1>2. /\ published' = [t \in Threads |->
                          IF remote[t] = NoTree THEN published[t] ELSE remote[t]]
      /\ job' = Disturbed
      /\ UNCHANGED <<versions, deleted, remote, pc>>
  BY DEF FetchPublished
<1>3. published' \in [Threads -> Tree]
  BY <1>1, <1>2
<1>4. \A t \in Threads : Showable(published'[t], t) /\ Showable(remote'[t], t)
  BY <1>2 DEF IInv, OnlyPublicShown
<1>5. /\ job' \in [Pushers -> Job]
      /\ \A q \in Pushers : /\ job'[q].plan = job[q].plan
                            /\ job'[q].public = job[q].public
  BY <1>2, DisturbedFacts
<1> QED
  BY <1>1, <1>2, <1>3, <1>4, <1>5, TreeStep

(* Documents only grow, and everything showable stays showable.            *)
LEMMA GrowStep ==
    ASSUME IInv, Grows, versions' \in [Threads -> Seq(Doc)],
           deleted' \in SUBSET Threads, job' = Disturbed,
           UNCHANGED <<published, remote, pc>>
    PROVE  IInv'
<1>1. TypeOK'
  BY DisturbedFacts DEF IInv, TypeOK
<1>2. versions \in [Threads -> Seq(Doc)]
      /\ published \in [Threads -> Tree] /\ remote \in [Threads -> Tree]
  BY DEF IInv, TypeOK
<1>3. OnlyPublicShown'
  <2> SUFFICES ASSUME NEW t \in Threads
               PROVE  Showable(remote[t], t)' /\ Showable(published[t], t)'
    BY DEF OnlyPublicShown
  <2>1. Showable(remote[t], t) /\ Showable(published[t], t)
    BY DEF IInv, OnlyPublicShown
  <2>2. PICK r \in Tree, q \in Tree : r = remote[t] /\ q = published[t]
    BY <1>2
  <2>3. Showable(r, t)' /\ Showable(q, t)'
    BY <1>2, <2>1, <2>2, ShowableStays
  <2>4. r = remote'[t] /\ q = published'[t]
    BY <2>2
  <2> QED
    BY <2>3, <2>4
<1>4. \A p \in Pushers : job'[p].plan = job[p].plan /\ job'[p].public = job[p].public
  BY DisturbedFacts
<1>5. PlansShowable'
  <2> SUFFICES ASSUME NEW p \in Pushers, NEW t \in Threads
               PROVE  Showable(job[p].plan[t].tree, t)'
    BY DEF PlansShowable
  <2>1. Showable(job[p].plan[t].tree, t)
    BY DEF IInv, PlansShowable
  <2>2. PICK r \in Tree : r = job[p].plan[t].tree
    BY DEF IInv, TypeOK, Job, Entry
  <2>3. Showable(r, t)'
    BY <1>2, <2>1, <2>2, ShowableStays
  <2>4. r = job'[p].plan[t].tree
    BY <1>4, <2>2
  <2> QED
    BY <2>3, <2>4
<1>6. PublicKnown'
  <2> SUFFICES ASSUME NEW p \in Pushers, NEW u \in job'[p].public
               PROVE  WasPublic(u)'
    BY DEF PublicKnown
  <2>1. WasPublic(u) /\ u \in Threads
    BY <1>4 DEF IInv, PublicKnown, TypeOK, Job
  <2> QED
    BY <1>2, <2>1, PublicStays
<1> QED
  BY <1>1, <1>3, <1>5, <1>6 DEF IInv

LEMMA EditStep ==
    ASSUME IInv, NEW t \in Threads, NEW u \in Threads,
           \/ CreateThread(t) \/ SetVisibility(t) \/ NameThread(t, u)
           \/ DeleteThread(t)
    PROVE  IInv'
<1>1. versions \in [Threads -> Seq(Doc)] /\ deleted \in SUBSET Threads
  BY DEF IInv, TypeOK
<1>2. CASE DeleteThread(t)
  <2>1. Grows
    BY <1>2 DEF DeleteThread, Grows
  <2>2. versions' \in [Threads -> Seq(Doc)] /\ deleted' \in SUBSET Threads
    BY <1>1, <1>2 DEF DeleteThread
  <2> QED
    BY <1>2, <2>1, <2>2, GrowStep DEF DeleteThread
<1>3. CASE CreateThread(t) \/ SetVisibility(t) \/ NameThread(t, u)
  <2>1. Exists(t) => Current(t) \in Doc
    BY <1>1 DEF Exists, Current
  <2>2. PICK d \in Doc : Commit(t, d)
    BY <1>3, <2>1 DEF CreateThread, SetVisibility, NameThread, Doc
  <2>3. versions' = [versions EXCEPT ![t] = Append(@, d)]
    BY <2>2 DEF Commit
  <2>4. Grows /\ versions' \in [Threads -> Seq(Doc)]
    BY <1>1, <2>3 DEF Grows
  <2> QED
    BY <1>1, <2>2, <2>4, GrowStep DEF Commit
<1> QED
  BY <1>2, <1>3

-----------------------------------------------------------------------------
LEMMA NextStep == IInv /\ [Next]_vars => IInv'
<1> SUFFICES ASSUME IInv, [Next]_vars PROVE IInv'
  OBVIOUS
<1>1. CASE UNCHANGED vars
  BY <1>1 DEF vars, IInv, TypeOK, OnlyPublicShown, PlansShowable, PublicKnown,
              Showable, WasPublic
<1>2. ASSUME NEW p \in Pushers, Start(p) PROVE IInv'
  BY <1>2, ListStep DEF Start
<1>3. ASSUME NEW p \in Pushers, Lint(p) PROVE IInv'
  <2>1. CASE \E t \in Threads : ProjectUnreadable(p, t)
    BY <2>1, ReturnStep DEF ProjectUnreadable
  <2>2. CASE RefuseStrict(p)
    BY <2>2, ReturnStep DEF RefuseStrict
  <2> QED
    BY <1>3, <2>1, <2>2, PartitionStep, ProjectStep, StageStep DEF Lint
<1>4. ASSUME NEW p \in Pushers, Realise(p) PROVE IInv'
  <2>1. CASE NothingToPush(p)
    BY <2>1, ReturnStep DEF NothingToPush
  <2>2. CASE PushImpossible(p)
    BY <2>2, ReturnStep DEF PushImpossible
  <2> QED
    BY <1>4, <2>1, <2>2, WriteStep DEF Realise
<1>5. ASSUME NEW p \in Pushers, Clean(p) PROVE IInv'
  <2>1. CASE ReturnOk(p)
    BY <2>1, ReturnStep DEF ReturnOk
  <2> QED
    BY <1>5, <2>1, CleanStep DEF Clean
<1>6. ASSUME NEW p \in Pushers, PushAccepted(p) PROVE IInv'
  BY <1>6, SendStep
<1>7. ASSUME NEW p \in Pushers, Misfortune(p) PROVE IInv'
  <2>1. CASE Stop(p)
    BY <2>1, ReturnStep DEF Stop
  <2> QED
    BY <1>7, <2>1, PartitionStep, SendStep, StageStep DEF Misfortune
<1>8. CASE Surroundings
  BY <1>8, EditStep, FetchStep DEF Surroundings
<1> QED
  BY <1>1, <1>2, <1>3, <1>4, <1>5, <1>6, <1>7, <1>8 DEF Next, Continue

(* What a push plans, writes and sends rests on reads of public documents:  *)
(* the inductive invariant holds in every reachable state.                 *)
THEOREM PublishInvariant == Spec => []IInv
  BY InitIInv, NextStep, PTL DEF Spec

(* The variables of Publish stay in their types.                           *)
THEOREM PublishTypes == Spec => []TypeOK
<1>1. IInv => TypeOK
  BY DEF IInv
<1> QED
  BY <1>1, PublishInvariant, PTL

(* No private version and no reference to a thread that was never public    *)
(* is ever in the published refs of the clone or of the remote.            *)
THEOREM PublishPrivacy == Spec => []OnlyPublicShown
<1>1. IInv => OnlyPublicShown
  BY DEF IInv
<1> QED
  BY <1>1, PublishInvariant, PTL

-----------------------------------------------------------------------------
(* When pushes of one clone do not overlap: what the remote shows has its   *)
(* ref in the clone until the remote has withdrawn it, and a push that      *)
(* nothing disturbs knows the threads as they are.                         *)
OnePush == \A p, q \in Pushers : p = q

Anchored == \A t \in Threads : remote[t] # NoTree => published[t] # NoTree

WithdrawnFirst ==
    \A p \in Pushers : pc[p] = "clean" => \A t \in job[p].staged : remote[t] = NoTree

PlansATree ==
    \A p \in Pushers : \A t \in Threads :
        job[p].plan[t].action # "none" => job[p].plan[t].tree # NoTree

AnchorInv == IInv /\ Anchored /\ WithdrawnFirst /\ PlansATree

(* What the sets and the plan of an undisturbed lint_pass say so far.       *)
LintedSoFar(j) ==
    /\ j.listed = {t \in Threads : Exists(t)}
    /\ j.unread \subseteq j.listed /\ j.unprojected \subseteq j.listed
    /\ j.public = PublicNow \ j.unread
    /\ j.private = j.listed \ (j.unread \cup PublicNow)
    /\ \A t \in Threads :
          IF t \in PublicNow \ j.unprojected
          THEN j.plan[t] = [action |-> "publish", tree |-> ProjectionOf(t)]
          ELSE j.plan[t].action = "none"

(* The plan covers every difference between the clone's published refs and  *)
(* the projection of its threads.                                          *)
PlanComplete(j) ==
    \A t \in Threads :
        IF t \in PublicNow
        THEN /\ j.plan[t].action \in {"publish", "written", "skipped"}
             /\ j.plan[t].tree = ProjectionOf(t)
             /\ j.plan[t].action # "publish" => published[t] = ProjectionOf(t)
        ELSE /\ j.plan[t].action = "none"
             /\ published[t] # NoTree => t \in j.staged

RemoteDone == \A t \in Threads : remote[t] = ProjectionOf(t)

Undisturbed(p) ==
    job[p].quiet =>
        /\ pc[p] = "lint" => LintedSoFar(job[p])
        /\ pc[p] = "commit" => PlanComplete(job[p])
        /\ pc[p] = "clean" => RemoteDone

QuietInv == AnchorInv /\ \A p \in Pushers : Undisturbed(p)

LEMMA NoTreeHasNoVersion ==
    ASSUME TypeOK, NEW t \in Threads, NEW tree,
           tree.version \in DOMAIN versions[t]
    PROVE  tree # NoTree
<1>1. versions[t] \in Seq(Doc)
  BY DEF TypeOK
<1>2. 0 \notin DOMAIN versions[t]
  BY <1>1
<1> QED
  BY <1>2 DEF NoTree

(* There is one push: what is said of every push is said of it.            *)
LEMMA OneJob ==
    ASSUME OnePush, TypeOK, NEW p \in Pushers, NEW j, job' = [job EXCEPT ![p] = j]
    PROVE  \A q \in Pushers : q = p /\ job'[q] = j
  BY DEF OnePush, TypeOK

LEMMA OnePhase ==
    ASSUME OnePush, TypeOK, NEW p \in Pushers, NEW l,
           pc' = pc \/ pc' = [pc EXCEPT ![p] = l]
    PROVE  \A q \in Pushers : q = p /\ pc'[q] \in {pc[q], l}
  BY DEF OnePush, TypeOK

(* A step of the push that leaves published and remote refs alone.         *)
LEMMA AnchorJobStep ==
    ASSUME OnePush, AnchorInv, NEW p \in Pushers, NEW j, NEW l,
           UNCHANGED <<published, remote>>,
           job' = [job EXCEPT ![p] = j],
           pc' = pc \/ pc' = [pc EXCEPT ![p] = l],
           pc[p] # "clean", l # "clean",
           \A t \in Threads : j.plan[t].action # "none" => j.plan[t].tree # NoTree
    PROVE  Anchored' /\ WithdrawnFirst' /\ PlansATree'
<1>1. TypeOK
  BY DEF AnchorInv, IInv
<1>2. \A q \in Pushers : job'[q] = j /\ pc'[q] # "clean"
  <2>1. \A q \in Pushers : job'[q] = j
    BY <1>1, OneJob
  <2>2. \A q \in Pushers : q = p /\ pc'[q] \in {pc[q], l}
    BY <1>1, OnePhase
  <2> QED
    BY <2>1, <2>2
<1>3. Anchored'
  BY DEF AnchorInv, Anchored
<1>4. WithdrawnFirst'
  BY <1>2 DEF WithdrawnFirst
<1>5. PlansATree'
  BY <1>2 DEF PlansATree
<1> QED
  BY <1>3, <1>4, <1>5

(* The push ends, and has kept every ref of what the remote shows.         *)
LEMMA AnchorReturn ==
    ASSUME OnePush, AnchorInv, NEW p \in Pushers, Return(p), Anchored'
    PROVE  Anchored' /\ WithdrawnFirst' /\ PlansATree'
<1>1. TypeOK
  BY DEF AnchorInv, IInv
<1>2. \A q \in Pushers : job'[q] = NoJob
  BY <1>1, OneJob DEF Return, Hold
<1>3. \A q \in Pushers : pc'[q] = "idle"
  BY <1>1 DEF Return, OnePush, TypeOK
<1>4. WithdrawnFirst'
  BY <1>3 DEF WithdrawnFirst
<1>5. PlansATree'
  BY <1>2 DEF PlansATree, NoJob, NoPlan
<1> QED
  BY <1>4, <1>5

LEMMA AnchorReturnQuietly ==
    ASSUME OnePush, AnchorInv, NEW p \in Pushers, Return(p),
           UNCHANGED <<published, remote>>
    PROVE  Anchored' /\ WithdrawnFirst' /\ PlansATree'
<1>1. Anchored'
  BY DEF AnchorInv, Anchored
<1> QED
  BY <1>1, AnchorReturn

LEMMA AnchorList ==
    ASSUME OnePush, AnchorInv, NEW p \in Pushers, NEW strict \in BOOLEAN,
           ListThreads(p, strict) \/ ListNothing(p, strict)
    PROVE  Anchored' /\ WithdrawnFirst' /\ PlansATree'
<1>1. PICK ids \in SUBSET Threads, quiet \in BOOLEAN : List(p, strict, ids, quiet)
  BY DEF ListThreads, ListNothing
<1> DEFINE j == [NoJob EXCEPT !.listed = ids, !.unread = ids, !.unprojected = ids,
                              !.strict = strict, !.quiet = quiet]
<1>2. j.plan = NoPlan
  BY DEF NoJob
<1>3. \A t \in Threads : j.plan[t].action = "none"
  BY <1>2 DEF NoPlan
<1>4. /\ job' = [job EXCEPT ![p] = j] /\ pc' = [pc EXCEPT ![p] = "lint"]
      /\ pc[p] = "idle" /\ UNCHANGED <<published, remote>>
  BY <1>1 DEF List, Hold
<1> HIDE DEF j
<1> QED
  BY <1>3, <1>4, AnchorJobStep

LEMMA AnchorPartition ==
    ASSUME OnePush, AnchorInv, NEW p \in Pushers, NEW t \in Threads,
           \/ PartitionPublic(p, t)
           \/ PartitionPrivate(p, t)
           \/ PartitionUnreadable(p, t)
           \/ ProjectPrivate(p, t)
    PROVE  Anchored' /\ WithdrawnFirst' /\ PlansATree'
<1>1. job[p] \in Job
  BY DEF AnchorInv, IInv, TypeOK
<1>2. /\ pc[p] = "lint" /\ pc' = pc /\ UNCHANGED <<published, remote>>
      /\ \E j : job' = [job EXCEPT ![p] = j] /\ j.plan = job[p].plan
  <2>1. CASE PartitionPublic(p, t)
    <3> DEFINE n == [job[p] EXCEPT !.unread = @ \ {t}, !.public = @ \cup {t}]
    <3>1. n.plan = job[p].plan
      BY <1>1 DEF Job
    <3>2. job' = [job EXCEPT ![p] = n]
      BY <2>1 DEF PartitionPublic, Hold
    <3> HIDE DEF n
    <3> QED
      BY <2>1, <3>1, <3>2 DEF PartitionPublic
  <2>2. CASE PartitionPrivate(p, t)
    <3> DEFINE n == [job[p] EXCEPT !.unread = @ \ {t}, !.private = @ \cup {t}]
    <3>1. n.plan = job[p].plan
      BY <1>1 DEF Job
    <3>2. job' = [job EXCEPT ![p] = n]
      BY <2>2 DEF PartitionPrivate, Hold
    <3> HIDE DEF n
    <3> QED
      BY <2>2, <3>1, <3>2 DEF PartitionPrivate
  <2>3. CASE PartitionUnreadable(p, t)
    <3> DEFINE n == [job[p] EXCEPT !.unread = @ \ {t}, !.private = @ \cup {t},
                                   !.quiet = FALSE]
    <3>1. n.plan = job[p].plan
      BY <1>1 DEF Job
    <3>2. job' = [job EXCEPT ![p] = n]
      BY <2>3 DEF PartitionUnreadable, Hold
    <3> HIDE DEF n
    <3> QED
      BY <2>3, <3>1, <3>2 DEF PartitionUnreadable
  <2>4. CASE ProjectPrivate(p, t)
    <3> DEFINE n == [job[p] EXCEPT !.unprojected = @ \ {t}]
    <3>1. n.plan = job[p].plan
      BY <1>1 DEF Job
    <3>2. job' = [job EXCEPT ![p] = n]
      BY <2>4 DEF ProjectPrivate, Hold
    <3> HIDE DEF n
    <3> QED
      BY <2>4, <3>1, <3>2 DEF ProjectPrivate
  <2> QED
    BY <2>1, <2>2, <2>3, <2>4
<1>3. PICK j : job' = [job EXCEPT ![p] = j] /\ j.plan = job[p].plan
  BY <1>2
<1>4. \A v \in Threads : j.plan[v].action # "none" => j.plan[v].tree # NoTree
  BY <1>3 DEF AnchorInv, PlansATree
<1>5. "lint" # "clean"
  OBVIOUS
<1> QED
  BY <1>2, <1>3, <1>4, <1>5, AnchorJobStep

(* What a push plans to write is a version of a document.                  *)
LEMMA AnchorProject ==
    ASSUME OnePush, AnchorInv, NEW p \in Pushers, NEW t \in Threads,
           ProjectPublic(p, t)
    PROVE  Anchored' /\ WithdrawnFirst' /\ PlansATree'
<1> DEFINE o == job[p]
           tree == Exclude(ReadTree(t), o)
           plan == ToPublish(o.plan, t, tree)
           warned == o.warned \/ Warns(ReadTree(t), o)
           n == [o EXCEPT !.unprojected = @ \ {t}, !.plan = plan, !.warned = warned]
<1>1. o \in Job /\ o.plan \in [Threads -> Entry]
  BY DEF AnchorInv, IInv, TypeOK, Job
<1>2. TypeOK /\ OnlyPublicShown /\ Readable(t) /\ ReadPublic(t)
  BY DEF AnchorInv, IInv, ProjectPublic
<1>3. tree # NoTree
  <2>1. ReadTree(t) \in Tree /\ ReadTree(t).version \in DOMAIN versions[t]
    BY <1>2, ReadFacts
  <2>2. tree.version = ReadTree(t).version
    BY <2>1 DEF Exclude, Tree
  <2> HIDE DEF tree
  <2> QED
    BY <1>2, <2>1, <2>2, NoTreeHasNoVersion
<1>4. job' = [job EXCEPT ![p] = n] /\ pc' = pc /\ pc[p] = "lint"
      /\ UNCHANGED <<published, remote>>
  BY DEF ProjectPublic, Hold
<1>5. \A v \in Threads : plan[v].action # "none" => plan[v].tree # NoTree
  <2> HIDE DEF tree
  <2> SUFFICES ASSUME NEW v \in Threads, plan[v].action # "none"
               PROVE  plan[v].tree # NoTree
    OBVIOUS
  <2>1. CASE v = t
    BY <1>1, <1>3, <2>1 DEF ToPublish
  <2>2. CASE v # t
    BY <1>1, <2>2 DEF ToPublish, AnchorInv, PlansATree
  <2> QED
    BY <2>1, <2>2
<1> HIDE DEF plan, warned
<1>6. n.plan = plan
  BY <1>1 DEF Job
<1> HIDE DEF n
<1>7. "lint" # "clean"
  OBVIOUS
<1> QED
  BY <1>4, <1>5, <1>6, <1>7, AnchorJobStep

LEMMA AnchorStage ==
    ASSUME OnePush, AnchorInv, NEW p \in Pushers, Stage(p) \/ StageNothing(p)
    PROVE  Anchored' /\ WithdrawnFirst' /\ PlansATree'
<1>1. PICK ids, quiet : StageIds(p, ids, quiet)
  BY DEF Stage, StageNothing
<1> DEFINE n == [NoJob EXCEPT !.plan = job[p].plan, !.staged = ids, !.quiet = quiet]
<1>2. n.plan = job[p].plan
  BY DEF NoJob
<1>3. /\ job' = [job EXCEPT ![p] = n] /\ pc' = [pc EXCEPT ![p] = "commit"]
      /\ pc[p] = "lint" /\ UNCHANGED <<published, remote>>
  BY <1>1 DEF StageIds, Hold
<1> HIDE DEF n
<1>4. \A v \in Threads : n.plan[v].action # "none" => n.plan[v].tree # NoTree
  BY <1>2 DEF AnchorInv, PlansATree
<1> QED
  BY <1>3, <1>4, AnchorJobStep

LEMMA AnchorWrite ==
    ASSUME OnePush, AnchorInv, NEW p \in Pushers, NEW t \in Threads,
           WritePublished(p, t)
    PROVE  Anchored' /\ WithdrawnFirst' /\ PlansATree'
<1> DEFINE o == job[p]
           action == IF published[t] = o.plan[t].tree THEN "skipped" ELSE "written"
           n == [o EXCEPT !.plan[t].action = action]
<1>1. /\ TypeOK /\ o \in Job /\ o.plan \in [Threads -> Entry]
      /\ published \in [Threads -> Tree]
  BY DEF AnchorInv, IInv, TypeOK, Job
<1>2. /\ published' = [published EXCEPT ![t] = o.plan[t].tree]
      /\ job' = [job EXCEPT ![p] = n]
      /\ o.plan[t].action = "publish"
      /\ pc[p] = "commit" /\ UNCHANGED <<remote, pc>>
  BY DEF WritePublished, Hold, Unwritten
<1>3. o.plan[t].tree # NoTree
  BY <1>2 DEF AnchorInv, PlansATree
<1> HIDE DEF action
<1>4. \A v \in Threads : n.plan[v].tree = o.plan[v].tree
                         /\ (v # t => n.plan[v].action = o.plan[v].action)
  <2>1. \A v \in Threads :
            /\ [o.plan EXCEPT ![t].action = action][v].tree = o.plan[v].tree
            /\ v # t => [o.plan EXCEPT ![t].action = action][v].action
                            = o.plan[v].action
    BY <1>1 DEF Entry
  <2> QED
    BY <1>1, <2>1 DEF Job
<1> HIDE DEF n
<1>5. Anchored'
  BY <1>1, <1>2, <1>3 DEF AnchorInv, Anchored
<1>6. WithdrawnFirst'
  BY <1>1, <1>2 DEF WithdrawnFirst, OnePush
<1>7. \A q \in Pushers : q = p /\ job'[q] = n
  BY <1>1, <1>2, OneJob
<1>8. PlansATree'
  BY <1>3, <1>4, <1>7 DEF AnchorInv, PlansATree
<1> QED
  BY <1>5, <1>6, <1>8

(* Whatever the remote accepts, it shows what the clone holds or less.      *)
LEMMA RemoteAnchored ==
    ASSUME Anchored, NEW j, NEW acc, acc \subseteq Refspecs(j), Pushable(j),
           remote' = RemoteAfter(j, acc), UNCHANGED published
    PROVE  Anchored'
<1> SUFFICES ASSUME NEW t \in Threads, remote'[t] # NoTree
             PROVE  published[t] # NoTree
  BY DEF Anchored
<1>1. CASE t \notin acc
  BY <1>1 DEF RemoteAfter, Anchored
<1>2. CASE t \in acc
  BY <1>2 DEF RemoteAfter, Pushable, Refspecs
<1> QED
  BY <1>1, <1>2

LEMMA AnchorAccepted ==
    ASSUME OnePush, AnchorInv, NEW p \in Pushers, PushAccepted(p)
    PROVE  Anchored' /\ WithdrawnFirst' /\ PlansATree'
<1>1. /\ remote' = RemoteAfter(job[p], Refspecs(job[p]))
      /\ Pushable(job[p])
      /\ UNCHANGED <<published, job>>
  BY DEF PushAccepted
<1>2. Anchored'
  BY <1>1, RemoteAnchored DEF AnchorInv
<1>3. \A t \in Threads : t \in job[p].staged => remote'[t] = NoTree
  BY <1>1 DEF RemoteAfter, Refspecs
<1>4. job[p].staged \subseteq Threads
  BY DEF AnchorInv, IInv, TypeOK, Job
<1>5. WithdrawnFirst'
  BY <1>1, <1>3, <1>4 DEF WithdrawnFirst, OnePush
<1>6. PlansATree'
  BY <1>1 DEF AnchorInv, PlansATree
<1> QED
  BY <1>2, <1>5, <1>6

LEMMA AnchorRefused ==
    ASSUME OnePush, AnchorInv, NEW p \in Pushers, NEW acc \in SUBSET Threads,
           PushRefused(p, acc)
    PROVE  Anchored' /\ WithdrawnFirst' /\ PlansATree'
<1>1. /\ remote' = RemoteAfter(job[p], acc) /\ acc \subseteq Refspecs(job[p])
      /\ Pushable(job[p]) /\ UNCHANGED published /\ Return(p)
  BY DEF PushRefused
<1>2. Anchored'
  BY <1>1, RemoteAnchored DEF AnchorInv
<1> QED
  BY <1>1, <1>2, AnchorReturn

(* The clone lets go of a ref after the remote did.                        *)
LEMMA AnchorDelete ==
    ASSUME OnePush, AnchorInv, NEW p \in Pushers, NEW t \in Threads,
           DeletePublished(p, t)
    PROVE  Anchored' /\ WithdrawnFirst' /\ PlansATree'
<1> DEFINE n == [job[p] EXCEPT !.staged = @ \ {t}]
<1>1. /\ TypeOK /\ job[p] \in Job
      /\ published \in [Threads -> Tree]
  BY DEF AnchorInv, IInv, TypeOK
<1>2. /\ published' = [published EXCEPT ![t] = NoTree] \/ published' = published
      /\ job' = [job EXCEPT ![p] = n]
      /\ pc[p] = "clean" /\ t \in job[p].staged
      /\ UNCHANGED <<remote, pc>>
  BY DEF DeletePublished, Hold
<1>3. n.plan = job[p].plan /\ n.staged \subseteq job[p].staged
  BY <1>1 DEF Job
<1> HIDE DEF n
<1>4. \A q \in Pushers : q = p /\ job'[q] = n
  BY <1>1, <1>2, OneJob
<1>5. remote[t] = NoTree
  BY <1>2 DEF AnchorInv, WithdrawnFirst
<1>6. Anchored'
  BY <1>1, <1>2, <1>5 DEF AnchorInv, Anchored
<1>7. WithdrawnFirst'
  BY <1>2, <1>3, <1>4 DEF AnchorInv, WithdrawnFirst
<1>8. PlansATree'
  BY <1>3, <1>4 DEF AnchorInv, PlansATree
<1> QED
  BY <1>6, <1>7, <1>8

(* What the surroundings change of a push: its history variable.           *)
LEMMA DisturbedJob ==
    ASSUME TypeOK, NEW q \in Pushers
    PROVE  /\ Disturbed[q].plan = job[q].plan
           /\ Disturbed[q].staged = job[q].staged
           /\ pc[q] = "idle" \/ ~Disturbed[q].quiet
<1> DEFINE n == [job[q] EXCEPT !.quiet = FALSE]
<1>1. job[q] \in Job
  BY DEF TypeOK
<1>2. n.plan = job[q].plan /\ n.staged = job[q].staged /\ n.quiet = FALSE
  BY <1>1 DEF Job
<1>3. Disturbed[q] = IF pc[q] = "idle" THEN job[q] ELSE n
  BY DEF Disturbed
<1> HIDE DEF n
<1> QED
  BY <1>2, <1>3

LEMMA AnchorSurroundings ==
    ASSUME OnePush, AnchorInv, Surroundings
    PROVE  Anchored' /\ WithdrawnFirst' /\ PlansATree'
<1>1. /\ job' = Disturbed /\ UNCHANGED <<remote, pc>>
      /\ published' = published
         \/ published' = [t \in Threads |-> IF remote[t] = NoTree THEN published[t]
                                            ELSE remote[t]]
  BY DEF Surroundings, CreateThread, SetVisibility, NameThread, Commit, DeleteThread,
         FetchPublished
<1>2. \A q \in Pushers : job'[q].plan = job[q].plan /\ job'[q].staged = job[q].staged
  BY <1>1, DisturbedJob DEF AnchorInv, IInv
<1>3. Anchored'
  BY <1>1 DEF AnchorInv, Anchored
<1>4. WithdrawnFirst'
  BY <1>1, <1>2 DEF AnchorInv, WithdrawnFirst
<1>5. PlansATree'
  BY <1>2 DEF AnchorInv, PlansATree
<1> QED
  BY <1>3, <1>4, <1>5

LEMMA AnchorInit == Init => AnchorInv
<1>1. Init => Anchored /\ WithdrawnFirst /\ PlansATree
  BY DEF Init, Anchored, WithdrawnFirst, PlansATree, NoJob, NoPlan
<1> QED
  BY <1>1, InitIInv DEF AnchorInv

LEMMA AnchorNext ==
    ASSUME OnePush, AnchorInv, [Next]_vars
    PROVE  AnchorInv'
<1> DEFINE Goal == Anchored' /\ WithdrawnFirst' /\ PlansATree'
<1> SUFFICES Goal
  BY NextStep DEF AnchorInv
<1>1. CASE UNCHANGED vars
  BY <1>1 DEF vars, AnchorInv, Anchored, WithdrawnFirst, PlansATree
<1>2. ASSUME NEW p \in Pushers, Start(p) PROVE Goal
  BY <1>2, AnchorList DEF Start
<1>3. ASSUME NEW p \in Pushers, Lint(p) PROVE Goal
  <2>1. CASE \E t \in Threads : ProjectUnreadable(p, t)
    BY <2>1, AnchorReturnQuietly DEF ProjectUnreadable
  <2>2. CASE RefuseStrict(p)
    BY <2>2, AnchorReturnQuietly DEF RefuseStrict
  <2> QED
    BY <1>3, <2>1, <2>2, AnchorPartition, AnchorProject, AnchorStage DEF Lint
<1>4. ASSUME NEW p \in Pushers, Realise(p) PROVE Goal
  <2>1. CASE NothingToPush(p)
    BY <2>1, AnchorReturnQuietly DEF NothingToPush
  <2>2. CASE PushImpossible(p)
    BY <2>2, AnchorReturnQuietly DEF PushImpossible
  <2> QED
    BY <1>4, <2>1, <2>2, AnchorWrite DEF Realise
<1>5. ASSUME NEW p \in Pushers, Clean(p) PROVE Goal
  <2>1. CASE ReturnOk(p)
    BY <2>1, AnchorReturnQuietly DEF ReturnOk
  <2> QED
    BY <1>5, <2>1, AnchorDelete DEF Clean
<1>6. ASSUME NEW p \in Pushers, PushAccepted(p) PROVE Goal
  BY <1>6, AnchorAccepted
<1>7. ASSUME NEW p \in Pushers, Misfortune(p) PROVE Goal
  <2>1. CASE Stop(p)
    BY <2>1, AnchorReturnQuietly DEF Stop
  <2> QED
    BY <1>7, <2>1, AnchorPartition, AnchorRefused, AnchorStage DEF Misfortune
<1>8. CASE Surroundings
  BY <1>8, AnchorSurroundings
<1> QED
  BY <1>1, <1>2, <1>3, <1>4, <1>5, <1>6, <1>7, <1>8 DEF Next, Continue

(* When pushes of one clone do not overlap, a thread that is shown and      *)
(* should not be keeps, in the clone, the ref that makes a later push       *)
(* withdraw it, whatever the remote refuses and wherever a push dies.      *)
THEOREM PublishNothingStranded ==
    ASSUME OnePush
    PROVE  Spec => []NothingStranded
<1>1. AnchorInv /\ [Next]_vars => AnchorInv'
  BY AnchorNext
<1>2. AnchorInv => NothingStranded
  BY DEF AnchorInv, Anchored, NothingStranded
<1> QED
  BY <1>1, <1>2, AnchorInit, PTL DEF Spec

-----------------------------------------------------------------------------
(* A push that nothing disturbs.                                           *)

LEMMA SameProjection ==
    ASSUME UNCHANGED <<versions, deleted>>
    PROVE  /\ PublicNow' = PublicNow
           /\ \A t \in Threads : ProjectionOf(t)' = ProjectionOf(t)
           /\ \A t \in Threads : Exists(t)' = Exists(t)
<1>1. \A t \in Threads : Exists(t)' = Exists(t) /\ Current(t)' = Current(t)
  BY DEF Exists, Current
<1>2. PublicNow' = PublicNow
  BY DEF PublicNow, Exists, Current
<1> QED
  BY <1>1, <1>2 DEF ProjectionOf

LEMMA QuietLint ==
    ASSUME OnePush, TypeOK, NEW p \in Pushers, NEW j,
           job' = [job EXCEPT ![p] = j], pc'[p] = "lint",
           UNCHANGED <<versions, deleted>>,
           j.quiet => LintedSoFar(j)
    PROVE  \A q \in Pushers : Undisturbed(q)'
<1>1. \A q \in Pushers : q = p /\ job'[q] = j
  BY OneJob
<1>2. LintedSoFar(j) => LintedSoFar(j)'
  BY SameProjection DEF LintedSoFar
<1> QED
  BY <1>1, <1>2 DEF Undisturbed

LEMMA QuietCommit ==
    ASSUME OnePush, TypeOK, NEW p \in Pushers, NEW j,
           job' = [job EXCEPT ![p] = j], pc'[p] = "commit",
           j.quiet => PlanComplete(j)'
    PROVE  \A q \in Pushers : Undisturbed(q)'
<1>1. \A q \in Pushers : q = p /\ job'[q] = j
  BY OneJob
<1> QED
  BY <1>1 DEF Undisturbed

LEMMA QuietReturn ==
    ASSUME OnePush, TypeOK, NEW p \in Pushers, Return(p)
    PROVE  \A q \in Pushers : Undisturbed(q)'
<1>1. \A q \in Pushers : pc'[q] = "idle"
  BY DEF Return, OnePush, TypeOK
<1> QED
  BY <1>1 DEF Undisturbed

LEMMA QuietList ==
    ASSUME OnePush, QuietInv, NEW p \in Pushers, NEW strict \in BOOLEAN,
           ListThreads(p, strict) \/ ListNothing(p, strict)
    PROVE  \A q \in Pushers : Undisturbed(q)'
<1>1. TypeOK
  BY DEF QuietInv, AnchorInv, IInv
<1>2. PICK ids \in SUBSET Threads, quiet \in BOOLEAN :
          /\ List(p, strict, ids, quiet)
          /\ quiet => ids = {t \in Threads : Exists(t)}
  BY DEF ListThreads, ListNothing
<1>3. PICK j : /\ j = [NoJob EXCEPT !.listed = ids, !.unread = ids,
                                    !.unprojected = ids,
                                    !.strict = strict, !.quiet = quiet]
  OBVIOUS
<1>4. /\ j.listed = ids /\ j.unread = ids /\ j.unprojected = ids
      /\ j.public = {} /\ j.private = {} /\ j.plan = NoPlan
  BY <1>3 DEF NoJob
<1>5. j.quiet = quiet
  BY <1>3 DEF NoJob
<1>6. /\ job' = [job EXCEPT ![p] = j] /\ pc'[p] = "lint"
      /\ UNCHANGED <<versions, deleted>>
  BY <1>1, <1>2, <1>3 DEF List, Hold, TypeOK
<1>7. quiet => LintedSoFar(j)
  <2> SUFFICES ASSUME ids = {t \in Threads : Exists(t)}
               PROVE  LintedSoFar(j)
    BY <1>2
  <2>1. PublicNow \subseteq ids
    BY DEF PublicNow
  <2>2. \A t \in Threads : j.plan[t].action = "none"
    BY <1>4 DEF NoPlan
  <2> QED
    BY <1>4, <2>1, <2>2 DEF LintedSoFar
<1> QED
  BY <1>1, <1>5, <1>6, <1>7, QuietLint

(* A thread that lint_pass listed still exists.                            *)
LEMMA ListedFacts ==
    ASSUME NEW j, LintedSoFar(j), NEW t \in Threads,
           t \in j.unread \cup j.unprojected
    PROVE  /\ Exists(t) /\ Readable(t)
           /\ ReadPublic(t) <=> t \in PublicNow
<1>1. Exists(t)
  BY DEF LintedSoFar
<1> QED
  BY <1>1 DEF Readable, ReadPublic, PublicNow

LEMMA QuietPartitionPublic ==
    ASSUME OnePush, QuietInv, NEW p \in Pushers, NEW t \in Threads,
           PartitionPublic(p, t)
    PROVE  \A q \in Pushers : Undisturbed(q)'
<1>1. TypeOK /\ job[p] \in Job /\ Undisturbed(p)
  BY DEF QuietInv, AnchorInv, IInv, TypeOK
<1>2. PICK n : n = [job[p] EXCEPT !.unread = @ \ {t}, !.public = @ \cup {t}]
  OBVIOUS
<1>3. /\ n.listed = job[p].listed /\ n.unread = job[p].unread \ {t}
      /\ n.unprojected = job[p].unprojected
      /\ n.public = job[p].public \cup {t} /\ n.private = job[p].private
      /\ n.plan = job[p].plan
  BY <1>1, <1>2 DEF Job
<1>4. n.quiet = job[p].quiet
  BY <1>1, <1>2 DEF Job
<1>5. /\ job' = [job EXCEPT ![p] = n] /\ pc[p] = "lint" /\ pc' = pc
      /\ t \in job[p].unread /\ ReadPublic(t)
      /\ UNCHANGED <<versions, deleted>>
  BY <1>2 DEF PartitionPublic, Hold
<1>6. LintedSoFar(job[p]) => LintedSoFar(n)
  <2> SUFFICES ASSUME LintedSoFar(job[p]) PROVE LintedSoFar(n)
    OBVIOUS
  <2>1. t \in PublicNow
    BY <1>5, ListedFacts
  <2> QED
    BY <1>3, <1>5, <2>1 DEF LintedSoFar
<1>7. n.quiet => LintedSoFar(n)
  BY <1>1, <1>4, <1>5, <1>6 DEF Undisturbed
<1> QED
  BY <1>1, <1>5, <1>7, QuietLint

LEMMA QuietPartitionPrivate ==
    ASSUME OnePush, QuietInv, NEW p \in Pushers, NEW t \in Threads,
           PartitionPrivate(p, t)
    PROVE  \A q \in Pushers : Undisturbed(q)'
<1>1. TypeOK /\ job[p] \in Job /\ Undisturbed(p)
  BY DEF QuietInv, AnchorInv, IInv, TypeOK
<1>2. PICK n : n = [job[p] EXCEPT !.unread = @ \ {t}, !.private = @ \cup {t}]
  OBVIOUS
<1>3. /\ n.listed = job[p].listed /\ n.unread = job[p].unread \ {t}
      /\ n.unprojected = job[p].unprojected
      /\ n.public = job[p].public /\ n.private = job[p].private \cup {t}
      /\ n.plan = job[p].plan
  BY <1>1, <1>2 DEF Job
<1>4. n.quiet = job[p].quiet
  BY <1>1, <1>2 DEF Job
<1>5. /\ job' = [job EXCEPT ![p] = n] /\ pc[p] = "lint" /\ pc' = pc
      /\ t \in job[p].unread /\ ~(Readable(t) /\ ReadPublic(t))
      /\ UNCHANGED <<versions, deleted>>
  BY <1>2 DEF PartitionPrivate, Hold
<1>6. LintedSoFar(job[p]) => LintedSoFar(n)
  <2> SUFFICES ASSUME LintedSoFar(job[p]) PROVE LintedSoFar(n)
    OBVIOUS
  <2>1. t \notin PublicNow
    BY <1>5, ListedFacts
  <2>2. t \in job[p].listed
    BY <1>5 DEF LintedSoFar
  <2> QED
    BY <1>3, <1>5, <2>1, <2>2 DEF LintedSoFar
<1>7. n.quiet => LintedSoFar(n)
  BY <1>1, <1>4, <1>5, <1>6 DEF Undisturbed
<1> QED
  BY <1>1, <1>5, <1>7, QuietLint

LEMMA QuietPartitionUnreadable ==
    ASSUME OnePush, QuietInv, NEW p \in Pushers, NEW t \in Threads,
           PartitionUnreadable(p, t)
    PROVE  \A q \in Pushers : Undisturbed(q)'
<1>1. TypeOK /\ job[p] \in Job
  BY DEF QuietInv, AnchorInv, IInv, TypeOK
<1>2. PICK n : n = [job[p] EXCEPT !.unread = @ \ {t}, !.private = @ \cup {t},
                                  !.quiet = FALSE]
  OBVIOUS
<1>3. n.quiet = FALSE
  BY <1>1, <1>2 DEF Job
<1>4. /\ job' = [job EXCEPT ![p] = n] /\ pc'[p] = "lint"
      /\ UNCHANGED <<versions, deleted>>
  BY <1>2 DEF PartitionUnreadable, Hold
<1> QED
  BY <1>1, <1>3, <1>4, QuietLint

LEMMA QuietProjectPublic ==
    ASSUME OnePush, QuietInv, NEW p \in Pushers, NEW t \in Threads,
           ProjectPublic(p, t)
    PROVE  \A q \in Pushers : Undisturbed(q)'
<1>1. TypeOK /\ job[p] \in Job /\ Undisturbed(p)
      /\ job[p].plan \in [Threads -> Entry]
  BY DEF QuietInv, AnchorInv, IInv, TypeOK, Job
<1>2. PICK tree, plan, warned :
          /\ tree = Exclude(ReadTree(t), job[p])
          /\ plan = ToPublish(job[p].plan, t, tree)
          /\ warned = (job[p].warned \/ Warns(ReadTree(t), job[p]))
  OBVIOUS
<1>3. PICK n : n = [job[p] EXCEPT !.unprojected = @ \ {t}, !.plan = plan,
                                  !.warned = warned]
  OBVIOUS
<1>4. /\ n.listed = job[p].listed /\ n.unread = job[p].unread
      /\ n.unprojected = job[p].unprojected \ {t}
      /\ n.public = job[p].public /\ n.private = job[p].private
      /\ n.plan = plan
  BY <1>1, <1>3 DEF Job
<1>5. n.quiet = job[p].quiet
  BY <1>1, <1>3 DEF Job
<1>6. /\ job' = [job EXCEPT ![p] = n] /\ pc[p] = "lint" /\ pc' = pc
      /\ t \in job[p].unprojected /\ ReadPublic(t) /\ job[p].unread = {}
      /\ UNCHANGED <<versions, deleted>>
  BY <1>2, <1>3 DEF ProjectPublic, Hold
<1>7. LintedSoFar(job[p]) => LintedSoFar(n)
  <2> SUFFICES ASSUME LintedSoFar(job[p]) PROVE LintedSoFar(n)
    OBVIOUS
  <2>1. Exists(t) /\ t \in PublicNow
    BY <1>6, ListedFacts
  <2>2. job[p].public = PublicNow
    BY <1>6 DEF LintedSoFar
  <2>3. ReadTree(t) = [version |-> Len(versions[t]), names |-> Current(t).names]
    BY <2>1 DEF ReadTree
  <2>4. tree = ProjectionOf(t)
    <3>1. ReadTree(t) \in Tree
      BY <1>1, <1>6, ReadFacts, ListedFacts DEF QuietInv, AnchorInv, IInv
    <3>2. tree = [version |-> ReadTree(t).version,
                  names |-> ReadTree(t).names \cap job[p].public]
      BY <1>2, <3>1 DEF Exclude, Tree
    <3> QED
      BY <2>1, <2>2, <2>3, <3>2 DEF ProjectionOf
  <2>5. plan[t] = [action |-> "publish", tree |-> ProjectionOf(t)]
    BY <1>1, <1>2, <2>4 DEF ToPublish
  <2>6. \A v \in Threads \ {t} : plan[v] = job[p].plan[v]
    BY <1>1, <1>2 DEF ToPublish
  <2>7. \A v \in Threads :
            IF v \in PublicNow \ n.unprojected
            THEN n.plan[v] = [action |-> "publish", tree |-> ProjectionOf(v)]
            ELSE n.plan[v].action = "none"
    BY <1>4, <2>1, <2>5, <2>6 DEF LintedSoFar
  <2> QED
    BY <1>4, <2>7 DEF LintedSoFar
<1>8. n.quiet => LintedSoFar(n)
  BY <1>1, <1>5, <1>6, <1>7 DEF Undisturbed
<1> QED
  BY <1>1, <1>6, <1>8, QuietLint

LEMMA QuietProjectPrivate ==
    ASSUME OnePush, QuietInv, NEW p \in Pushers, NEW t \in Threads,
           ProjectPrivate(p, t)
    PROVE  \A q \in Pushers : Undisturbed(q)'
<1>1. TypeOK /\ job[p] \in Job /\ Undisturbed(p)
  BY DEF QuietInv, AnchorInv, IInv, TypeOK
<1>2. PICK n : n = [job[p] EXCEPT !.unprojected = @ \ {t}]
  OBVIOUS
<1>3. /\ n.listed = job[p].listed /\ n.unread = job[p].unread
      /\ n.unprojected = job[p].unprojected \ {t}
      /\ n.public = job[p].public /\ n.private = job[p].private
      /\ n.plan = job[p].plan
  BY <1>1, <1>2 DEF Job
<1>4. n.quiet = job[p].quiet
  BY <1>1, <1>2 DEF Job
<1>5. /\ job' = [job EXCEPT ![p] = n] /\ pc[p] = "lint" /\ pc' = pc
      /\ t \in job[p].unprojected /\ ~ReadPublic(t)
      /\ UNCHANGED <<versions, deleted>>
  BY <1>2 DEF ProjectPrivate, Hold
<1>6. LintedSoFar(job[p]) => LintedSoFar(n)
  <2> SUFFICES ASSUME LintedSoFar(job[p]) PROVE LintedSoFar(n)
    OBVIOUS
  <2>1. t \notin PublicNow
    BY <1>5, ListedFacts
  <2> QED
    BY <1>3, <1>5, <2>1 DEF LintedSoFar
<1>7. n.quiet => LintedSoFar(n)
  BY <1>1, <1>4, <1>5, <1>6 DEF Undisturbed
<1> QED
  BY <1>1, <1>5, <1>7, QuietLint

(* A clean lint_pass has planned every thread that is public and staged     *)
(* every published ref of a thread that is not.                            *)
LEMMA QuietStage ==
    ASSUME OnePush, QuietInv, NEW p \in Pushers, Stage(p) \/ StageNothing(p)
    PROVE  \A q \in Pushers : Undisturbed(q)'
<1>1. TypeOK /\ job[p] \in Job /\ Undisturbed(p)
  BY DEF QuietInv, AnchorInv, IInv, TypeOK
<1>2. PICK ids \in SUBSET Threads, quiet \in BOOLEAN :
          StageIds(p, ids, quiet) /\ (quiet => job[p].quiet /\ ids = Orphaned(job[p]))
  <2>1. job[p].quiet \in BOOLEAN
    BY <1>1 DEF Job
  <2>2. CASE Stage(p)
    BY <1>1, <2>1, <2>2 DEF Stage, Orphaned, Job
  <2>3. CASE StageNothing(p)
    BY <2>3 DEF StageNothing
  <2> QED
    BY <2>2, <2>3
<1>3. PICK n : n = [NoJob EXCEPT !.plan = job[p].plan, !.staged = ids, !.quiet = quiet]
  OBVIOUS
<1>4. n.plan = job[p].plan /\ n.staged = ids
  BY <1>3 DEF NoJob
<1>5. n.quiet = quiet
  BY <1>3 DEF NoJob
<1>6. /\ job' = [job EXCEPT ![p] = n] /\ pc'[p] = "commit" /\ pc[p] = "lint"
      /\ Linted(job[p])
      /\ UNCHANGED <<versions, deleted, published>>
  BY <1>1, <1>2, <1>3 DEF StageIds, Hold, TypeOK
<1>7. quiet => PlanComplete(n)
  <2> SUFFICES ASSUME LintedSoFar(job[p]), ids = Orphaned(job[p])
               PROVE  PlanComplete(n)
    BY <1>1, <1>2, <1>6 DEF Undisturbed
  <2>1. /\ job[p].unread = {} /\ job[p].unprojected = {}
        /\ job[p].private = job[p].listed \ PublicNow
    BY <1>6 DEF Linted, LintedSoFar
  <2> SUFFICES ASSUME NEW t \in Threads
               PROVE  IF t \in PublicNow
                      THEN /\ n.plan[t].action \in {"publish", "written", "skipped"}
                           /\ n.plan[t].tree = ProjectionOf(t)
                           /\ n.plan[t].action # "publish" =>
                                  published[t] = ProjectionOf(t)
                      ELSE /\ n.plan[t].action = "none"
                           /\ published[t] # NoTree => t \in n.staged
    BY DEF PlanComplete
  <2>2. CASE t \in PublicNow
    <3>1. job[p].plan[t] = [action |-> "publish", tree |-> ProjectionOf(t)]
      BY <2>1, <2>2 DEF LintedSoFar
    <3> QED
      BY <1>4, <2>2, <3>1
  <2>3. CASE t \notin PublicNow
    BY <1>4, <2>1, <2>3 DEF LintedSoFar, Orphaned
  <2> QED
    BY <2>2, <2>3
<1>8. PlanComplete(n) => PlanComplete(n)'
  BY <1>6, SameProjection DEF PlanComplete
<1>9. n.quiet => PlanComplete(n)'
  BY <1>5, <1>7, <1>8
<1> QED
  BY <1>1, <1>6, <1>9, QuietCommit

LEMMA QuietWrite ==
    ASSUME OnePush, QuietInv, NEW p \in Pushers, NEW t \in Threads,
           WritePublished(p, t)
    PROVE  \A q \in Pushers : Undisturbed(q)'
<1>1. /\ TypeOK /\ job[p] \in Job /\ Undisturbed(p)
      /\ job[p].plan \in [Threads -> Entry] /\ published \in [Threads -> Tree]
  BY DEF QuietInv, AnchorInv, IInv, TypeOK, Job
<1>2. PICK action \in {"written", "skipped"} :
          action = IF published[t] = job[p].plan[t].tree THEN "skipped" ELSE "written"
  OBVIOUS
<1>3. PICK n : n = [job[p] EXCEPT !.plan[t].action = action]
  OBVIOUS
<1>4. /\ n.staged = job[p].staged
      /\ n.plan = [job[p].plan EXCEPT ![t].action = action]
  BY <1>1, <1>3 DEF Job
<1>5. n.quiet = job[p].quiet
  BY <1>1, <1>3 DEF Job
<1>6. /\ published' = [published EXCEPT ![t] = job[p].plan[t].tree]
      /\ job' = [job EXCEPT ![p] = n]
      /\ job[p].plan[t].action = "publish"
      /\ pc[p] = "commit" /\ pc' = pc /\ UNCHANGED <<versions, deleted>>
  BY <1>2, <1>3 DEF WritePublished, Hold, Unwritten
<1>7. /\ n.plan[t].action = action /\ n.plan[t].tree = job[p].plan[t].tree
      /\ \A v \in Threads \ {t} : n.plan[v] = job[p].plan[v]
  BY <1>1, <1>4 DEF Entry
<1>8. PlanComplete(job[p]) => PlanComplete(n)'
  <2> SUFFICES ASSUME PlanComplete(job[p]), NEW v \in Threads
               PROVE  IF v \in PublicNow
                      THEN /\ n.plan[v].action \in {"publish", "written", "skipped"}
                           /\ n.plan[v].tree = ProjectionOf(v)
                           /\ n.plan[v].action # "publish" =>
                                  published'[v] = ProjectionOf(v)
                      ELSE /\ n.plan[v].action = "none"
                           /\ published'[v] # NoTree => v \in n.staged
    BY <1>6, SameProjection DEF PlanComplete
  <2>1. CASE v = t
    <3>1. t \in PublicNow /\ job[p].plan[t].tree = ProjectionOf(t)
      BY <1>6 DEF PlanComplete
    <3>2. published'[t] = ProjectionOf(t)
      BY <1>1, <1>6, <3>1
    <3> QED
      BY <1>2, <1>7, <2>1, <3>1, <3>2
  <2>2. CASE v # t
    <3>1. n.plan[v] = job[p].plan[v] /\ published'[v] = published[v]
      BY <1>1, <1>6, <1>7, <2>2
    <3> QED
      BY <1>4, <3>1 DEF PlanComplete
  <2> QED
    BY <2>1, <2>2
<1>9. n.quiet => PlanComplete(n)'
  BY <1>1, <1>5, <1>6, <1>8 DEF Undisturbed
<1> QED
  BY <1>1, <1>6, <1>9, QuietCommit

(* When every entry of a complete plan is written, its refspecs name every  *)
(* ref in which the remote may differ from the projection.                 *)
LEMMA CompletePlanFacts ==
    ASSUME Anchored, NEW j, PlanComplete(j), Unwritten(j) = {}, NEW t \in Threads
    PROVE  IF t \in PublicNow
           THEN t \in Updates(j) /\ published[t] = ProjectionOf(t)
           ELSE /\ ProjectionOf(t) = NoTree
                /\ t \in j.staged \/ remote[t] = NoTree
<1>1. j.plan[t].action # "publish"
  BY DEF Unwritten
<1>2. CASE t \in PublicNow
  BY <1>1, <1>2 DEF PlanComplete, Updates
<1>3. CASE t \notin PublicNow
  BY <1>3 DEF PlanComplete, ProjectionOf, Anchored
<1> QED
  BY <1>2, <1>3

LEMMA QuietAccepted ==
    ASSUME OnePush, QuietInv, NEW p \in Pushers, PushAccepted(p)
    PROVE  \A q \in Pushers : Undisturbed(q)'
<1>1. TypeOK /\ Undisturbed(p) /\ Anchored
  BY DEF QuietInv, AnchorInv, IInv
<1>2. /\ remote' = RemoteAfter(job[p], Refspecs(job[p]))
      /\ Pushable(job[p]) /\ Unwritten(job[p]) = {} /\ pc[p] = "commit"
      /\ pc'[p] = "clean"
      /\ UNCHANGED <<versions, deleted, published, job>>
  BY <1>1 DEF PushAccepted, ReadyToPush, TypeOK
<1>3. PlanComplete(job[p]) => RemoteDone'
  <2> SUFFICES ASSUME PlanComplete(job[p]), NEW t \in Threads
               PROVE  remote'[t] = ProjectionOf(t)
    BY <1>2, SameProjection DEF RemoteDone
  <2>1. CASE t \in PublicNow
    <3>1. t \in Updates(job[p]) /\ published[t] = ProjectionOf(t)
      BY <1>1, <1>2, <2>1, CompletePlanFacts
    <3>2. t \notin job[p].staged
      BY <1>2, <3>1 DEF Pushable
    <3> QED
      BY <1>2, <3>1, <3>2 DEF RemoteAfter, Refspecs
  <2>2. CASE t \notin PublicNow
    <3>1. /\ ProjectionOf(t) = NoTree
          /\ t \in job[p].staged \/ remote[t] = NoTree
      BY <1>1, <1>2, <2>2, CompletePlanFacts
    <3>2. t \notin Updates(job[p])
      BY <2>2 DEF PlanComplete, Updates
    <3> QED
      BY <1>2, <3>1, <3>2 DEF RemoteAfter, Refspecs
  <2> QED
    BY <2>1, <2>2
<1>4. job'[p].quiet => RemoteDone'
  BY <1>1, <1>2, <1>3 DEF Undisturbed
<1>5. \A q \in Pushers : q = p
  BY DEF OnePush
<1> QED
  BY <1>2, <1>4, <1>5 DEF Undisturbed

LEMMA QuietDelete ==
    ASSUME OnePush, QuietInv, NEW p \in Pushers, NEW t \in Threads,
           DeletePublished(p, t)
    PROVE  \A q \in Pushers : Undisturbed(q)'
<1>1. TypeOK /\ job[p] \in Job /\ Undisturbed(p)
  BY DEF QuietInv, AnchorInv, IInv, TypeOK
<1>2. PICK n : n = [job[p] EXCEPT !.staged = @ \ {t}]
  OBVIOUS
<1>3. n.quiet = job[p].quiet
  BY <1>1, <1>2 DEF Job
<1>4. /\ job' = [job EXCEPT ![p] = n]
      /\ pc[p] = "clean" /\ UNCHANGED <<versions, deleted, remote, pc>>
  BY <1>2 DEF DeletePublished, Hold
<1>5. RemoteDone => RemoteDone'
  BY <1>4, SameProjection DEF RemoteDone
<1>6. n.quiet => RemoteDone'
  BY <1>1, <1>3, <1>4, <1>5 DEF Undisturbed
<1>7. \A q \in Pushers : q = p /\ job'[q] = n
  BY <1>1, <1>4, OneJob
<1> QED
  BY <1>4, <1>6, <1>7 DEF Undisturbed

LEMMA QuietSurroundings ==
    ASSUME QuietInv, Surroundings
    PROVE  \A q \in Pushers : Undisturbed(q)'
<1>1. job' = Disturbed /\ pc' = pc
  BY DEF Surroundings, CreateThread, SetVisibility, NameThread, Commit, DeleteThread,
         FetchPublished
<1>2. \A q \in Pushers : pc'[q] = "idle" \/ ~job'[q].quiet
  BY <1>1, DisturbedJob DEF QuietInv, AnchorInv, IInv
<1> QED
  BY <1>2 DEF Undisturbed

LEMMA QuietInit == Init => QuietInv
<1>1. Init => \A p \in Pushers : Undisturbed(p)
  BY DEF Init, Undisturbed
<1> QED
  BY <1>1, AnchorInit DEF QuietInv

LEMMA QuietNext ==
    ASSUME OnePush, QuietInv, [Next]_vars
    PROVE  QuietInv'
<1> DEFINE Goal == \A q \in Pushers : Undisturbed(q)'
<1>0. TypeOK /\ AnchorInv
  BY DEF QuietInv, AnchorInv, IInv
<1> SUFFICES Goal
  BY <1>0, AnchorNext DEF QuietInv
<1>1. CASE UNCHANGED vars
  <2>1. \A q \in Pushers : Undisturbed(q) => Undisturbed(q)'
    BY <1>1, SameProjection DEF vars, Undisturbed, LintedSoFar, PlanComplete, RemoteDone
  <2> QED
    BY <2>1 DEF QuietInv
<1>2. ASSUME NEW p \in Pushers, Start(p) PROVE Goal
  BY <1>2, QuietList DEF Start
<1>3. ASSUME NEW p \in Pushers, Lint(p) PROVE Goal
  <2>1. CASE \E t \in Threads : ProjectUnreadable(p, t)
    BY <1>0, <2>1, QuietReturn DEF ProjectUnreadable
  <2>2. CASE RefuseStrict(p)
    BY <1>0, <2>2, QuietReturn DEF RefuseStrict
  <2> QED
    BY <1>3, <2>1, <2>2, QuietPartitionPublic, QuietPartitionPrivate,
       QuietProjectPublic, QuietProjectPrivate, QuietStage DEF Lint
<1>4. ASSUME NEW p \in Pushers, Realise(p) PROVE Goal
  <2>1. CASE NothingToPush(p)
    BY <1>0, <2>1, QuietReturn DEF NothingToPush
  <2>2. CASE PushImpossible(p)
    BY <1>0, <2>2, QuietReturn DEF PushImpossible
  <2> QED
    BY <1>4, <2>1, <2>2, QuietWrite DEF Realise
<1>5. ASSUME NEW p \in Pushers, Clean(p) PROVE Goal
  <2>1. CASE ReturnOk(p)
    BY <1>0, <2>1, QuietReturn DEF ReturnOk
  <2> QED
    BY <1>5, <2>1, QuietDelete DEF Clean
<1>6. ASSUME NEW p \in Pushers, PushAccepted(p) PROVE Goal
  BY <1>6, QuietAccepted
<1>7. ASSUME NEW p \in Pushers, Misfortune(p) PROVE Goal
  <2>1. CASE Stop(p)
    BY <1>0, <2>1, QuietReturn DEF Stop
  <2>2. CASE \E acc \in SUBSET Threads : PushRefused(p, acc)
    BY <1>0, <2>2, QuietReturn DEF PushRefused
  <2> QED
    BY <1>7, <2>1, <2>2, QuietPartitionUnreadable, QuietStage DEF Misfortune
<1>8. CASE Surroundings
  BY <1>8, QuietSurroundings
<1> QED
  BY <1>1, <1>2, <1>3, <1>4, <1>5, <1>6, <1>7, <1>8 DEF Next, Continue

(* When pushes of one clone do not overlap, a push that succeeds and that   *)
(* nothing disturbed leaves the remote showing exactly the projection of    *)
(* the threads, whatever refused, failed or killed pushes came before it.   *)
THEOREM PublishSucceedsOnlyWhenDone ==
    ASSUME OnePush
    PROVE  Spec => SucceedsOnlyWhenDone
<1>1. QuietInv /\ [Next]_vars => QuietInv'
  BY QuietNext
<1>2. QuietInv => [\A p \in Pushers :
                      (ReturnOk(p) \/ NothingToPush(p)) /\ job[p].quiet =>
                          \A t \in Threads : remote'[t] = ProjectionOf(t)]_vars
  <2> SUFFICES ASSUME QuietInv, NEW p \in Pushers,
                      ReturnOk(p) \/ NothingToPush(p), job[p].quiet,
                      NEW t \in Threads
               PROVE  remote[t] = ProjectionOf(t)
    BY DEF ReturnOk, NothingToPush
  <2>1. Undisturbed(p) /\ Anchored
    BY DEF QuietInv, AnchorInv
  <2>2. CASE ReturnOk(p)
    BY <2>1, <2>2 DEF ReturnOk, Undisturbed, RemoteDone
  <2>3. CASE NothingToPush(p)
    <3>1. /\ PlanComplete(job[p]) /\ Unwritten(job[p]) = {}
          /\ Updates(job[p]) = {} /\ job[p].staged = {}
      BY <2>1, <2>3 DEF NothingToPush, ReadyToPush, Undisturbed, Refspecs
    <3> QED
      BY <2>1, <3>1, CompletePlanFacts
  <2> QED
    BY <2>2, <2>3
<1> QED
  BY <1>1, <1>2, QuietInit, PTL DEF Spec, SucceedsOnlyWhenDone
=============================================================================
