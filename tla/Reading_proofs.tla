--------------------------- MODULE Reading_proofs ---------------------------
(***************************************************************************)
(* Proofs about the parts that read what git holds: LegacyChain and         *)
(* History, for chains of any length, and IndexRepair, for any files,       *)
(* submodules and blobs.                                                   *)
(*                                                                         *)
(* What the operators compute is a matter of induction: over the numbers,  *)
(* from the fact that every set of them has a least, and over folds, from  *)
(* the existence of what Folds defines by CHOOSE (module Recursion).        *)
(***************************************************************************)
EXTENDS LegacyChain, History, IndexRepair, FiniteSetTheorems, TLAPS

Replaying == INSTANCE Recursion WITH Op <- ApplyChecked
Collecting == INSTANCE Recursion WITH Op <- Collect
Applying == INSTANCE Recursion WITH Op <- Applied
Revising == INSTANCE Recursion WITH Op <- Revised

-----------------------------------------------------------------------------
(* Numbers and folds.                                                      *)

LEMMA LeastNumber ==
    ASSUME NEW T, T \subseteq Nat, T # {}
    PROVE  \E n \in T : \A m \in T : n <= m
  BY Replaying!LeastNumber

LEMMA SetInduction ==
    ASSUME NEW S, 0 \in S, \A n \in Nat : n \in S => n + 1 \in S
    PROVE  Nat \subseteq S
  BY Replaying!SetInduction

LEMMA MaxOfSome ==
    ASSUME NEW n \in Nat, NEW s \in SUBSET (1..n), s # {}
    PROVE  Max(s) \in s /\ \A x \in s : x <= Max(s)
<1> DEFINE below == {k \in Nat : n - k \in s}
<1>1. PICK k \in below : \A j \in below : k <= j
  <2>1. PICK x \in s : TRUE
    OBVIOUS
  <2>2. n - x \in below
    BY <2>1
  <2> QED
    BY <2>2, LeastNumber
<1>2. \A x \in s : n - x \in below
  OBVIOUS
<1>3. n - k \in s /\ \A x \in s : n - k >= x
  BY <1>1, <1>2
<1>4. \E x \in s : \A y \in s : x >= y
  BY <1>3
<1>5. Max(s) \in s /\ \A y \in s : Max(s) >= y
  BY <1>4 DEF Max
<1> QED
  BY <1>5

(* A sequence of values that a fold goes through.                          *)
LEMMA StepByStep ==
    ASSUME NEW n \in Nat, NEW V, NEW h, h[0] \in V,
           \A m \in 1..n : h[m - 1] \in V => h[m] \in V
    PROVE  \A m \in 0..n : h[m] \in V
<1> DEFINE Good == {m \in Nat : m <= n => h[m] \in V}
<1>1. 0 \in Good /\ \A m \in Nat : m \in Good => m + 1 \in Good
  OBVIOUS
<1> HIDE DEF Good
<1>2. Nat \subseteq Good
  BY <1>1, SetInduction
<1> QED
  BY <1>2 DEF Good

(* Each fold of the modules runs from state to state, one per element.      *)
LEMMA CheckedRuns ==
    ASSUME NEW q, NEW n \in Nat, DOMAIN q = 1..n, NEW base
    PROVE  \E h : /\ h[0] = base
                  /\ \A m \in 1..n : h[m] = ApplyChecked(h[m - 1], q[m])
                  /\ ApplyAll(base, q) = h[n]
<1> DEFINE S == SUBSET (1..n)
           top == [s \in S |-> Max(s)]
           g == CHOOSE g : g = [s \in S |->
                    IF s = {} THEN base ELSE ApplyChecked(g[s \ {Max(s)}], q[Max(s)])]
<1>1. ApplyAll(base, q) = g[1..n]
  BY DEF ApplyAll, FoldLeft, MapThenFoldSet
<1>2. Replaying!Largest(top, n)
  BY MaxOfSome DEF Replaying!Largest
<1>3. PICK f : Replaying!Unfolds(f, top, n, base, q)
  <2> HIDE DEF top
  <2> QED
    BY <1>2, Replaying!UnfoldingExists
<1>4. f = [s \in S |-> IF s = {} THEN base ELSE ApplyChecked(f[s \ {Max(s)}], q[Max(s)])]
  BY <1>3 DEF Replaying!Unfolds
<1>5. g = [s \in S |-> IF s = {} THEN base ELSE ApplyChecked(g[s \ {Max(s)}], q[Max(s)])]
  BY <1>4
<1> HIDE DEF g
<1>6. Replaying!Unfolds(g, top, n, base, q)
  BY <1>5 DEF Replaying!Unfolds
<1> HIDE DEF top
<1>7. g[1..0] = base /\ \A m \in 1..n : g[1..m] = ApplyChecked(g[1..(m - 1)], q[m])
  BY <1>2, <1>6, Replaying!UnfoldingRuns
<1> DEFINE h == [m \in 0..n |-> g[1..m]]
<1>8. h[0] = base /\ \A m \in 1..n : h[m] = ApplyChecked(h[m - 1], q[m])
  BY <1>7
<1>9. h[n] = g[1..n]
  OBVIOUS
<1> QED
  BY <1>1, <1>8, <1>9

LEMMA CollectedRuns ==
    ASSUME NEW q, NEW n \in Nat, DOMAIN q = 1..n
    PROVE  \E h : /\ h[0] = <<>>
                  /\ \A m \in 1..n : h[m] = Collect(h[m - 1], q[m])
                  /\ FoldLeft(Collect, <<>>, q) = h[n]
<1> DEFINE S == SUBSET (1..n)
           top == [s \in S |-> Max(s)]
           g == CHOOSE g : g = [s \in S |->
                    IF s = {} THEN <<>> ELSE Collect(g[s \ {Max(s)}], q[Max(s)])]
<1>1. FoldLeft(Collect, <<>>, q) = g[1..n]
  BY DEF FoldLeft, MapThenFoldSet
<1>2. Collecting!Largest(top, n)
  BY MaxOfSome DEF Collecting!Largest
<1>3. PICK f : Collecting!Unfolds(f, top, n, <<>>, q)
  <2> HIDE DEF top
  <2> QED
    BY <1>2, Collecting!UnfoldingExists
<1>4. f = [s \in S |-> IF s = {} THEN <<>> ELSE Collect(f[s \ {Max(s)}], q[Max(s)])]
  BY <1>3 DEF Collecting!Unfolds
<1>5. g = [s \in S |-> IF s = {} THEN <<>> ELSE Collect(g[s \ {Max(s)}], q[Max(s)])]
  BY <1>4
<1> HIDE DEF g
<1>6. Collecting!Unfolds(g, top, n, <<>>, q)
  BY <1>5 DEF Collecting!Unfolds
<1> HIDE DEF top
<1>7. g[1..0] = <<>> /\ \A m \in 1..n : g[1..m] = Collect(g[1..(m - 1)], q[m])
  BY <1>2, <1>6, Collecting!UnfoldingRuns
<1> DEFINE h == [m \in 0..n |-> g[1..m]]
<1>8. h[0] = <<>> /\ \A m \in 1..n : h[m] = Collect(h[m - 1], q[m])
  BY <1>7
<1>9. h[n] = g[1..n]
  OBVIOUS
<1> QED
  BY <1>1, <1>8, <1>9

AppliedAll(base, q) == FoldLeft(Applied, base, q)

LEMMA AppliedRuns ==
    ASSUME NEW q, NEW n \in Nat, DOMAIN q = 1..n, NEW base
    PROVE  \E h : /\ h[0] = base
                  /\ \A m \in 1..n : h[m] = Applied(h[m - 1], q[m])
                  /\ AppliedAll(base, q) = h[n]
<1> DEFINE S == SUBSET (1..n)
           top == [s \in S |-> Max(s)]
           g == CHOOSE g : g = [s \in S |->
                    IF s = {} THEN base ELSE Applied(g[s \ {Max(s)}], q[Max(s)])]
<1>1. AppliedAll(base, q) = g[1..n]
  BY DEF AppliedAll, FoldLeft, MapThenFoldSet
<1>2. Applying!Largest(top, n)
  BY MaxOfSome DEF Applying!Largest
<1>3. PICK f : Applying!Unfolds(f, top, n, base, q)
  <2> HIDE DEF top
  <2> QED
    BY <1>2, Applying!UnfoldingExists
<1>4. f = [s \in S |-> IF s = {} THEN base ELSE Applied(f[s \ {Max(s)}], q[Max(s)])]
  BY <1>3 DEF Applying!Unfolds
<1>5. g = [s \in S |-> IF s = {} THEN base ELSE Applied(g[s \ {Max(s)}], q[Max(s)])]
  BY <1>4
<1> HIDE DEF g
<1>6. Applying!Unfolds(g, top, n, base, q)
  BY <1>5 DEF Applying!Unfolds
<1> HIDE DEF top
<1>7. g[1..0] = base /\ \A m \in 1..n : g[1..m] = Applied(g[1..(m - 1)], q[m])
  BY <1>2, <1>6, Applying!UnfoldingRuns
<1> DEFINE h == [m \in 0..n |-> g[1..m]]
<1>8. h[0] = base /\ \A m \in 1..n : h[m] = Applied(h[m - 1], q[m])
  BY <1>7
<1>9. h[n] = g[1..n]
  OBVIOUS
<1> QED
  BY <1>1, <1>8, <1>9

LEMMA RevisedRuns ==
    ASSUME NEW q, NEW n \in Nat, DOMAIN q = 1..n
    PROVE  \E h : /\ h[0] = <<>>
                  /\ \A m \in 1..n : h[m] = Revised(h[m - 1], q[m])
                  /\ FoldLeft(Revised, <<>>, q) = h[n]
<1> DEFINE S == SUBSET (1..n)
           top == [s \in S |-> Max(s)]
           g == CHOOSE g : g = [s \in S |->
                    IF s = {} THEN <<>> ELSE Revised(g[s \ {Max(s)}], q[Max(s)])]
<1>1. FoldLeft(Revised, <<>>, q) = g[1..n]
  BY DEF FoldLeft, MapThenFoldSet
<1>2. Revising!Largest(top, n)
  BY MaxOfSome DEF Revising!Largest
<1>3. PICK f : Revising!Unfolds(f, top, n, <<>>, q)
  <2> HIDE DEF top
  <2> QED
    BY <1>2, Revising!UnfoldingExists
<1>4. f = [s \in S |-> IF s = {} THEN <<>> ELSE Revised(f[s \ {Max(s)}], q[Max(s)])]
  BY <1>3 DEF Revising!Unfolds
<1>5. g = [s \in S |-> IF s = {} THEN <<>> ELSE Revised(g[s \ {Max(s)}], q[Max(s)])]
  BY <1>4
<1> HIDE DEF g
<1>6. Revising!Unfolds(g, top, n, <<>>, q)
  BY <1>5 DEF Revising!Unfolds
<1> HIDE DEF top
<1>7. g[1..0] = <<>> /\ \A m \in 1..n : g[1..m] = Revised(g[1..(m - 1)], q[m])
  BY <1>2, <1>6, Revising!UnfoldingRuns
<1> DEFINE h == [m \in 0..n |-> g[1..m]]
<1>8. h[0] = <<>> /\ \A m \in 1..n : h[m] = Revised(h[m - 1], q[m])
  BY <1>7
<1>9. h[n] = g[1..n]
  OBVIOUS
<1> QED
  BY <1>1, <1>8, <1>9

-----------------------------------------------------------------------------
(* LegacyChain: what replay keeps.                                         *)

(* The fields of a replay state and of its document.                       *)
ReplayShape(s) ==
    /\ s = [doc |-> s.doc, lifecycle |-> s.lifecycle, explicit |-> s.explicit,
            issues |-> s.issues]
    /\ s.doc = [category |-> s.doc.category, status |-> s.doc.status, tags |-> s.doc.tags,
                nodes |-> s.doc.nodes, links |-> s.doc.links, evidence |-> s.doc.evidence,
                body |-> s.doc.body, branch |-> s.doc.branch,
                visibility |-> s.doc.visibility, supersedes |-> s.doc.supersedes]

(* u has the lifecycle of s and what follows from it.                      *)
SameLifecycle(s, u) ==
    /\ u.lifecycle = s.lifecycle /\ u.explicit = s.explicit
    /\ u.doc.category = s.doc.category /\ u.doc.tags = s.doc.tags

(* The fields of the document that no rule looks at.                        *)
Rest(s, u) ==
    /\ u.doc.links = s.doc.links /\ u.doc.evidence = s.doc.evidence
    /\ u.doc.body = s.doc.body /\ u.doc.branch = s.doc.branch

LEMMA ReportFacts ==
    ASSUME NEW s, ReplayShape(s), NEW kind, NEW ev, NEW details
    PROVE  /\ ReplayShape(Report(s, kind, ev, details))
           /\ Report(s, kind, ev, details).doc = s.doc
           /\ SameLifecycle(s, Report(s, kind, ev, details))
           /\ s.issues \subseteq Report(s, kind, ev, details).issues
           /\ \A d \in details : \E issue \in Report(s, kind, ev, details).issues : issue.kind = kind
<1> DEFINE new == {[kind |-> kind, event |-> ev.id, detail |-> d] : d \in details}
           u == [doc |-> s.doc, lifecycle |-> s.lifecycle, explicit |-> s.explicit,
                 issues |-> s.issues \cup new]
<1>1. \A d \in details : \E issue \in new : issue.kind = kind
  <2> TAKE d \in details
  <2>1. [kind |-> kind, event |-> ev.id, detail |-> d] \in new
    OBVIOUS
  <2> QED
    BY <2>1
<1>2. Report(s, kind, ev, details) = [s EXCEPT !.issues = s.issues \cup new]
  BY DEF Report
<1> HIDE DEF new
<1>3. Report(s, kind, ev, details) = u
  BY <1>2 DEF ReplayShape
<1> QED
  BY <1>1, <1>3 DEF ReplayShape, SameLifecycle

(* A change of the nodes, the body or any other field of the document that *)
(* has nothing to do with the lifecycle.                                   *)
LEMMA NodesFacts ==
    ASSUME NEW s, ReplayShape(s), NEW nodes
    PROVE  LET u == [s EXCEPT !.doc.nodes = nodes]
           IN  /\ ReplayShape(u) /\ SameLifecycle(s, u) /\ u.issues = s.issues
               /\ u.doc.nodes = nodes /\ u.doc.status = s.doc.status /\ Rest(s, u)
  BY DEF ReplayShape, SameLifecycle, Rest

(* What every step of replay keeps: the shape, and the issues so far.      *)
Grown(s, u) == ReplayShape(u) /\ s.issues \subseteq u.issues

(* An issue of that kind has been reported.                                *)
Reported(u, kind) == \E issue \in u.issues : issue.kind = kind

LEMMA AddNodesFacts ==
    ASSUME NEW s, ReplayShape(s), NEW ids, NEW kind, NEW label, NEW body
    PROVE  LET u == AddNodes(s, ids, kind, label, body)
               node == [kind |-> kind, label |-> label, status |-> "open", body |-> body]
           IN  /\ Grown(s, u) /\ SameLifecycle(s, u) /\ u.doc.status = s.doc.status
               /\ u.issues = s.issues /\ Rest(s, u)
               /\ DOMAIN u.doc.nodes = DOMAIN s.doc.nodes \cup ids
               /\ \A i \in ids : u.doc.nodes[i] = node
               /\ \A i \in DOMAIN s.doc.nodes \ ids : u.doc.nodes[i] = s.doc.nodes[i]
<1> DEFINE node == [kind |-> kind, label |-> label, status |-> "open", body |-> body]
           nodes == [i \in DOMAIN s.doc.nodes \cup ids |->
                        IF i \in ids THEN node ELSE s.doc.nodes[i]]
<1>1. AddNodes(s, ids, kind, label, body) = [s EXCEPT !.doc.nodes = nodes]
  BY DEF AddNodes
<1> HIDE DEF nodes
<1>2. LET u == [s EXCEPT !.doc.nodes = nodes]
      IN  /\ ReplayShape(u) /\ SameLifecycle(s, u) /\ u.issues = s.issues
          /\ u.doc.nodes = nodes /\ u.doc.status = s.doc.status /\ Rest(s, u)
  BY NodesFacts
<1> QED
  BY <1>1, <1>2 DEF Grown, nodes

LEMMA OnNodeFacts ==
    ASSUME NEW s, ReplayShape(s), NEW ev, NEW id, NEW node
    PROVE  LET u == OnNode(s, ev, id, node)
           IN  /\ Grown(s, u) /\ SameLifecycle(s, u) /\ u.doc.status = s.doc.status
               /\ Rest(s, u)
               /\ DOMAIN u.doc.nodes = DOMAIN s.doc.nodes
               /\ \A x \in DOMAIN s.doc.nodes : x # id => u.doc.nodes[x] = s.doc.nodes[x]
               /\ IF id \in DOMAIN s.doc.nodes THEN u.doc.nodes[id] = node
                  ELSE Reported(u, "node")
<1>1. CASE id \in DOMAIN s.doc.nodes
  <2> DEFINE nodes == [s.doc.nodes EXCEPT ![id] = node]
  <2>1. OnNode(s, ev, id, node) = [s EXCEPT !.doc.nodes = nodes]
    <3>1. OnNode(s, ev, id, node) = [s EXCEPT !.doc.nodes[id] = node]
      BY <1>1 DEF OnNode
    <3>2. [s EXCEPT !.doc.nodes[id] = node] = [s EXCEPT !.doc.nodes = nodes]
      OBVIOUS
    <3> QED
      BY <3>1, <3>2
  <2> HIDE DEF nodes
  <2>2. LET u == [s EXCEPT !.doc.nodes = nodes]
        IN  /\ ReplayShape(u) /\ SameLifecycle(s, u) /\ u.issues = s.issues
            /\ u.doc.nodes = nodes /\ u.doc.status = s.doc.status /\ Rest(s, u)
    BY NodesFacts
  <2> QED
    BY <1>1, <2>1, <2>2 DEF Grown, nodes
<1>2. CASE id \notin DOMAIN s.doc.nodes
  <2> DEFINE u == Report(s, "node", ev, {id})
  <2>1. OnNode(s, ev, id, node) = u
    BY <1>2 DEF OnNode
  <2>2. /\ ReplayShape(u) /\ u.doc = s.doc /\ SameLifecycle(s, u) /\ s.issues \subseteq u.issues
        /\ \A d \in {id} : \E issue \in u.issues : issue.kind = "node"
    BY ReportFacts
  <2> HIDE DEF u
  <2> QED
    BY <1>2, <2>1, <2>2 DEF Grown, Reported, Rest
<1> QED
  BY <1>1, <1>2

LEMMA ReviseFacts ==
    ASSUME NEW s, ReplayShape(s), NEW ev
    PROVE  LET u == ApplyReviseBody(s, ev)
               ids == ToSet(ev.incorporated)
           IN  /\ Grown(s, u) /\ SameLifecycle(s, u) /\ u.doc.status = s.doc.status
               /\ DOMAIN u.doc.nodes = DOMAIN s.doc.nodes
               /\ \A id \in DOMAIN s.doc.nodes :
                      u.doc.nodes[id] = IF id \in ids
                                        THEN [s.doc.nodes[id] EXCEPT !.status = "incorporated"]
                                        ELSE s.doc.nodes[id]
               /\ ~(ids \subseteq DOMAIN s.doc.nodes) => Reported(u, "node")
               /\ u.doc.links = s.doc.links /\ u.doc.evidence = s.doc.evidence
               /\ u.doc.body = ev.body /\ u.doc.branch = s.doc.branch
<1> DEFINE ids == ToSet(ev.incorporated)
           nodes == [id \in DOMAIN s.doc.nodes |->
                        IF id \in ids THEN [s.doc.nodes[id] EXCEPT !.status = "incorporated"]
                        ELSE s.doc.nodes[id]]
           b == [s EXCEPT !.doc.body = ev.body]
           w == [b EXCEPT !.doc.nodes = nodes]
           u == Report(w, "node", ev, ids \ DOMAIN s.doc.nodes)
<1>1. ApplyReviseBody(s, ev) = u
  BY DEF ApplyReviseBody
<1>2. /\ ReplayShape(b) /\ SameLifecycle(s, b) /\ b.issues = s.issues
      /\ b.doc.status = s.doc.status
      /\ b.doc.links = s.doc.links /\ b.doc.evidence = s.doc.evidence
      /\ b.doc.body = ev.body /\ b.doc.branch = s.doc.branch
  <2> DEFINE text == ev.body
  <2> HIDE DEF text
  <2>1. LET c == [s EXCEPT !.doc.body = text]
        IN  /\ ReplayShape(c) /\ SameLifecycle(s, c) /\ c.issues = s.issues
            /\ c.doc.status = s.doc.status
            /\ c.doc.links = s.doc.links /\ c.doc.evidence = s.doc.evidence
            /\ c.doc.body = text /\ c.doc.branch = s.doc.branch
    BY DEF ReplayShape, SameLifecycle
  <2> QED
    BY <2>1 DEF text
<1> HIDE DEF b, nodes, ids
<1>3. /\ ReplayShape(w) /\ SameLifecycle(b, w) /\ w.issues = b.issues
      /\ w.doc.nodes = nodes /\ w.doc.status = b.doc.status /\ Rest(b, w)
  BY <1>2, NodesFacts
<1> HIDE DEF w
<1>4. /\ ReplayShape(u) /\ u.doc = w.doc /\ SameLifecycle(w, u) /\ w.issues \subseteq u.issues
      /\ \A d \in ids \ DOMAIN s.doc.nodes : \E issue \in u.issues : issue.kind = "node"
  BY <1>3, ReportFacts
<1> HIDE DEF u
<1>5. Grown(s, u) /\ SameLifecycle(s, u) /\ u.doc.status = s.doc.status /\ u.doc.nodes = nodes
  BY <1>2, <1>3, <1>4 DEF Grown, SameLifecycle
<1>6. ~(ids \subseteq DOMAIN s.doc.nodes) => Reported(u, "node")
  BY <1>4 DEF Reported
<1>7. /\ u.doc.links = s.doc.links /\ u.doc.evidence = s.doc.evidence
      /\ u.doc.body = ev.body /\ u.doc.branch = s.doc.branch
  BY <1>2, <1>3, <1>4 DEF Rest
<1> QED
  BY <1>1, <1>5, <1>6, <1>7 DEF nodes, ids

LEMMA StateFacts ==
    ASSUME NEW s, ReplayShape(s), NEW ev
    PROVE  LET u == ApplyState(s, ev)
               approvals == { <<ev.id, actor>> : actor \in ToSet(ev.approvals) }
               node == [kind |-> "approval", label |-> None, status |-> "open", body |-> None]
           IN  /\ Grown(s, u) /\ SameLifecycle(s, u)
               /\ ParseLenient(ev.state) = None =>
                      Reported(u, "state") /\ u.doc.status = s.doc.status
               /\ Rest(s, u)
               /\ ParseLenient(ev.state) # None => u.doc.status = ParseLenient(ev.state)
               /\ DOMAIN u.doc.nodes = DOMAIN s.doc.nodes \cup approvals
               /\ \A i \in approvals : u.doc.nodes[i] = node
               /\ \A i \in DOMAIN s.doc.nodes \ approvals : u.doc.nodes[i] = s.doc.nodes[i]
<1> DEFINE to == ParseLenient(ev.state)
           legal == \/ s.doc.status = to
                    \/ IsValidTransition(s.lifecycle, s.doc.status, to)
           checked == IF to = None THEN Report(s, "state", ev, {ev.state})
                      ELSE IF legal THEN s
                      ELSE Report(s, "transition", ev, {to})
           moved == IF to = None THEN checked ELSE [checked EXCEPT !.doc.status = to]
           approvals == { <<ev.id, actor>> : actor \in ToSet(ev.approvals) }
           u == AddNodes(moved, approvals, "approval", None, None)
<1>1. ApplyState(s, ev) = u
  BY DEF ApplyState
<1> HIDE DEF legal, approvals
<1>2. /\ ReplayShape(checked) /\ checked.doc = s.doc /\ SameLifecycle(s, checked)
      /\ s.issues \subseteq checked.issues
      /\ to = None => Reported(checked, "state")
  <2> HIDE DEF to
  <2>1. CASE to = None
    <3> DEFINE d == ev.state
               r == Report(s, "state", ev, {d})
    <3>1. /\ ReplayShape(r) /\ r.doc = s.doc /\ SameLifecycle(s, r) /\ s.issues \subseteq r.issues
          /\ \A x \in {d} : \E issue \in r.issues : issue.kind = "state"
      BY ReportFacts
    <3>2. checked = r
      BY <2>1
    <3> HIDE DEF r
    <3> QED
      BY <3>1, <3>2 DEF Reported
  <2>2. CASE to # None /\ legal
    <3>1. checked = s
      BY <2>2
    <3> HIDE DEF checked
    <3> QED
      BY <2>2, <3>1 DEF SameLifecycle
  <2>3. CASE to # None /\ ~legal
    <3> DEFINE r == Report(s, "transition", ev, {to})
    <3>1. ReplayShape(r) /\ r.doc = s.doc /\ SameLifecycle(s, r) /\ s.issues \subseteq r.issues
      BY ReportFacts
    <3>2. checked = r
      BY <2>3
    <3> HIDE DEF r, checked
    <3> QED
      BY <2>3, <3>1, <3>2
  <2> QED
    BY <2>1, <2>2, <2>3
<1> HIDE DEF to, checked
<1>3. /\ Grown(s, moved) /\ SameLifecycle(s, moved) /\ moved.doc.nodes = s.doc.nodes
      /\ to = None => Reported(moved, "state") /\ moved.doc.status = s.doc.status
      /\ Rest(s, moved)
      /\ to # None => moved.doc.status = to
  <2>1. CASE to = None
    <3>1. moved = checked
      BY <2>1
    <3> HIDE DEF moved
    <3> QED
      BY <1>2, <2>1, <3>1 DEF Grown, Rest
  <2>2. CASE to # None
    <3> DEFINE m == [checked EXCEPT !.doc.status = to]
    <3>1. /\ ReplayShape(m) /\ SameLifecycle(checked, m) /\ m.issues = checked.issues
          /\ m.doc.status = to /\ m.doc.nodes = checked.doc.nodes /\ Rest(checked, m)
      BY <1>2 DEF ReplayShape, SameLifecycle, Rest
    <3>2. moved = m
      BY <2>2
    <3> HIDE DEF m, moved
    <3> QED
      BY <1>2, <2>2, <3>1, <3>2 DEF Grown, SameLifecycle, Rest
  <2> QED
    BY <2>1, <2>2
<1> HIDE DEF moved
<1>4. LET node == [kind |-> "approval", label |-> None, status |-> "open", body |-> None]
      IN  /\ Grown(moved, u) /\ SameLifecycle(moved, u) /\ u.doc.status = moved.doc.status
          /\ u.issues = moved.issues /\ Rest(moved, u)
          /\ DOMAIN u.doc.nodes = DOMAIN moved.doc.nodes \cup approvals
          /\ \A i \in approvals : u.doc.nodes[i] = node
          /\ \A i \in DOMAIN moved.doc.nodes \ approvals : u.doc.nodes[i] = moved.doc.nodes[i]
  BY <1>3, AddNodesFacts DEF Grown
<1> HIDE DEF u
<1>5. /\ Grown(s, u) /\ SameLifecycle(s, u)
      /\ to = None => Reported(u, "state") /\ u.doc.status = s.doc.status
      /\ to # None => u.doc.status = to
      /\ Rest(s, u)
  BY <1>3, <1>4 DEF Grown, SameLifecycle, Reported, Rest
<1> QED
  BY <1>1, <1>3, <1>4, <1>5 DEF to, approvals

(* u differs from s in fields of the document that migration only copies.  *)
Copied(s, u) ==
    /\ Grown(s, u) /\ SameLifecycle(s, u)
    /\ u.doc.status = s.doc.status /\ u.doc.nodes = s.doc.nodes

LEMMA CopiedFacts ==
    ASSUME NEW s, ReplayShape(s), NEW x
    PROVE  /\ Copied(s, [s EXCEPT !.doc.branch = x])
           /\ Copied(s, [s EXCEPT !.doc.evidence = x])
           /\ Copied(s, [s EXCEPT !.doc.links = x])
<1>1. Copied(s, [s EXCEPT !.doc.branch = x])
  BY DEF ReplayShape, SameLifecycle, Grown, Copied
<1>2. Copied(s, [s EXCEPT !.doc.evidence = x])
  BY DEF ReplayShape, SameLifecycle, Grown, Copied
<1>3. Copied(s, [s EXCEPT !.doc.links = x])
  BY DEF ReplayShape, SameLifecycle, Grown, Copied
<1> QED
  BY <1>1, <1>2, <1>3

LEMMA LinkFacts ==
    ASSUME NEW s, ReplayShape(s), NEW ev
    PROVE  Copied(s, ApplyLink(s, ev))
<1> DEFINE written == Append(s.doc.evidence, ev.id)
           linked == Append(s.doc.links, ev.id)
<1>1. ApplyLink(s, ev) = IF ev.evidence # None THEN [s EXCEPT !.doc.evidence = written]
                         ELSE [s EXCEPT !.doc.links = linked]
  BY DEF ApplyLink
<1> HIDE DEF written, linked
<1>2. CASE ev.evidence # None
  <2>1. ApplyLink(s, ev) = [s EXCEPT !.doc.evidence = written]
    BY <1>1, <1>2
  <2>2. Copied(s, [s EXCEPT !.doc.evidence = written])
    BY CopiedFacts
  <2> QED
    BY <2>1, <2>2
<1>3. CASE ev.evidence = None
  <2>1. ApplyLink(s, ev) = [s EXCEPT !.doc.links = linked]
    BY <1>1, <1>3
  <2>2. Copied(s, [s EXCEPT !.doc.links = linked])
    BY CopiedFacts
  <2> QED
    BY <2>1, <2>2
<1> QED
  BY <1>2, <1>3

(* The first valid lifecycle of the chain sets three fields; anything else  *)
(* leaves them.                                                            *)
NamesLifecycle(s, ev) == ev.lifecycle # None /\ ev.lifecycle \in Lifecycles /\ ~s.explicit

LEMMA FacetFacts ==
    ASSUME NEW s, ReplayShape(s), NEW ev
    PROVE  LET u == ApplyFacetSet(s, ev)
               tags == s.doc.tags \cup (IF ev.lifecycle = "record" THEN {"decision"} ELSE {})
           IN  /\ Grown(s, u) /\ u.doc.status = s.doc.status /\ u.doc.nodes = s.doc.nodes
               /\ Rest(s, u)
               /\ IF NamesLifecycle(s, ev)
                  THEN /\ u.lifecycle = ev.lifecycle /\ u.explicit
                       /\ u.doc.category = LifecycleToCategory(ev.lifecycle)
                       /\ u.doc.tags = (tags \cup ev.add) \ ev.remove
                  ELSE /\ u.lifecycle = s.lifecycle /\ u.explicit = s.explicit
                       /\ u.doc.category = s.doc.category
                       /\ u.doc.tags = (s.doc.tags \cup ev.add) \ ev.remove
<1> DEFINE w == ApplyLifecycle(s, ev)
           set == (w.doc.tags \cup ev.add) \ ev.remove
           u == [w EXCEPT !.doc.tags = set]
<1>1. ApplyFacetSet(s, ev) = u
  <2>1. ApplyFacetSet(s, ev) = [w EXCEPT !.doc.tags = (@ \cup ev.add) \ ev.remove]
    BY DEF ApplyFacetSet
  <2> HIDE DEF w
  <2>2. [w EXCEPT !.doc.tags = (@ \cup ev.add) \ ev.remove] = [w EXCEPT !.doc.tags = set]
    OBVIOUS
  <2> QED
    BY <2>1, <2>2
<1>2. CASE NamesLifecycle(s, ev)
  <2> DEFINE lifecycle == ev.lifecycle
             category == LifecycleToCategory(ev.lifecycle)
             tags == IF ev.lifecycle = "record" THEN s.doc.tags \cup {"decision"}
                     ELSE s.doc.tags
             yes == TRUE
             a == [s EXCEPT !.lifecycle = lifecycle]
             b == [a EXCEPT !.explicit = yes]
             c == [b EXCEPT !.doc.category = category]
             n == [c EXCEPT !.doc.tags = tags]
  <2>1. w = n
    <3>1. w = [s EXCEPT !.lifecycle = lifecycle, !.explicit = TRUE,
                        !.doc.category = category,
                        !.doc.tags = IF ev.lifecycle = "record" THEN @ \cup {"decision"} ELSE @]
      BY <1>2 DEF ApplyLifecycle, NamesLifecycle
    <3>2. b = [s EXCEPT !.lifecycle = lifecycle, !.explicit = TRUE]
      OBVIOUS
    <3>3. c = [s EXCEPT !.lifecycle = lifecycle, !.explicit = TRUE, !.doc.category = category]
      OBVIOUS
    <3>4. [s EXCEPT !.lifecycle = lifecycle, !.explicit = TRUE, !.doc.category = category,
                    !.doc.tags = IF ev.lifecycle = "record" THEN @ \cup {"decision"} ELSE @]
          = n
      OBVIOUS
    <3> QED
      BY <3>1, <3>4
  <2>2. tags = s.doc.tags \cup (IF ev.lifecycle = "record" THEN {"decision"} ELSE {})
    OBVIOUS
  <2> HIDE DEF yes, lifecycle, category, tags
  <2>3. /\ ReplayShape(n) /\ n.lifecycle = lifecycle /\ n.explicit = yes
        /\ n.doc.category = category /\ n.doc.tags = tags
        /\ n.doc.status = s.doc.status /\ n.doc.nodes = s.doc.nodes /\ n.issues = s.issues
        /\ Rest(s, n)
    <3>1. /\ ReplayShape(a) /\ a.lifecycle = lifecycle /\ a.doc = s.doc
          /\ a.issues = s.issues
      BY DEF ReplayShape
    <3> HIDE DEF a
    <3>2. /\ ReplayShape(b) /\ b.lifecycle = lifecycle /\ b.explicit = yes
          /\ b.doc = s.doc /\ b.issues = s.issues
      BY <3>1 DEF ReplayShape
    <3> HIDE DEF b
    <3>3. /\ ReplayShape(c) /\ c.lifecycle = lifecycle /\ c.explicit = yes
          /\ c.doc.category = category /\ c.issues = s.issues
          /\ c.doc.status = s.doc.status /\ c.doc.nodes = s.doc.nodes
          /\ Rest(s, c)
      BY <3>2 DEF ReplayShape, Rest
    <3> HIDE DEF c
    <3> QED
      BY <3>3 DEF ReplayShape, Rest
  <2> HIDE DEF w, a, b, c, n, set
  <2>4. /\ ReplayShape(u) /\ u.lifecycle = w.lifecycle /\ u.explicit = w.explicit
        /\ u.doc.category = w.doc.category /\ u.doc.tags = set
        /\ u.doc.status = w.doc.status /\ u.doc.nodes = w.doc.nodes /\ u.issues = w.issues
        /\ Rest(w, u)
    BY <2>1, <2>3 DEF ReplayShape, Rest
  <2> HIDE DEF u
  <2>5. set = (tags \cup ev.add) \ ev.remove
    BY <2>1, <2>3 DEF set
  <2> QED
    BY <1>1, <1>2, <2>1, <2>2, <2>3, <2>4, <2>5 DEF Grown, Rest, yes, lifecycle, category
<1>3. CASE ~NamesLifecycle(s, ev)
  <2>1. /\ ReplayShape(w) /\ w.doc = s.doc /\ SameLifecycle(s, w)
        /\ s.issues \subseteq w.issues
    <3> DEFINE d == {ev.lifecycle}
               r == Report(s, "lifecycle", ev, d)
    <3>1. /\ ReplayShape(r) /\ r.doc = s.doc /\ SameLifecycle(s, r)
          /\ s.issues \subseteq r.issues
      <4> HIDE DEF d
      <4> QED
        BY ReportFacts
    <3>2. w = s \/ w = r
      <4>1. CASE ev.lifecycle = None
        BY <4>1 DEF ApplyLifecycle
      <4>2. CASE ev.lifecycle # None /\ ev.lifecycle \notin Lifecycles
        BY <4>2 DEF ApplyLifecycle
      <4>3. CASE ev.lifecycle # None /\ ev.lifecycle \in Lifecycles
        <5>1. s.explicit
          BY <1>3, <4>3 DEF NamesLifecycle
        <5> QED
          BY <4>3, <5>1 DEF ApplyLifecycle
      <4> QED
        BY <4>1, <4>2, <4>3
    <3> HIDE DEF r, w
    <3> QED
      BY <3>1, <3>2 DEF SameLifecycle
  <2> HIDE DEF w, set
  <2>2. /\ ReplayShape(u) /\ u.lifecycle = w.lifecycle /\ u.explicit = w.explicit
        /\ u.doc.category = w.doc.category /\ u.doc.tags = set
        /\ u.doc.status = w.doc.status /\ u.doc.nodes = w.doc.nodes /\ u.issues = w.issues
        /\ Rest(w, u)
    BY <2>1 DEF ReplayShape, Rest
  <2> HIDE DEF u
  <2>3. set = (s.doc.tags \cup ev.add) \ ev.remove
    BY <2>1 DEF set
  <2> QED
    BY <1>1, <1>3, <2>1, <2>2, <2>3 DEF Grown, SameLifecycle, Rest
<1> QED
  BY <1>2, <1>3

(* Nothing but transitions has been reported.                              *)
Quiet(s) == \A issue \in s.issues : issue.kind = "transition"

NodeShape(node) ==
    node = [kind |-> node.kind, label |-> node.label, status |-> node.status, body |-> node.body]

NodesShaped(s) == \A id \in DOMAIN s.doc.nodes : NodeShape(s.doc.nodes[id])

SayId(ev) == IF ev.node = None THEN <<ev.id, "">> ELSE ev.node

FlagTypes == {"retract", "resolve", "reopen"}

(* What an event leaves a node at that it touches.                         *)
FlagAfter(ev) == IF ev.type = "revise-body" THEN "incorporated" ELSE FlagOf(ev.type)

(* The step from s to u by ev does to status and nodes what the words of ev *)
(* say, or it reports that it does not.                                    *)
Faithful(s, ev, u) ==
    /\ NodesShaped(u)
    /\ DOMAIN s.doc.nodes \subseteq DOMAIN u.doc.nodes
    /\ Quiet(u) =>
         /\ u.doc.status = IF ev.type = "state" THEN ParseLenient(ev.state) ELSE s.doc.status
         /\ \A id : Touches(ev, id) => id \in DOMAIN s.doc.nodes
         /\ \A id \in DOMAIN u.doc.nodes :
              \/ /\ id \in DOMAIN s.doc.nodes
                 /\ u.doc.nodes[id].status =
                        IF Touches(ev, id) THEN FlagAfter(ev) ELSE s.doc.nodes[id].status
              \/ /\ ev.type = "say" /\ id = SayId(ev)
                 /\ u.doc.nodes[id].status = "open"
              \/ /\ ev.type = "state"
                 /\ id \in { <<ev.id, actor>> : actor \in ToSet(ev.approvals) }

LEMMA UntouchedFacts ==
    ASSUME NEW s, NodesShaped(s), NEW ev, NEW u,
           u.doc.nodes = s.doc.nodes, u.doc.status = s.doc.status,
           ev.type \notin FlagTypes \cup {"state", "revise-body"}
    PROVE  Faithful(s, ev, u)
<1>1. \A id : ~Touches(ev, id)
  BY DEF Touches, FlagTypes
<1> QED
  BY <1>1 DEF Faithful, NodesShaped

LEMMA ChangedNodeFacts ==
    ASSUME NEW s, ReplayShape(s), NodesShaped(s), NEW ev, NEW node,
           ev.type \notin {"state", "say", "revise-body"},
           ev.node \in DOMAIN s.doc.nodes =>
               /\ NodeShape(node)
               /\ node.status = IF ev.type \in FlagTypes THEN FlagOf(ev.type)
                                ELSE s.doc.nodes[ev.node].status
    PROVE  Faithful(s, ev, OnNode(s, ev, ev.node, node))
<1> DEFINE id == ev.node
           u == OnNode(s, ev, id, node)
<1>1. /\ u.doc.status = s.doc.status
      /\ DOMAIN u.doc.nodes = DOMAIN s.doc.nodes
      /\ \A x \in DOMAIN s.doc.nodes : x # id => u.doc.nodes[x] = s.doc.nodes[x]
      /\ IF id \in DOMAIN s.doc.nodes THEN u.doc.nodes[id] = node
         ELSE Reported(u, "node")
  <2> HIDE DEF id
  <2> QED
    BY OnNodeFacts
<1>3. \A x : Touches(ev, x) <=> ev.type \in FlagTypes /\ x = id
  BY DEF Touches, FlagTypes
<1> HIDE DEF u
<1>4. NodesShaped(u)
  BY <1>1 DEF NodesShaped
<1>5. ev.type \in FlagTypes => FlagAfter(ev) = FlagOf(ev.type)
  BY DEF FlagAfter, FlagTypes
<1>6. Quiet(u) => id \in DOMAIN s.doc.nodes
  BY <1>1 DEF Quiet, Reported
<1>7. Faithful(s, ev, u)
  BY <1>1, <1>3, <1>4, <1>5, <1>6 DEF Faithful
<1> QED
  BY <1>7 DEF u

LEMMA SayFaithful ==
    ASSUME NEW s, ReplayShape(s), NodesShaped(s), NEW ev, ev.type = "say"
    PROVE  Faithful(s, ev, ApplySay(s, ev))
<1> DEFINE u == ApplySay(s, ev)
           id == SayId(ev)
           node == [kind |-> KindOf(ev.ntype), label |-> LabelOf(ev.ntype), status |-> "open",
                    body |-> ev.body]
<1>1. /\ u.doc.status = s.doc.status
      /\ DOMAIN u.doc.nodes = DOMAIN s.doc.nodes \cup {id}
      /\ u.doc.nodes[id] = node
      /\ \A x \in DOMAIN s.doc.nodes : x # id => u.doc.nodes[x] = s.doc.nodes[x]
  <2>1. u = AddNodes(s, {id}, KindOf(ev.ntype), LabelOf(ev.ntype), ev.body)
    BY DEF ApplySay, SayId
  <2> HIDE DEF id
  <2> QED
    BY <2>1, AddNodesFacts
<1>2. NodeShape(node) /\ node.status = "open"
  BY DEF NodeShape
<1>3. \A x : ~Touches(ev, x)
  BY DEF Touches
<1> HIDE DEF u, node, id
<1>5. NodesShaped(u)
  BY <1>1, <1>2 DEF NodesShaped
<1>6. Faithful(s, ev, u)
  BY <1>1, <1>2, <1>3, <1>5 DEF Faithful, id
<1> QED
  BY <1>6 DEF u

LEMMA StateFaithful ==
    ASSUME NEW s, ReplayShape(s), NodesShaped(s), NEW ev, ev.type = "state"
    PROVE  Faithful(s, ev, ApplyState(s, ev))
<1> DEFINE u == ApplyState(s, ev)
           approvals == { <<ev.id, actor>> : actor \in ToSet(ev.approvals) }
           node == [kind |-> "approval", label |-> None, status |-> "open", body |-> None]
<1>1. /\ ParseLenient(ev.state) = None => Reported(u, "state")
      /\ ParseLenient(ev.state) # None => u.doc.status = ParseLenient(ev.state)
      /\ DOMAIN u.doc.nodes = DOMAIN s.doc.nodes \cup approvals
      /\ \A x \in approvals : u.doc.nodes[x] = node
      /\ \A x \in DOMAIN s.doc.nodes \ approvals : u.doc.nodes[x] = s.doc.nodes[x]
  BY SMTT(30), StateFacts
<1>2. NodeShape(node)
  BY DEF NodeShape
<1>3. \A x : ~Touches(ev, x)
  BY DEF Touches
<1> HIDE DEF u, node, approvals
<1>5. NodesShaped(u)
  BY <1>1, <1>2 DEF NodesShaped
<1>6. Quiet(u) => u.doc.status = ParseLenient(ev.state)
  BY <1>1 DEF Quiet, Reported
<1>7. \A x \in DOMAIN u.doc.nodes :
          \/ x \in DOMAIN s.doc.nodes /\ u.doc.nodes[x].status = s.doc.nodes[x].status
          \/ x \in approvals
  BY <1>1
<1>8. Faithful(s, ev, u)
  BY <1>1, <1>3, <1>5, <1>6, <1>7 DEF Faithful, approvals
<1> QED
  BY <1>8 DEF u

LEMMA ReviseFaithful ==
    ASSUME NEW s, ReplayShape(s), NodesShaped(s), NEW ev, ev.type = "revise-body"
    PROVE  Faithful(s, ev, ApplyReviseBody(s, ev))
<1> DEFINE u == ApplyReviseBody(s, ev)
           ids == ToSet(ev.incorporated)
<1>1. /\ u.doc.status = s.doc.status
      /\ DOMAIN u.doc.nodes = DOMAIN s.doc.nodes
      /\ \A id \in DOMAIN s.doc.nodes :
             u.doc.nodes[id] = IF id \in ids
                               THEN [s.doc.nodes[id] EXCEPT !.status = "incorporated"]
                               ELSE s.doc.nodes[id]
      /\ ~(ids \subseteq DOMAIN s.doc.nodes) => Reported(u, "node")
  BY ReviseFacts
<1>2. \A x : Touches(ev, x) <=> x \in ids
  BY DEF Touches, ToSet
<1>3. \A id \in DOMAIN s.doc.nodes :
          /\ NodeShape([s.doc.nodes[id] EXCEPT !.status = "incorporated"])
          /\ [s.doc.nodes[id] EXCEPT !.status = "incorporated"].status = "incorporated"
  <2> TAKE id \in DOMAIN s.doc.nodes
  <2> DEFINE node == s.doc.nodes[id]
  <2>1. NodeShape(node)
    BY DEF NodesShaped
  <2> HIDE DEF node
  <2>2. /\ NodeShape([node EXCEPT !.status = "incorporated"])
        /\ [node EXCEPT !.status = "incorporated"].status = "incorporated"
    BY <2>1 DEF NodeShape
  <2> QED
    BY <2>2 DEF node
<1> HIDE DEF u, ids
<1>5. \A x \in DOMAIN s.doc.nodes :
          /\ NodeShape(u.doc.nodes[x])
          /\ u.doc.nodes[x].status = IF x \in ids THEN "incorporated" ELSE s.doc.nodes[x].status
  BY <1>1, <1>3 DEF NodesShaped
<1>6. NodesShaped(u)
  BY <1>1, <1>5 DEF NodesShaped
<1>7. Quiet(u) => ids \subseteq DOMAIN s.doc.nodes
  BY <1>1 DEF Quiet, Reported
<1>8. FlagAfter(ev) = "incorporated"
  BY DEF FlagAfter
<1>9. Faithful(s, ev, u)
  BY <1>1, <1>2, <1>5, <1>6, <1>7, <1>8 DEF Faithful
<1> QED
  BY <1>9 DEF u

EditedNode(node, ev) == [node EXCEPT !.body = ev.body]
FlaggedNode(node, ev) == [node EXCEPT !.status = FlagOf(ev.type)]
RetypedNode(node, ev) ==
    [node EXCEPT !.kind = KindOf(ev.ntype),
                 !.label = IF LabelOf(ev.ntype) = None THEN @ ELSE LabelOf(ev.ntype)]

LEMMA ChangedShapes ==
    ASSUME NEW node, NodeShape(node), NEW ev
    PROVE  /\ NodeShape(EditedNode(node, ev)) /\ EditedNode(node, ev).status = node.status
           /\ NodeShape(FlaggedNode(node, ev))
           /\ FlaggedNode(node, ev).status = FlagOf(ev.type)
           /\ NodeShape(RetypedNode(node, ev)) /\ RetypedNode(node, ev).status = node.status
<1> DEFINE text == ev.body
           flag == FlagOf(ev.type)
           kind == KindOf(ev.ntype)
           label == IF LabelOf(ev.ntype) = None THEN node.label ELSE LabelOf(ev.ntype)
           a == [node EXCEPT !.kind = kind]
           b == [a EXCEPT !.label = label]
<1>1. RetypedNode(node, ev) = b
  <2>1. a.label = node.label
    <3> HIDE DEF kind
    <3> QED
      BY DEF NodeShape
  <2>2. RetypedNode(node, ev) =
           [a EXCEPT !.label = IF LabelOf(ev.ntype) = None THEN @ ELSE LabelOf(ev.ntype)]
    BY DEF RetypedNode
  <2> HIDE DEF a
  <2> QED
    BY <2>1, <2>2
<1>2. EditedNode(node, ev) = [node EXCEPT !.body = text]
  BY DEF EditedNode
<1>3. FlaggedNode(node, ev) = [node EXCEPT !.status = flag]
  BY DEF FlaggedNode
<1> HIDE DEF text, flag, kind, label
<1>4. NodeShape(a) /\ a.status = node.status
  BY DEF NodeShape
<1> HIDE DEF a
<1>5. NodeShape(b) /\ b.status = a.status
  BY <1>4 DEF NodeShape
<1>6. NodeShape([node EXCEPT !.body = text]) /\ [node EXCEPT !.body = text].status = node.status
  BY DEF NodeShape
<1>7. NodeShape([node EXCEPT !.status = flag]) /\ [node EXCEPT !.status = flag].status = flag
  BY DEF NodeShape
<1> HIDE DEF b
<1> QED
  BY <1>1, <1>2, <1>3, <1>4, <1>5, <1>6, <1>7 DEF flag

LEMMA EventFaithful ==
    ASSUME NEW s, ReplayShape(s), NodesShaped(s), NEW ev
    PROVE  Faithful(s, ev, ApplyEvent(s, ev))
<1>1. CASE ev.type = "state"
  <2>1. ApplyEvent(s, ev) = ApplyState(s, ev)
    BY <1>1 DEF ApplyEvent
  <2> QED
    BY <1>1, <2>1, StateFaithful
<1>2. CASE ev.type = "scope"
  <2> DEFINE b == ev.branch
  <2>1. ApplyEvent(s, ev) = [s EXCEPT !.doc.branch = b]
    BY <1>2 DEF ApplyEvent
  <2> HIDE DEF b
  <2>2. Copied(s, [s EXCEPT !.doc.branch = b])
    BY CopiedFacts
  <2> QED
    BY <1>2, <2>1, <2>2, UntouchedFacts DEF Copied, FlagTypes
<1>3. CASE ev.type = "say"
  <2>1. ApplyEvent(s, ev) = ApplySay(s, ev)
    BY <1>3 DEF ApplyEvent
  <2> QED
    BY <1>3, <2>1, SayFaithful
<1>4. CASE ev.type = "edit"
  <2> DEFINE node == EditedNode(s.doc.nodes[ev.node], ev)
  <2>1. ApplyEvent(s, ev) = OnNode(s, ev, ev.node, node)
    BY <1>4 DEF ApplyEvent, EditedNode
  <2>2. ev.node \in DOMAIN s.doc.nodes =>
            NodeShape(node) /\ node.status = s.doc.nodes[ev.node].status
    BY ChangedShapes DEF NodesShaped
  <2> HIDE DEF node
  <2> QED
    BY <1>4, <2>1, <2>2, ChangedNodeFacts DEF FlagTypes
<1>5. CASE ev.type \in {"retract", "resolve", "reopen"}
  <2> DEFINE node == FlaggedNode(s.doc.nodes[ev.node], ev)
  <2>1. ApplyEvent(s, ev) = OnNode(s, ev, ev.node, node)
    <3>1. ApplyEvent(s, ev) = ApplyFlag(s, ev)
      BY <1>5 DEF ApplyEvent
    <3> QED
      BY <3>1 DEF ApplyFlag, FlaggedNode
  <2>2. ev.node \in DOMAIN s.doc.nodes => NodeShape(node) /\ node.status = FlagOf(ev.type)
    BY ChangedShapes DEF NodesShaped
  <2> HIDE DEF node
  <2> QED
    BY <1>5, <2>1, <2>2, ChangedNodeFacts DEF FlagTypes
<1>6. CASE ev.type = "retype"
  <2> DEFINE node == RetypedNode(s.doc.nodes[ev.node], ev)
  <2>1. ApplyEvent(s, ev) = OnNode(s, ev, ev.node, node)
    <3>1. ApplyEvent(s, ev) = ApplyRetype(s, ev)
      BY <1>6 DEF ApplyEvent
    <3> QED
      BY <3>1 DEF ApplyRetype, RetypedNode
  <2>2. ev.node \in DOMAIN s.doc.nodes =>
            NodeShape(node) /\ node.status = s.doc.nodes[ev.node].status
    BY ChangedShapes DEF NodesShaped
  <2> HIDE DEF node
  <2> QED
    BY <1>6, <2>1, <2>2, ChangedNodeFacts DEF FlagTypes
<1>7. CASE ev.type = "revise-body"
  <2>1. ApplyEvent(s, ev) = ApplyReviseBody(s, ev)
    BY <1>7 DEF ApplyEvent
  <2> QED
    BY <1>7, <2>1, ReviseFaithful
<1>8. CASE ev.type = "link"
  <2>1. ApplyEvent(s, ev) = ApplyLink(s, ev)
    BY <1>8 DEF ApplyEvent
  <2> QED
    BY <1>8, <2>1, LinkFacts, UntouchedFacts DEF Copied, FlagTypes
<1>9. CASE ev.type = "facet-set"
  <2> DEFINE u == ApplyFacetSet(s, ev)
  <2>1. ApplyEvent(s, ev) = u
    BY <1>9 DEF ApplyEvent
  <2>2. u.doc.status = s.doc.status /\ u.doc.nodes = s.doc.nodes
    BY FacetFacts
  <2> HIDE DEF u
  <2> QED
    BY <1>9, <2>1, <2>2, UntouchedFacts DEF FlagTypes
<1>10. CASE ev.type \notin {"state", "scope", "say", "edit", "retract", "resolve", "reopen",
                            "retype", "revise-body", "link", "facet-set"}
  <2>1. ApplyEvent(s, ev) = s
    BY <1>10 DEF ApplyEvent
  <2> QED
    BY <1>10, <2>1, UntouchedFacts DEF FlagTypes
<1> QED
  BY <1>1, <1>2, <1>3, <1>4, <1>5, <1>6, <1>7, <1>8, <1>9, <1>10

(* What an event does to the lifecycle and what goes with it.              *)
LifecycleStep(s, ev, u) ==
    \/ SameLifecycle(s, u)
    \/ /\ NamesLifecycle(s, ev)
       /\ u.lifecycle = ev.lifecycle /\ u.explicit
       /\ u.doc.category = LifecycleToCategory(ev.lifecycle)
       /\ u.doc.tags = (s.doc.tags \cup (IF ev.lifecycle = "record" THEN {"decision"} ELSE {})
                        \cup ev.add) \ ev.remove
    \/ /\ u.lifecycle = s.lifecycle /\ u.explicit = s.explicit
       /\ u.doc.category = s.doc.category
       /\ u.doc.tags = (s.doc.tags \cup ev.add) \ ev.remove

LEMMA EventLifecycle ==
    ASSUME NEW s, ReplayShape(s), NEW ev
    PROVE  Grown(s, ApplyEvent(s, ev)) /\ LifecycleStep(s, ev, ApplyEvent(s, ev))
<1> DEFINE u == ApplyEvent(s, ev)
<1> SUFFICES Grown(s, u) /\ LifecycleStep(s, ev, u)
  OBVIOUS
<1>1. CASE ev.type = "state"
  <2>1. u = ApplyState(s, ev)
    BY <1>1 DEF ApplyEvent
  <2> HIDE DEF u
  <2> QED
    BY <2>1, StateFacts DEF LifecycleStep
<1>2. CASE ev.type = "scope"
  <2> DEFINE b == ev.branch
  <2>1. u = [s EXCEPT !.doc.branch = b]
    BY <1>2 DEF ApplyEvent
  <2> HIDE DEF b, u
  <2>2. Copied(s, [s EXCEPT !.doc.branch = b])
    BY CopiedFacts
  <2> QED
    BY <2>1, <2>2 DEF Copied, LifecycleStep
<1>3. CASE ev.type = "say"
  <2> DEFINE id == IF ev.node = None THEN <<ev.id, "">> ELSE ev.node
  <2>1. u = AddNodes(s, {id}, KindOf(ev.ntype), LabelOf(ev.ntype), ev.body)
    BY <1>3 DEF ApplyEvent, ApplySay
  <2> HIDE DEF u, id
  <2> QED
    BY <2>1, AddNodesFacts DEF LifecycleStep
<1>4. CASE ev.type \in {"edit", "retract", "resolve", "reopen", "retype"}
  <2>1. PICK node : u = OnNode(s, ev, ev.node, node)
    <3>1. CASE ev.type = "edit"
      BY <3>1 DEF ApplyEvent
    <3>2. CASE ev.type \in {"retract", "resolve", "reopen"}
      <4>1. u = ApplyFlag(s, ev)
        BY <3>2 DEF ApplyEvent
      <4> QED
        BY <4>1 DEF ApplyFlag
    <3>3. CASE ev.type = "retype"
      <4>1. u = ApplyRetype(s, ev)
        BY <3>3 DEF ApplyEvent
      <4> QED
        BY <4>1 DEF ApplyRetype
    <3> QED
      BY <1>4, <3>1, <3>2, <3>3
  <2> HIDE DEF u
  <2> QED
    BY <2>1, OnNodeFacts DEF LifecycleStep
<1>5. CASE ev.type = "revise-body"
  <2>1. u = ApplyReviseBody(s, ev)
    BY <1>5 DEF ApplyEvent
  <2> HIDE DEF u
  <2> QED
    BY <2>1, ReviseFacts DEF LifecycleStep
<1>6. CASE ev.type = "link"
  <2>1. u = ApplyLink(s, ev)
    BY <1>6 DEF ApplyEvent
  <2> HIDE DEF u
  <2> QED
    BY <2>1, LinkFacts DEF Copied, LifecycleStep
<1>7. CASE ev.type = "facet-set"
  <2>1. u = ApplyFacetSet(s, ev)
    BY <1>7 DEF ApplyEvent
  <2> HIDE DEF u
  <2> QED
    BY <2>1, FacetFacts DEF LifecycleStep
<1>8. CASE ev.type \notin {"state", "scope", "say", "edit", "retract", "resolve", "reopen",
                           "retype", "revise-body", "link", "facet-set"}
  <2>1. u = s
    BY <1>8 DEF ApplyEvent
  <2> HIDE DEF u
  <2> QED
    BY <2>1 DEF LifecycleStep, SameLifecycle, Grown
<1> QED
  BY <1>1, <1>2, <1>3, <1>4, <1>5, <1>6, <1>7, <1>8

(* An event without its fields is reported and does nothing.               *)
LEMMA StepFacts ==
    ASSUME NEW s, ReplayShape(s), NEW ev
    PROVE  LET u == ApplyChecked(s, ev)
           IN  /\ Grown(s, u) /\ LifecycleStep(s, ev, u)
               /\ NodesShaped(s) => Faithful(s, ev, u)
<1> DEFINE u == ApplyChecked(s, ev)
<1>1. CASE Missing(ev) = None
  <2>1. u = ApplyEvent(s, ev)
    BY <1>1 DEF ApplyChecked
  <2> HIDE DEF u
  <2> QED
    BY <2>1, EventLifecycle, EventFaithful DEF u
<1>2. CASE Missing(ev) # None
  <2> DEFINE d == Missing(ev)
  <2>1. u = Report(s, "field", ev, {d})
    BY <1>2 DEF ApplyChecked
  <2> HIDE DEF u, d
  <2>2. /\ ReplayShape(u) /\ u.doc = s.doc /\ SameLifecycle(s, u) /\ s.issues \subseteq u.issues
        /\ \A x \in {d} : \E issue \in u.issues : issue.kind = "field"
    BY <2>1, ReportFacts
  <2>3. ~Quiet(u)
    BY <2>2 DEF Quiet
  <2>4. Grown(s, u) /\ LifecycleStep(s, ev, u) /\ (NodesShaped(s) => Faithful(s, ev, u))
    BY <2>2, <2>3 DEF Grown, LifecycleStep, Faithful, NodesShaped
  <2> QED
    BY <2>4 DEF u
<1> QED
  BY <1>1, <1>2

IsSay(i) == chain[i].shape = "event" /\ chain[i].event.type = "say"

(* What events call nodes: by the event that made them, and by the actor    *)
(* where a state event made them for approvals.                            *)
NodeIds == Nat \X {"", "human/alice"}
Named(ev) ==
    /\ ev.node = None \/ ev.node \in NodeIds
    /\ \A k \in DOMAIN ev.incorporated : ev.incorporated[k] \in NodeIds

(* The event at position i bears it as its id, and a say makes a node of    *)
(* its own.                                                                *)
EventFits(ev, i) ==
    /\ ev.id = i
    /\ Named(ev)
    /\ ev.type = "state" => ev.approvals \in {<<>>, <<"human/alice">>}
    /\ ev.type = "say" =>
         /\ ev.node \in {None, <<1, "">>}
         /\ \A j \in DOMAIN chain :
                j < i /\ IsSay(j) => SayId(chain[j].event) # SayId(ev)

FirstCreates(commit) ==
    /\ commit.shape = "event" /\ commit.event.type = "create"
    /\ commit.event.kind \in ThreadKinds

(* The inductive invariant of a chain.                                     *)
ChainInv ==
    /\ chain \in Seq(ToSet(chain))
    /\ chain # <<>> => FirstCreates(chain[1])
    /\ \A i \in DOMAIN chain : chain[i].shape = "event" => EventFits(chain[i].event, i)

LEMMA ExtendedChain ==
    ASSUME ChainInv, NEW commit, Extend(commit),
           commit.shape = "event" => EventFits(commit.event, Next1),
           chain = <<>> => FirstCreates(commit)
    PROVE  ChainInv'
<1> DEFINE n == Len(chain)
           all == ToSet(chain) \cup {commit}
<1>1. chain \in Seq(all) /\ commit \in all /\ n \in Nat /\ DOMAIN chain = 1..n
  BY DEF ChainInv
<1>2. /\ chain' = Append(chain, commit) /\ chain' \in Seq(all) /\ Len(chain') = n + 1
      /\ DOMAIN chain' = 1..(n + 1)
      /\ chain'[n + 1] = commit
      /\ \A i \in 1..n : chain'[i] = chain[i]
  <2> HIDE DEF all
  <2> QED
    BY <1>1 DEF Extend
<1> HIDE DEF all
<1>3. \A i \in DOMAIN chain' : chain'[i] \in ToSet(chain')
  BY DEF ToSet
<1>4. chain' \in Seq(ToSet(chain'))
  BY <1>2, <1>3
<1>5. chain'[1] = IF chain = <<>> THEN commit ELSE chain[1]
  <2>1. CASE chain = <<>>
    <3>1. n = 0
      BY <2>1
    <3> QED
      BY <1>2, <2>1, <3>1
  <2>2. CASE chain # <<>>
    <3>1. 1 \in 1..n
      BY <1>1, <2>2
    <3> QED
      BY <1>2, <2>2, <3>1
  <2> QED
    BY <2>1, <2>2
<1>6. FirstCreates(chain'[1])
  BY <1>5 DEF ChainInv
<1>7. ASSUME NEW i \in DOMAIN chain', chain'[i].shape = "event"
      PROVE  EventFits(chain[i].event, i)'
  <2> DEFINE ev == chain'[i].event
  <2>1. EventFits(ev, i) /\ i \in 1..(n + 1)
    <3>1. CASE i = n + 1
      BY <1>1, <1>2, <1>7, <3>1 DEF Next1
    <3>2. CASE i \in 1..n
      <4>1. chain'[i] = chain[i] /\ EventFits(chain[i].event, i)
        BY <1>1, <1>2, <1>7, <3>2 DEF ChainInv
      <4> QED
        BY <1>1, <3>2, <4>1
    <3> QED
      BY <1>1, <1>2, <3>1, <3>2
  <2>2. \A j \in DOMAIN chain' : j < i => /\ j \in DOMAIN chain /\ chain'[j] = chain[j]
    BY <1>1, <1>2, <2>1
  <2> HIDE DEF ev
  <2>3. \A j \in DOMAIN chain' :
            j < i /\ chain'[j].shape = "event" /\ chain'[j].event.type = "say" =>
                (ev.type = "say" => SayId(chain'[j].event) # SayId(ev))
    BY <2>1, <2>2 DEF EventFits, IsSay
  <2>4. /\ ev.id = i
        /\ ev.type = "state" => ev.approvals \in {<<>>, <<"human/alice">>}
        /\ ev.type = "say" => ev.node \in {None, <<1, "">>}
        /\ Named(ev)
    BY <2>1 DEF EventFits
  <2> QED
    BY <2>3, <2>4 DEF EventFits, Named, IsSay, SayId, ev
<1> QED
  BY <1>4, <1>6, <1>7 DEF ChainInv, FirstCreates

LEMMA KnownSaid ==
    ASSUME ChainInv, NEW j \in DOMAIN chain, IsSay(j)
    PROVE  SayId(chain[j].event) \in KnownIds /\ SayId(chain[j].event) \in {<<j, "">>, <<1, "">>}
<1>1. EventFits(chain[j].event, j)
  BY DEF ChainInv, IsSay
<1>2. chain[j].event.id = j /\ chain[j].event.node \in {None, <<1, "">>}
  BY <1>1 DEF EventFits, IsSay
<1>3. SayId(chain[j].event) \in {<<j, "">>, <<1, "">>}
  BY <1>2 DEF SayId
<1> DEFINE said == { i \in DOMAIN chain : chain[i].shape = "event" /\ chain[i].event.type = "say" }
           ids == { IF chain[i].event.node = None THEN <<i, "">> ELSE chain[i].event.node : i \in said }
<1>4. j \in said
  BY DEF IsSay
<1>5. SayId(chain[j].event) = IF chain[j].event.node = None THEN <<j, "">> ELSE chain[j].event.node
  BY <1>2 DEF SayId
<1>6. SayId(chain[j].event) \in ids
  <2> HIDE DEF said
  <2> QED
    BY <1>4, <1>5
<1>7. \A x : x \in ids => x \in KnownIds
  BY DEF KnownIds
<1> QED
  BY <1>3, <1>6, <1>7

LEMMA IdsAreNamed ==
    ASSUME NEW i \in Nat
    PROVE  <<i, "">> \in NodeIds /\ <<i, "human/alice">> \in NodeIds
  BY DEF NodeIds

LEMMA NamesNothing ==
    ASSUME NEW ev, ev.node = None \/ ev.node \in NodeIds, ev.incorporated = <<>>
    PROVE  Named(ev)
<1>1. DOMAIN ev.incorporated = {}
  OBVIOUS
<1> QED
  BY <1>1 DEF Named

LEMMA KnownIdsNamed ==
    ASSUME ChainInv
    PROVE  KnownIds \subseteq NodeIds
<1> DEFINE said == {i \in DOMAIN chain : chain[i].shape = "event" /\ chain[i].event.type = "say"}
           stated == {i \in DOMAIN chain : IsPlainState(chain[i])}
           made == {IF chain[i].event.node = None THEN <<i, "">> ELSE chain[i].event.node : i \in said}
           approved == {<<i, "human/alice">> : i \in {j \in stated : chain[j].event.approvals # <<>>}}
<1>1. DOMAIN chain \subseteq Nat
  BY DEF ChainInv
<1>2. made \subseteq NodeIds
  <2>1. \A i \in said : chain[i].event.node = None \/ chain[i].event.node = <<1, "">>
    BY DEF ChainInv, EventFits
  <2>2. <<1, "">> \in NodeIds
    BY IdsAreNamed
  <2>3. \A i \in said : (IF chain[i].event.node = None THEN <<i, "">>
                        ELSE chain[i].event.node) \in NodeIds
    BY <1>1, <2>1, <2>2, IdsAreNamed
  <2> QED
    BY <2>3
<1>3. approved \subseteq NodeIds
  <2>1. \A i \in stated : <<i, "human/alice">> \in NodeIds
    BY <1>1, IdsAreNamed
  <2> QED
    BY <2>1
<1>4. <<0, "">> \in NodeIds
  BY IdsAreNamed
<1>5. KnownIds = made \cup approved \cup {<<0, "">>}
  BY DEF KnownIds
<1> HIDE DEF made, approved
<1> QED
  BY <1>2, <1>3, <1>4, <1>5

LEMMA FitsBlank ==
    ASSUME ChainInv, chain # <<>>, NEW ev, ev.id = Next1, ev.approvals = <<>>, ev.node = None,
           ev.incorporated = <<>>
    PROVE  EventFits(ev, Next1)
<1>1. Len(chain) \in Nat /\ DOMAIN chain = 1..Len(chain) /\ Len(chain) # 0
  BY DEF ChainInv
<1>2. SayId(ev) = <<Len(chain) + 1, "">>
  BY DEF SayId, Next1
<1>3. ASSUME NEW j \in DOMAIN chain, IsSay(j) PROVE SayId(chain[j].event) # SayId(ev)
  <2>1. SayId(chain[j].event) \in {<<j, "">>, <<1, "">>}
    BY <1>3, KnownSaid
  <2>2. j # Len(chain) + 1 /\ 1 # Len(chain) + 1
    BY <1>1
  <2>3. \A i, k : <<i, "">> = <<k, "">> => i = k
    OBVIOUS
  <2> QED
    BY <1>2, <2>1, <2>2, <2>3
<1> QED
  BY <1>3 DEF EventFits, Named, Next1

LEMMA BlankFacts ==
    ASSUME NEW type
    PROVE  LET ev == Blank(type)
           IN  /\ ev.type = type /\ ev.id = Next1 /\ ev.node = None /\ ev.approvals = <<>>
               /\ ev.incorporated = <<>>
  BY DEF Blank, BlankEvent

(* Every event is known by its place in the chain, and a say makes a node   *)
(* that no say before it made (event.rs: ids are the OIDs of commits),     *)
(* whatever 2.x clients, merges, migrations and 3.0 commands append.       *)
THEOREM ChainKeepsInv == ChainSpec => []ChainInv
<1>1. ChainInit => ChainInv
  BY DEF ChainInit, ChainInv, ToSet
<1>2. ASSUME ChainInv, ChainNext PROVE ChainInv'
  <2>1. ASSUME NEW ev, WriteEvent(ev), EventFits(ev, Next1),
               chain = <<>> => ev.kind \in ThreadKinds
        PROVE  ChainInv'
    <3>1. EventCommit(ev).shape = "event" /\ EventCommit(ev).event = ev
      BY DEF EventCommit
    <3>2. Extend(EventCommit(ev)) /\ (chain = <<>> => ev.type = "create")
      BY <2>1 DEF WriteEvent
    <3>3. chain = <<>> => FirstCreates(EventCommit(ev))
      BY <2>1, <3>1, <3>2 DEF FirstCreates
    <3> QED
      BY <1>2, <2>1, <3>1, <3>2, <3>3, ExtendedChain
  <2>2. ASSUME NEW ev, WriteEvent(ev), ev.id = Next1, ev.type \notin {"state", "say", "create"},
               Named(ev)
        PROVE  ChainInv'
    <3>1. chain # <<>>
      BY <2>2 DEF WriteEvent
    <3>2. EventFits(ev, Next1)
      BY <2>2 DEF EventFits, Next1
    <3> QED
      BY <2>1, <2>2, <3>1, <3>2
  <2>3. CASE Create
    <3>1. PICK kind \in ThreadKinds :
              WriteEvent([Blank("create") EXCEPT !.kind = kind, !.body = Next1])
      BY <2>3 DEF Create
    <3> DEFINE ev == [Blank("create") EXCEPT !.kind = kind, !.body = Next1]
    <3>2. ev.type = "create" /\ ev.id = Next1 /\ ev.kind = kind /\ Named(ev)
      BY DEF Blank, BlankEvent, Named
    <3> HIDE DEF ev
    <3>3. EventFits(ev, Next1)
      BY <3>2 DEF EventFits, Next1
    <3> QED
      BY <2>1, <3>1, <3>2, <3>3 DEF ev
  <2>4. CASE AppendState
    <3>1. PICK state \in RawStates, approvals \in {<<>>, <<"human/alice">>} :
              WriteEvent([Blank("state") EXCEPT !.state = state, !.approvals = approvals])
      BY <2>4 DEF AppendState
    <3> DEFINE ev == [Blank("state") EXCEPT !.state = state, !.approvals = approvals]
    <3>2. ev.type = "state" /\ ev.id = Next1 /\ ev.approvals = approvals /\ Named(ev)
      BY DEF Blank, BlankEvent, Named
    <3> HIDE DEF ev
    <3>3. EventFits(ev, Next1) /\ chain # <<>>
      BY <3>1, <3>2 DEF EventFits, Next1, WriteEvent, ev
    <3> QED
      BY <2>1, <3>1, <3>3 DEF ev
  <2>5. CASE AppendSay
    <3>1. PICK type \in NodeTypes, node \in {None, <<1, "">>} \ KnownIds :
              WriteEvent([Blank("say") EXCEPT !.ntype = type, !.body = Next1, !.node = node])
      BY <2>5 DEF AppendSay
    <3> DEFINE ev == [Blank("say") EXCEPT !.ntype = type, !.body = Next1, !.node = node]
    <3>2. /\ ev.type = "say" /\ ev.id = Next1 /\ ev.node = node /\ ev.approvals = <<>>
          /\ ev.incorporated = <<>>
      BY DEF Blank, BlankEvent
    <3> HIDE DEF ev
    <3>3. chain # <<>>
      BY <3>1, <3>2 DEF WriteEvent, ev
    <3>4. EventFits(ev, Next1)
      <4>1. CASE node = None
        BY <1>2, <3>2, <3>3, <4>1, FitsBlank
      <4>2. CASE node # None
        <5>1. SayId(ev) = node
          BY <3>2, <4>2 DEF SayId
        <5>2. \A j \in DOMAIN chain : IsSay(j) => SayId(chain[j].event) # SayId(ev)
          BY <1>2, <5>1, KnownSaid
        <5> QED
          <6>1. Named(ev)
            <7>1. node = <<1, "">> /\ <<1, "">> \in NodeIds
              BY <4>2, IdsAreNamed
            <7> QED
              BY <3>2, <7>1, NamesNothing
          <6> QED
            BY <3>2, <5>2, <6>1 DEF EventFits, Next1
      <4> QED
        BY <4>1, <4>2
    <3> QED
      BY <2>1, <3>1, <3>3, <3>4 DEF ev
  <2>6. CASE AppendToNode
    <3>1. PICK type \in {"edit", "retract", "resolve", "reopen"}, id \in KnownIds :
              WriteEvent([Blank(type) EXCEPT !.node = id, !.body = Next1])
      BY <2>6 DEF AppendToNode
    <3> DEFINE ev == [Blank(type) EXCEPT !.node = id, !.body = Next1]
    <3>2. ev.type = type /\ ev.id = Next1 /\ ev.node = id /\ ev.incorporated = <<>>
      BY DEF Blank, BlankEvent
    <3>3. Named(ev)
      <4> HIDE DEF ev
      <4> QED
        BY <1>2, <3>2, KnownIdsNamed DEF Named
    <3> HIDE DEF ev
    <3> QED
      BY <2>2, <3>1, <3>2, <3>3 DEF ev
  <2>7. CASE AppendRetype
    <3>1. PICK id \in KnownIds, type \in NodeTypes :
              WriteEvent([Blank("retype") EXCEPT !.node = id, !.ntype = type])
      BY <2>7 DEF AppendRetype
    <3> DEFINE ev == [Blank("retype") EXCEPT !.node = id, !.ntype = type]
    <3>2. ev.type = "retype" /\ ev.id = Next1 /\ ev.node = id /\ ev.incorporated = <<>>
      BY DEF Blank, BlankEvent
    <3> HIDE DEF ev
    <3>3. Named(ev)
      BY <1>2, <3>2, KnownIdsNamed DEF Named
    <3> QED
      BY <2>2, <3>1, <3>2, <3>3 DEF ev
  <2>8. CASE AppendRevise
    <3>1. PICK ids \in {<<>>} \cup { <<id>> : id \in KnownIds } :
              WriteEvent([Blank("revise-body") EXCEPT !.body = Next1, !.incorporated = ids])
      BY <2>8 DEF AppendRevise
    <3> DEFINE ev == [Blank("revise-body") EXCEPT !.body = Next1, !.incorporated = ids]
    <3>2. /\ ev.type = "revise-body" /\ ev.id = Next1 /\ ev.node = None
          /\ ev.incorporated = ids
      BY DEF Blank, BlankEvent
    <3> HIDE DEF ev
    <3>3. \A k \in DOMAIN ids : ids[k] \in NodeIds
      BY <1>2, KnownIdsNamed
    <3>4. Named(ev)
      BY <3>2, <3>3 DEF Named
    <3> QED
      BY <2>2, <3>1, <3>2, <3>4 DEF ev
  <2>9. CASE AppendLink
    <3> DEFINE ev == [Blank("link") EXCEPT !.evidence = Next1]
               lk == [Blank("link") EXCEPT !.node = <<0, "">>, !.rel = "implements"]
    <3>1. WriteEvent(ev) \/ WriteEvent(lk)
      BY <2>9 DEF AppendLink
    <3>2. ev.type = "link" /\ ev.id = Next1 /\ lk.type = "link" /\ lk.id = Next1
      BY DEF Blank, BlankEvent
    <3>3. Named(ev) /\ Named(lk)
      <4>1. ev.node = None /\ ev.incorporated = <<>>
        BY DEF Blank, BlankEvent
      <4>2. lk.node = <<0, "">> /\ lk.incorporated = <<>> /\ <<0, "">> \in NodeIds
        BY IdsAreNamed DEF Blank, BlankEvent
      <4> HIDE DEF ev, lk
      <4> QED
        BY <4>1, <4>2, NamesNothing
    <3> HIDE DEF ev, lk
    <3> QED
      BY <2>2, <3>1, <3>2, <3>3
  <2>10. CASE AppendScope
    <3>1. PICK branch \in {None, Next1} : WriteEvent([Blank("scope") EXCEPT !.branch = branch])
      BY <2>10 DEF AppendScope
    <3> DEFINE ev == [Blank("scope") EXCEPT !.branch = branch]
    <3>2. ev.type = "scope" /\ ev.id = Next1 /\ Named(ev)
      BY DEF Blank, BlankEvent, Named
    <3> HIDE DEF ev
    <3> QED
      BY <2>2, <3>1, <3>2 DEF ev
  <2>11. CASE AppendFacetSet
    <3>1. PICK lifecycle \in RawLifecycles \cup {None}, add \in SUBSET Tags,
               remove \in SUBSET Tags :
              WriteEvent([Blank("facet-set") EXCEPT !.lifecycle = lifecycle,
                                                    !.add = add, !.remove = remove])
      BY <2>11 DEF AppendFacetSet
    <3> DEFINE ev == [Blank("facet-set") EXCEPT !.lifecycle = lifecycle,
                                                !.add = add, !.remove = remove]
    <3>2. ev.type = "facet-set" /\ ev.id = Next1 /\ Named(ev)
      BY DEF Blank, BlankEvent, Named
    <3> HIDE DEF ev
    <3> QED
      BY <2>2, <3>1, <3>2 DEF ev
  <2>12. CASE AppendInert
    <3>1. PICK type \in {"verify", "merge"} : WriteEvent(Blank(type))
      BY <2>12 DEF AppendInert
    <3> QED
      BY <2>2, <3>1, BlankFacts DEF Named
  <2>13. CASE AppendSlip
    <3>1. PICK type \in Slips : chain # <<>> /\ WriteEvent(Blank(type))
      BY <2>13 DEF AppendSlip
    <3> DEFINE ev == Blank(type)
    <3>2. EventFits(ev, Next1)
      <4>1. ev.id = Next1 /\ ev.approvals = <<>> /\ ev.node = None
            /\ ev.incorporated = <<>>
        BY BlankFacts
      <4> HIDE DEF ev
      <4> QED
        BY <1>2, <3>1, <4>1, FitsBlank
    <3> QED
      BY <2>1, <3>1, <3>2
  <2>14. ASSUME chain # <<>>, NEW commit, Extend(commit), commit.shape # "event"
         PROVE  ChainInv'
    BY <1>2, <2>14, ExtendedChain
  <2>15. CASE MergeCommit
    <3>1. OtherCommit.shape # "event"
      BY DEF OtherCommit
    <3> QED
      BY <2>14, <2>15, <3>1 DEF MergeCommit
  <2>16. \A doc : SnapshotCommit(doc).shape # "event"
    BY DEF SnapshotCommit
  <2>17. CASE Migrate
    BY <2>14, <2>16, <2>17 DEF Migrate
  <2>18. CASE Edit30
    <3> DEFINE a == [Tip.doc EXCEPT !.visibility = "public"]
               b == [Tip.doc EXCEPT !.supersedes = {"t0"}]
    <3>1. chain # <<>> /\ (Extend(SnapshotCommit(a)) \/ Extend(SnapshotCommit(b)))
      BY <2>18 DEF Edit30
    <3> HIDE DEF a, b
    <3> QED
      BY <2>14, <2>16, <3>1
  <2> QED
    BY <1>2, <2>3, <2>4, <2>5, <2>6, <2>7, <2>8, <2>9, <2>10, <2>11, <2>12, <2>13,
       <2>15, <2>17, <2>18 DEF ChainNext
<1>3. ASSUME ChainInv, UNCHANGED chain PROVE ChainInv'
  BY <1>3 DEF ChainInv, EventFits, Named, IsSay
<1> QED
  BY <1>1, <1>2, <1>3, PTL DEF ChainSpec

(* What stands above a position in a chain, when it is events.              *)
LEMMA EventsOf ==
    ASSUME NEW C, NEW c \in Seq(C), NEW k \in 0..Len(c), NEW T,
           \A i \in (k + 1)..Len(c) : c[i].shape = "event" /\ c[i].event \in T
    PROVE  /\ EventsAbove(c, k) \in Seq(T)
           /\ Len(EventsAbove(c, k)) = Len(c) - k
           /\ \A i \in 1..(Len(c) - k) : EventsAbove(c, k)[i] = c[k + i].event
<1> DEFINE n == Len(c) - k
           q == SubSeq(c, k + 1, Len(c))
<1>1. Len(c) \in Nat /\ n \in Nat /\ DOMAIN c = 1..Len(c)
  OBVIOUS
<1>2. DOMAIN q = 1..n /\ \A i \in 1..n : q[i] = c[k + i]
  OBVIOUS
<1>3. EventsAbove(c, k) = FoldLeft(Collect, <<>>, q)
  BY DEF EventsAbove
<1> HIDE DEF q
<1>4. PICK h : /\ h[0] = <<>>
               /\ \A m \in 1..n : h[m] = Collect(h[m - 1], q[m])
               /\ FoldLeft(Collect, <<>>, q) = h[n]
  <2> HIDE DEF n
  <2> QED
    BY <1>1, <1>2, CollectedRuns
<1> DEFINE Good == {m \in Nat : m <= n =>
                       /\ h[m] \in Seq(T) /\ Len(h[m]) = m
                       /\ \A i \in 1..m : h[m][i] = c[k + i].event}
<1>5. 0 \in Good
  <2>1. <<>> \in Seq(T) /\ Len(<<>>) = 0 /\ \A i \in 1..0 : FALSE
    OBVIOUS
  <2> QED
    BY <1>4, <2>1
<1>6. ASSUME NEW m \in Nat, m \in Good PROVE m + 1 \in Good
  <2> SUFFICES ASSUME m + 1 <= n
               PROVE  /\ h[m + 1] \in Seq(T) /\ Len(h[m + 1]) = m + 1
                      /\ \A i \in 1..(m + 1) : h[m + 1][i] = c[k + i].event
    OBVIOUS
  <2> DEFINE commit == c[k + (m + 1)]
  <2>1. m + 1 \in 1..n /\ (m + 1) - 1 = m /\ k + (m + 1) \in (k + 1)..Len(c)
    BY <1>1
  <2>2. commit.shape = "event" /\ commit.event \in T
    BY <2>1
  <2>3. h[m + 1] = Append(h[m], commit.event)
    <3>1. h[m + 1] = Collect(h[m], q[m + 1])
      BY <1>4, <2>1
    <3>2. q[m + 1] = commit
      BY <1>2, <2>1
    <3> HIDE DEF commit
    <3> QED
      BY <2>2, <3>1, <3>2 DEF Collect
  <2>4. /\ h[m] \in Seq(T) /\ Len(h[m]) = m
        /\ \A i \in 1..m : h[m][i] = c[k + i].event
    BY <1>1, <1>6
  <2> QED
    BY <2>2, <2>3, <2>4
<1> HIDE DEF Good
<1>7. Nat \subseteq Good
  BY <1>5, <1>6, SetInduction
<1>8. /\ h[n] \in Seq(T) /\ Len(h[n]) = n
      /\ \A i \in 1..n : h[n][i] = c[k + i].event
  <2>1. n \in Good /\ n <= n
    BY <1>1, <1>7
  <2> HIDE DEF n
  <2> QED
    BY <2>1 DEF Good
<1>9. EventsAbove(c, k) = h[n]
  BY <1>3, <1>4
<1> QED
  BY <1>8, <1>9

(* A chain of events only is replayed from its first event.                *)
LEMMA PureChain ==
    ASSUME ChainInv, PureEvents
    PROVE  /\ Len(chain) \in Nat \ {0} /\ DOMAIN chain = 1..Len(chain)
           /\ ChainEvents \in Seq({chain[i].event : i \in DOMAIN chain})
           /\ Len(ChainEvents) = Len(chain)
           /\ \A i \in 1..Len(chain) : ChainEvents[i] = chain[i].event
<1>1. /\ Len(chain) \in Nat \ {0} /\ DOMAIN chain = 1..Len(chain)
      /\ chain \in Seq(ToSet(chain)) /\ 0 \in 0..Len(chain)
  BY DEF ChainInv, PureEvents
<1> DEFINE T == {chain[i].event : i \in DOMAIN chain}
<1>2. \A i \in (0 + 1)..Len(chain) : chain[i].shape = "event" /\ chain[i].event \in T
  BY <1>1 DEF PureEvents
<1> HIDE DEF T
<1>3. /\ ChainEvents \in Seq(T)
      /\ Len(ChainEvents) = Len(chain) - 0
      /\ \A i \in 1..(Len(chain) - 0) : ChainEvents[i] = chain[0 + i].event
  BY <1>1, <1>2, EventsOf DEF ChainEvents
<1> QED
  BY <1>1, <1>3 DEF T

(* h is the run of replay over the events of c.                             *)
Replays(c, h) ==
    /\ h[0] = Seed(c[1].event)
    /\ \A m \in 1..(Len(c) - 1) : h[m] = ApplyChecked(h[m - 1], c[m + 1].event)

LEMMA ReplayOf ==
    ASSUME NEW C, NEW c \in Seq(C), c # <<>>, \A i \in DOMAIN c : c[i].shape = "event"
    PROVE  \E h : /\ Replays(c, h)
                  /\ LET s == h[Len(c) - 1]
                         r == ReplayChain(c)
                     IN  ReplayShape(s) =>
                           /\ ReplayShape(r)
                           /\ r.lifecycle = s.lifecycle /\ r.explicit = s.explicit
                           /\ r.doc.category = s.doc.category /\ r.doc.status = s.doc.status
                           /\ r.doc.nodes = s.doc.nodes
                           /\ r.doc.tags = s.doc.tags \cup KindTag(c[1].event.kind)
                           /\ Rest(s, r) /\ (r.issues = {} => Quiet(s))
<1> DEFINE n == Len(c)
           E == EventsAbove(c, 0)
           q == Tail(E)
           T == {c[i].event : i \in DOMAIN c}
<1>1. /\ LastSnapshot(c) = 0
      /\ n \in Nat \ {0} /\ DOMAIN c = 1..n
      /\ E \in Seq(T) /\ Len(E) = n
      /\ \A i \in 1..n : E[i] = c[i].event
      /\ EventTail(c) = E
  <2>1. n \in Nat \ {0} /\ DOMAIN c = 1..n /\ 0 \in 0..n
    OBVIOUS
  <2>2. \A i \in (0 + 1)..n : c[i].shape = "event" /\ c[i].event \in T
    BY <2>1
  <2> HIDE DEF T
  <2>3. /\ E \in Seq(T)
        /\ Len(E) = n - 0
        /\ \A i \in 1..(n - 0) : E[i] = c[0 + i].event
    BY <2>1, <2>2, EventsOf
  <2>4. LastSnapshot(c) = 0
    BY DEF LastSnapshot, Snapshots
  <2>5. EventTail(c) = E
    BY <2>4 DEF EventTail
  <2> HIDE DEF E
  <2> QED
    BY <2>1, <2>3, <2>4, <2>5
<1> HIDE DEF E, T
<1>2. /\ n - 1 \in Nat /\ DOMAIN q = 1..(n - 1)
      /\ \A m \in 1..(n - 1) : q[m] = E[m + 1]
  <2>1. E # <<>>
    BY <1>1
  <2> QED
    BY <1>1, <2>1
<1>3. \A m \in 1..(n - 1) : q[m] = c[m + 1].event
  BY <1>1, <1>2
<1>4. E[1] = c[1].event
  BY <1>1
<1> DEFINE base == Seed(E[1])
           k == n - 1
<1> HIDE DEF q, n, base, k
<1>5. PICK h : /\ h[0] = base
               /\ \A m \in 1..k : h[m] = ApplyChecked(h[m - 1], q[m])
               /\ ApplyAll(base, q) = h[k]
  <2>1. k \in Nat /\ DOMAIN q = 1..k
    BY <1>2 DEF k
  <2> QED
    BY <2>1, CheckedRuns
<1>6. Replays(c, h)
  BY <1>3, <1>4, <1>5 DEF Replays, n, k, base
<1> DEFINE s == h[n - 1]
           r == ReplayChain(c)
           w == ReplayUnsuppressed(E)
           gone == Suppressed(s, E)
           tags == s.doc.tags \cup KindTag(c[1].event.kind)
           left == w.issues \ gone
<1>7. ASSUME ReplayShape(s)
      PROVE  /\ ReplayShape(r)
             /\ r.lifecycle = s.lifecycle /\ r.explicit = s.explicit
             /\ r.doc.category = s.doc.category /\ r.doc.status = s.doc.status
             /\ r.doc.nodes = s.doc.nodes
             /\ r.doc.tags = s.doc.tags \cup KindTag(c[1].event.kind)
             /\ Rest(s, r) /\ (r.issues = {} => Quiet(s))
  <2>1. ApplyAll(Seed(E[1]), Tail(E)) = s
    BY <1>5 DEF q, base, k
  <2>2. w = [s EXCEPT !.doc.tags = tags]
    <3>1. w = [s EXCEPT !.doc.tags = @ \cup KindTag(c[1].event.kind)]
      BY <1>4, <2>1 DEF ReplayUnsuppressed
    <3> HIDE DEF w
    <3>2. [s EXCEPT !.doc.tags = @ \cup KindTag(c[1].event.kind)] = [s EXCEPT !.doc.tags = tags]
      OBVIOUS
    <3> QED
      BY <3>1, <3>2
  <2>3. r = [w EXCEPT !.issues = left]
    <3>1. r = ReplayStrict(E)
      BY <1>1 DEF ReplayChain
    <3>2. ReplayStrict(E) = [w EXCEPT !.issues = @ \ gone]
      BY <2>1 DEF ReplayStrict
    <3> HIDE DEF w, gone, r
    <3> QED
      BY <3>1, <3>2
  <2>4. \A issue \in gone : issue.kind = "transition"
    BY DEF Suppressed
  <2>5. left = w.issues \ gone
    OBVIOUS
  <2>6. tags = s.doc.tags \cup KindTag(c[1].event.kind)
    OBVIOUS
  <2> HIDE DEF s, r, w, gone, tags, left
  <2>7. /\ ReplayShape(w) /\ w.lifecycle = s.lifecycle /\ w.explicit = s.explicit
        /\ w.issues = s.issues
        /\ w.doc.category = s.doc.category /\ w.doc.status = s.doc.status
        /\ w.doc.nodes = s.doc.nodes /\ w.doc.tags = tags
        /\ Rest(s, w)
    BY <1>7, <2>2 DEF ReplayShape, Rest
  <2>8. /\ ReplayShape(r) /\ r.lifecycle = w.lifecycle /\ r.explicit = w.explicit
        /\ r.doc = w.doc /\ r.issues = left
    BY <2>3, <2>7 DEF ReplayShape
  <2>9. left = {} => Quiet(s)
    BY <2>4, <2>5, <2>7 DEF Quiet
  <2> QED
    BY <2>6, <2>7, <2>8, <2>9 DEF Rest
<1> QED
  BY <1>6, <1>7 DEF n

-----------------------------------------------------------------------------
(* Lifecycle and category keep pace, and so does the tag of a record as    *)
(* long as no event touches it.                                            *)
InStep(s, kind) ==
    /\ s.lifecycle \in Lifecycles
    /\ s.doc.category = LifecycleToCategory(s.lifecycle)
    /\ ~s.explicit => s.lifecycle = LifecycleOfKind(kind)
    /\ kind # "dec" => ("decision" \in s.doc.tags <=> s.lifecycle = "record")

LEMMA SeedFacts ==
    ASSUME NEW ev, ev.kind \in ThreadKinds
    PROVE  LET s == Seed(ev)
           IN  /\ ReplayShape(s) /\ InStep(s, ev.kind) /\ NodesShaped(s)
               /\ s.doc.status = InitialOf(ev.kind) /\ DOMAIN s.doc.nodes = {}
               /\ s.issues = {} /\ s.explicit = FALSE
<1> DEFINE kind == ev.kind
           lifecycle == LifecycleOfKind(kind)
           category == LifecycleToCategory(lifecycle)
           status == InitialOf(kind)
           tags == IF lifecycle = "record" THEN {"decision"} ELSE {}
           s == [ doc |-> [ category |-> category, status |-> status, tags |-> tags,
                            nodes |-> <<>>, links |-> <<>>, evidence |-> <<>>,
                            body |-> ev.body, branch |-> ev.branch,
                            visibility |-> "private", supersedes |-> {} ],
                  lifecycle |-> lifecycle, explicit |-> FALSE, issues |-> {} ]
<1>1. Seed(ev) = s
  BY DEF Seed
<1>2. /\ lifecycle \in Lifecycles
      /\ kind # "dec" => ("decision" \in tags <=> lifecycle = "record")
  BY ChainAssumption DEF LifecycleOfKind, Lifecycles
<1>3. category = LifecycleToCategory(lifecycle) /\ lifecycle = LifecycleOfKind(kind)
  OBVIOUS
<1> HIDE DEF lifecycle, category, status, tags
<1>4. ReplayShape(s)
  BY DEF ReplayShape
<1>5. InStep(s, kind)
  BY <1>2, <1>3 DEF InStep
<1>6. DOMAIN s.doc.nodes = {} /\ s.doc.status = status /\ s.issues = {} /\ s.explicit = FALSE
  OBVIOUS
<1> HIDE DEF s
<1>7. NodesShaped(s)
  BY <1>6 DEF NodesShaped
<1> QED
  BY <1>1, <1>4, <1>5, <1>6, <1>7 DEF status

LEMMA StepInStep ==
    ASSUME NEW s, NEW ev, NEW u, NEW kind, InStep(s, kind), LifecycleStep(s, ev, u),
           kind \in {"issue", "rfc", "dec", "task"}, "decision" \notin ev.add \cup ev.remove
    PROVE  InStep(u, kind)
<1>1. CASE SameLifecycle(s, u)
  BY <1>1 DEF InStep, SameLifecycle
<1>2. CASE /\ u.lifecycle = s.lifecycle /\ u.explicit = s.explicit
           /\ u.doc.category = s.doc.category
           /\ u.doc.tags = (s.doc.tags \cup ev.add) \ ev.remove
  BY <1>2 DEF InStep
<1>3. CASE /\ NamesLifecycle(s, ev)
           /\ u.lifecycle = ev.lifecycle /\ u.explicit
           /\ u.doc.category = LifecycleToCategory(ev.lifecycle)
           /\ u.doc.tags = (s.doc.tags \cup (IF ev.lifecycle = "record" THEN {"decision"} ELSE {})
                            \cup ev.add) \ ev.remove
  <2>1. kind # "dec" => s.lifecycle # "record" /\ "decision" \notin s.doc.tags
    BY <1>3 DEF InStep, NamesLifecycle, LifecycleOfKind
  <2>2. kind # "dec" => ("decision" \in u.doc.tags <=> u.lifecycle = "record")
    BY <1>3, <2>1
  <2> QED
    BY <1>3, <2>2 DEF InStep, NamesLifecycle
<1> QED
  BY <1>1, <1>2, <1>3 DEF LifecycleStep

(* The lifecycle that transitions were checked against is what the          *)
(* migrated document says, for chains of any length (chain_replay.rs,      *)
(* migrate.rs).                                                            *)
THEOREM ChainKeepsLifecycle == ChainSpec => []LifecycleKept
<1>1. ASSUME ChainInv PROVE LifecycleKept
  <2> DEFINE r == ReplayChain(chain)
             doc == ProjectToDoc(r)
             kind == chain[1].event.kind
             tagged == \E i \in DOMAIN chain :
                          "decision" \in chain[i].event.add \cup chain[i].event.remove
             n == Len(chain)
  <2> SUFFICES ASSUME PureEvents, ~tagged, ~(kind = "dec" /\ r.explicit)
               PROVE  CategoryToLifecycle(doc.category, doc.tags) = r.lifecycle
    BY DEF LifecycleKept
  <2>1. n \in Nat \ {0} /\ DOMAIN chain = 1..n /\ FirstCreates(chain[1])
    BY <1>1, PureChain DEF ChainInv
  <2>2. kind \in ThreadKinds /\ kind \in {"issue", "rfc", "dec", "task"}
    BY <2>1, ChainAssumption DEF FirstCreates
  <2>3. PICK h : /\ Replays(chain, h)
                 /\ LET s == h[Len(chain) - 1]
                    IN  ReplayShape(s) =>
                           /\ ReplayShape(r)
                           /\ r.lifecycle = s.lifecycle /\ r.explicit = s.explicit
                           /\ r.doc.category = s.doc.category /\ r.doc.status = s.doc.status
                           /\ r.doc.nodes = s.doc.nodes
                           /\ r.doc.tags = s.doc.tags \cup KindTag(chain[1].event.kind)
                           /\ Rest(s, r) /\ (r.issues = {} => Quiet(s))
    BY <1>1, ReplayOf DEF ChainInv, PureEvents
  <2> DEFINE Good == {m \in Nat : m <= n - 1 => ReplayShape(h[m]) /\ InStep(h[m], kind)}
  <2>4. 0 \in Good
    BY <2>2, <2>3, SeedFacts DEF Replays
  <2>5. ASSUME NEW m \in Nat, m \in Good PROVE m + 1 \in Good
    <3> SUFFICES ASSUME m + 1 <= n - 1
                 PROVE  ReplayShape(h[m + 1]) /\ InStep(h[m + 1], kind)
      OBVIOUS
    <3> DEFINE ev == chain[m + 2].event
    <3>1. m + 1 \in 1..(n - 1) /\ (m + 1) - 1 = m /\ (m + 1) + 1 = m + 2 /\ m + 2 \in DOMAIN chain
      BY <2>1
    <3>2. h[m + 1] = ApplyChecked(h[m], ev)
      BY <2>3, <3>1 DEF Replays
    <3>3. ReplayShape(h[m]) /\ InStep(h[m], kind)
      BY <2>1, <2>5
    <3>4. "decision" \notin ev.add \cup ev.remove
      BY <3>1
    <3> HIDE DEF ev, kind
    <3>5. Grown(h[m], h[m + 1]) /\ LifecycleStep(h[m], ev, h[m + 1])
      BY <3>2, <3>3, StepFacts
    <3> QED
      BY <2>2, <3>3, <3>4, <3>5, StepInStep DEF Grown
  <2> HIDE DEF Good
  <2>6. Nat \subseteq Good
    BY <2>4, <2>5, SetInduction
  <2> DEFINE s == h[n - 1]
  <2>7. ReplayShape(s) /\ InStep(s, kind)
    BY <2>1, <2>6 DEF Good
  <2>8. /\ r.lifecycle = s.lifecycle /\ r.explicit = s.explicit
        /\ r.doc.category = s.doc.category /\ ReplayShape(r)
        /\ r.doc.tags = s.doc.tags \cup KindTag(kind)
    BY <2>3, <2>7
  <2>9. doc.category = r.doc.category /\ doc.tags = r.doc.tags \ BadTags
    <3> HIDE DEF r
    <3> QED
      BY <2>8 DEF ProjectToDoc, ReplayShape
  <2> HIDE DEF s, r, doc, kind
  <2>10. CASE kind # "dec"
    <3>1. "decision" \in doc.tags <=> s.lifecycle = "record"
      BY <2>7, <2>8, <2>9, <2>10, ChainAssumption DEF InStep, KindTag
    <3> QED
      BY <2>7, <2>8, <2>9, <3>1 DEF InStep, CategoryToLifecycle, LifecycleToCategory, Lifecycles
  <2>11. CASE kind = "dec"
    <3>1. s.lifecycle = "record" /\ "decision" \in doc.tags
      BY <2>7, <2>8, <2>9, <2>11, ChainAssumption DEF InStep, KindTag, LifecycleOfKind
    <3> QED
      BY <2>7, <2>8, <2>9, <3>1 DEF InStep, CategoryToLifecycle, LifecycleToCategory
  <2> QED
    BY <2>10, <2>11
<1> QED
  BY <1>1, ChainKeepsInv, PTL

(* What the first k events say of the status and of a node.                *)
StatusUpTo(k) ==
    LET hits == {i \in 1..k : chain[i].event.type = "state"}
    IN  IF hits = {} THEN InitialOf(chain[1].event.kind)
        ELSE ParseLenient(chain[Max(hits)].event.state)
FlagUpTo(id, k) ==
    LET hits == {i \in 1..k : Touches(chain[i].event, id)}
    IN  IF hits = {} THEN "open" ELSE FlagAfter(chain[Max(hits)].event)

LEMMA MaxOfNext ==
    ASSUME NEW k \in Nat, NEW s \in SUBSET (1..(k + 1)), k + 1 \in s
    PROVE  Max(s) = k + 1
<1>1. k + 1 \in Nat /\ s # {}
  OBVIOUS
<1>2. Max(s) \in s /\ \A x \in s : x <= Max(s)
  BY <1>1, MaxOfSome
<1>3. Max(s) \in 1..(k + 1) /\ k + 1 <= Max(s)
  BY <1>2
<1> QED
  BY <1>3

LEMMA UpToNext ==
    ASSUME NEW k \in Nat
    PROVE  /\ StatusUpTo(k + 1) = IF chain[k + 1].event.type = "state"
                                  THEN ParseLenient(chain[k + 1].event.state)
                                  ELSE StatusUpTo(k)
           /\ \A id : FlagUpTo(id, k + 1) = IF Touches(chain[k + 1].event, id)
                                            THEN FlagAfter(chain[k + 1].event)
                                            ELSE FlagUpTo(id, k)
<1>1. \A i \in 1..(k + 1) : i \in 1..k \/ i = k + 1
  OBVIOUS
<1>2. 1..k \subseteq 1..(k + 1) /\ k + 1 \in 1..(k + 1)
  OBVIOUS
<1>3. StatusUpTo(k + 1) = IF chain[k + 1].event.type = "state"
                          THEN ParseLenient(chain[k + 1].event.state)
                          ELSE StatusUpTo(k)
  <2> DEFINE new == {i \in 1..(k + 1) : chain[i].event.type = "state"}
             old == {i \in 1..k : chain[i].event.type = "state"}
  <2>1. CASE chain[k + 1].event.type = "state"
    <3>1. k + 1 \in new /\ new \in SUBSET (1..(k + 1))
      BY <1>2, <2>1
    <3>2. new # {} /\ Max(new) = k + 1
      BY <3>1, MaxOfNext
    <3> QED
      BY <2>1, <3>2 DEF StatusUpTo
  <2>2. CASE chain[k + 1].event.type # "state"
    <3>1. new = old
      BY <1>1, <1>2, <2>2
    <3> QED
      BY <2>2, <3>1 DEF StatusUpTo
  <2> QED
    BY <2>1, <2>2
<1>4. ASSUME NEW id
      PROVE  FlagUpTo(id, k + 1) = IF Touches(chain[k + 1].event, id)
                                   THEN FlagAfter(chain[k + 1].event)
                                   ELSE FlagUpTo(id, k)
  <2> DEFINE new == {i \in 1..(k + 1) : Touches(chain[i].event, id)}
             old == {i \in 1..k : Touches(chain[i].event, id)}
  <2>1. CASE Touches(chain[k + 1].event, id)
    <3>1. k + 1 \in new /\ new \in SUBSET (1..(k + 1))
      BY <1>2, <2>1
    <3>2. new # {} /\ Max(new) = k + 1
      BY <3>1, MaxOfNext
    <3> QED
      BY <2>1, <3>2 DEF FlagUpTo
  <2>2. CASE ~Touches(chain[k + 1].event, id)
    <3>1. new = old
      BY <1>1, <1>2, <2>2
    <3> QED
      BY <2>2, <3>1 DEF FlagUpTo
  <2> QED
    BY <2>1, <2>2
<1> QED
  BY <1>3, <1>4

LEMMA UpToAll ==
    ASSUME ChainInv, PureEvents
    PROVE  /\ FinalStatus = StatusUpTo(Len(chain))
           /\ \A id : FinalFlag(id) = FlagUpTo(id, Len(chain))
<1> DEFINE n == Len(chain)
           E == ChainEvents
<1>1. n \in Nat /\ DOMAIN E = 1..n /\ \A i \in 1..n : E[i] = chain[i].event
  BY PureChain
<1>2. FinalStatus = StatusUpTo(n)
  <2> DEFINE all == {i \in DOMAIN E : E[i].type = "state"}
             hits == {i \in 1..n : chain[i].event.type = "state"}
  <2>1. all = hits
    BY <1>1
  <2>2. hits # {} => E[Max(hits)] = chain[Max(hits)].event
    <3> SUFFICES ASSUME hits # {} PROVE Max(hits) \in 1..n
      BY <1>1
    <3>1. hits \in SUBSET (1..n)
      OBVIOUS
    <3> HIDE DEF hits
    <3> QED
      BY <1>1, <3>1, MaxOfSome
  <2> QED
    BY <2>1, <2>2 DEF FinalStatus, StatusUpTo
<1>3. ASSUME NEW id PROVE FinalFlag(id) = FlagUpTo(id, n)
  <2> DEFINE all == {i \in DOMAIN E : Touches(E[i], id)}
             hits == {i \in 1..n : Touches(chain[i].event, id)}
  <2>1. all = hits
    BY <1>1
  <2>2. hits # {} => E[Max(hits)] = chain[Max(hits)].event
    <3> SUFFICES ASSUME hits # {} PROVE Max(hits) \in 1..n
      BY <1>1
    <3>1. hits \in SUBSET (1..n)
      OBVIOUS
    <3> HIDE DEF hits
    <3> QED
      BY <1>1, <3>1, MaxOfSome
  <2> QED
    BY <2>1, <2>2 DEF FinalFlag, FlagUpTo, FlagAfter
<1> QED
  BY <1>2, <1>3

(* A replay state is true to the first k events unless replay reported      *)
(* something else than a transition.                                       *)
TrueTo(s, k) ==
    /\ ReplayShape(s) /\ NodesShaped(s)
    /\ Quiet(s) =>
         /\ s.doc.status = StatusUpTo(k)
         /\ \A i \in 1..k : \A id : Touches(chain[i].event, id) => id \in DOMAIN s.doc.nodes
         /\ \A id \in DOMAIN s.doc.nodes :
                id[2] = "" =>
                    /\ \E j \in 1..k : IsSay(j) /\ SayId(chain[j].event) = id
                    /\ s.doc.nodes[id].status = FlagUpTo(id, k)

LEMMA SeedTrue ==
    ASSUME ChainInv, PureEvents
    PROVE  TrueTo(Seed(chain[1].event), 1)
<1> DEFINE ev == chain[1].event
           s == Seed(ev)
<1>1. ev.type = "create" /\ ev.kind \in ThreadKinds
  BY DEF ChainInv, PureEvents, FirstCreates
<1>2. /\ ReplayShape(s) /\ NodesShaped(s) /\ s.doc.status = InitialOf(ev.kind)
      /\ DOMAIN s.doc.nodes = {}
  BY <1>1, SeedFacts
<1> HIDE DEF s
<1>3. {i \in 1..1 : chain[i].event.type = "state"} = {}
  BY <1>1
<1>4. \A id : ~Touches(ev, id)
  BY <1>1 DEF Touches
<1>5. StatusUpTo(1) = InitialOf(ev.kind)
  BY <1>3 DEF StatusUpTo
<1>6. \A i \in 1..1 : i = 1
  OBVIOUS
<1>7. TrueTo(s, 1)
  BY <1>2, <1>4, <1>5, <1>6 DEF TrueTo
<1> QED
  BY <1>7 DEF s

LEMMA StepTrue ==
    ASSUME ChainInv, PureEvents, NEW k \in Nat, k + 1 \in DOMAIN chain, NEW s, TrueTo(s, k)
    PROVE  TrueTo(ApplyChecked(s, chain[k + 1].event), k + 1)
<1> DEFINE ev == chain[k + 1].event
           u == ApplyChecked(s, ev)
<1>1. Grown(s, u) /\ Faithful(s, ev, u)
  BY StepFacts DEF TrueTo
<1>2. EventFits(ev, k + 1) /\ (IsSay(k + 1) <=> ev.type = "say")
  BY DEF ChainInv, PureEvents, IsSay
<1>3. /\ StatusUpTo(k + 1) = IF ev.type = "state" THEN ParseLenient(ev.state)
                             ELSE StatusUpTo(k)
      /\ \A id : FlagUpTo(id, k + 1) = IF Touches(ev, id) THEN FlagAfter(ev)
                                       ELSE FlagUpTo(id, k)
  BY UpToNext
<1>4. /\ Len(chain) \in Nat /\ DOMAIN chain = 1..Len(chain)
      /\ \A i \in 1..(k + 1) : i \in 1..k \/ i = k + 1
      /\ \A i \in 1..k : i < k + 1 /\ i \in DOMAIN chain /\ i \in 1..(k + 1)
      /\ k + 1 \in 1..(k + 1)
  <2>1. Len(chain) \in Nat /\ DOMAIN chain = 1..Len(chain)
    BY PureChain
  <2> QED
    BY <2>1
<1> HIDE DEF u
<1>5. ASSUME Quiet(u)
      PROVE  /\ u.doc.status = StatusUpTo(k + 1)
             /\ \A i \in 1..(k + 1) : \A id : Touches(chain[i].event, id) =>
                    id \in DOMAIN u.doc.nodes
             /\ \A id \in DOMAIN u.doc.nodes :
                    id[2] = "" =>
                        /\ \E j \in 1..(k + 1) : IsSay(j) /\ SayId(chain[j].event) = id
                        /\ u.doc.nodes[id].status = FlagUpTo(id, k + 1)
    <2>1. Quiet(s)
      BY <1>1, <1>5 DEF Quiet, Grown
    <2>2. /\ s.doc.status = StatusUpTo(k)
          /\ \A i \in 1..k : \A id : Touches(chain[i].event, id) => id \in DOMAIN s.doc.nodes
          /\ \A id \in DOMAIN s.doc.nodes :
                id[2] = "" =>
                    /\ \E j \in 1..k : IsSay(j) /\ SayId(chain[j].event) = id
                    /\ s.doc.nodes[id].status = FlagUpTo(id, k)
      BY <2>1 DEF TrueTo
    <2>3. /\ u.doc.status = IF ev.type = "state" THEN ParseLenient(ev.state) ELSE s.doc.status
          /\ \A id : Touches(ev, id) => id \in DOMAIN s.doc.nodes
          /\ DOMAIN s.doc.nodes \subseteq DOMAIN u.doc.nodes
      BY <1>1, <1>5 DEF Faithful
    <2>4. ASSUME NEW id \in DOMAIN u.doc.nodes, id[2] = ""
          PROVE  /\ \E j \in 1..(k + 1) : IsSay(j) /\ SayId(chain[j].event) = id
                 /\ u.doc.nodes[id].status = FlagUpTo(id, k + 1)
      <3>1. CASE /\ id \in DOMAIN s.doc.nodes
                 /\ u.doc.nodes[id].status =
                        IF Touches(ev, id) THEN FlagAfter(ev) ELSE s.doc.nodes[id].status
        BY <1>3, <1>4, <2>2, <2>4, <3>1
      <3>2. CASE ev.type = "say" /\ id = SayId(ev) /\ u.doc.nodes[id].status = "open"
        <4>1. ~Touches(ev, id)
          BY <3>2 DEF Touches
        <4>2. ASSUME NEW i \in 1..k, Touches(chain[i].event, id) PROVE FALSE
          <5>1. PICK j \in 1..k : IsSay(j) /\ SayId(chain[j].event) = id
            BY <2>2, <2>4, <4>2
          <5> QED
            BY <1>2, <1>4, <3>2, <5>1 DEF EventFits
        <4>3. FlagUpTo(id, k) = "open"
          <5>1. {i \in 1..k : Touches(chain[i].event, id)} = {}
            BY <4>2
          <5> QED
            BY <5>1 DEF FlagUpTo
        <4> QED
          BY <1>2, <1>3, <1>4, <3>2, <4>1, <4>3
      <3>3. CASE /\ ev.type = "state"
                 /\ id \in { <<ev.id, actor>> : actor \in ToSet(ev.approvals) }
        <4>1. PICK actor \in ToSet(ev.approvals) : id = <<ev.id, actor>>
          BY <3>3
        <4>2. actor = "human/alice"
          BY <1>2, <3>3, <4>1 DEF EventFits, ToSet
        <4> QED
          BY <2>4, <4>1, <4>2
      <3> HIDE DEF ev
      <3> QED
        BY <1>1, <1>5, <2>4, <3>1, <3>2, <3>3 DEF Faithful
    <2>5. u.doc.status = StatusUpTo(k + 1)
      <3> DEFINE type == ev.type
                 to == ParseLenient(ev.state)
                 next == StatusUpTo(k + 1)
      <3>1. /\ u.doc.status = IF type = "state" THEN to ELSE s.doc.status
            /\ s.doc.status = StatusUpTo(k)
        BY <2>2, <2>3
      <3>2. next = IF type = "state" THEN to ELSE StatusUpTo(k)
        BY <1>3
      <3> HIDE DEF type, to, next
      <3>3. u.doc.status = next
        BY <3>1, <3>2
      <3> QED
        BY <3>3 DEF next
    <2>6. \A i \in 1..(k + 1) : \A id : Touches(chain[i].event, id) =>
              id \in DOMAIN u.doc.nodes
      BY <1>4, <2>2, <2>3
    <2> QED
      BY <2>4, <2>5, <2>6
<1>6. TrueTo(u, k + 1)
  BY <1>1, <1>5 DEF TrueTo, Grown, Faithful
<1> QED
  BY <1>6 DEF u

LEMMA TreeSafeFacts ==
    ASSUME NEW old, NEW id, TreeSafe(old) = id, id[2] = ""
    PROVE  old = id
<1>1. CASE old[2] = "human/alice"
  <2>1. id = <<old[1], "human-alice">>
    BY <1>1 DEF TreeSafe
  <2> QED
    BY <2>1
<1>2. CASE old[2] # "human/alice"
  BY <1>2 DEF TreeSafe
<1> QED
  BY <1>1, <1>2

(* A migration that reports no omission has lost no word of the chain, for  *)
(* chains of any length (chain_replay.rs, validate.rs, migrate.rs).        *)
THEOREM ChainLosesNothing == ChainSpec => []CleanReportLosesNothing
<1>1. ASSUME ChainInv PROVE CleanReportLosesNothing
  <2> DEFINE r == ReplayChain(chain)
             doc == ProjectToDoc(r)
             n == Len(chain)
  <2> SUFFICES ASSUME PureEvents, Omissions(chain) = {}
               PROVE  /\ doc.status = FinalStatus
                      /\ \A id \in DOMAIN doc.nodes :
                             id[2] = "" => doc.nodes[id].status = FinalFlag(id)
                      /\ \A ev \in ToSet(ChainEvents) :
                             ev.type \in {"retract", "resolve", "reopen"} /\ ev.node[2] = ""
                                 => ev.node \in DOMAIN doc.nodes
    BY DEF CleanReportLosesNothing
  <2>1. /\ n \in Nat \ {0} /\ DOMAIN chain = 1..n
        /\ DOMAIN ChainEvents = 1..n /\ \A i \in 1..n : ChainEvents[i] = chain[i].event
    BY <1>1, PureChain
  <2>2. PICK h : /\ Replays(chain, h)
                 /\ LET s == h[Len(chain) - 1]
                    IN  ReplayShape(s) =>
                           /\ ReplayShape(r)
                           /\ r.lifecycle = s.lifecycle /\ r.explicit = s.explicit
                           /\ r.doc.category = s.doc.category /\ r.doc.status = s.doc.status
                           /\ r.doc.nodes = s.doc.nodes
                           /\ r.doc.tags = s.doc.tags \cup KindTag(chain[1].event.kind)
                           /\ Rest(s, r) /\ (r.issues = {} => Quiet(s))
    BY <1>1, ReplayOf DEF ChainInv, PureEvents
  <2> DEFINE Good == {m \in Nat : m <= n - 1 => TrueTo(h[m], m + 1)}
  <2>3. 0 \in Good
    <3>1. TrueTo(h[0], 1)
      BY <1>1, <2>2, SeedTrue DEF Replays
    <3> QED
      BY <3>1
  <2>4. ASSUME NEW m \in Nat, m \in Good PROVE m + 1 \in Good
    <3> SUFFICES ASSUME m + 1 <= n - 1 PROVE TrueTo(h[m + 1], (m + 1) + 1)
      OBVIOUS
    <3> DEFINE k == m + 1
    <3>1. k \in Nat /\ k \in 1..(n - 1) /\ k - 1 = m /\ k + 1 \in DOMAIN chain
      BY <2>1
    <3>2. TrueTo(h[m], k)
      BY <2>1, <2>4
    <3>3. h[k] = ApplyChecked(h[m], chain[k + 1].event)
      BY <2>2, <3>1 DEF Replays
    <3> HIDE DEF k
    <3>4. TrueTo(h[k], k + 1)
      BY <1>1, <3>1, <3>2, <3>3, StepTrue
    <3> QED
      BY <3>4 DEF k
  <2> HIDE DEF Good
  <2>5. Nat \subseteq Good
    BY <2>3, <2>4, SetInduction
  <2> DEFINE s == h[n - 1]
  <2>6. TrueTo(s, n)
    <3>1. n - 1 \in Nat /\ (n - 1) + 1 = n
      BY <2>1
    <3> QED
      BY <2>5, <3>1 DEF Good
  <2>7. /\ ReplayShape(r) /\ r.doc.status = s.doc.status /\ r.doc.nodes = s.doc.nodes
        /\ r.issues = {} => Quiet(s)
    BY <2>2, <2>6 DEF TrueTo
  <2>8. r.issues = {} /\ r.doc.status \in StatusesOf(r.doc.category)
    <3> HIDE DEF r
    <3>1. \A issue \in r.issues : issue.kind \in Omissions(chain)
      BY DEF Omissions, r
    <3>2. r.doc.status \notin StatusesOf(r.doc.category) => "state" \in Omissions(chain)
      BY DEF Omissions, r
    <3> QED
      BY <3>1, <3>2
  <2>9. /\ s.doc.status = StatusUpTo(n)
        /\ \A i \in 1..n : \A id : Touches(chain[i].event, id) => id \in DOMAIN s.doc.nodes
        /\ \A id \in DOMAIN s.doc.nodes :
               id[2] = "" => s.doc.nodes[id].status = FlagUpTo(id, n)
    BY <2>6, <2>7, <2>8 DEF TrueTo
  <2>10. FinalStatus = StatusUpTo(n) /\ \A id : FinalFlag(id) = FlagUpTo(id, n)
    BY <1>1, UpToAll
  <2> DEFINE names == {TreeSafe(old) : old \in DOMAIN r.doc.nodes}
             nodes == [id \in names |->
                          r.doc.nodes[CHOOSE old \in DOMAIN r.doc.nodes : TreeSafe(old) = id]]
  <2>11. doc.status = r.doc.status /\ doc.nodes = nodes
    <3> HIDE DEF r
    <3> DEFINE tags == r.doc.tags \ BadTags
               status == IF r.doc.status \in StatusesOf(r.doc.category) THEN r.doc.status
                         ELSE BuiltInInitial(r.doc.category)
    <3>1. doc = [r.doc EXCEPT !.tags = tags, !.status = status, !.nodes = nodes,
                              !.visibility = "private", !.supersedes = {}]
      BY DEF ProjectToDoc
    <3>2. status = r.doc.status
      BY <2>8
    <3> HIDE DEF tags, status, nodes, doc
    <3> QED
      BY <2>7, <3>1, <3>2 DEF ReplayShape
  <2> HIDE DEF s, r, doc
  <2>12. ASSUME NEW id, id[2] = ""
         PROVE  /\ id \in DOMAIN s.doc.nodes <=> id \in DOMAIN doc.nodes
                /\ id \in DOMAIN doc.nodes => doc.nodes[id] = s.doc.nodes[id]
    <3>1. TreeSafe(id) = id
      BY <2>12 DEF TreeSafe
    <3>2. \A old : TreeSafe(old) = id => old = id
      BY <2>12, TreeSafeFacts
    <3>3. id \in DOMAIN s.doc.nodes <=> id \in names
      BY <2>7, <3>1, <3>2
    <3>4. id \in names =>
              (CHOOSE old \in DOMAIN r.doc.nodes : TreeSafe(old) = id) = id
      BY <2>7, <3>1, <3>2, <3>3
    <3> QED
      BY <2>7, <2>11, <3>3, <3>4
  <2>13. \A ev \in ToSet(ChainEvents) :
             ev.type \in {"retract", "resolve", "reopen"} /\ ev.node[2] = ""
                 => ev.node \in DOMAIN doc.nodes
    <3> SUFFICES ASSUME NEW i \in 1..n,
                        chain[i].event.type \in {"retract", "resolve", "reopen"},
                        chain[i].event.node[2] = ""
                 PROVE  chain[i].event.node \in DOMAIN doc.nodes
      BY <2>1 DEF ToSet
    <3>1. Touches(chain[i].event, chain[i].event.node)
      BY DEF Touches
    <3> QED
      BY <2>9, <2>12, <3>1
  <2> QED
    BY <2>7, <2>9, <2>10, <2>11, <2>12, <2>13
<1> QED
  BY <1>1, ChainKeepsInv, PTL

-----------------------------------------------------------------------------
(* A chain that is migrated in the middle: its replay resumes from the      *)
(* migrated document and stays in agreement with the replay of the events  *)
(* alone.                                                                  *)
(* What an event that names no lifecycle does to the document.             *)
FieldsAfter(s, ev, u) ==
    /\ u.doc.category = s.doc.category
    /\ u.doc.status = IF ev.type = "state" /\ ParseLenient(ev.state) # None
                      THEN ParseLenient(ev.state) ELSE s.doc.status
    /\ u.doc.tags = IF ev.type = "facet-set" THEN (s.doc.tags \cup ev.add) \ ev.remove
                    ELSE s.doc.tags
    /\ u.doc.body = IF ev.type = "revise-body" THEN ev.body ELSE s.doc.body
    /\ u.doc.branch = IF ev.type = "scope" THEN ev.branch ELSE s.doc.branch
    /\ u.doc.links = IF ev.type = "link" /\ ev.evidence = None
                     THEN Append(s.doc.links, ev.id) ELSE s.doc.links
    /\ u.doc.evidence = IF ev.type = "link" /\ ev.evidence # None
                        THEN Append(s.doc.evidence, ev.id) ELSE s.doc.evidence

LEMMA KeptFields ==
    ASSUME NEW s, NEW u, NEW ev, SameLifecycle(s, u), Rest(s, u), u.doc.status = s.doc.status,
           ev.type \notin {"state", "facet-set", "revise-body", "scope", "link"}
    PROVE  FieldsAfter(s, ev, u)
  BY DEF FieldsAfter, SameLifecycle, Rest

LEMMA EventFields ==
    ASSUME NEW s, ReplayShape(s), NEW ev, ev.lifecycle = None
    PROVE  FieldsAfter(s, ev, ApplyEvent(s, ev))
<1> DEFINE u == ApplyEvent(s, ev)
<1> SUFFICES FieldsAfter(s, ev, u)
  OBVIOUS
<1>1. CASE ev.type = "state"
  <2>1. u = ApplyState(s, ev)
    BY <1>1 DEF ApplyEvent
  <2> HIDE DEF u
  <2>2. /\ SameLifecycle(s, u) /\ Rest(s, u)
        /\ ParseLenient(ev.state) = None => u.doc.status = s.doc.status
        /\ ParseLenient(ev.state) # None => u.doc.status = ParseLenient(ev.state)
    BY <2>1, StateFacts
  <2> QED
    BY <1>1, <2>2 DEF FieldsAfter, SameLifecycle, Rest
<1>2. CASE ev.type = "scope"
  <2> DEFINE b == ev.branch
  <2>1. u = [s EXCEPT !.doc.branch = b]
    BY <1>2 DEF ApplyEvent
  <2>2. b = ev.branch
    OBVIOUS
  <2> HIDE DEF b, u
  <2> DEFINE w == [s EXCEPT !.doc.branch = b]
  <2>3. Copied(s, w)
    BY CopiedFacts
  <2>4. /\ w.doc.branch = b /\ w.doc.links = s.doc.links
        /\ w.doc.evidence = s.doc.evidence /\ w.doc.body = s.doc.body
    BY ReplayShape(s) DEF ReplayShape
  <2>5. u = w
    BY <2>1
  <2> HIDE DEF w
  <2> QED
    BY <1>2, <2>2, <2>3, <2>4, <2>5 DEF Copied, SameLifecycle, FieldsAfter
<1>3. CASE ev.type = "say"
  <2> DEFINE ids == {IF ev.node = None THEN <<ev.id, "">> ELSE ev.node}
             kind == KindOf(ev.ntype)
             label == LabelOf(ev.ntype)
             body == ev.body
             w == AddNodes(s, ids, kind, label, body)
  <2>1. u = w
    BY <1>3 DEF ApplyEvent, ApplySay
  <2> HIDE DEF u, ids, kind, label, body
  <2> DEFINE node == [kind |-> kind, label |-> label, status |-> "open", body |-> body]
  <2> HIDE DEF w
  <2>2. /\ Grown(s, w) /\ SameLifecycle(s, w) /\ w.doc.status = s.doc.status
        /\ w.issues = s.issues /\ Rest(s, w)
        /\ DOMAIN w.doc.nodes = DOMAIN s.doc.nodes \cup ids
        /\ \A i \in ids : w.doc.nodes[i] = node
        /\ \A i \in DOMAIN s.doc.nodes \ ids : w.doc.nodes[i] = s.doc.nodes[i]
    BY AddNodesFacts DEF w
  <2> QED
    BY <1>3, <2>1, <2>2, KeptFields
<1>4. CASE ev.type \in {"edit", "retract", "resolve", "reopen", "retype"}
  <2>1. PICK node : u = OnNode(s, ev, ev.node, node)
    <3>1. CASE ev.type = "edit"
      BY <3>1 DEF ApplyEvent
    <3>2. CASE ev.type \in {"retract", "resolve", "reopen"}
      <4>1. u = ApplyFlag(s, ev)
        BY <3>2 DEF ApplyEvent
      <4> QED
        BY <4>1 DEF ApplyFlag
    <3>3. CASE ev.type = "retype"
      <4>1. u = ApplyRetype(s, ev)
        BY <3>3 DEF ApplyEvent
      <4> QED
        BY <4>1 DEF ApplyRetype
    <3> QED
      BY <1>4, <3>1, <3>2, <3>3
  <2> HIDE DEF u
  <2>2. SameLifecycle(s, u) /\ Rest(s, u) /\ u.doc.status = s.doc.status
    BY <2>1, OnNodeFacts
  <2> QED
    BY <1>4, <2>2, KeptFields
<1>5. CASE ev.type = "revise-body"
  <2>1. u = ApplyReviseBody(s, ev)
    BY <1>5 DEF ApplyEvent
  <2> HIDE DEF u
  <2>2. /\ SameLifecycle(s, u) /\ u.doc.status = s.doc.status
        /\ u.doc.links = s.doc.links /\ u.doc.evidence = s.doc.evidence
        /\ u.doc.body = ev.body /\ u.doc.branch = s.doc.branch
    BY <2>1, ReviseFacts
  <2> QED
    BY <1>5, <2>2 DEF FieldsAfter, SameLifecycle
<1>6. CASE ev.type = "link" /\ ev.evidence # None
  <2> DEFINE x == Append(s.doc.evidence, ev.id)
             w == [s EXCEPT !.doc.evidence = x]
  <2>1. u = w
    <3>1. u = ApplyLink(s, ev)
      BY <1>6 DEF ApplyEvent
    <3> QED
      BY <1>6, <3>1 DEF ApplyLink
  <2>2. x = Append(s.doc.evidence, ev.id)
    OBVIOUS
  <2> HIDE DEF x, u
  <2>3. Copied(s, w)
    BY CopiedFacts
  <2>4. /\ w.doc.evidence = x /\ w.doc.links = s.doc.links
        /\ w.doc.branch = s.doc.branch /\ w.doc.body = s.doc.body
    BY DEF ReplayShape
  <2> HIDE DEF w
  <2> QED
    BY <1>6, <2>1, <2>2, <2>3, <2>4 DEF Copied, SameLifecycle, FieldsAfter
<1>7. CASE ev.type = "link" /\ ev.evidence = None
  <2> DEFINE x == Append(s.doc.links, ev.id)
             w == [s EXCEPT !.doc.links = x]
  <2>1. u = w
    <3>1. u = ApplyLink(s, ev)
      BY <1>7 DEF ApplyEvent
    <3> QED
      BY <1>7, <3>1 DEF ApplyLink
  <2>2. x = Append(s.doc.links, ev.id)
    OBVIOUS
  <2> HIDE DEF x, u
  <2>3. Copied(s, w)
    BY CopiedFacts
  <2>4. /\ w.doc.links = x /\ w.doc.branch = s.doc.branch
        /\ w.doc.evidence = s.doc.evidence /\ w.doc.body = s.doc.body
    BY DEF ReplayShape
  <2> HIDE DEF w
  <2> QED
    BY <1>7, <2>1, <2>2, <2>3, <2>4 DEF Copied, SameLifecycle, FieldsAfter
<1>8. CASE ev.type = "facet-set"
  <2>1. u = ApplyFacetSet(s, ev)
    BY <1>8 DEF ApplyEvent
  <2> HIDE DEF u
  <2>2. ~NamesLifecycle(s, ev)
    BY DEF NamesLifecycle
  <2>3. /\ u.doc.status = s.doc.status /\ Rest(s, u) /\ u.doc.category = s.doc.category
        /\ u.doc.tags = (s.doc.tags \cup ev.add) \ ev.remove
    BY <2>1, <2>2, FacetFacts
  <2> QED
    BY <1>8, <2>3 DEF FieldsAfter, Rest
<1>9. CASE ev.type \notin {"state", "scope", "say", "edit", "retract", "resolve", "reopen",
                           "retype", "revise-body", "link", "facet-set"}
  <2>1. u = s
    BY <1>9 DEF ApplyEvent
  <2> HIDE DEF u
  <2> QED
    BY <1>9, <2>1 DEF FieldsAfter
<1> QED
  BY <1>1, <1>2, <1>3, <1>4, <1>5, <1>6, <1>7, <1>8, <1>9

(* Migration gives the nodes of approvals new ids.                          *)
MigratedIds == Nat \X {"", "human/alice", "human-alice"}
PlainIds == Nat \X {""}

LEMMA PairParts ==
    ASSUME NEW S, NEW T, NEW x \in S \X T
    PROVE  x = <<x[1], x[2]>> /\ x[1] \in S /\ x[2] \in T
<1>1. PICK i \in S, w \in T : x = <<i, w>>
  OBVIOUS
<1>2. x[1] = i /\ x[2] = w
  BY <1>1
<1> QED
  BY <1>1, <1>2

LEMMA IdParts ==
    /\ \A x \in MigratedIds :
           /\ x = <<x[1], x[2]>> /\ x[1] \in Nat
           /\ x[2] \in {"", "human/alice", "human-alice"}
    /\ \A x \in NodeIds : x \in MigratedIds /\ x[2] # "human-alice"
    /\ \A x \in PlainIds : x \in NodeIds /\ x[2] = ""
    /\ \A x \in NodeIds : TreeSafe(x) = x => x \in PlainIds
<1>1. \A x \in MigratedIds :
           /\ x = <<x[1], x[2]>> /\ x[1] \in Nat
           /\ x[2] \in {"", "human/alice", "human-alice"}
  <2> DEFINE T == {"", "human/alice", "human-alice"}
  <2> HIDE DEF T
  <2>1. \A x \in Nat \X T : x = <<x[1], x[2]>> /\ x[1] \in Nat /\ x[2] \in T
    BY PairParts
  <2> QED
    BY <2>1 DEF MigratedIds, T
<1>2. \A x \in NodeIds : x \in MigratedIds /\ x[2] # "human-alice"
  BY DEF NodeIds, MigratedIds
<1>3. \A x \in PlainIds : x \in NodeIds /\ x[2] = ""
  BY DEF NodeIds, PlainIds
<1>4. ASSUME NEW x \in NodeIds, TreeSafe(x) = x PROVE x \in PlainIds
  <2>1. x[2] # "human/alice"
    <3> SUFFICES ASSUME x[2] = "human/alice" PROVE FALSE
      OBVIOUS
    <3>1. x = <<x[1], "human-alice">>
      BY <1>4 DEF TreeSafe
    <3>2. <<x[1], "human-alice">>[2] = "human-alice"
      OBVIOUS
    <3> QED
      BY <3>1, <3>2
  <2>2. x = <<x[1], x[2]>> /\ x[1] \in Nat /\ x[2] \in {"", "human/alice"}
    BY PairParts DEF NodeIds
  <2> QED
    BY <2>1, <2>2 DEF PlainIds
<1> QED
  BY <1>1, <1>2, <1>3, <1>4

LEMMA TreeSafeParts ==
    ASSUME NEW x \in MigratedIds
    PROVE  /\ x[2] = "" => TreeSafe(x) = x
           /\ x[2] # "" => TreeSafe(x) = <<x[1], "human-alice">>
           /\ TreeSafe(x)[1] = x[1]
           /\ TreeSafe(x)[2] = IF x[2] = "" THEN "" ELSE "human-alice"
<1>1. x = <<x[1], x[2]>> /\ x[2] \in {"", "human/alice", "human-alice"}
  BY IdParts
<1>2. CASE x[2] = ""
  BY <1>1, <1>2 DEF TreeSafe
<1>3. CASE x[2] = "human/alice"
  BY <1>1, <1>3 DEF TreeSafe
<1>4. CASE x[2] = "human-alice"
  BY <1>1, <1>4 DEF TreeSafe
<1> QED
  BY <1>1, <1>2, <1>3, <1>4

LEMMA SameTreeSafe ==
    ASSUME NEW x \in MigratedIds, NEW y \in MigratedIds, TreeSafe(x) = TreeSafe(y)
    PROVE  /\ x[1] = y[1] /\ (x[2] = "" <=> y[2] = "")
           /\ x[2] = y[2] => x = y
           /\ x[2] = "" => x = y
<1>1. x[1] = y[1] /\ (x[2] = "" <=> y[2] = "")
  BY TreeSafeParts
<1>2. x = <<x[1], x[2]>> /\ y = <<y[1], y[2]>>
  BY IdParts
<1> QED
  BY <1>1, <1>2

(* a: nodes of a replay from the start; b: nodes of a replay that resumed   *)
(* from a migration after n events.                                        *)
NodesAgree(a, b, n) ==
    /\ DOMAIN a \subseteq NodeIds /\ DOMAIN b \subseteq MigratedIds
    /\ \A y \in DOMAIN b : y[2] = "human-alice" => y[1] <= n
    /\ \A y \in DOMAIN b : \E x \in DOMAIN a : TreeSafe(x) = TreeSafe(y) /\ b[y] = a[x]
    /\ \A x \in DOMAIN a : \E y \in DOMAIN b : TreeSafe(y) = TreeSafe(x)

LEMMA PlainAgree ==
    ASSUME NEW a, NEW b, NEW n, NodesAgree(a, b, n), NEW x \in PlainIds
    PROVE  /\ x \in DOMAIN a <=> x \in DOMAIN b
           /\ x \in DOMAIN a => a[x] = b[x]
<1>1. x \in NodeIds /\ x \in MigratedIds /\ x[2] = ""
  BY IdParts
<1>2. ASSUME x \in DOMAIN a PROVE x \in DOMAIN b
  <2>1. PICK y \in DOMAIN b : TreeSafe(y) = TreeSafe(x)
    BY <1>2 DEF NodesAgree
  <2>2. y \in MigratedIds
    BY DEF NodesAgree
  <2>3. x = y
    BY <1>1, <2>1, <2>2, SameTreeSafe
  <2> QED
    BY <2>3
<1>3. ASSUME x \in DOMAIN b PROVE x \in DOMAIN a /\ a[x] = b[x]
  <2>1. PICK y \in DOMAIN a : TreeSafe(y) = TreeSafe(x) /\ b[x] = a[y]
    BY <1>3 DEF NodesAgree
  <2>2. y \in MigratedIds
    BY IdParts DEF NodesAgree
  <2>3. x = y
    BY <1>1, <2>1, <2>2, SameTreeSafe
  <2> QED
    BY <2>1, <2>3
<1> QED
  BY <1>2, <1>3

(* c: the nodes a and those with an id of ids, which become node.          *)
Adds(a, c, ids, node) ==
    /\ DOMAIN c = DOMAIN a \cup ids
    /\ \A i \in ids : c[i] = node
    /\ \A i \in DOMAIN a \ ids : c[i] = a[i]

LEMMA AddAgrees ==
    ASSUME NEW n \in Nat, NEW a, NEW b, NodesAgree(a, b, n), NEW ids, ids \subseteq NodeIds,
           \A i \in ids : i[2] = "human/alice" => i[1] > n,
           NEW node, NEW c, NEW d, Adds(a, c, ids, node), Adds(b, d, ids, node)
    PROVE  NodesAgree(c, d, n)
<1>0. /\ DOMAIN c = DOMAIN a \cup ids /\ DOMAIN d = DOMAIN b \cup ids
      /\ \A i \in ids : c[i] = node /\ d[i] = node
      /\ \A i \in DOMAIN a \ ids : c[i] = a[i]
      /\ \A i \in DOMAIN b \ ids : d[i] = b[i]
  BY DEF Adds
<1>1. DOMAIN c \subseteq NodeIds /\ DOMAIN d \subseteq MigratedIds
  BY <1>0, IdParts DEF NodesAgree
<1>2. ASSUME NEW y \in DOMAIN d, y[2] = "human-alice" PROVE y[1] <= n
  BY <1>0, <1>2, IdParts DEF NodesAgree
<1>3. ASSUME NEW y \in DOMAIN d
      PROVE  \E x \in DOMAIN c : TreeSafe(x) = TreeSafe(y) /\ d[y] = c[x]
  <2>1. CASE y \in ids
    BY <1>0, <2>1
  <2>2. CASE y \notin ids
    <3>1. y \in DOMAIN b /\ y \in MigratedIds
      BY <1>0, <1>3, <2>2 DEF NodesAgree
    <3>2. PICK x \in DOMAIN a : TreeSafe(x) = TreeSafe(y) /\ b[y] = a[x]
      BY <3>1 DEF NodesAgree
    <3>3. x \in NodeIds /\ x \in MigratedIds
      BY IdParts DEF NodesAgree
    <3>4. ASSUME x \in ids PROVE FALSE
      <4>1. CASE x[2] = ""
        BY <2>2, <3>1, <3>2, <3>3, <3>4, <4>1, SameTreeSafe
      <4>2. CASE x[2] # ""
        <5>1. x[2] = "human/alice" /\ x[1] \in Nat
          BY <3>3, <4>2, IdParts
        <5>2. x[1] = y[1] /\ y[2] # "" /\ (x[2] = y[2] => x = y)
          BY <3>1, <3>2, <3>3, <4>2, SameTreeSafe
        <5>3. y[2] = "human-alice"
          BY <2>2, <3>1, <3>4, <5>1, <5>2, IdParts
        <5>4. y[1] <= n
          BY <3>1, <5>3 DEF NodesAgree
        <5>5. x[1] > n /\ x[1] <= n
          BY <3>4, <5>1, <5>2, <5>4
        <5> QED
          BY <5>1, <5>5
      <4> QED
        BY <4>1, <4>2
    <3> QED
      BY <1>0, <2>2, <3>1, <3>2, <3>4
  <2> QED
    BY <2>1, <2>2
<1>4. ASSUME NEW x \in DOMAIN c
      PROVE  \E y \in DOMAIN d : TreeSafe(y) = TreeSafe(x)
  BY <1>0, <1>4 DEF NodesAgree
<1> QED
  BY <1>1, <1>2, <1>3, <1>4 DEF NodesAgree

LEMMA ChangeAgrees ==
    ASSUME NEW n \in Nat, NEW a, NEW b, NodesAgree(a, b, n), NEW ids, ids \subseteq PlainIds,
           NEW c, NEW d, DOMAIN c = DOMAIN a, DOMAIN d = DOMAIN b,
           \A i \in ids \cap DOMAIN a \cap DOMAIN b : a[i] = b[i] => c[i] = d[i],
           \A i \in DOMAIN a \ ids : c[i] = a[i],
           \A i \in DOMAIN b \ ids : d[i] = b[i]
    PROVE  NodesAgree(c, d, n)
<1>1. ASSUME NEW y \in DOMAIN d
      PROVE  \E x \in DOMAIN c : TreeSafe(x) = TreeSafe(y) /\ d[y] = c[x]
  <2>1. CASE y \in ids
    <3>1. y \in PlainIds /\ y \in DOMAIN b
      BY <1>1, <2>1
    <3>2. y \in DOMAIN a /\ a[y] = b[y]
      BY <3>1, PlainAgree
    <3>3. c[y] = d[y]
      BY <2>1, <3>1, <3>2
    <3> QED
      BY <3>2, <3>3
  <2>2. CASE y \notin ids
    <3>1. y \in DOMAIN b /\ y \in MigratedIds
      BY <1>1 DEF NodesAgree
    <3>2. PICK x \in DOMAIN a : TreeSafe(x) = TreeSafe(y) /\ b[y] = a[x]
      BY <3>1 DEF NodesAgree
    <3>3. ASSUME x \in ids PROVE FALSE
      <4>1. x[2] = "" /\ x \in MigratedIds
        BY <3>3, IdParts
      <4> QED
        BY <2>2, <3>1, <3>2, <3>3, <4>1, SameTreeSafe
    <3> QED
      BY <2>2, <3>1, <3>2, <3>3
  <2> QED
    BY <2>1, <2>2
<1> QED
  BY <1>1 DEF NodesAgree

(* An event after a migration of n events that means the same before and    *)
(* after it.                                                               *)
Resumes(ev, n) ==
    /\ ev.id \in Nat /\ ev.id > n
    /\ ev.lifecycle = None /\ ev.remove \cap {"bug", "decision"} = {}
    /\ ev.type = "state" => ev.approvals \in {<<>>, <<"human/alice">>}
    /\ ev.type = "say" => ev.node \in {None, <<1, "">>}
    /\ ev.node = None \/ ev.node \in PlainIds
    /\ ToSet(ev.incorporated) \subseteq PlainIds

LEMMA PlainId ==
    ASSUME NEW i \in Nat
    PROVE  <<i, "">> \in PlainIds
  BY DEF PlainIds

LEMMA SayAdds ==
    ASSUME NEW s, ReplayShape(s), NEW ev, ev.type = "say"
    PROVE  Adds(s.doc.nodes, ApplyEvent(s, ev).doc.nodes, {SayId(ev)},
                [kind |-> KindOf(ev.ntype), label |-> LabelOf(ev.ntype), status |-> "open",
                 body |-> ev.body])
<1> DEFINE ids == {SayId(ev)}
           kind == KindOf(ev.ntype)
           label == LabelOf(ev.ntype)
           body == ev.body
           w == AddNodes(s, ids, kind, label, body)
           node == [kind |-> kind, label |-> label, status |-> "open", body |-> body]
<1>1. ApplyEvent(s, ev) = w
  BY DEF ApplyEvent, ApplySay, SayId
<1> SUFFICES Adds(s.doc.nodes, w.doc.nodes, ids, node)
  BY <1>1
<1> HIDE DEF ids, kind, label, body, w
<1>2. /\ Grown(s, w) /\ SameLifecycle(s, w) /\ w.doc.status = s.doc.status
      /\ w.issues = s.issues /\ Rest(s, w)
      /\ DOMAIN w.doc.nodes = DOMAIN s.doc.nodes \cup ids
      /\ \A i \in ids : w.doc.nodes[i] = node
      /\ \A i \in DOMAIN s.doc.nodes \ ids : w.doc.nodes[i] = s.doc.nodes[i]
  BY AddNodesFacts DEF w
<1> QED
  BY <1>2 DEF Adds

Approvals(ev) == { <<ev.id, actor>> : actor \in ToSet(ev.approvals) }
ApprovalNode == [kind |-> "approval", label |-> None, status |-> "open", body |-> None]

LEMMA StateAdds ==
    ASSUME NEW s, ReplayShape(s), NEW ev, ev.type = "state"
    PROVE  Adds(s.doc.nodes, ApplyEvent(s, ev).doc.nodes, Approvals(ev), ApprovalNode)
<1> DEFINE u == ApplyState(s, ev)
           approvals == { <<ev.id, actor>> : actor \in ToSet(ev.approvals) }
           node == [kind |-> "approval", label |-> None, status |-> "open", body |-> None]
<1>1. ApplyEvent(s, ev) = u
  BY DEF ApplyEvent
<1>2. /\ Grown(s, u) /\ SameLifecycle(s, u)
      /\ ParseLenient(ev.state) = None => Reported(u, "state") /\ u.doc.status = s.doc.status
      /\ Rest(s, u)
      /\ ParseLenient(ev.state) # None => u.doc.status = ParseLenient(ev.state)
      /\ DOMAIN u.doc.nodes = DOMAIN s.doc.nodes \cup approvals
      /\ \A i \in approvals : u.doc.nodes[i] = node
      /\ \A i \in DOMAIN s.doc.nodes \ approvals : u.doc.nodes[i] = s.doc.nodes[i]
  BY SMTT(30), StateFacts
<1> QED
  BY <1>1, <1>2 DEF Adds, Approvals, ApprovalNode

LEMMA AddedIds ==
    ASSUME NEW n \in Nat, NEW ev, Resumes(ev, n)
    PROVE  /\ ev.type = "say" => {SayId(ev)} \subseteq PlainIds
           /\ ev.type = "state" =>
                /\ Approvals(ev) \subseteq NodeIds
                /\ \A i \in Approvals(ev) : i[1] > n
<1>1. ev.type = "say" => {SayId(ev)} \subseteq PlainIds
  BY PlainId DEF Resumes, SayId
<1>2. ASSUME ev.type = "state", NEW i \in Approvals(ev)
      PROVE  i \in NodeIds /\ i[1] > n
  <2>1. PICK actor \in ToSet(ev.approvals) : i = <<ev.id, actor>>
    BY <1>2 DEF Approvals
  <2>2. ToSet(ev.approvals) \subseteq {"human/alice"}
    <3>1. ToSet(<<>>) \subseteq {"human/alice"}
      BY DEF ToSet
    <3>2. ToSet(<<"human/alice">>) \subseteq {"human/alice"}
      BY DEF ToSet
    <3> QED
      BY <1>2, <3>1, <3>2 DEF Resumes
  <2>3. actor = "human/alice" /\ ev.id \in Nat /\ ev.id > n
    BY <2>1, <2>2 DEF Resumes
  <2>4. i = <<ev.id, "human/alice">> /\ i \in NodeIds
    BY <2>1, <2>3, IdsAreNamed
  <2>5. i[1] = ev.id
    BY <2>4
  <2> QED
    BY <2>3, <2>4, <2>5
<1> QED
  BY <1>1, <1>2

(* The node that an event puts in the place of another.                     *)
Renewed(node, ev) ==
    CASE ev.type = "edit" -> EditedNode(node, ev)
      [] ev.type \in FlagTypes -> FlaggedNode(node, ev)
      [] ev.type = "retype" -> RetypedNode(node, ev)

LEMMA RenewedOn ==
    ASSUME NEW s, NEW ev, ev.type \in FlagTypes \cup {"edit", "retype"}
    PROVE  ApplyEvent(s, ev) = OnNode(s, ev, ev.node, Renewed(s.doc.nodes[ev.node], ev))
<1> DEFINE old == s.doc.nodes[ev.node]
<1>1. CASE ev.type = "edit"
  <2>1. Renewed(old, ev) = EditedNode(old, ev)
    BY <1>1 DEF Renewed, FlagTypes
  <2> QED
    BY <1>1, <2>1 DEF ApplyEvent, EditedNode
<1>2. CASE ev.type \in FlagTypes
  <2>1. Renewed(old, ev) = FlaggedNode(old, ev)
    BY <1>2 DEF Renewed, FlagTypes
  <2>2. ApplyEvent(s, ev) = ApplyFlag(s, ev)
    BY <1>2 DEF ApplyEvent, FlagTypes
  <2> QED
    BY <2>1, <2>2 DEF ApplyFlag, FlaggedNode
<1>3. CASE ev.type = "retype"
  <2>1. Renewed(old, ev) = RetypedNode(old, ev)
    BY <1>3 DEF Renewed, FlagTypes
  <2>2. ApplyEvent(s, ev) = ApplyRetype(s, ev)
    BY <1>3 DEF ApplyEvent
  <2> QED
    BY <2>1, <2>2 DEF ApplyRetype, RetypedNode
<1> QED
  BY <1>1, <1>2, <1>3

LEMMA NeedsNode ==
    ASSUME NEW ev, Missing(ev) = None, ev.type \in FlagTypes \cup {"edit", "retype"}
    PROVE  ev.node # None
<1> DEFINE fields == Required(ev.type)
           gaps == {i \in DOMAIN fields : Absent(ev, fields[i])}
<1>1. /\ 1 \in DOMAIN fields /\ fields[1] = "node"
      /\ \A i \in DOMAIN fields : fields[i] \in {"node", "body", "ntype"}
  <2>1. CASE ev.type = "edit"
    <3>1. fields = <<"node", "body">>
      BY <2>1 DEF Required
    <3> QED
      BY <3>1
  <2>2. CASE ev.type = "retype"
    <3>1. fields = <<"node", "ntype">>
      BY <2>2 DEF Required
    <3> QED
      BY <3>1
  <2>3. CASE ev.type \in FlagTypes
    <3>1. fields = <<"node">>
      BY <2>3 DEF Required, FlagTypes
    <3> QED
      BY <3>1
  <2> QED
    BY <2>1, <2>2, <2>3
<1>2. gaps \subseteq DOMAIN fields
  OBVIOUS
<1>3. DOMAIN fields \in {1..1, 1..2}
  <2>1. fields \in {<<"node", "body">>, <<"node", "ntype">>, <<"node">>}
    BY DEF Required, FlagTypes
  <2> QED
    BY <2>1
<1>4. gaps = {}
  <2> SUFFICES ASSUME gaps # {} PROVE FALSE
    OBVIOUS
  <2> HIDE DEF fields
  <2>1. gaps \in SUBSET (1..2)
    BY <1>2, <1>3
  <2> HIDE DEF gaps
  <2>2. Min(gaps) \in gaps
    <3>1. gaps \subseteq Nat /\ gaps # {}
      BY <2>1
    <3>2. \E n \in gaps : \A m \in gaps : n <= m
      BY <3>1, LeastNumber
    <3> QED
      BY <3>2 DEF Min
  <2>3. fields[Min(gaps)] = None
    BY DEF Missing, fields, gaps
  <2> QED
    BY <1>1, <1>2, <2>2, <2>3, ChainAssumption
<1>5. ~Absent(ev, "node")
  BY <1>1, <1>4
<1> QED
  BY <1>5 DEF Absent

LEMMA NodesKept ==
    ASSUME NEW s, ReplayShape(s), NEW ev,
           ev.type \notin FlagTypes \cup {"state", "say", "revise-body", "edit", "retype"}
    PROVE  ApplyEvent(s, ev).doc.nodes = s.doc.nodes
<1>1. CASE ev.type = "scope"
  <2> DEFINE b == ev.branch
  <2>1. ApplyEvent(s, ev) = [s EXCEPT !.doc.branch = b]
    BY <1>1 DEF ApplyEvent
  <2> HIDE DEF b
  <2>2. Copied(s, [s EXCEPT !.doc.branch = b])
    BY CopiedFacts
  <2> QED
    BY <2>1, <2>2 DEF Copied
<1>2. CASE ev.type = "link"
  <2>1. ApplyEvent(s, ev) = ApplyLink(s, ev)
    BY <1>2 DEF ApplyEvent
  <2>2. Copied(s, ApplyLink(s, ev))
    BY LinkFacts
  <2> QED
    BY <2>1, <2>2 DEF Copied
<1>3. CASE ev.type = "facet-set"
  <2> DEFINE u == ApplyFacetSet(s, ev)
  <2>1. ApplyEvent(s, ev) = u
    BY <1>3 DEF ApplyEvent
  <2>2. u.doc.nodes = s.doc.nodes
    BY FacetFacts
  <2> QED
    BY <2>1, <2>2
<1>4. CASE ev.type \notin {"scope", "link", "facet-set"}
  <2>1. ApplyEvent(s, ev) = s
    BY <1>4 DEF ApplyEvent, FlagTypes
  <2> QED
    BY <2>1
<1> QED
  BY <1>1, <1>2, <1>3, <1>4

LEMMA RevisedNodes ==
    ASSUME NEW s, ReplayShape(s), NEW ev, ev.type = "revise-body"
    PROVE  LET u == ApplyEvent(s, ev)
               ids == ToSet(ev.incorporated)
           IN  /\ DOMAIN u.doc.nodes = DOMAIN s.doc.nodes
               /\ \A id \in DOMAIN s.doc.nodes :
                      u.doc.nodes[id] = IF id \in ids
                                        THEN [s.doc.nodes[id] EXCEPT !.status = "incorporated"]
                                        ELSE s.doc.nodes[id]
<1> DEFINE u == ApplyReviseBody(s, ev)
           ids == ToSet(ev.incorporated)
<1>1. ApplyEvent(s, ev) = u
  BY DEF ApplyEvent
<1>2. /\ u.doc.status = s.doc.status
      /\ DOMAIN u.doc.nodes = DOMAIN s.doc.nodes
      /\ \A id \in DOMAIN s.doc.nodes :
             u.doc.nodes[id] = IF id \in ids
                               THEN [s.doc.nodes[id] EXCEPT !.status = "incorporated"]
                               ELSE s.doc.nodes[id]
      /\ ~(ids \subseteq DOMAIN s.doc.nodes) => Reported(u, "node")
  BY ReviseFacts
<1>3. ApplyEvent(s, ev).doc.nodes = u.doc.nodes
  BY <1>1
<1> HIDE DEF u, ids
<1> QED
  BY <1>2, <1>3 DEF ids

LEMMA RenewedNodes ==
    ASSUME NEW s, ReplayShape(s), NEW ev, ev.type \in FlagTypes \cup {"edit", "retype"}
    PROVE  LET u == ApplyEvent(s, ev)
           IN  /\ DOMAIN u.doc.nodes = DOMAIN s.doc.nodes
               /\ \A x \in DOMAIN s.doc.nodes \ {ev.node} : u.doc.nodes[x] = s.doc.nodes[x]
               /\ ev.node \in DOMAIN s.doc.nodes =>
                      u.doc.nodes[ev.node] = Renewed(s.doc.nodes[ev.node], ev)
<1> DEFINE id == ev.node
           node == Renewed(s.doc.nodes[id], ev)
           u == OnNode(s, ev, id, node)
<1>1. ApplyEvent(s, ev) = u
  BY SMTT(30), RenewedOn
<1> SUFFICES /\ DOMAIN u.doc.nodes = DOMAIN s.doc.nodes
             /\ \A x \in DOMAIN s.doc.nodes \ {id} : u.doc.nodes[x] = s.doc.nodes[x]
             /\ id \in DOMAIN s.doc.nodes => u.doc.nodes[id] = node
  BY <1>1
<1> HIDE DEF id, node
<1>2. /\ Grown(s, u) /\ SameLifecycle(s, u) /\ u.doc.status = s.doc.status
      /\ Rest(s, u)
      /\ DOMAIN u.doc.nodes = DOMAIN s.doc.nodes
      /\ \A x \in DOMAIN s.doc.nodes : x # id => u.doc.nodes[x] = s.doc.nodes[x]
      /\ IF id \in DOMAIN s.doc.nodes THEN u.doc.nodes[id] = node
         ELSE Reported(u, "node")
  BY OnNodeFacts
<1> QED
  BY <1>2

LEMMA StepNodesAgree ==
    ASSUME NEW n \in Nat, NEW s, NEW t, ReplayShape(s), ReplayShape(t),
           NodesAgree(s.doc.nodes, t.doc.nodes, n),
           NEW ev, Resumes(ev, n), Missing(ev) = None
    PROVE  NodesAgree(ApplyEvent(s, ev).doc.nodes, ApplyEvent(t, ev).doc.nodes, n)
<1> DEFINE a == s.doc.nodes
           b == t.doc.nodes
           c == ApplyEvent(s, ev).doc.nodes
           d == ApplyEvent(t, ev).doc.nodes
<1> SUFFICES NodesAgree(c, d, n)
  OBVIOUS
<1>0. NodesAgree(a, b, n)
  OBVIOUS
<1>1. CASE ev.type = "say"
  <2> DEFINE node == [kind |-> KindOf(ev.ntype), label |-> LabelOf(ev.ntype),
                      status |-> "open", body |-> ev.body]
             ids == {SayId(ev)}
  <2>1. Adds(a, c, ids, node) /\ Adds(b, d, ids, node)
    BY <1>1, SayAdds
  <2>2. ids \subseteq NodeIds /\ \A i \in ids : i[2] = ""
    BY <1>1, AddedIds, IdParts
  <2> HIDE DEF a, b, c, d, ids, node
  <2>3. \A i \in ids : i[2] = "human/alice" => i[1] > n
    BY <2>2
  <2> QED
    BY <1>0, <2>1, <2>2, <2>3, AddAgrees
<1>2. CASE ev.type = "state"
  <2> DEFINE ids == Approvals(ev)
             node == ApprovalNode
  <2>1. Adds(a, c, ids, node) /\ Adds(b, d, ids, node)
    BY <1>2, StateAdds
  <2>2. ids \subseteq NodeIds /\ \A i \in ids : i[1] > n
    BY <1>2, AddedIds
  <2> HIDE DEF a, b, c, d, ids, node
  <2>3. \A i \in ids : i[2] = "human/alice" => i[1] > n
    BY <2>2
  <2> QED
    BY <1>0, <2>1, <2>2, <2>3, AddAgrees
<1>3. CASE ev.type = "revise-body"
  <2> DEFINE ids == ToSet(ev.incorporated)
             after(node) == [node EXCEPT !.status = "incorporated"]
  <2>1. /\ DOMAIN c = DOMAIN a /\ DOMAIN d = DOMAIN b
        /\ \A i \in DOMAIN a : c[i] = IF i \in ids THEN after(a[i]) ELSE a[i]
        /\ \A i \in DOMAIN b : d[i] = IF i \in ids THEN after(b[i]) ELSE b[i]
    BY <1>3, RevisedNodes
  <2>2. ids \subseteq PlainIds
    BY DEF Resumes
  <2> HIDE DEF a, b, c, d, ids
  <2>3. \A i \in ids \cap DOMAIN a \cap DOMAIN b : a[i] = b[i] => c[i] = d[i]
    BY <2>1
  <2> HIDE DEF after
  <2> QED
    BY <1>0, <2>1, <2>2, <2>3, ChangeAgrees
<1>4. CASE ev.type \in FlagTypes \cup {"edit", "retype"}
  <2> DEFINE ids == {ev.node}
  <2>1. /\ DOMAIN c = DOMAIN a /\ DOMAIN d = DOMAIN b
        /\ \A i \in DOMAIN a \ ids : c[i] = a[i]
        /\ \A i \in DOMAIN b \ ids : d[i] = b[i]
        /\ ev.node \in DOMAIN a => c[ev.node] = Renewed(a[ev.node], ev)
        /\ ev.node \in DOMAIN b => d[ev.node] = Renewed(b[ev.node], ev)
    BY <1>4, RenewedNodes
  <2>2. ids \subseteq PlainIds
    BY <1>4, NeedsNode DEF Resumes
  <2> HIDE DEF a, b, c, d
  <2>3. \A i \in ids \cap DOMAIN a \cap DOMAIN b : a[i] = b[i] => c[i] = d[i]
    BY <2>1
  <2> HIDE DEF ids
  <2> QED
    BY <1>0, <2>1, <2>2, <2>3, ChangeAgrees
<1>5. CASE ev.type \notin FlagTypes \cup {"state", "say", "revise-body", "edit", "retype"}
  <2>1. c = a /\ d = b
    BY <1>5, NodesKept
  <2> HIDE DEF a, b, c, d
  <2> QED
    BY <1>0, <2>1
<1> QED
  BY <1>1, <1>2, <1>3, <1>4, <1>5

(* What a migration makes of a status.                                      *)
MigratedStatus(doc) ==
    IF doc.status \in StatusesOf(doc.category) THEN doc.status ELSE BuiltInInitial(doc.category)

(* s: a replay from the start of a thread of that kind; t: a replay that    *)
(* resumed from a migration after n events. They differ in nothing that a   *)
(* migration would not make equal.                                         *)
Agree(s, t, kind, n) ==
    /\ ReplayShape(s) /\ ReplayShape(t) /\ Rest(s, t)
    /\ t.doc.category = s.doc.category /\ MigratedStatus(t.doc) = MigratedStatus(s.doc)
    /\ t.doc.tags \ BadTags = (s.doc.tags \cup KindTag(kind)) \ BadTags
    /\ NodesAgree(s.doc.nodes, t.doc.nodes, n)

LEMMA StepAgrees ==
    ASSUME NEW n \in Nat, NEW kind, NEW s, NEW t, Agree(s, t, kind, n),
           NEW ev, Resumes(ev, n)
    PROVE  Agree(ApplyChecked(s, ev), ApplyChecked(t, ev), kind, n)
<1> DEFINE u == ApplyChecked(s, ev)
           w == ApplyChecked(t, ev)
<1> SUFFICES Agree(u, w, kind, n)
  OBVIOUS
<1>1. ReplayShape(u) /\ ReplayShape(w)
  BY StepFacts DEF Grown, Agree
<1>2. CASE Missing(ev) = None
  <2>1. u = ApplyEvent(s, ev) /\ w = ApplyEvent(t, ev)
    BY <1>2 DEF ApplyChecked
  <2>2. NodesAgree(u.doc.nodes, w.doc.nodes, n)
    BY <1>2, <2>1, StepNodesAgree DEF Agree
  <2>3. FieldsAfter(s, ev, u) /\ FieldsAfter(t, ev, w)
    <3>1. ReplayShape(s) /\ ReplayShape(t) /\ ev.lifecycle = None
      BY DEF Agree, Resumes
    <3>2. FieldsAfter(s, ev, ApplyEvent(s, ev)) /\ FieldsAfter(t, ev, ApplyEvent(t, ev))
      BY <3>1, EventFields
    <3> QED
      BY <2>1, <3>2
  <2> HIDE DEF u, w
  <2>4. Rest(u, w) /\ w.doc.category = u.doc.category
    BY <2>3 DEF FieldsAfter, Rest, Agree
  <2>5. MigratedStatus(w.doc) = MigratedStatus(u.doc)
    BY <2>3 DEF FieldsAfter, Agree, MigratedStatus
  <2>6. w.doc.tags \ BadTags = (u.doc.tags \cup KindTag(kind)) \ BadTags
    <3>1. KindTag(kind) \cap ev.remove = {}
      BY DEF KindTag, Resumes
    <3>2. t.doc.tags \ BadTags = (s.doc.tags \cup KindTag(kind)) \ BadTags
      BY DEF Agree
    <3>3. CASE ev.type = "facet-set"
      <4>1. /\ u.doc.tags = (s.doc.tags \cup ev.add) \ ev.remove
            /\ w.doc.tags = (t.doc.tags \cup ev.add) \ ev.remove
        BY <2>3, <3>3 DEF FieldsAfter
      <4> QED
        BY <3>1, <3>2, <4>1
    <3>4. CASE ev.type # "facet-set"
      <4>1. u.doc.tags = s.doc.tags /\ w.doc.tags = t.doc.tags
        BY <2>3, <3>4 DEF FieldsAfter
      <4> QED
        BY <3>2, <4>1
    <3> QED
      BY <3>3, <3>4
  <2> QED
    BY <1>1, <2>2, <2>4, <2>5, <2>6 DEF Agree
<1>3. CASE Missing(ev) # None
  <2> DEFINE details == {Missing(ev)}
  <2>1. u = Report(s, "field", ev, details) /\ w = Report(t, "field", ev, details)
    BY <1>3 DEF ApplyChecked
  <2> HIDE DEF details, u, w
  <2>2. u.doc = s.doc /\ w.doc = t.doc
    BY <2>1, ReportFacts DEF Agree
  <2> QED
    BY <1>1, <2>2 DEF Agree, Rest
<1> QED
  BY <1>2, <1>3

(* The nodes of a migrated document.                                       *)
Migrated(nodes) ==
    [id \in { TreeSafe(old) : old \in DOMAIN nodes } |->
        nodes[CHOOSE old \in DOMAIN nodes : TreeSafe(old) = id]]

LEMMA ProjectFacts ==
    ASSUME NEW r, ReplayShape(r)
    PROVE  ProjectToDoc(r) =
               [category |-> r.doc.category, status |-> MigratedStatus(r.doc),
                tags |-> r.doc.tags \ BadTags, nodes |-> Migrated(r.doc.nodes),
                links |-> r.doc.links, evidence |-> r.doc.evidence,
                body |-> r.doc.body, branch |-> r.doc.branch,
                visibility |-> "private", supersedes |-> {}]
<1> DEFINE doc == r.doc
           tags == doc.tags \ BadTags
           status == MigratedStatus(doc)
           nodes == Migrated(doc.nodes)
           open == "private"
           none == {}
<1>1. ProjectToDoc(r) = [doc EXCEPT !.tags = tags, !.status = status, !.nodes = nodes,
                                    !.visibility = open, !.supersedes = none]
  BY DEF ProjectToDoc, MigratedStatus, Migrated
<1>2. doc = [category |-> doc.category, status |-> doc.status, tags |-> doc.tags,
             nodes |-> doc.nodes, links |-> doc.links, evidence |-> doc.evidence,
             body |-> doc.body, branch |-> doc.branch,
             visibility |-> doc.visibility, supersedes |-> doc.supersedes]
  BY DEF ReplayShape
<1> HIDE DEF tags, status, nodes, open, none, doc
<1>3. ProjectToDoc(r) =
          [category |-> doc.category, status |-> status, tags |-> tags, nodes |-> nodes,
           links |-> doc.links, evidence |-> doc.evidence, body |-> doc.body,
           branch |-> doc.branch, visibility |-> open, supersedes |-> none]
  BY <1>1, <1>2
<1> QED
  BY <1>3 DEF tags, status, nodes, open, none, doc

LEMMA MigratedNodes ==
    ASSUME NEW nodes
    PROVE  /\ DOMAIN Migrated(nodes) = { TreeSafe(old) : old \in DOMAIN nodes }
           /\ \A id \in DOMAIN Migrated(nodes) : \E old \in DOMAIN nodes :
                  TreeSafe(old) = id /\ Migrated(nodes)[id] = nodes[old]
  BY DEF Migrated

LEMMA TreeSafeTwice ==
    ASSUME NEW x \in NodeIds
    PROVE  TreeSafe(x) \in MigratedIds /\ TreeSafe(TreeSafe(x)) = TreeSafe(x)
<1>1. x \in MigratedIds /\ x[2] \in {"", "human/alice", "human-alice"} /\ x[1] \in Nat
  BY IdParts
<1>2. CASE x[2] = ""
  <2>1. TreeSafe(x) = x
    BY <1>1, <1>2, TreeSafeParts
  <2> QED
    BY <1>1, <2>1
<1>3. CASE x[2] # ""
  <2> DEFINE y == <<x[1], "human-alice">>
  <2>1. TreeSafe(x) = y
    BY <1>1, <1>3, TreeSafeParts
  <2>2. y \in MigratedIds
    BY <1>1 DEF MigratedIds
  <2>3. y[2] = "human-alice"
    OBVIOUS
  <2> HIDE DEF y
  <2>4. TreeSafe(y) = y
    BY <2>3 DEF TreeSafe
  <2> QED
    BY <2>1, <2>2, <2>4
<1> QED
  BY <1>2, <1>3

LEMMA MigratedAgree ==
    ASSUME NEW n \in Nat, NEW a, \A x \in DOMAIN a : x \in NodeIds /\ x[1] <= n
    PROVE  NodesAgree(a, Migrated(a), n)
<1> DEFINE b == Migrated(a)
<1>1. /\ DOMAIN b = { TreeSafe(old) : old \in DOMAIN a }
      /\ \A id \in DOMAIN b : \E old \in DOMAIN a : TreeSafe(old) = id /\ b[id] = a[old]
  BY MigratedNodes
<1> HIDE DEF b
<1>2. ASSUME NEW x \in DOMAIN a
      PROVE  /\ x \in NodeIds /\ x[1] <= n
             /\ TreeSafe(x) \in MigratedIds /\ TreeSafe(TreeSafe(x)) = TreeSafe(x)
             /\ TreeSafe(x)[1] = x[1]
  BY TreeSafeTwice, TreeSafeParts, IdParts
<1>3. \A y \in DOMAIN b : y \in MigratedIds /\ y[1] <= n
  BY <1>1, <1>2
<1>4. \A y \in DOMAIN b : \E x \in DOMAIN a : TreeSafe(x) = TreeSafe(y) /\ b[y] = a[x]
  BY <1>1, <1>2
<1>5. \A x \in DOMAIN a : \E y \in DOMAIN b : TreeSafe(y) = TreeSafe(x)
  BY <1>1, <1>2
<1>6. NodesAgree(a, b, n)
  BY <1>2, <1>3, <1>4, <1>5 DEF NodesAgree
<1> QED
  BY <1>6 DEF b

LEMMA SameMigration ==
    ASSUME NEW n \in Nat, NEW a, NEW b, NodesAgree(a, b, n)
    PROVE  Migrated(a) = Migrated(b)
<1> DEFINE c == Migrated(a)
           d == Migrated(b)
<1>1. /\ DOMAIN c = { TreeSafe(old) : old \in DOMAIN a }
      /\ \A id \in DOMAIN c : \E old \in DOMAIN a : TreeSafe(old) = id /\ c[id] = a[old]
      /\ DOMAIN d = { TreeSafe(old) : old \in DOMAIN b }
      /\ \A id \in DOMAIN d : \E old \in DOMAIN b : TreeSafe(old) = id /\ d[id] = b[old]
      /\ c = [id \in DOMAIN c |-> c[id]] /\ d = [id \in DOMAIN d |-> d[id]]
  <2>1. c = [id \in DOMAIN c |-> c[id]] /\ d = [id \in DOMAIN d |-> d[id]]
    BY DEF Migrated
  <2> HIDE DEF c, d
  <2> QED
    BY <2>1, MigratedNodes DEF c, d
<1> HIDE DEF c, d
<1>2. DOMAIN c = DOMAIN d
  BY <1>1 DEF NodesAgree
<1>3. ASSUME NEW id \in DOMAIN d PROVE c[id] = d[id]
  <2>1. PICK x \in DOMAIN a : TreeSafe(x) = id /\ c[id] = a[x]
    BY <1>1, <1>2
  <2>2. PICK y \in DOMAIN b : TreeSafe(y) = id /\ d[id] = b[y]
    BY <1>1
  <2>3. PICK z \in DOMAIN a : TreeSafe(z) = TreeSafe(y) /\ b[y] = a[z]
    BY DEF NodesAgree
  <2>4. x \in NodeIds /\ z \in NodeIds
    BY DEF NodesAgree
  <2>5. /\ x \in MigratedIds /\ x[2] \in {"", "human/alice"}
        /\ z \in MigratedIds /\ z[2] \in {"", "human/alice"}
    BY <2>4, IdParts
  <2>6. x = z
    BY ZenonT(30), <2>1, <2>2, <2>3, <2>5, SameTreeSafe
  <2> QED
    BY <2>1, <2>2, <2>3, <2>6
<1>4. c = d
  BY <1>1, <1>2, <1>3
<1> QED
  BY <1>4 DEF c, d

(* r is what replay makes of its last state s.                              *)
Replayed(s, r, kind) ==
    /\ ReplayShape(r)
    /\ r.doc.category = s.doc.category /\ r.doc.status = s.doc.status
    /\ r.doc.nodes = s.doc.nodes
    /\ r.doc.tags = s.doc.tags \cup KindTag(kind)
    /\ Rest(s, r)

LEMMA AgreedDocs ==
    ASSUME NEW n \in Nat, NEW kind, NEW s, NEW t, Agree(s, t, kind, n),
           NEW r, Replayed(s, r, kind)
    PROVE  ProjectToDoc(t) = ProjectToDoc(r)
<1>1. ReplayShape(t) /\ ReplayShape(r)
  BY DEF Agree, Replayed
<1>2. Migrated(t.doc.nodes) = Migrated(r.doc.nodes)
  BY SameMigration DEF Agree, Replayed
<1>3. MigratedStatus(t.doc) = MigratedStatus(r.doc)
  BY DEF Agree, Replayed, MigratedStatus
<1>4. t.doc.tags \ BadTags = r.doc.tags \ BadTags /\ t.doc.category = r.doc.category
  BY DEF Agree, Replayed
<1>5. /\ t.doc.links = r.doc.links /\ t.doc.evidence = r.doc.evidence
      /\ t.doc.body = r.doc.body /\ t.doc.branch = r.doc.branch
  BY DEF Agree, Replayed, Rest
<1>6. ProjectToDoc(t) =
               [category |-> t.doc.category, status |-> MigratedStatus(t.doc),
                tags |-> t.doc.tags \ BadTags, nodes |-> Migrated(t.doc.nodes),
                links |-> t.doc.links, evidence |-> t.doc.evidence,
                body |-> t.doc.body, branch |-> t.doc.branch,
                visibility |-> "private", supersedes |-> {}]
  BY <1>1, ProjectFacts
<1>7. ProjectToDoc(r) =
               [category |-> r.doc.category, status |-> MigratedStatus(r.doc),
                tags |-> r.doc.tags \ BadTags, nodes |-> Migrated(r.doc.nodes),
                links |-> r.doc.links, evidence |-> r.doc.evidence,
                body |-> r.doc.body, branch |-> r.doc.branch,
                visibility |-> "private", supersedes |-> {}]
  BY <1>1, ProjectFacts
<1> QED
  BY <1>2, <1>3, <1>4, <1>5, <1>6, <1>7

LEMMA StartAgrees ==
    ASSUME NEW n \in Nat, NEW kind, NEW s, ReplayShape(s), NEW r, Replayed(s, r, kind),
           \A x \in DOMAIN s.doc.nodes : x \in NodeIds /\ x[1] <= n
    PROVE  Agree(s, Materialized(ProjectToDoc(r)), kind, n)
<1> DEFINE d == ProjectToDoc(r)
           t == Materialized(d)
<1>1. d = [category |-> r.doc.category, status |-> MigratedStatus(r.doc),
           tags |-> r.doc.tags \ BadTags, nodes |-> Migrated(r.doc.nodes),
           links |-> r.doc.links, evidence |-> r.doc.evidence,
           body |-> r.doc.body, branch |-> r.doc.branch,
           visibility |-> "private", supersedes |-> {}]
  BY ProjectFacts DEF Replayed
<1>2. t.doc = d /\ ReplayShape(t)
  <2>1. /\ t = [doc |-> t.doc, lifecycle |-> t.lifecycle, explicit |-> t.explicit,
                issues |-> t.issues]
        /\ t.doc = d
    <3> HIDE DEF d
    <3> QED
      BY DEF Materialized
  <2> HIDE DEF t, d
  <2> QED
    BY <1>1, <2>1 DEF ReplayShape
<1>3. NodesAgree(s.doc.nodes, Migrated(s.doc.nodes), n)
  BY MigratedAgree
<1> HIDE DEF t, d
<1>4. /\ d.category = s.doc.category /\ d.status = MigratedStatus(r.doc)
      /\ d.tags = (s.doc.tags \cup KindTag(kind)) \ BadTags
      /\ d.nodes = Migrated(s.doc.nodes)
      /\ d.links = s.doc.links /\ d.evidence = s.doc.evidence
      /\ d.body = s.doc.body /\ d.branch = s.doc.branch
  BY <1>1 DEF Replayed, Rest
<1>5. MigratedStatus(r.doc) = MigratedStatus(s.doc)
  BY DEF Replayed, MigratedStatus
<1>6. MigratedStatus(d) = MigratedStatus(s.doc)
  <2>1. \A category : BuiltInInitial(category) \in StatusesOf(category)
    BY DEF BuiltInInitial, StatusesOf, CanonicalStatuses
  <2>2. MigratedStatus(s.doc) \in StatusesOf(s.doc.category)
    BY <2>1 DEF MigratedStatus
  <2> QED
    BY <1>4, <1>5, <2>2 DEF MigratedStatus
<1>7. Agree(s, t, kind, n)
  BY <1>2, <1>3, <1>4, <1>6 DEF Agree, Rest
<1> QED
  BY <1>7 DEF t, d

(* The nodes that k events can have made.                                  *)
NodesBelow(s, k) == \A x \in DOMAIN s.doc.nodes : x \in NodeIds /\ x[1] <= k

LEMMA MadeIds ==
    ASSUME NEW k \in Nat, NEW ev, EventFits(ev, k + 1)
    PROVE  /\ ev.type = "say" => SayId(ev) \in NodeIds /\ SayId(ev)[1] <= k + 1
           /\ ev.type = "state" =>
                  \A i \in Approvals(ev) : i \in NodeIds /\ i[1] <= k + 1
<1>1. ev.id = k + 1 /\ k + 1 \in Nat /\ 1 \in Nat /\ 1 <= k + 1 /\ k + 1 <= k + 1
  <2>1. ev.id = k + 1
    BY DEF EventFits
  <2>2. k + 1 \in Nat /\ 1 \in Nat /\ 1 <= k + 1 /\ k + 1 <= k + 1
    OBVIOUS
  <2> QED
    BY <2>1, <2>2
<1>2. \A i \in Nat : <<i, "">>[1] = i /\ <<i, "human/alice">>[1] = i
  OBVIOUS
<1>3. ASSUME ev.type = "say" PROVE SayId(ev) \in NodeIds /\ SayId(ev)[1] <= k + 1
  <2>1. SayId(ev) = <<k + 1, "">> \/ SayId(ev) = <<1, "">>
    BY <1>1, <1>3 DEF EventFits, SayId
  <2> QED
    BY <1>1, <1>2, <2>1, IdsAreNamed
<1>4. ASSUME ev.type = "state", NEW i \in Approvals(ev)
      PROVE  i \in NodeIds /\ i[1] <= k + 1
  <2>1. PICK actor \in ToSet(ev.approvals) : i = <<ev.id, actor>>
    BY <1>4 DEF Approvals
  <2>2. ToSet(ev.approvals) \subseteq {"human/alice"}
    <3>1. ToSet(<<>>) \subseteq {"human/alice"}
      BY DEF ToSet
    <3>2. ToSet(<<"human/alice">>) \subseteq {"human/alice"}
      BY DEF ToSet
    <3> QED
      BY <1>4, <3>1, <3>2 DEF EventFits
  <2>3. i = <<k + 1, "human/alice">>
    BY <1>1, <2>1, <2>2
  <2> QED
    BY <1>1, <1>2, <2>3, IdsAreNamed
<1> QED
  BY <1>3, <1>4

LEMMA StepBelow ==
    ASSUME NEW k \in Nat, NEW s, ReplayShape(s), NodesBelow(s, k), NEW ev, EventFits(ev, k + 1)
    PROVE  NodesBelow(ApplyChecked(s, ev), k + 1)
<1> DEFINE u == ApplyChecked(s, ev)
           a == s.doc.nodes
           c == u.doc.nodes
<1>1. \A x \in DOMAIN a : x \in NodeIds /\ x[1] <= k + 1
  <2>1. \A x \in NodeIds : x[1] \in Nat
    BY IdParts
  <2> QED
    BY <2>1 DEF NodesBelow
<1>2. CASE Missing(ev) # None
  <2> DEFINE details == {Missing(ev)}
  <2>1. u = Report(s, "field", ev, details)
    BY <1>2 DEF ApplyChecked
  <2> HIDE DEF details, u
  <2>2. c = a
    BY <2>1, ReportFacts
  <2> HIDE DEF a, c
  <2>3. \A x \in DOMAIN c : x \in NodeIds /\ x[1] <= k + 1
    BY <1>1, <2>2
  <2> QED
    BY <2>3 DEF NodesBelow, c, u
<1>3. CASE Missing(ev) = None
  <2> DEFINE made == IF ev.type = "say" THEN {SayId(ev)}
                     ELSE IF ev.type = "state" THEN Approvals(ev) ELSE {}
  <2>1. u = ApplyEvent(s, ev)
    BY <1>3 DEF ApplyChecked
  <2>2. DOMAIN c = DOMAIN a \cup made
    <3> HIDE DEF u
    <3>1. CASE ev.type = "say"
      BY <2>1, <3>1, SayAdds DEF Adds
    <3>2. CASE ev.type = "state"
      BY <2>1, <3>2, StateAdds DEF Adds
    <3>3. CASE ev.type = "revise-body"
      BY <2>1, <3>3, RevisedNodes
    <3>4. CASE ev.type \in FlagTypes \cup {"edit", "retype"}
      <4>1. DOMAIN c = DOMAIN a
        BY <2>1, <3>4, RenewedNodes
      <4>2. made = {}
        BY <3>4 DEF FlagTypes
      <4> QED
        BY <4>1, <4>2
    <3>5. CASE ev.type \notin FlagTypes \cup {"state", "say", "revise-body", "edit", "retype"}
      BY <2>1, <3>5, NodesKept
    <3> QED
      BY <3>1, <3>2, <3>3, <3>4, <3>5
  <2>3. \A x \in made : x \in NodeIds /\ x[1] <= k + 1
    BY MadeIds
  <2> HIDE DEF made, a, c
  <2>4. \A x \in DOMAIN c : x \in NodeIds /\ x[1] <= k + 1
    BY <1>1, <2>2, <2>3
  <2> QED
    BY <2>4 DEF NodesBelow, c
<1> QED
  BY <1>2, <1>3

LEMMA LaterResumes ==
    ASSUME ChainInv, PureEvents, NEW n \in 1..Len(chain), ~CutMatters(n),
           NEW i \in (n + 1)..Len(chain)
    PROVE  Resumes(chain[i].event, n)
<1> DEFINE ev == chain[i].event
<1>1. i \in DOMAIN chain /\ i \in Nat /\ i > n /\ chain[i].shape = "event"
  BY PureChain DEF PureEvents
<1>2. EventFits(ev, i)
  BY <1>1 DEF ChainInv
<1>3. /\ ev.lifecycle = None /\ ev.remove \cap {"bug", "decision"} = {}
      /\ ev.node = None \/ TreeSafe(ev.node) = ev.node
      /\ \A k \in DOMAIN ev.incorporated : TreeSafe(ev.incorporated[k]) = ev.incorporated[k]
  BY DEF CutMatters
<1> HIDE DEF ev
<1>4. ev.node = None \/ ev.node \in PlainIds
  BY <1>2, <1>3, IdParts DEF EventFits, Named
<1>5. \A k \in DOMAIN ev.incorporated : ev.incorporated[k] \in PlainIds
  BY <1>2, <1>3, IdParts DEF EventFits, Named
<1>6. ToSet(ev.incorporated) \subseteq PlainIds
  BY <1>5 DEF ToSet
<1>7. Resumes(ev, n)
  BY <1>1, <1>2, <1>3, <1>4, <1>6 DEF Resumes, EventFits
<1> QED
  BY <1>7 DEF ev

(* The part of a chain of events below a cut, replayed.                     *)
LEMMA BelowFacts ==
    ASSUME ChainInv, PureEvents, NEW n \in 1..Len(chain)
    PROVE  LET below == SubSeq(chain, 1, n)
           IN  /\ below \in Seq(ToSet(chain)) /\ below # <<>> /\ Len(below) = n
               /\ \A i \in 1..n : below[i] = chain[i]
               /\ \A i \in DOMAIN below : below[i].shape = "event"
<1> DEFINE below == SubSeq(chain, 1, n)
           C == ToSet(chain)
<1>1. chain \in Seq(C) /\ Len(chain) \in Nat
  BY DEF ChainInv
<1> HIDE DEF C
<1>2. below \in Seq(C) /\ Len(below) = n /\ \A i \in 1..n : below[i] = chain[i]
  BY <1>1
<1>3. DOMAIN below = 1..n /\ 1..n \subseteq DOMAIN chain
  BY <1>1, <1>2
<1> HIDE DEF below
<1>4. \A i \in DOMAIN below : below[i].shape = "event"
  BY <1>2, <1>3 DEF PureEvents
<1>5. below # <<>>
  <2>1. Len(<<>>) = 0
    OBVIOUS
  <2> QED
    BY <1>2, <2>1
<1> QED
  BY <1>2, <1>4, <1>5 DEF below, C

LEMMA EventsAt ==
    ASSUME NEW C, NEW c \in Seq(C), NEW k \in 0..Len(c),
           \A i \in (k + 1)..Len(c) : c[i].shape = "event"
    PROVE  /\ DOMAIN EventsAbove(c, k) = 1..(Len(c) - k)
           /\ \A i \in 1..(Len(c) - k) : EventsAbove(c, k)[i] = c[k + i].event
<1> DEFINE T == {c[i].event : i \in DOMAIN c}
           q == EventsAbove(c, k)
<1>1. \A i \in (k + 1)..Len(c) : c[i].shape = "event" /\ c[i].event \in T
  BY Len(c) \in Nat, DOMAIN c = 1..Len(c)
<1> HIDE DEF T
<1>2. /\ q \in Seq(T) /\ Len(q) = Len(c) - k
      /\ \A i \in 1..(Len(c) - k) : q[i] = c[k + i].event
  BY <1>1, EventsOf
<1> HIDE DEF q
<1>3. DOMAIN q = 1..(Len(c) - k)
  BY <1>2
<1> QED
  BY <1>2, <1>3 DEF q

LEMMA Joined ==
    ASSUME NEW C, NEW p \in Seq(C), NEW q \in Seq(C)
    PROVE  /\ p \o q \in Seq(C) /\ Len(p \o q) = Len(p) + Len(q)
           /\ \A i \in 1..Len(p) : (p \o q)[i] = p[i]
           /\ \A i \in 1..Len(q) : (p \o q)[Len(p) + i] = q[i]
  OBVIOUS

(* The chain with a migration after n of its events.                        *)
LEMMA CutFacts ==
    ASSUME ChainInv, PureEvents, NEW n \in 1..Len(chain)
    PROVE  LET c == CutAt(n)
               d == ProjectToDoc(ReplayChain(SubSeq(chain, 1, n)))
           IN  /\ LastSnapshot(c) = n + 1 /\ c[n + 1].doc = d
               /\ DOMAIN EventTail(c) = 1..(Len(chain) - n)
               /\ \A m \in 1..(Len(chain) - n) : EventTail(c)[m] = chain[n + m].event
<1> DEFINE N == Len(chain)
           d == ProjectToDoc(ReplayChain(SubSeq(chain, 1, n)))
           snapshot == SnapshotCommit(d)
           all == ToSet(chain) \cup {snapshot}
           below == SubSeq(chain, 1, n)
           above == SubSeq(chain, n + 1, N)
           c == Append(below, snapshot) \o above
<1>1. N \in Nat /\ chain \in Seq(all) /\ snapshot \in all /\ n \in 1..N
  BY DEF ChainInv
<1>2. CutAt(n) = c
  BY DEF CutAt
<1>3. snapshot.shape = "snapshot" /\ snapshot.doc = d
  BY DEF SnapshotCommit
<1> HIDE DEF d, snapshot, all
<1>4. /\ below \in Seq(all) /\ Len(below) = n /\ \A i \in 1..n : below[i] = chain[i]
      /\ above \in Seq(all) /\ Len(above) = N - n
      /\ \A i \in 1..(N - n) : above[i] = chain[n + i]
  BY <1>1
<1> HIDE DEF N, below, above
<1>5. /\ c \in Seq(all) /\ Len(c) = N + 1
      /\ \A i \in 1..n : c[i] = below[i]
      /\ c[n + 1] = snapshot
      /\ \A i \in 1..(N - n) : c[(n + 1) + i] = above[i]
  <2> DEFINE mid == Append(below, snapshot)
  <2>1. /\ mid \in Seq(all) /\ Len(mid) = n + 1 /\ mid[n + 1] = snapshot
        /\ \A i \in 1..n : mid[i] = below[i]
    BY <1>1, <1>4
  <2> HIDE DEF mid
  <2>2. /\ mid \o above \in Seq(all) /\ Len(mid \o above) = (n + 1) + (N - n)
        /\ \A i \in 1..(n + 1) : (mid \o above)[i] = mid[i]
        /\ \A i \in 1..(N - n) : (mid \o above)[(n + 1) + i] = above[i]
    <3> DEFINE rest == above
    <3>0. mid \in Seq(all) /\ rest \in Seq(all) /\ rest = above
      BY <1>4, <2>1
    <3> HIDE DEF rest
    <3>1. mid \o above \in Seq(all) /\ Len(mid \o above) = Len(mid) + Len(above)
      <4>1. mid \o rest \in Seq(all)
        BY <3>0
      <4>2. Len(mid \o rest) = Len(mid) + Len(rest)
        BY <3>0
      <4> QED
        BY <3>0, <4>1, <4>2
    <3>2. \A i \in 1..Len(mid) : (mid \o above)[i] = mid[i]
      BY <1>4, <2>1
    <3>3. \A i \in 1..Len(above) : (mid \o above)[Len(mid) + i] = above[i]
      BY <1>4, <2>1
    <3> QED
      BY <1>4, <2>1, <3>1, <3>2, <3>3
  <2>3. (n + 1) + (N - n) = N + 1 /\ n + 1 \in 1..(n + 1) /\ 1..n \subseteq 1..(n + 1)
    BY <1>1
  <2>4. c = mid \o above
    BY DEF mid
  <2> HIDE DEF c
  <2> QED
    BY <2>1, <2>2, <2>3, <2>4
<1> HIDE DEF c
<1>6. /\ \A i \in 1..n : c[i].shape = "event"
      /\ \A i \in 1..(N - n) : c[(n + 1) + i].shape = "event"
  <2>1. \A i \in 1..N : chain[i].shape = "event"
    BY <1>1 DEF PureEvents, N
  <2>2. \A i \in 1..(N - n) : n + i \in 1..N
    BY <1>1
  <2>3. 1..n \subseteq 1..N
    BY <1>1
  <2>4. \A i \in 1..n : c[i] = chain[i]
    BY <1>4, <1>5
  <2>5. \A i \in 1..(N - n) : c[(n + 1) + i] = chain[n + i]
    BY <1>4, <1>5
  <2>6. \A i \in 1..n : c[i].shape = "event"
    BY <2>1, <2>3, <2>4
  <2>7. \A i \in 1..(N - n) : chain[n + i].shape = "event"
    BY <2>1, <2>2
  <2>8. \A i \in 1..(N - n) : c[(n + 1) + i].shape = "event"
    BY <2>5, <2>7
  <2> QED
    BY <2>6, <2>8
<1>7. \A i \in (n + 2)..(N + 1) : c[i].shape = "event"
  <2> TAKE i \in (n + 2)..(N + 1)
  <2>1. i - (n + 1) \in 1..(N - n) /\ (n + 1) + (i - (n + 1)) = i
    BY <1>1
  <2> QED
    BY <1>6, <2>1
<1>8. Snapshots(c) = {n + 1}
  <2>1. DOMAIN c = 1..(N + 1)
    BY <1>1, <1>5
  <2>2. \A i \in DOMAIN c : i = n + 1 \/ c[i].shape = "event"
    BY <1>1, <1>6, <1>7, <2>1
  <2>3. n + 1 \in DOMAIN c
    BY <1>1, <2>1
  <2> QED
    BY <1>3, <1>5, <2>2, <2>3 DEF Snapshots
<1>9. LastSnapshot(c) = n + 1
  BY <1>1, <1>8 DEF LastSnapshot
<1>10. /\ DOMAIN EventsAbove(c, n + 1) = 1..(Len(c) - (n + 1))
       /\ \A i \in 1..(Len(c) - (n + 1)) : EventsAbove(c, n + 1)[i] = c[(n + 1) + i].event
  <2> DEFINE k == n + 1
  <2>1. k \in 0..Len(c) /\ k + 1 = n + 2
    BY <1>1, <1>5
  <2> HIDE DEF k
  <2>2. \A i \in (k + 1)..Len(c) : c[i].shape = "event"
    BY <1>5, <1>7, <2>1
  <2>3. /\ DOMAIN EventsAbove(c, k) = 1..(Len(c) - k)
        /\ \A i \in 1..(Len(c) - k) : EventsAbove(c, k)[i] = c[k + i].event
    BY <1>5, <2>1, <2>2, EventsAt
  <2> QED
    BY <2>3 DEF k
<1> DEFINE tail == EventTail(c)
<1>11. tail = EventsAbove(c, n + 1)
  BY <1>9 DEF EventTail
<1>12. DOMAIN tail = 1..(N - n)
  <2>1. Len(c) - (n + 1) = N - n
    BY <1>1, <1>5
  <2> HIDE DEF tail
  <2> QED
    BY <1>10, <1>11, <2>1
<1>13. \A m \in 1..(N - n) : tail[m] = chain[n + m].event
  <2>1. Len(c) - (n + 1) = N - n
    BY <1>1, <1>5
  <2> HIDE DEF tail
  <2>2. \A m \in 1..(N - n) : tail[m] = c[(n + 1) + m].event
    BY <1>10, <1>11, <2>1
  <2>3. \A m \in 1..(N - n) : c[(n + 1) + m] = chain[n + m]
    BY <1>4, <1>5
  <2> QED
    BY <2>2, <2>3
<1> HIDE DEF tail
<1> QED
  BY <1>2, <1>3, <1>5, <1>9, <1>12, <1>13 DEF N, d, tail

(* Replaying the events below a cut goes through the states that replaying  *)
(* all of them goes through first.                                         *)
LEMMA SamePrefix ==
    ASSUME NEW C, NEW c \in Seq(C), NEW n \in 1..Len(c),
           NEW h, Replays(c, h), NEW g, Replays(SubSeq(c, 1, n), g)
    PROVE  g[n - 1] = h[n - 1]
<1> DEFINE below == SubSeq(c, 1, n)
           k == n - 1
           q == [m \in 1..k |-> c[m + 1].event]
<1>1. /\ Len(c) \in Nat /\ k \in Nat /\ Len(below) = n
      /\ \A i \in 1..n : below[i] = c[i]
  OBVIOUS
<1>2. /\ g[0] = Seed(below[1].event)
      /\ \A m \in 1..(Len(below) - 1) : g[m] = ApplyChecked(g[m - 1], below[m + 1].event)
  BY DEF Replays
<1>3. /\ h[0] = Seed(c[1].event)
      /\ \A m \in 1..(Len(c) - 1) : h[m] = ApplyChecked(h[m - 1], c[m + 1].event)
  BY DEF Replays
<1> HIDE DEF below
<1>4. g[0] = h[0]
  BY <1>1, <1>2, <1>3
<1>5. \A m \in 1..k : g[m] = ApplyChecked(g[m - 1], q[m])
  BY <1>1, <1>2
<1>6. \A m \in 1..k : h[m] = ApplyChecked(h[m - 1], q[m])
  BY <1>1, <1>3
<1>7. k \in Nat /\ k \in 0..k
  BY <1>1
<1> HIDE DEF k, q
<1> DEFINE Good == {m \in Nat : m <= k => g[m] = h[m]}
<1>8. ASSUME NEW m \in Nat, m \in Good PROVE m + 1 \in Good
  <2> SUFFICES ASSUME m + 1 <= k PROVE g[m + 1] = h[m + 1]
    OBVIOUS
  <2>1. m + 1 \in 1..k /\ (m + 1) - 1 = m /\ g[m] = h[m]
    BY <1>7, <1>8
  <2> QED
    BY <1>5, <1>6, <2>1
<1>9. 0 \in Good
  BY <1>4
<1> HIDE DEF Good
<1>10. Nat \subseteq Good
  BY <1>8, <1>9, SetInduction
<1>11. g[k] = h[k]
  BY <1>7, <1>10 DEF Good
<1> QED
  BY <1>11 DEF k

(* A replay that starts from a snapshot.                                    *)
LEMMA ResumedRun ==
    ASSUME NEW c, LastSnapshot(c) # 0, NEW k \in Nat, DOMAIN EventTail(c) = 1..k
    PROVE  \E g : /\ g[0] = Materialized(c[LastSnapshot(c)].doc)
                  /\ \A m \in 1..k : g[m] = ApplyChecked(g[m - 1], EventTail(c)[m])
                  /\ ReplayChain(c) = g[k]
<1> DEFINE base == Materialized(c[LastSnapshot(c)].doc)
           tail == EventTail(c)
<1>1. ReplayChain(c) = ApplyAll(base, tail)
  BY DEF ReplayChain
<1> HIDE DEF base, tail
<1>2. \E g : /\ g[0] = base
             /\ \A m \in 1..k : g[m] = ApplyChecked(g[m - 1], tail[m])
             /\ ApplyAll(base, tail) = g[k]
  BY CheckedRuns DEF tail
<1> QED
  BY <1>1, <1>2 DEF base, tail

LEMMA ReplayBelow ==
    ASSUME ChainInv, PureEvents, NEW h, Replays(chain, h)
    PROVE  \A m \in 0..(Len(chain) - 1) : ReplayShape(h[m]) /\ NodesBelow(h[m], m + 1)
<1> DEFINE N == Len(chain)
<1>1. N \in Nat \ {0} /\ DOMAIN chain = 1..N /\ FirstCreates(chain[1])
  BY PureChain DEF ChainInv
<1> DEFINE Good == {m \in Nat : m <= N - 1 => ReplayShape(h[m]) /\ NodesBelow(h[m], m + 1)}
<1>2. 0 \in Good
  <2> DEFINE s == Seed(chain[1].event)
  <2>1. ReplayShape(s) /\ DOMAIN s.doc.nodes = {}
    BY <1>1, SeedFacts DEF FirstCreates
  <2>2. h[0] = s
    BY DEF Replays
  <2> HIDE DEF s
  <2> QED
    BY <2>1, <2>2 DEF NodesBelow
<1>3. ASSUME NEW m \in Nat, m \in Good PROVE m + 1 \in Good
  <2> SUFFICES ASSUME m + 1 <= N - 1
               PROVE  ReplayShape(h[m + 1]) /\ NodesBelow(h[m + 1], (m + 1) + 1)
    OBVIOUS
  <2> DEFINE k == m + 1
             ev == chain[k + 1].event
  <2>1. k \in Nat /\ k \in 1..(N - 1) /\ k - 1 = m /\ k + 1 \in DOMAIN chain
    BY <1>1
  <2>2. ReplayShape(h[m]) /\ NodesBelow(h[m], k)
    BY <1>1, <1>3
  <2>3. h[k] = ApplyChecked(h[m], ev)
    BY <2>1 DEF Replays
  <2>4. EventFits(ev, k + 1)
    BY <2>1 DEF ChainInv, PureEvents
  <2> HIDE DEF k, ev
  <2>5. NodesBelow(h[k], k + 1)
    BY <2>1, <2>2, <2>3, <2>4, StepBelow
  <2>6. Grown(h[m], h[k])
    BY <2>2, <2>3, StepFacts
  <2> QED
    BY <2>5, <2>6 DEF Grown, k
<1> HIDE DEF Good
<1>4. Nat \subseteq Good
  BY <1>2, <1>3, SetInduction
<1> QED
  BY <1>1, <1>4 DEF Good

(* After the cut the two replays go on in agreement.                        *)
LEMMA ReplayResumed ==
    ASSUME ChainInv, PureEvents, NEW n \in 1..Len(chain), ~CutMatters(n), NEW kind,
           NEW h, Replays(chain, h), NEW g, Agree(h[n - 1], g[0], kind, n),
           \A m \in 1..(Len(chain) - n) : g[m] = ApplyChecked(g[m - 1], chain[n + m].event)
    PROVE  Agree(h[Len(chain) - 1], g[Len(chain) - n], kind, n)
<1> DEFINE N == Len(chain)
<1>1. N \in Nat /\ n \in Nat /\ n >= 1 /\ n <= N
  BY PureChain
<1> DEFINE Good == {m \in Nat : m <= N - n => Agree(h[(n - 1) + m], g[m], kind, n)}
<1>2. 0 \in Good
  <2>1. (n - 1) + 0 = n - 1
    BY <1>1
  <2> QED
    BY <2>1
<1>3. ASSUME NEW m \in Nat, m \in Good PROVE m + 1 \in Good
  <2> SUFFICES ASSUME m + 1 <= N - n
               PROVE  Agree(h[(n - 1) + (m + 1)], g[m + 1], kind, n)
    OBVIOUS
  <2> DEFINE i == n + (m + 1)
             ev == chain[i].event
             s == h[(n - 1) + m]
             t == g[m]
  <2>1. /\ i \in (n + 1)..N /\ m + 1 \in 1..(N - n) /\ (m + 1) - 1 = m
        /\ (n - 1) + (m + 1) \in 1..(N - 1)
        /\ ((n - 1) + (m + 1)) - 1 = (n - 1) + m /\ ((n - 1) + (m + 1)) + 1 = i
    BY <1>1
  <2>2. Agree(s, t, kind, n)
    BY <1>1, <1>3
  <2>3. Resumes(ev, n)
    BY <2>1, LaterResumes
  <2>4. g[m + 1] = ApplyChecked(t, ev)
    BY <2>1
  <2>5. h[(n - 1) + (m + 1)] = ApplyChecked(s, ev)
    BY <2>1 DEF Replays
  <2> HIDE DEF i, ev, s, t
  <2>6. Agree(ApplyChecked(s, ev), ApplyChecked(t, ev), kind, n)
    BY <1>1, <2>2, <2>3, StepAgrees
  <2> QED
    BY <2>4, <2>5, <2>6
<1> HIDE DEF Good
<1>4. Nat \subseteq Good
  BY <1>2, <1>3, SetInduction
<1>5. N - n \in Nat /\ (n - 1) + (N - n) = N - 1 /\ N - n <= N - n
  BY <1>1
<1>6. N - n \in Good
  BY <1>4, <1>5
<1> QED
  BY <1>5, <1>6 DEF Good

LEMMA ReplayedOf ==
    ASSUME NEW C, NEW c \in Seq(C), c # <<>>, \A i \in DOMAIN c : c[i].shape = "event"
    PROVE  \E h : /\ Replays(c, h)
                  /\ ReplayShape(h[Len(c) - 1]) =>
                         Replayed(h[Len(c) - 1], ReplayChain(c), c[1].event.kind)
<1>1. PICK h : /\ Replays(c, h)
               /\ LET s == h[Len(c) - 1]
                      r == ReplayChain(c)
                  IN  ReplayShape(s) =>
                        /\ ReplayShape(r)
                        /\ r.lifecycle = s.lifecycle /\ r.explicit = s.explicit
                        /\ r.doc.category = s.doc.category /\ r.doc.status = s.doc.status
                        /\ r.doc.nodes = s.doc.nodes
                        /\ r.doc.tags = s.doc.tags \cup KindTag(c[1].event.kind)
                        /\ Rest(s, r) /\ (r.issues = {} => Quiet(s))
  BY ReplayOf
<1> QED
  BY <1>1 DEF Replayed

(* A 2.x client that goes on after a migration loses nothing, for chains of *)
(* any length and a migration after any of their events (chain_replay.rs,  *)
(* migrate.rs).                                                            *)
THEOREM ChainCutoverAgrees == ChainSpec => []CutoverAgrees
<1>1. ASSUME ChainInv, PureEvents, NEW n \in 1..Len(chain), ~CutMatters(n)
      PROVE  ProjectToDoc(ReplayChain(CutAt(n))) = ProjectToDoc(ReplayChain(chain))
  <2> DEFINE N == Len(chain)
             below == SubSeq(chain, 1, n)
             cut == CutAt(n)
             kind == chain[1].event.kind
             d == ProjectToDoc(ReplayChain(below))
             base == Materialized(d)
  <2>1. N \in Nat /\ n \in Nat /\ n >= 1 /\ n <= N
    BY <1>1, PureChain
  <2>2. /\ below \in Seq(ToSet(chain)) /\ below # <<>> /\ Len(below) = n
        /\ \A i \in 1..n : below[i] = chain[i]
        /\ \A i \in DOMAIN below : below[i].shape = "event"
    BY <1>1, BelowFacts
  <2>3. below[1].event.kind = kind
    BY <2>1, <2>2
  <2>4. PICK h : /\ Replays(chain, h)
                 /\ ReplayShape(h[N - 1]) => Replayed(h[N - 1], ReplayChain(chain), kind)
    BY <1>1, ReplayedOf DEF ChainInv, PureEvents
  <2>5. PICK p : /\ Replays(below, p)
                 /\ ReplayShape(p[n - 1]) => Replayed(p[n - 1], ReplayChain(below), kind)
    <3> HIDE DEF below, kind
    <3> QED
      BY <2>2, <2>3, ReplayedOf
  <2>6. p[n - 1] = h[n - 1]
    BY <1>1, <2>4, <2>5, SamePrefix DEF ChainInv
  <2>7. \A m \in 0..(N - 1) : ReplayShape(h[m]) /\ NodesBelow(h[m], m + 1)
    BY <1>1, <2>4, ReplayBelow
  <2>8. Agree(h[n - 1], base, kind, n)
    <3>1. n - 1 \in 0..(N - 1) /\ (n - 1) + 1 = n
      BY <2>1
    <3>2. ReplayShape(h[n - 1]) /\ NodesBelow(h[n - 1], n)
      BY <2>7, <3>1
    <3>3. Replayed(h[n - 1], ReplayChain(below), kind)
      BY <2>5, <2>6, <3>2
    <3> HIDE DEF below, kind
    <3> QED
      BY <2>1, <3>2, <3>3, StartAgrees DEF NodesBelow
  <2>9. /\ LastSnapshot(cut) = n + 1 /\ cut[n + 1].doc = d
        /\ DOMAIN EventTail(cut) = 1..(N - n)
        /\ \A m \in 1..(N - n) : EventTail(cut)[m] = chain[n + m].event
    BY <1>1, CutFacts
  <2>10. N - n \in Nat
    BY <2>1
  <2>11. PICK g : /\ g[0] = base
                  /\ \A m \in 1..(N - n) : g[m] = ApplyChecked(g[m - 1], EventTail(cut)[m])
                  /\ ReplayChain(cut) = g[N - n]
    <3>1. LastSnapshot(cut) # 0
      BY <2>1, <2>9
    <3>2. \E g : /\ g[0] = Materialized(cut[LastSnapshot(cut)].doc)
                 /\ \A m \in 1..(N - n) : g[m] = ApplyChecked(g[m - 1], EventTail(cut)[m])
                 /\ ReplayChain(cut) = g[N - n]
      <4> HIDE DEF cut
      <4> QED
        BY <2>9, <2>10, <3>1, ResumedRun
    <3>3. Materialized(cut[LastSnapshot(cut)].doc) = base
      <4> HIDE DEF cut, d
      <4> QED
        BY <2>9
    <3> HIDE DEF base, cut
    <3> QED
      BY <3>2, <3>3
  <2> HIDE DEF cut, d, base, kind, below
  <2>12. \A m \in 1..(N - n) : g[m] = ApplyChecked(g[m - 1], chain[n + m].event)
    BY <2>9, <2>11
  <2>13. Agree(h[N - 1], g[N - n], kind, n)
    BY <1>1, <2>4, <2>8, <2>11, <2>12, ReplayResumed
  <2>14. Replayed(h[N - 1], ReplayChain(chain), kind)
    BY <2>4, <2>13 DEF Agree
  <2>15. ProjectToDoc(g[N - n]) = ProjectToDoc(ReplayChain(chain))
    BY <2>1, <2>13, <2>14, AgreedDocs
  <2> QED
    BY <2>11, <2>15 DEF cut
<1>2. ChainInv => CutoverAgrees
  BY <1>1 DEF CutoverAgrees
<1> QED
  BY <1>2, ChainKeepsInv, PTL

-----------------------------------------------------------------------------
(* History: what the commits hold.                                         *)

NodeStates == {"open", "resolved", "incorporated", None}
Documents == [status : CanonicalStatuses \cup {None}, body : BodyTexts \cup {Empty},
              nodes : [HistoryNodes -> NodeStates]]
Verbs == {"create", "state", "node", "revise", "evidence", "migrate", "revise-body", "say"}
Words == CanonicalStatuses \cup {None, "->", "thread", "to", "3.0", "body", "of", "add",
                                 "lifecycle:", "resolved"}
Subjects == [tagged : BOOLEAN, verb : Verbs, args : Seq(Words)]
Changes == [kind : {"state"}, to : CanonicalStatuses] \cup [kind : {"body"}, to : BodyTexts]
           \cup [kind : {"node"}, node : HistoryNodes, to : {"open"}]
Commits == [form : {"snapshot"}, doc : Documents, subject : Subjects]
           \cup [form : {"event"}, doc : {Document(None, Empty, NoNodes)}, change : Changes,
                 subject : Subjects]

HistoryType == log \in Seq(Commits) /\ log # <<>>

LEMMA BlankDocuments ==
    /\ NoNodes \in [HistoryNodes -> NodeStates]
    /\ Document(None, Empty, NoNodes) \in Documents
    /\ \A body \in BodyTexts \cup {Empty} :
           Document(BuiltInInitial(ThreadFlavor), body, NoNodes) \in Documents
<1>1. NoNodes \in [HistoryNodes -> NodeStates]
  BY DEF NoNodes, NodeStates
<1>2. BuiltInInitial(ThreadFlavor) \in CanonicalStatuses
  BY DEF BuiltInInitial, CanonicalStatuses
<1> QED
  BY <1>1, <1>2 DEF Document, Documents

LEMMA AppliedType ==
    ASSUME NEW doc \in Documents, NEW commit \in Commits
    PROVE  Applied(doc, commit) \in Documents
<1>1. CASE commit.form = "snapshot"
  BY <1>1 DEF Applied, Commits
<1>2. CASE commit.form # "snapshot"
  <2>1. commit.change \in Changes
    BY <1>2 DEF Commits
  <2>2. CASE commit.change.kind = "state"
    <3>1. commit.change.to \in CanonicalStatuses
      BY <2>1, <2>2 DEF Changes
    <3> QED
      BY <1>2, <2>2, <3>1 DEF Applied, Documents
  <2>3. CASE commit.change.kind = "body"
    <3>1. commit.change.to \in BodyTexts
      BY <2>1, <2>3 DEF Changes
    <3> QED
      BY <1>2, <2>3, <3>1 DEF Applied, Documents
  <2>4. CASE commit.change.kind = "node"
    <3>1. commit.change.node \in HistoryNodes /\ commit.change.to \in NodeStates
      BY <2>1, <2>4 DEF Changes, NodeStates
    <3>2. Applied(doc, commit) = [doc EXCEPT !.nodes[commit.change.node] = commit.change.to]
      BY <1>2, <2>4 DEF Applied
    <3> QED
      BY <3>1, <3>2 DEF Documents
  <2> QED
    BY <2>1, <2>2, <2>3, <2>4 DEF Changes
<1> QED
  BY <1>1, <1>2

(* Replay of a chain goes through documents, one per commit.               *)
LEMMA DocumentsRun ==
    ASSUME NEW q \in Seq(Commits), NEW base \in Documents
    PROVE  \E h \in [0..Len(q) -> Documents] :
              /\ h[0] = base
              /\ \A m \in 1..Len(q) : h[m] = Applied(h[m - 1], q[m])
              /\ FoldLeft(Applied, base, q) = h[Len(q)]
<1> DEFINE n == Len(q)
<1>1. n \in Nat /\ DOMAIN q = 1..n /\ \A i \in 1..n : q[i] \in Commits
  OBVIOUS
<1>2. PICK h : /\ h[0] = base
               /\ \A m \in 1..n : h[m] = Applied(h[m - 1], q[m])
               /\ AppliedAll(base, q) = h[n]
  <2> HIDE DEF n
  <2> QED
    BY <1>1, AppliedRuns
<1>3. \A m \in 0..n : h[m] \in Documents
  <2>1. \A m \in 1..n : h[m - 1] \in Documents => h[m] \in Documents
    BY <1>1, <1>2, AppliedType
  <2> QED
    BY <1>1, <1>2, <2>1, StepByStep
<1> DEFINE f == [m \in 0..n |-> h[m]]
<1>4. f \in [0..n -> Documents] /\ f[0] = base /\ f[n] = h[n]
  BY <1>1, <1>2, <1>3
<1>5. \A m \in 1..n : f[m] = Applied(f[m - 1], q[m])
  BY <1>1, <1>2
<1> QED
  BY <1>2, <1>4, <1>5 DEF AppliedAll

(* The body revisions of diff: bodies, as many as changes.                 *)
Bodies == BodyTexts \cup {Empty}

LEMMA RevisedType ==
    ASSUME NEW revisions \in Seq(Bodies), NEW commit \in Commits
    PROVE  /\ Revised(revisions, commit) \in Seq(Bodies)
           /\ Last(Revised(revisions, commit)) = commit.doc.body
<1>1. commit.doc.body \in Bodies
  BY BlankDocuments DEF Commits, Documents, Bodies
<1> QED
  BY <1>1 DEF Revised, Last

LEMMA RevisionsRun ==
    ASSUME NEW q \in Seq(Commits)
    PROVE  \E h \in [0..Len(q) -> Seq(Bodies)] :
              /\ h[0] = <<>>
              /\ \A m \in 1..Len(q) : h[m] = Revised(h[m - 1], q[m])
              /\ FoldLeft(Revised, <<>>, q) = h[Len(q)]
<1> DEFINE n == Len(q)
           V == Seq(Bodies)
<1>1. n \in Nat /\ DOMAIN q = 1..n /\ \A i \in 1..n : q[i] \in Commits
  OBVIOUS
<1>2. PICK h : /\ h[0] = <<>>
               /\ \A m \in 1..n : h[m] = Revised(h[m - 1], q[m])
               /\ FoldLeft(Revised, <<>>, q) = h[n]
  BY <1>1, RevisedRuns
<1>3. \A m \in 0..n : h[m] \in V
  <2>1. \A m \in 1..n : h[m - 1] \in V => h[m] \in V
    BY <1>1, <1>2, RevisedType
  <2>2. <<>> \in V
    OBVIOUS
  <2> HIDE DEF V
  <2> QED
    BY <1>1, <1>2, <2>1, <2>2, StepByStep
<1> DEFINE f == [m \in 0..n |-> h[m]]
<1>4. f \in [0..n -> V] /\ f[0] = <<>> /\ f[n] = h[n]
  <2> HIDE DEF V
  <2> QED
    BY <1>1, <1>2, <1>3
<1>5. \A m \in 1..n : f[m] = Revised(f[m - 1], q[m])
  BY <1>1, <1>2
<1> QED
  BY <1>2, <1>4, <1>5

-----------------------------------------------------------------------------
(* Every writer leaves the chain so.                                       *)

LEMMA ShownType ==
    ASSUME HistoryType
    PROVE  /\ Shown \in Documents
           /\ Newest \in Commits
           /\ Newest.form = "snapshot" => Shown = Newest.doc
<1> DEFINE base == Document(BuiltInInitial(ThreadFlavor), Empty, NoNodes)
<1>1. base \in Documents
  BY BlankDocuments
<1>2. log \in Seq(Commits) /\ Len(log) \in Nat \ {0} /\ SubSeq(log, 1, Len(log)) = log
  BY DEF HistoryType
<1>3. PICK h \in [0..Len(log) -> Documents] :
         /\ \A m \in 1..Len(log) : h[m] = Applied(h[m - 1], log[m])
         /\ FoldLeft(Applied, base, log) = h[Len(log)]
  BY <1>1, <1>2, DocumentsRun
<1>4. Shown = h[Len(log)]
  BY <1>2, <1>3 DEF Shown, ShownAfter
<1> HIDE DEF base
<1>5. Newest \in Commits /\ Shown = Applied(h[Len(log) - 1], Newest)
  BY <1>2, <1>3, <1>4 DEF Newest
<1>6. Shown \in Documents
  BY <1>2, <1>3, <1>4
<1>7. Newest.form = "snapshot" => Shown = Newest.doc
  BY <1>5 DEF Applied
<1> QED
  BY <1>5, <1>6, <1>7

LEMMA AppendKeeps ==
    ASSUME HistoryType, NEW commit \in Commits, log' = Append(log, commit)
    PROVE  HistoryType'
  BY DEF HistoryType

LEMMA SnapshotKeeps ==
    ASSUME HistoryType, NEW doc \in Documents, NEW subject \in Subjects,
           Commit(Snapshot(doc, subject))
    PROVE  HistoryType'
<1>1. Snapshot(doc, subject) \in Commits
  BY DEF Snapshot, Commits
<1> QED
  BY <1>1, AppendKeeps DEF Commit

LEMMA WriteKeeps ==
    ASSUME HistoryType, NEW doc \in Documents, NEW verb \in Verbs, NEW args \in Seq(Words),
           WriteSnapshot(doc, Phrase(verb, args))
    PROVE  HistoryType'
<1>1. Phrase(verb, args) \in Subjects
  BY DEF Phrase, Subjects
<1> QED
  BY <1>1, SnapshotKeeps DEF WriteSnapshot

LEMMA ArgumentTypes ==
    /\ <<"thread">> \in Seq(Words) /\ <<"thread", "to", "3.0">> \in Seq(Words)
    /\ <<"body", "of", "thread">> \in Seq(Words) /\ <<"add">> \in Seq(Words)
    /\ \A from, to \in CanonicalStatuses \cup {None} : <<from, "->", to>> \in Seq(Words)
    /\ \A status \in {"open", "resolved"} : <<"lifecycle:", status>> \in Seq(Words)
<1> DEFINE W == Words
<1>1. {"thread", "to", "3.0", "body", "of", "add", "->", "lifecycle:", "open", "resolved"} \subseteq W
  BY DEF Words, CanonicalStatuses
<1>2. CanonicalStatuses \cup {None} \subseteq W
  BY DEF Words
<1> HIDE DEF W
<1>3. /\ <<"thread">> \in Seq(W) /\ <<"thread", "to", "3.0">> \in Seq(W)
      /\ <<"body", "of", "thread">> \in Seq(W) /\ <<"add">> \in Seq(W)
  BY <1>1
<1>4. \A from, to \in CanonicalStatuses \cup {None} : <<from, "->", to>> \in Seq(W)
  BY <1>1, <1>2
<1>5. \A status \in {"open", "resolved"} : <<"lifecycle:", status>> \in Seq(W)
  BY <1>1
<1> QED
  BY <1>3, <1>4, <1>5 DEF W

LEMMA EventType ==
    ASSUME NEW change \in Changes, NEW verb \in Verbs
    PROVE  Event(change, verb) \in Commits
<1> DEFINE subject == [tagged |-> TRUE, verb |-> verb, args |-> <<"thread">>]
<1>3. subject \in Subjects
  BY ArgumentTypes DEF Subjects
<1> HIDE DEF subject
<1>4. [form |-> "event", doc |-> Document(None, Empty, NoNodes), change |-> change,
       subject |-> subject] \in Commits
  BY <1>3 DEF Commits
<1> QED
  BY <1>4 DEF Event, subject

LEMMA EventKeeps ==
    ASSUME HistoryType, NEW change \in Changes, NEW verb \in Verbs, AppendEvent(change, verb)
    PROVE  HistoryType'
  BY EventType, AppendKeeps DEF AppendEvent, Commit

LEMMA HistoryStart == HistoryInit => HistoryType
<1> SUFFICES ASSUME HistoryInit PROVE HistoryType
  OBVIOUS
<1>1. PICK commit : log = <<commit>> /\ commit \in Commits
  <2>1. CASE \E body \in BodyTexts \cup {Empty} :
               log = <<Snapshot(Document(BuiltInInitial(ThreadFlavor), body, NoNodes),
                                Phrase("create", <<"thread">>))>>
    <3>1. PICK body \in BodyTexts \cup {Empty} :
             log = <<Snapshot(Document(BuiltInInitial(ThreadFlavor), body, NoNodes),
                              Phrase("create", <<"thread">>))>>
      BY <2>1
    <3> DEFINE doc == Document(BuiltInInitial(ThreadFlavor), body, NoNodes)
               subject == Phrase("create", <<"thread">>)
    <3>2. doc \in Documents
      BY BlankDocuments
    <3>3. subject \in Subjects
      BY ArgumentTypes DEF Phrase, Subjects, Verbs
    <3>4. log = <<Snapshot(doc, subject)>>
      BY <3>1
    <3> HIDE DEF doc, subject
    <3>5. Snapshot(doc, subject) \in Commits
      BY <3>2, <3>3 DEF Snapshot, Commits
    <3> QED
      BY <3>4, <3>5
  <2>2. CASE \E body \in BodyTexts : log = <<Event([kind |-> "body", to |-> body], "create")>>
    <3>1. PICK body \in BodyTexts : log = <<Event([kind |-> "body", to |-> body], "create")>>
      BY <2>2
    <3> DEFINE change == [kind |-> "body", to |-> body]
    <3>2. change \in Changes
      BY DEF Changes
    <3>3. log = <<Event(change, "create")>>
      BY <3>1
    <3> HIDE DEF change
    <3>4. "create" \in Verbs
      BY DEF Verbs
    <3>5. Event(change, "create") \in Commits
      BY <3>2, <3>4, EventType
    <3> QED
      BY <3>3, <3>5
  <2> QED
    BY <2>1, <2>2 DEF HistoryInit
<1> QED
  BY <1>1 DEF HistoryType

LEMMA HistoryStep == HistoryType /\ [HistoryNext]_historyVars => HistoryType'
<1> SUFFICES ASSUME HistoryType, [HistoryNext]_historyVars PROVE HistoryType'
  OBVIOUS
<1>1. Shown \in Documents /\ Newest \in Commits /\ Newest.doc \in Documents
  BY ShownType, BlankDocuments DEF HistoryType, Commits
<1>2. ASSUME NEW to \in CanonicalStatuses, NEW commented \in SUBSET HistoryNodes,
             Move(to, commented)
      PROVE  HistoryType'
  <2> DEFINE doc == [Newest.doc EXCEPT !.status = to,
                         !.nodes = [n \in HistoryNodes |-> IF n \in commented THEN "open" ELSE @[n]]]
             args == <<Newest.doc.status, "->", to>>
  <2>1. doc \in Documents
    BY <1>1 DEF Documents, NodeStates
  <2>2. WriteSnapshot(doc, StateSubject(Newest.doc.status, to))
    BY <1>2 DEF Move
  <2>3. StateSubject(Newest.doc.status, to) = Phrase("state", args)
    BY DEF StateSubject
  <2>4. args \in Seq(Words)
    BY <1>1, ArgumentTypes DEF Documents
  <2>5. "state" \in Verbs
    BY DEF Verbs
  <2> HIDE DEF doc, args
  <2>6. WriteSnapshot(doc, Phrase("state", args))
    BY <2>2, <2>3
  <2> QED
    BY <2>1, <2>4, <2>5, <2>6, WriteKeeps
<1>12. \A verb \in Verbs : \A args \in {<<"thread">>, <<"add">>, <<"body", "of", "thread">>,
                               <<"lifecycle:", "open">>, <<"lifecycle:", "resolved">>} :
          \A doc \in Documents : WriteSnapshot(doc, Phrase(verb, args)) => HistoryType'
  <2>1. \A args \in {<<"thread">>, <<"add">>, <<"body", "of", "thread">>,
                     <<"lifecycle:", "open">>, <<"lifecycle:", "resolved">>} : args \in Seq(Words)
    BY ArgumentTypes
  <2> QED
    BY <2>1, WriteKeeps
<1>13. {"node", "revise", "evidence", "state", "say", "revise-body"} \subseteq Verbs
  BY DEF Verbs
<1>3. ASSUME NEW n \in HistoryNodes, SayNode(n) PROVE HistoryType'
  <2> DEFINE doc == [Newest.doc EXCEPT !.nodes[n] = "open"]
  <2>1. doc \in Documents
    BY <1>1 DEF Documents, NodeStates
  <2>2. WriteSnapshot(doc, Phrase("node", <<"add">>))
    BY <1>3 DEF SayNode
  <2> HIDE DEF doc
  <2> QED
    BY <1>12, <1>13, <2>1, <2>2
<1>4. ASSUME NEW body \in BodyTexts, NEW nodes \in SUBSET HistoryNodes, ReviseBody(body, nodes)
      PROVE  HistoryType'
  <2> DEFINE doc == [Newest.doc EXCEPT !.body = body,
                         !.nodes = [n \in HistoryNodes |-> IF n \in nodes THEN "incorporated" ELSE @[n]]]
  <2>1. doc \in Documents
    BY <1>1 DEF Documents, NodeStates
  <2>2. WriteSnapshot(doc, Phrase("revise", <<"body", "of", "thread">>))
    BY <1>4 DEF ReviseBody
  <2> HIDE DEF doc
  <2> QED
    BY <1>12, <1>13, <2>1, <2>2
<1>5. ASSUME NEW nodes \in SUBSET HistoryNodes, NEW status \in {"open", "resolved"},
             SetNodes(nodes, status)
      PROVE  HistoryType'
  <2> DEFINE doc == [Newest.doc EXCEPT
                         !.nodes = [n \in HistoryNodes |-> IF n \in nodes THEN status ELSE @[n]]]
  <2>1. doc \in Documents
    BY <1>1 DEF Documents, NodeStates
  <2>2. WriteSnapshot(doc, Phrase("node", <<"lifecycle:", status>>))
    BY <1>5 DEF SetNodes
  <2> HIDE DEF doc
  <2> QED
    BY <1>12, <1>13, <2>1, <2>2
<1>6. CASE WriteOther
  <2>1. WriteSnapshot(Newest.doc, Phrase("evidence", <<"add">>))
    BY <1>6 DEF WriteOther
  <2> QED
    BY <1>1, <1>12, <1>13, <2>1
<1>7. ASSUME NEW to \in CanonicalStatuses, AppendEvent([kind |-> "state", to |-> to], "state")
      PROVE  HistoryType'
  <2> DEFINE change == [kind |-> "state", to |-> to]
  <2>1. change \in Changes /\ AppendEvent(change, "state")
    BY <1>7 DEF Changes
  <2> HIDE DEF change
  <2> QED
    BY <1>13, <2>1, EventKeeps
<1>8. ASSUME NEW body \in BodyTexts, AppendEvent([kind |-> "body", to |-> body], "revise-body")
      PROVE  HistoryType'
  <2> DEFINE change == [kind |-> "body", to |-> body]
  <2>1. change \in Changes /\ AppendEvent(change, "revise-body")
    BY <1>8 DEF Changes
  <2> HIDE DEF change
  <2> QED
    BY <1>13, <2>1, EventKeeps
<1>9. ASSUME NEW n \in HistoryNodes,
             AppendEvent([kind |-> "node", node |-> n, to |-> "open"], "say")
      PROVE  HistoryType'
  <2> DEFINE change == [kind |-> "node", node |-> n, to |-> "open"]
  <2>1. change \in Changes /\ AppendEvent(change, "say")
    BY <1>9 DEF Changes
  <2> HIDE DEF change
  <2> QED
    BY <1>13, <2>1, EventKeeps
<1>10. CASE MigrateThread
  <2>1. MigrateSubject \in Subjects
    BY ArgumentTypes DEF MigrateSubject, Subjects, Verbs
  <2>2. Commit(Snapshot(Shown, MigrateSubject))
    BY <1>10 DEF MigrateThread
  <2> QED
    BY <1>1, <2>1, <2>2, SnapshotKeeps
<1>11. CASE UNCHANGED historyVars
  BY <1>11 DEF historyVars, HistoryType
<1> QED
  BY <1>2, <1>3, <1>4, <1>5, <1>6, <1>7, <1>8, <1>9, <1>10, <1>11 DEF HistoryNext

LEMMA HistoryHolds == HistorySpec => []HistoryType
  BY HistoryStart, HistoryStep, PTL DEF HistorySpec

-----------------------------------------------------------------------------
(* History: the theorems.                                                  *)

LEMMA LastRevision ==
    ASSUME HistoryType
    PROVE  Last(Revisions) = Newest.doc.body
<1>1. log \in Seq(Commits) /\ Len(log) \in Nat \ {0}
  BY DEF HistoryType
<1>2. PICK h \in [0..Len(log) -> Seq(Bodies)] :
         /\ \A m \in 1..Len(log) : h[m] = Revised(h[m - 1], log[m])
         /\ FoldLeft(Revised, <<>>, log) = h[Len(log)]
  BY <1>1, RevisionsRun
<1>3. h[Len(log) - 1] \in Seq(Bodies) /\ Newest \in Commits
  BY SMTT(30), <1>1 DEF Newest
<1>4. Revisions = h[Len(log)]
  BY <1>2 DEF Revisions
<1>5. h[Len(log)] = Revised(h[Len(log) - 1], Newest)
  BY <1>1, <1>2 DEF Newest
<1> QED
  BY <1>3, <1>4, <1>5, RevisedType

(* Between the newest row of a node and the tip nothing changed the node.  *)
LEMMA NewestRow ==
    ASSUME HistoryType, NEW n \in HistoryNodes, Newest.doc.nodes[n] # None
    PROVE  LET rows == RowsOfNode(n)
               newest == CHOOSE i \in rows : \A j \in rows : j <= i
           IN  rows # {} /\ log[newest].doc.nodes[n] = Newest.doc.nodes[n]
<1> DEFINE rows == RowsOfNode(n)
           len == Len(log)
           at(i) == log[i].doc.nodes[n]
           newest == CHOOSE i \in rows : \A j \in rows : j <= i
<1>1. len \in Nat \ {0} /\ DOMAIN log = 1..len /\ rows \subseteq 1..len
  BY DEF HistoryType, RowsOfNode
<1>2. \A i \in 1..len : i \notin rows => at(i) = IF i = 1 THEN None ELSE at(i - 1)
  BY <1>1 DEF RowsOfNode, TouchedNodes, NoNodes
<1>3. at(len) = Newest.doc.nodes[n]
  BY DEF Newest
<1> HIDE DEF rows, at, len
<1> DEFINE alike == {i \in 1..len : at(i) = at(len)}
<1>4. PICK first \in alike : \A j \in alike : first <= j
  <2>1. alike \subseteq Nat /\ len \in alike
    BY <1>1
  <2> HIDE DEF alike
  <2> QED
    BY <2>1, LeastNumber
<1>5. first \in rows
  <2> SUFFICES ASSUME first \notin rows PROVE FALSE
    OBVIOUS
  <2>1. first # 1
    BY <1>2, <1>3, <1>4
  <2>2. first - 1 \in 1..len /\ at(first - 1) = at(len)
    BY <1>1, <1>2, <1>4, <2>1
  <2> QED
    BY <1>1, <1>4, <2>2
<1>6. newest \in rows /\ \A j \in rows : j <= newest
  <2>1. Max(rows) \in rows /\ \A j \in rows : j <= Max(rows)
    BY <1>1, <1>5, MaxOfSome
  <2> QED
    BY <2>1
<1> HIDE DEF newest
<1>7. at(newest) = at(len)
  <2> DEFINE later == {i \in newest..len : at(i) = at(len)}
  <2>1. PICK i \in later : \A j \in later : i <= j
    <3>1. later \subseteq Nat /\ len \in later
      BY <1>1, <1>6
    <3> HIDE DEF later
    <3> QED
      BY <3>1, LeastNumber
  <2>2. CASE i = newest
    BY <2>1, <2>2
  <2>3. CASE i # newest
    <3>1. i \in 1..len /\ i > newest /\ i # 1 /\ i - 1 \in newest..len
      BY <1>1, <1>6, <2>1, <2>3
    <3>2. i \notin rows
      BY <1>1, <1>6, <3>1
    <3>3. at(i - 1) = at(len)
      BY <1>2, <2>1, <3>1, <3>2
    <3>4. i - 1 \in later
      BY <3>1, <3>3
    <3> QED
      BY <2>1, <3>1, <3>4
  <2> QED
    BY <2>2, <2>3
<1> QED
  BY <1>3, <1>5, <1>7 DEF rows, at, newest, len

(* With a snapshot at the tip, the last revision that diff lists is the    *)
(* body that show prints, and the newest row of a node is a commit that     *)
(* holds the node as show prints it: for any chain that commands,          *)
(* migrations and 2.x clients have written.                                *)
THEOREM HistoryReachesTip == HistorySpec => []HistoryEndsAtTip
<1>1. HistoryType => HistoryEndsAtTip
  <2> SUFFICES ASSUME HistoryType, Newest.form = "snapshot" PROVE HistoryEndsAtTip
    BY DEF HistoryEndsAtTip
  <2>1. Shown = Newest.doc
    BY ShownType DEF HistoryType
  <2>2. Last(Revisions) = Shown.body
    BY <2>1, LastRevision DEF HistoryType
  <2>3. \A n \in HistoryNodes : Shown.nodes[n] # None =>
            LET rows == RowsOfNode(n)
                newest == CHOOSE i \in rows : \A j \in rows : j <= i
            IN  rows # {} /\ log[newest].doc.nodes[n] = Shown.nodes[n]
    BY <2>1, NewestRow DEF HistoryType
  <2> QED
    BY <2>2, <2>3 DEF HistoryEndsAtTip
<1> QED
  BY <1>1, HistoryHolds, PTL

-----------------------------------------------------------------------------
(* IndexRepair: what the variables hold.                                   *)
IndexLine == [path : FilePaths \cup Modules, blob : Contents \cup {None}]

Stages == {"none", "index", "head", "add index", "add head", "done", "failed"}

RepairType ==
    /\ tree \in [FilePaths -> Contents \cup {None}]
    /\ index \in [FilePaths -> SUBSET Contents]
    /\ head \in [FilePaths -> Contents \cup {None}]
    /\ blobs \in SUBSET Contents
    /\ fix \in [at : Stages, todo : Seq(IndexLine), fixed : SUBSET FilePaths,
                warnings : SUBSET (FilePaths \cup Modules), staged : SUBSET FilePaths]
    /\ settled \in BOOLEAN

(* Sets that git lists are finite.                                          *)
FiniteBlobs ==
    IsFiniteSet(blobs) /\ \A path \in FilePaths : IsFiniteSet(index[path])

(* Between a removal and the git add that follows, the path is a file.      *)
Adding == fix.at \in {"add index", "add head"}

AddsFile == Adding => fix.todo # <<>> /\ Line.path \in FilePaths

(* A blob that is gone is seen by pass 1: it is still to be looked at, or   *)
(* was warned of.                                                          *)
Listed(path, blob) == \E i \in DOMAIN fix.todo : fix.todo[i] = LineOf(path, blob)

GoneIsKnown ==
    settled => \A path \in FilePaths : \A blob \in index[path] :
        \/ blob \in blobs \/ path \in fix.warnings
        \/ fix.at \in {"index", "add index"} /\ Listed(path, blob)
        \/ fix.at \in {"none", "failed"}

(* What fix-index found staged leaves the index only to be added back.      *)
StaysStaged ==
    \A path \in fix.staged :
        \/ index[path] # {}
        \/ Adding /\ path = Line.path
        \/ fix.at = "failed"

RepairInv == RepairType /\ FiniteBlobs /\ AddsFile /\ GoneIsKnown /\ StaysStaged

-----------------------------------------------------------------------------
(* Lists of finite sets.                                                   *)

LEMMA ImageFinite ==
    ASSUME NEW S, IsFiniteSet(S), NEW f
    PROVE  IsFiniteSet({f[x] : x \in S})
<1> DEFINE g == [x \in S |-> f[x]]
           T == {f[x] : x \in S}
<1>1. g \in Surjection(S, T)
  BY DEF Surjection
<1> QED
  BY <1>1, FS_Surjection

LEMMA SetToSeqFacts ==
    ASSUME NEW S, IsFiniteSet(S)
    PROVE  /\ SetToSeq(S) \in Seq(S)
           /\ \A x \in S : \E i \in DOMAIN SetToSeq(S) : SetToSeq(S)[i] = x
<1> DEFINE n == Cardinality(S)
           s == SetToSeq(S)
<1>1. n \in Nat /\ ExistsBijection(1..n, S)
  BY FS_CardinalityType
<1>2. PICK f \in [1..n -> S] : IsInjective(f)
  BY <1>1 DEF ExistsBijection, Bijection, Injection
<1>3. s \in [1..n -> S] /\ IsInjective(s)
  BY <1>2 DEF SetToSeq
<1>4. s \in Seq(S)
  BY <1>1, <1>3
<1>5. s \in Injection(1..n, S)
  BY <1>3 DEF Injection
<1>6. Cardinality(1..n) = n
  BY <1>1, FS_Interval
<1>7. s \in Surjection(1..n, S)
  BY <1>5, <1>6, FS_Injection
<1>8. \A x \in S : \E i \in 1..n : s[i] = x
  BY <1>7 DEF Surjection
<1>9. DOMAIN s = 1..n
  BY <1>3
<1> HIDE DEF n
<1> QED
  BY <1>4, <1>8, <1>9

(* Pass 1 looks at every blob of the index.                                *)
LEMMA IndexLinesFacts ==
    ASSUME RepairType, FiniteBlobs
    PROVE  /\ IndexLines \in Seq(IndexLine)
           /\ \A path \in FilePaths : \A blob \in index[path] :
                 \E i \in DOMAIN IndexLines : IndexLines[i] = LineOf(path, blob)
<1> DEFINE Of(path) == { LineOf(path, blob) : blob \in index[path] }
           Files == { Of(path) : path \in FilePaths }
           Subs == { LineOf(module, None) : module \in Modules }
           All == (UNION Files) \cup Subs
<1>1. IsFiniteSet(Subs)
  <2> DEFINE f == [module \in Modules |-> LineOf(module, None)]
  <2>1. IsFiniteSet({f[x] : x \in Modules})
    BY ImageFinite, PathsAssumption
  <2>2. {f[x] : x \in Modules} = Subs
    OBVIOUS
  <2> QED
    BY <2>1, <2>2
<1>2. ASSUME NEW path \in FilePaths PROVE IsFiniteSet(Of(path))
  <2> DEFINE f == [blob \in index[path] |-> LineOf(path, blob)]
  <2>1. IsFiniteSet({f[x] : x \in index[path]})
    BY ImageFinite DEF FiniteBlobs
  <2>2. {f[x] : x \in index[path]} = Of(path)
    OBVIOUS
  <2> QED
    BY <2>1, <2>2
<1>3. IsFiniteSet(Files)
  <2> DEFINE f == [path \in FilePaths |-> Of(path)]
  <2>1. IsFiniteSet({f[x] : x \in FilePaths})
    BY ImageFinite, PathsAssumption
  <2>2. {f[x] : x \in FilePaths} = Files
    OBVIOUS
  <2> QED
    BY <2>1, <2>2
<1>4. IsFiniteSet(UNION Files)
  <2>1. \A F \in Files : IsFiniteSet(F)
    BY <1>2
  <2> HIDE DEF Files
  <2> QED
    BY <1>3, <2>1, FS_UNION
<1>5. IsFiniteSet(All)
  BY <1>1, <1>4, FS_Union
<1>6. All \subseteq IndexLine
  BY DEF LineOf, IndexLine, RepairType
<1>7. IndexLines = SetToSeq(All)
  BY DEF IndexLines
<1>8. \A path \in FilePaths : \A blob \in index[path] : LineOf(path, blob) \in All
  OBVIOUS
<1> HIDE DEF All
<1>9. SetToSeq(All) \in Seq(All)
      /\ \A x \in All : \E i \in DOMAIN SetToSeq(All) : SetToSeq(All)[i] = x
  BY <1>5, SetToSeqFacts
<1>10. SetToSeq(All) \in Seq(IndexLine)
  BY <1>6, <1>9
<1> QED
  BY <1>7, <1>8, <1>9, <1>10

LEMMA HeadLinesFacts ==
    ASSUME RepairType
    PROVE  HeadLines \in Seq(IndexLine)
<1> DEFINE P == { p \in FilePaths : head[p] # None }
           All == { LineOf(path, head[path]) : path \in P }
           f == [path \in P |-> LineOf(path, head[path])]
<1>1. IsFiniteSet(P)
  BY PathsAssumption, FS_Subset
<1>2. IsFiniteSet({f[x] : x \in P})
  BY <1>1, ImageFinite
<1>3. {f[x] : x \in P} = All
  OBVIOUS
<1>4. All \subseteq IndexLine
  BY DEF LineOf, IndexLine, RepairType
<1>5. HeadLines = SetToSeq(All)
  BY DEF HeadLines
<1> HIDE DEF All, f, P
<1>6. SetToSeq(All) \in Seq(All)
  BY <1>2, <1>3, SetToSeqFacts
<1> QED
  BY <1>4, <1>5, <1>6

-----------------------------------------------------------------------------
(* The parts of the state that a step of fix-index uses.                    *)
LEMMA FixFacts ==
    ASSUME RepairType
    PROVE  /\ fix.at \in Stages /\ fix.todo \in Seq(IndexLine)
           /\ fix.fixed \subseteq FilePaths /\ fix.staged \subseteq FilePaths
           /\ fix.warnings \subseteq FilePaths \cup Modules
           /\ fix.todo # <<>> => Line \in IndexLine /\ Tail(fix.todo) \in Seq(IndexLine)
<1>1. fix.at \in Stages /\ fix.todo \in Seq(IndexLine)
      /\ fix.fixed \subseteq FilePaths /\ fix.staged \subseteq FilePaths
      /\ fix.warnings \subseteq FilePaths \cup Modules
  BY DEF RepairType
<1> QED
  BY <1>1 DEF Line

LEMMA TailKeeps ==
    ASSUME NEW S, NEW s \in Seq(S), s # <<>>, NEW i \in DOMAIN s, s[i] # Head(s)
    PROVE  \E j \in DOMAIN Tail(s) : Tail(s)[j] = s[i]
<1>1. i # 1
  OBVIOUS
<1>2. i - 1 \in DOMAIN Tail(s) /\ Tail(s)[i - 1] = s[i]
  BY <1>1
<1> QED
  BY <1>2

(* fix-index passes over the line at the head of its list.                 *)
LEMMA DropFacts ==
    ASSUME RepairType, fix.todo # <<>>, NEW path, NEW blob, Listed(path, blob)
    PROVE  \/ Line = LineOf(path, blob)
           \/ \E j \in DOMAIN Tail(fix.todo) : Tail(fix.todo)[j] = LineOf(path, blob)
  BY FixFacts, TailKeeps DEF Listed, Line

LEMMA RepairInitInv == RepairInit => RepairInv
<1> SUFFICES ASSUME RepairInit PROVE RepairInv
  OBVIOUS
<1>0. NoFix \in [at : Stages, todo : Seq(IndexLine), fixed : SUBSET FilePaths,
                 warnings : SUBSET (FilePaths \cup Modules), staged : SUBSET FilePaths]
  BY DEF NoFix, Stages
<1>1. RepairType
  <2>1. PICK content \in Contents :
            /\ tree = [path \in FilePaths |-> content]
            /\ index = [path \in FilePaths |-> {content}]
            /\ head = [path \in FilePaths |-> content]
            /\ blobs = {content}
    BY DEF RepairInit
  <2>2. fix = NoFix /\ settled = FALSE
    BY DEF RepairInit
  <2> QED
    BY <1>0, <2>1, <2>2 DEF RepairType
<1>2. FiniteBlobs
  BY ZenonT(30), FS_Singleton DEF RepairInit, FiniteBlobs
<1>3. AddsFile /\ GoneIsKnown /\ StaysStaged
  BY DEF RepairInit, NoFix, AddsFile, Adding, GoneIsKnown, StaysStaged
<1> QED
  BY <1>1, <1>2, <1>3 DEF RepairInv

LEMMA BeginFixInv ==
    ASSUME RepairInv, BeginFix
    PROVE  RepairInv'
<1> USE DEF RepairInv
<1>1. PICK staged \in SUBSET FilePaths :
          /\ fix' = [NoFix EXCEPT !.at = "index", !.todo = IndexLines, !.staged = staged]
          /\ staged = { path \in FilePaths : index[path] # {} }
  BY DEF BeginFix
<1>2. /\ fix'.at = "index" /\ fix'.todo = IndexLines /\ fix'.staged = staged
      /\ fix'.warnings = {} /\ fix'.fixed = {}
      /\ fix' = [at |-> "index", todo |-> IndexLines, fixed |-> {}, warnings |-> {},
                 staged |-> staged]
  BY <1>1 DEF NoFix
<1>3. UNCHANGED <<tree, index, head, blobs>> /\ settled' = TRUE
  BY DEF BeginFix
<1>4. IndexLines \in Seq(IndexLine)
      /\ \A path \in FilePaths : \A blob \in index[path] :
             \E i \in DOMAIN IndexLines : IndexLines[i] = LineOf(path, blob)
  BY IndexLinesFacts
<1>5. RepairType'
  BY <1>2, <1>3, <1>4 DEF RepairType, Stages
<1>6. FiniteBlobs'
  BY <1>3 DEF FiniteBlobs
<1>7. AddsFile'
  BY <1>2 DEF AddsFile, Adding
<1>8. GoneIsKnown'
  BY <1>2, <1>3, <1>4 DEF GoneIsKnown, Listed
<1>9. StaysStaged'
  BY <1>1, <1>2, <1>3 DEF StaysStaged
<1> QED
  BY <1>5, <1>6, <1>7, <1>8, <1>9

LEMMA PassOverInv ==
    ASSUME RepairInv, PassOver
    PROVE  RepairInv'
<1> USE DEF RepairInv
<1>1. /\ fix.at \in {"index", "head"} /\ fix.todo # <<>>
      /\ fix.at = "index" => ~Gone(Line)
      /\ UNCHANGED <<tree, index, head, blobs, settled>>
  BY DEF PassOver, InPass, Skips, Unfixed
<1>2. /\ fix'.at = fix.at /\ fix'.todo = Tail(fix.todo) /\ fix'.fixed = fix.fixed
      /\ fix'.warnings = fix.warnings /\ fix'.staged = fix.staged
      /\ fix' \in [at : Stages, todo : Seq(IndexLine), fixed : SUBSET FilePaths,
                   warnings : SUBSET (FilePaths \cup Modules), staged : SUBSET FilePaths]
  BY <1>1, FixFacts DEF PassOver, RepairType
<1>3. RepairType'
  BY <1>1, <1>2 DEF RepairType
<1>4. FiniteBlobs' /\ AddsFile'
  BY <1>1, <1>2 DEF FiniteBlobs, AddsFile, Adding
<1>5. GoneIsKnown'
  <2> SUFFICES ASSUME settled, NEW path \in FilePaths, NEW blob \in index[path],
                      blob \notin blobs, path \notin fix.warnings
               PROVE  fix.at = "index" /\ Listed(path, blob)'
    BY <1>1, <1>2 DEF GoneIsKnown
  <2>1. fix.at = "index" /\ Listed(path, blob)
    BY <1>1 DEF GoneIsKnown
  <2>2. Line # LineOf(path, blob)
    BY <1>1, <2>1 DEF Gone, LineOf
  <2> QED
    BY <1>1, <1>2, <2>1, <2>2, DropFacts DEF Listed
<1>6. StaysStaged'
  BY <1>1, <1>2 DEF StaysStaged, Adding
<1> QED
  BY <1>3, <1>4, <1>5, <1>6

LEMMA WarnInv ==
    ASSUME RepairInv, Warn
    PROVE  RepairInv'
<1> USE DEF RepairInv
<1>1. /\ fix.at \in {"index", "head"} /\ fix.todo # <<>>
      /\ UNCHANGED <<tree, index, head, blobs, settled>>
  BY DEF Warn, InPass, Unfixed
<1>2. /\ fix'.at = fix.at /\ fix'.todo = Tail(fix.todo) /\ fix'.fixed = fix.fixed
      /\ fix'.warnings = fix.warnings \cup {Line.path} /\ fix'.staged = fix.staged
      /\ fix' \in [at : Stages, todo : Seq(IndexLine), fixed : SUBSET FilePaths,
                   warnings : SUBSET (FilePaths \cup Modules), staged : SUBSET FilePaths]
  <2>1. Line.path \in FilePaths \cup Modules
    BY <1>1, FixFacts DEF IndexLine
  <2> QED
    BY <1>1, <2>1, FixFacts DEF Warn, RepairType
<1>3. RepairType'
  BY <1>1, <1>2 DEF RepairType
<1>4. FiniteBlobs' /\ AddsFile'
  BY <1>1, <1>2 DEF FiniteBlobs, AddsFile, Adding
<1>5. GoneIsKnown'
  <2> SUFFICES ASSUME settled, NEW path \in FilePaths, NEW blob \in index[path],
                      blob \notin blobs, path \notin fix.warnings, path # Line.path
               PROVE  fix.at = "index" /\ Listed(path, blob)'
    BY <1>1, <1>2 DEF GoneIsKnown
  <2>1. fix.at = "index" /\ Listed(path, blob)
    BY <1>1 DEF GoneIsKnown
  <2>2. Line # LineOf(path, blob)
    BY DEF LineOf
  <2> QED
    BY <1>1, <1>2, <2>1, <2>2, DropFacts DEF Listed
<1>6. StaysStaged'
  BY <1>1, <1>2 DEF StaysStaged, Adding
<1> QED
  BY <1>3, <1>4, <1>5, <1>6

LEMMA ForceRemoveInv ==
    ASSUME RepairInv, ForceRemove
    PROVE  RepairInv'
<1> USE DEF RepairInv
<1>1. /\ fix.at \in {"index", "head"} /\ fix.todo # <<>>
      /\ Line.path \in FilePaths
      /\ index' = [index EXCEPT ![Line.path] = {}]
      /\ UNCHANGED <<tree, head, blobs, settled>>
  BY DEF ForceRemove, InPass, InTree
<1>2. /\ fix'.at = IF fix.at = "index" THEN "add index" ELSE "add head"
      /\ fix'.todo = fix.todo /\ fix'.fixed = fix.fixed
      /\ fix'.warnings = fix.warnings /\ fix'.staged = fix.staged
      /\ fix' \in [at : Stages, todo : Seq(IndexLine), fixed : SUBSET FilePaths,
                   warnings : SUBSET (FilePaths \cup Modules), staged : SUBSET FilePaths]
  BY <1>1 DEF ForceRemove, RepairType, Stages
<1>3. /\ index \in [FilePaths -> SUBSET Contents]
      /\ \A path \in FilePaths : index'[path] = IF path = Line.path THEN {} ELSE index[path]
  BY <1>1 DEF RepairType
<1>4. RepairType'
  <2>1. index' \in [FilePaths -> SUBSET Contents]
    BY <1>1, <1>3
  <2> QED
    BY <1>1, <1>2, <2>1 DEF RepairType
<1>5. FiniteBlobs'
  BY <1>1, <1>3, FS_EmptySet DEF FiniteBlobs
<1>6. Line' = Line
  BY <1>2 DEF Line
<1>7. AddsFile'
  BY <1>1, <1>2, <1>6 DEF AddsFile
<1>8. GoneIsKnown'
  BY <1>1, <1>2, <1>3 DEF GoneIsKnown, Listed
<1>9. StaysStaged'
  <2> SUFFICES ASSUME NEW path \in fix.staged, path # Line.path
               PROVE  index[path] # {}
    BY <1>1, <1>2, <1>3, <1>6, FixFacts DEF StaysStaged, Adding
  <2> QED
    BY <1>1 DEF StaysStaged, Adding
<1> QED
  BY <1>4, <1>5, <1>7, <1>8, <1>9

LEMMA AddBackInv ==
    ASSUME RepairInv, AddBack
    PROVE  RepairInv'
<1> USE DEF RepairInv
<1>1. /\ fix.at \in {"add index", "add head"} /\ fix.todo # <<>>
      /\ Line.path \in FilePaths
      /\ tree[Line.path] \in Contents
      /\ index' = [index EXCEPT ![Line.path] = {tree[Line.path]}]
      /\ blobs' = blobs \cup {tree[Line.path]}
      /\ UNCHANGED <<tree, head, settled>>
  BY DEF AddBack, AddsFile, Adding, RepairType
<1>2. /\ fix'.at = IF fix.at = "add index" THEN "index" ELSE "head"
      /\ fix'.todo = Tail(fix.todo)
      /\ fix'.warnings = fix.warnings /\ fix'.staged = fix.staged
      /\ fix' \in [at : Stages, todo : Seq(IndexLine), fixed : SUBSET FilePaths,
                   warnings : SUBSET (FilePaths \cup Modules), staged : SUBSET FilePaths]
  BY <1>1, FixFacts DEF AddBack, RepairType, Stages
<1>3. /\ index \in [FilePaths -> SUBSET Contents]
      /\ \A path \in FilePaths :
            index'[path] = IF path = Line.path THEN {tree[Line.path]} ELSE index[path]
  BY <1>1 DEF RepairType
<1>4. RepairType'
  <2>1. index' \in [FilePaths -> SUBSET Contents] /\ blobs' \in SUBSET Contents
    BY <1>1, <1>3 DEF RepairType
  <2> QED
    BY <1>1, <1>2, <2>1 DEF RepairType
<1>5. FiniteBlobs'
  <2>1. IsFiniteSet(blobs')
    <3>1. IsFiniteSet(blobs)
      BY DEF FiniteBlobs
    <3>2. IsFiniteSet(blobs \cup {tree[Line.path]})
      BY <3>1, FS_AddElement
    <3> QED
      BY <1>1, <3>2
  <2>2. IsFiniteSet({tree[Line.path]})
    BY FS_Singleton
  <2>3. \A path \in FilePaths : IsFiniteSet(index[path])
    BY DEF FiniteBlobs
  <2>4. \A path \in FilePaths : IsFiniteSet(index'[path])
    BY <1>3, <2>2, <2>3
  <2> QED
    BY <2>1, <2>4 DEF FiniteBlobs
<1>6. AddsFile'
  BY <1>2 DEF AddsFile, Adding
<1>7. GoneIsKnown'
  <2> SUFFICES ASSUME settled, NEW path \in FilePaths, NEW blob \in index'[path],
                      blob \notin blobs', path \notin fix.warnings
               PROVE  fix'.at = "index" /\ Listed(path, blob)'
    BY <1>1, <1>2 DEF GoneIsKnown
  <2>1. path # Line.path /\ blob \in index[path] /\ blob \notin blobs
    BY <1>1, <1>3
  <2>2. fix.at = "add index" /\ Listed(path, blob)
    BY <1>1, <2>1 DEF GoneIsKnown
  <2>3. Line # LineOf(path, blob)
    BY <2>1 DEF LineOf
  <2>4. \E j \in DOMAIN Tail(fix.todo) : Tail(fix.todo)[j] = LineOf(path, blob)
    BY <1>1, <2>2, <2>3, DropFacts
  <2>5. Listed(path, blob)'
    BY <1>2, <2>4 DEF Listed, LineOf
  <2>6. fix'.at = "index"
    BY <1>2, <2>2
  <2> QED
    BY <2>5, <2>6
<1>8. StaysStaged'
  <2> SUFFICES ASSUME NEW path \in fix.staged, path # Line.path
               PROVE  index[path] # {}
    BY <1>1, <1>2, <1>3, FixFacts DEF StaysStaged
  <2> QED
    BY <1>1 DEF StaysStaged, Adding
<1> QED
  BY <1>4, <1>5, <1>6, <1>7, <1>8

LEMMA FixFailsInv ==
    ASSUME RepairInv, FixFails
    PROVE  RepairInv'
<1> USE DEF RepairInv
<1>1. UNCHANGED <<tree, index, head, blobs, settled>>
  BY DEF FixFails, Unfixed
<1>2. /\ fix'.at = "failed" /\ fix'.staged = fix.staged
      /\ fix' \in [at : Stages, todo : Seq(IndexLine), fixed : SUBSET FilePaths,
                   warnings : SUBSET (FilePaths \cup Modules), staged : SUBSET FilePaths]
  <2>1. fix \in [at : Stages, todo : Seq(IndexLine), fixed : SUBSET FilePaths,
                  warnings : SUBSET (FilePaths \cup Modules), staged : SUBSET FilePaths]
    BY DEF RepairType
  <2>2. fix' = [fix EXCEPT !.at = "failed", !.todo = <<>>]
    BY DEF FixFails
  <2>3. <<>> \in Seq(IndexLine) /\ "failed" \in Stages
    BY DEF Stages
  <2> QED
    BY <2>1, <2>2, <2>3
<1>3. RepairType'
  BY <1>1, <1>2 DEF RepairType
<1>4. FiniteBlobs' /\ AddsFile'
  BY <1>1, <1>2 DEF FiniteBlobs, AddsFile, Adding
<1>5. GoneIsKnown' /\ StaysStaged'
  BY <1>2 DEF GoneIsKnown, StaysStaged
<1> QED
  BY <1>3, <1>4, <1>5

LEMMA NextPassInv ==
    ASSUME RepairInv, NextPass
    PROVE  RepairInv'
<1> USE DEF RepairInv
<1>1. /\ fix.at \in {"index", "head"} /\ fix.todo = <<>>
      /\ UNCHANGED <<tree, index, head, blobs, settled>>
  BY DEF NextPass, InPass, Unfixed
<1>2. /\ fix'.at = IF fix.at = "index" THEN "head" ELSE "done"
      /\ fix'.warnings = fix.warnings /\ fix'.staged = fix.staged
      /\ fix' \in [at : Stages, todo : Seq(IndexLine), fixed : SUBSET FilePaths,
                   warnings : SUBSET (FilePaths \cup Modules), staged : SUBSET FilePaths]
  BY <1>1, HeadLinesFacts DEF NextPass, RepairType, Stages
<1>3. RepairType'
  BY <1>1, <1>2 DEF RepairType
<1>4. FiniteBlobs' /\ AddsFile'
  BY <1>1, <1>2 DEF FiniteBlobs, AddsFile, Adding
<1>5. \A path, blob : ~Listed(path, blob)
  BY <1>1 DEF Listed
<1>6. GoneIsKnown'
  BY <1>1, <1>2, <1>5 DEF GoneIsKnown
<1>7. StaysStaged'
  BY <1>1, <1>2 DEF StaysStaged, Adding
<1> QED
  BY <1>3, <1>4, <1>6, <1>7

-----------------------------------------------------------------------------
(* The user stages what is there, or takes a path out of the index.         *)
LEMMA StagingInv ==
    ASSUME RepairInv, NEW path \in FilePaths, NEW stages, NEW staged,
           index' = [index EXCEPT ![path] = stages],
           stages \in SUBSET blobs', IsFiniteSet(stages),
           blobs \subseteq blobs', blobs' \in SUBSET Contents, IsFiniteSet(blobs'),
           fix' = [fix EXCEPT !.staged = staged],
           staged \in SUBSET fix.staged,
           stages = {} => path \notin staged,
           UNCHANGED <<tree, head, settled>>
    PROVE  RepairInv'
<1> USE DEF RepairInv
<1>1. /\ fix'.at = fix.at /\ fix'.todo = fix.todo
      /\ fix'.warnings = fix.warnings /\ fix'.staged = staged
      /\ fix' \in [at : Stages, todo : Seq(IndexLine), fixed : SUBSET FilePaths,
                   warnings : SUBSET (FilePaths \cup Modules), staged : SUBSET FilePaths]
  BY DEF RepairType
<1>2. /\ index \in [FilePaths -> SUBSET Contents]
      /\ \A p \in FilePaths : index'[p] = IF p = path THEN stages ELSE index[p]
  BY DEF RepairType
<1>3. RepairType'
  <2>1. index' \in [FilePaths -> SUBSET Contents]
    BY <1>2
  <2> QED
    BY <1>1, <2>1 DEF RepairType
<1>4. FiniteBlobs'
  BY <1>2 DEF FiniteBlobs
<1>5. Line' = Line
  BY <1>1 DEF Line
<1>6. AddsFile'
  BY <1>1, <1>5 DEF AddsFile, Adding
<1>7. GoneIsKnown'
  BY <1>1, <1>2 DEF GoneIsKnown, Listed
<1>8. StaysStaged'
  BY <1>1, <1>2, <1>5, FixFacts DEF StaysStaged, Adding
<1> QED
  BY <1>3, <1>4, <1>6, <1>7, <1>8

LEMMA SameFix ==
    ASSUME RepairType, UNCHANGED fix
    PROVE  fix' = [fix EXCEPT !.staged = fix.staged]
  BY DEF RepairType

LEMMA StageFileInv ==
    ASSUME RepairInv, NEW path \in FilePaths, StageFile(path)
    PROVE  RepairInv'
<1> USE DEF RepairInv
<1>1. CASE /\ tree[path] # None
           /\ index' = [index EXCEPT ![path] = {tree[path]}]
           /\ blobs' = blobs \cup {tree[path]}
           /\ UNCHANGED fix
  <2>1. tree[path] \in Contents
    BY <1>1 DEF RepairType
  <2>2. /\ IsFiniteSet({tree[path]}) /\ {tree[path]} # {}
        /\ blobs' \in SUBSET Contents /\ IsFiniteSet(blobs')
    BY <1>1, <2>1, FS_Singleton, FS_AddElement DEF FiniteBlobs, RepairType
  <2>3. UNCHANGED <<tree, head, settled>>
    BY DEF StageFile
  <2> QED
    BY <1>1, <2>2, <2>3, SameFix, StagingInv
<1>2. CASE /\ index' = [index EXCEPT ![path] = {}]
           /\ fix' = [fix EXCEPT !.staged = @ \ {path}]
           /\ UNCHANGED blobs
  <2>1. IsFiniteSet({}) /\ UNCHANGED <<tree, head, settled>>
    BY FS_EmptySet DEF StageFile
  <2>2. blobs' \in SUBSET Contents /\ IsFiniteSet(blobs')
    BY <1>2 DEF RepairType, FiniteBlobs
  <2> QED
    BY <1>2, <2>1, <2>2, StagingInv
<1> QED
  BY <1>1, <1>2 DEF StageFile

LEMMA ConflictInv ==
    ASSUME RepairInv, NEW path \in FilePaths, Conflict(path)
    PROVE  RepairInv'
<1> USE DEF RepairInv
<1>1. PICK stages \in SUBSET blobs :
          Cardinality(stages) = 2 /\ index' = [index EXCEPT ![path] = stages]
  BY DEF Conflict
<1>2. IsFiniteSet(stages) /\ stages # {}
  BY <1>1, FS_Subset, FS_EmptySet DEF FiniteBlobs
<1>3. UNCHANGED <<tree, head, blobs, fix, settled>>
  BY DEF Conflict
<1>4. blobs' \in SUBSET Contents /\ IsFiniteSet(blobs')
  BY <1>3 DEF RepairType, FiniteBlobs
<1> QED
  BY <1>1, <1>2, <1>3, <1>4, SameFix, StagingInv

LEMMA EditInv ==
    ASSUME RepairInv,
           (\E path \in FilePaths : EditFile(path)) \/ CommitIndex
    PROVE  RepairInv'
<1> USE DEF RepairInv
<1>1. UNCHANGED <<index, blobs, fix, settled>>
  BY DEF EditFile, CommitIndex
<1>2. tree' \in [FilePaths -> Contents \cup {None}]
  BY DEF EditFile, CommitIndex, RepairType
<1>3. head' \in [FilePaths -> Contents \cup {None}]
  <2>1. CASE \E path \in FilePaths : EditFile(path)
    BY <2>1 DEF EditFile, RepairType
  <2>2. CASE CommitIndex
    <3>1. \A path \in FilePaths : index[path] # {} =>
              (CHOOSE blob \in index[path] : TRUE) \in Contents
      BY DEF RepairType
    <3> QED
      BY <2>2, <3>1 DEF CommitIndex
  <2> QED
    BY <2>1, <2>2
<1>4. RepairType'
  BY <1>1, <1>2, <1>3 DEF RepairType
<1>5. FiniteBlobs' /\ AddsFile' /\ GoneIsKnown' /\ StaysStaged'
  BY <1>1 DEF FiniteBlobs, AddsFile, Adding, Line, GoneIsKnown, Listed, StaysStaged
<1> QED
  BY <1>4, <1>5

(* git reset: what is staged is what HEAD has.                              *)
LEMMA ResetInv ==
    ASSUME RepairInv, ResetIndex
    PROVE  RepairInv'
<1> USE DEF RepairInv
<1>1. /\ index' = [path \in FilePaths |-> {head[path]} \ {None}]
      /\ settled' = FALSE /\ UNCHANGED <<tree, head, blobs>>
  BY DEF ResetIndex
<1>2. /\ fix'.at = fix.at /\ fix'.todo = fix.todo
      /\ fix'.staged = { path \in fix.staged : head[path] # None }
      /\ fix' \in [at : Stages, todo : Seq(IndexLine), fixed : SUBSET FilePaths,
                   warnings : SUBSET (FilePaths \cup Modules), staged : SUBSET FilePaths]
  BY DEF ResetIndex, RepairType
<1>3. RepairType'
  <2>1. index' \in [FilePaths -> SUBSET Contents]
    BY <1>1 DEF RepairType
  <2> QED
    BY <1>1, <1>2, <2>1 DEF RepairType
<1>4. FiniteBlobs'
  BY <1>1, FS_Singleton, FS_Difference DEF FiniteBlobs
<1>5. Line' = Line
  BY <1>2 DEF Line
<1>6. AddsFile'
  BY <1>2, <1>5 DEF AddsFile, Adding
<1>7. GoneIsKnown'
  BY <1>1 DEF GoneIsKnown
<1>8. StaysStaged'
  <2>1. \A path \in fix'.staged : path \in FilePaths /\ head[path] # None
    BY <1>2, FixFacts
  <2> QED
    BY <1>1, <2>1 DEF StaysStaged
<1> QED
  BY <1>3, <1>4, <1>6, <1>7, <1>8

LEMMA LoseInv ==
    ASSUME RepairInv, NEW blob \in Contents, LoseBlob(blob)
    PROVE  RepairInv'
<1> USE DEF RepairInv
<1>1. /\ blobs' = blobs \ {blob} /\ settled' = FALSE
      /\ UNCHANGED <<tree, index, head, fix>>
  BY DEF LoseBlob
<1>2. RepairType'
  BY <1>1 DEF RepairType
<1>3. FiniteBlobs'
  BY <1>1, FS_Difference DEF FiniteBlobs
<1>4. AddsFile' /\ GoneIsKnown' /\ StaysStaged'
  BY <1>1 DEF AddsFile, Adding, Line, GoneIsKnown, StaysStaged
<1> QED
  BY <1>2, <1>3, <1>4

LEMMA RepairNextInv == RepairInv /\ [RepairNext]_repairVars => RepairInv'
<1> SUFFICES ASSUME RepairInv, [RepairNext]_repairVars PROVE RepairInv'
  OBVIOUS
<1>1. CASE UNCHANGED repairVars
  BY <1>1 DEF repairVars, RepairInv, RepairType, FiniteBlobs, AddsFile, Adding, Line,
              GoneIsKnown, Listed, StaysStaged
<1>2. CASE RepairNext
  BY <1>2, BeginFixInv, PassOverInv, WarnInv, ForceRemoveInv, AddBackInv, FixFailsInv,
     NextPassInv, StageFileInv, ConflictInv, EditInv, ResetInv, LoseInv DEF RepairNext
<1> QED
  BY <1>1, <1>2

(* After a run of fix-index that ended without an error or a warning, no    *)
(* object lost meanwhile and no reset, every staged blob is there and no    *)
(* path the run found staged has left the index but by the user's hand: the *)
(* next commit carries the repair.                                         *)
THEOREM RepairCarried == RepairSpec => []RepairCarries
<1>1. RepairInv => RepairCarries
  <2> SUFFICES ASSUME RepairInv, fix.at = "done", settled PROVE
        /\ fix.warnings \subseteq Modules =>
              \A path \in FilePaths : Present(index[path])
        /\ \A path \in fix.staged : index[path] # {}
    BY DEF RepairCarries
  <2>1. \A path \in FilePaths : \A blob \in index[path] :
            blob \in blobs \/ path \in fix.warnings
    BY DEF RepairInv, GoneIsKnown
  <2>2. \A path \in fix.staged : index[path] # {}
    BY DEF RepairInv, StaysStaged, Adding
  <2> QED
    BY <2>1, <2>2, PathsAssumption DEF Present
<1> QED
  BY <1>1, RepairInitInv, RepairNextInv, PTL DEF RepairSpec
=============================================================================
