------------------------------ MODULE Recursion ------------------------------
(***************************************************************************)
(* Induction and recursion over the numbers, for an operator Op of any     *)
(* kind. Modules with proofs take what they need by INSTANCE, with the     *)
(* step of their fold for Op.                                              *)
(***************************************************************************)
EXTENDS Integers, WellFoundedInduction, TLAPS

CONSTANT Op(_, _)

(* Every set of numbers has a least.                                       *)
LEMMA LeastNumber ==
    ASSUME NEW T, T \subseteq Nat, T # {}
    PROVE  \E n \in T : \A m \in T : n <= m
<1> DEFINE Less == {ss \in Nat \X Nat : ss[1] < ss[2]}
<1>1. IsWellFoundedOn(Less, Nat)
  BY NatLessThanWellFounded DEF OpToRel
<1> HIDE DEF Less
<1>2. PICK n \in T : \A m \in T : <<m, n>> \notin Less
  BY <1>1, WFMin
<1>3. \A m \in T : ~(m < n)
  BY <1>2 DEF Less
<1> QED
  BY <1>3

LEMMA SetInduction ==
    ASSUME NEW S, 0 \in S, \A n \in Nat : n \in S => n + 1 \in S
    PROVE  Nat \subseteq S
<1> SUFFICES ASSUME Nat \ S # {} PROVE FALSE
  OBVIOUS
<1>1. PICK n \in Nat \ S : \A m \in Nat \ S : n <= m
  BY LeastNumber
<1>2. n # 0 /\ n - 1 \in Nat /\ n - 1 \in S
  BY <1>1
<1> QED
  BY <1>1, <1>2

-----------------------------------------------------------------------------
(* Folds names the largest element of each set of positions.               *)
Largest(top, n) ==
    \A s \in (SUBSET (1..n)) \ {{}} : top[s] \in s /\ \A x \in s : x <= top[s]

(* The equation of the function that Folds defines by CHOOSE.              *)
Unfolds(g, top, n, base, q) ==
    g = [s \in SUBSET (1..n) |->
            IF s = {} THEN base ELSE Op(g[s \ {top[s]}], q[top[s]])]

LEMMA UnfoldingExists ==
    ASSUME NEW n \in Nat, NEW top, Largest(top, n), NEW base, NEW q
    PROVE  \E g : Unfolds(g, top, n, base, q)
<1> DEFINE Solved(m) == \E g : Unfolds(g, top, m, base, q)
<1>1. Solved(0)
  <2> DEFINE g == [s \in SUBSET (1..0) |-> base]
  <2>1. \A s \in SUBSET (1..0) : s = {}
    OBVIOUS
  <2>2. Unfolds(g, top, 0, base, q)
    BY <2>1 DEF Unfolds
  <2> QED
    BY <2>2
<1>2. ASSUME NEW m \in Nat, m + 1 <= n, Solved(m) PROVE Solved(m + 1)
  <2>1. PICK g : Unfolds(g, top, m, base, q)
    BY <1>2
  <2> DEFINE S == SUBSET (1..(m + 1))
             f == [s \in S |->
                      IF m + 1 \in s THEN Op(g[s \ {m + 1}], q[m + 1]) ELSE g[s]]
  <2>2. ASSUME NEW s \in S, m + 1 \in s
        PROVE  f[s] = Op(f[s \ {top[s]}], q[top[s]])
    <3>1. top[s] = m + 1
      <4>1. s \in (SUBSET (1..n)) \ {{}}
        BY <1>2, <2>2
      <4>2. top[s] \in s /\ m + 1 <= top[s]
        BY <2>2, <4>1 DEF Largest
      <4>3. top[s] \in 1..(m + 1)
        BY <4>2
      <4> QED
        BY <4>2, <4>3
    <3>2. s \ {m + 1} \in SUBSET (1..m) /\ s \ {m + 1} \in S
      OBVIOUS
    <3>3. f[s \ {m + 1}] = g[s \ {m + 1}]
      BY <3>2
    <3> QED
      BY <2>2, <3>1, <3>2, <3>3
  <2>3. ASSUME NEW s \in S, m + 1 \notin s
        PROVE  f[s] = IF s = {} THEN base ELSE Op(f[s \ {top[s]}], q[top[s]])
    <3>1. s \in SUBSET (1..m) /\ f[s] = g[s]
      BY <2>3
    <3>2. s \ {top[s]} \in S /\ m + 1 \notin s \ {top[s]}
      BY <2>3
    <3>3. f[s \ {top[s]}] = g[s \ {top[s]}]
      BY <3>2
    <3>4. g[s] = IF s = {} THEN base ELSE Op(g[s \ {top[s]}], q[top[s]])
      BY <2>1, <3>1 DEF Unfolds
    <3> QED
      BY <3>1, <3>3, <3>4
  <2>4. f = [s \in S |-> f[s]]
    OBVIOUS
  <2> HIDE DEF f
  <2>5. \A s \in S : f[s] = IF s = {} THEN base ELSE Op(f[s \ {top[s]}], q[top[s]])
    BY <2>2, <2>3
  <2>6. Unfolds(f, top, m + 1, base, q)
    BY <2>4, <2>5 DEF Unfolds
  <2> QED
    BY <2>6
<1> HIDE DEF Solved
<1> DEFINE Good == {m \in Nat : m <= n => Solved(m)}
<1>3. 0 \in Good /\ \A m \in Nat : m \in Good => m + 1 \in Good
  BY <1>1, <1>2
<1> HIDE DEF Good
<1>4. Nat \subseteq Good
  BY <1>3, SetInduction
<1>5. Solved(n)
  BY <1>4 DEF Good
<1> QED
  BY <1>5 DEF Solved

(* What such a function makes of a sequence, element by element.           *)
LEMMA UnfoldingRuns ==
    ASSUME NEW n \in Nat, NEW top, Largest(top, n), NEW base, NEW q, NEW g,
           Unfolds(g, top, n, base, q)
    PROVE  /\ g[1..0] = base
           /\ \A m \in 1..n : g[1..m] = Op(g[1..(m - 1)], q[m])
<1>1. g[1..0] = base
  <2>1. 1..0 = {} /\ {} \in SUBSET (1..n)
    OBVIOUS
  <2> QED
    BY <2>1 DEF Unfolds
<1>2. ASSUME NEW m \in 1..n PROVE g[1..m] = Op(g[1..(m - 1)], q[m])
  <2>1. m \in 1..m /\ 1..m \in (SUBSET (1..n)) \ {{}}
    OBVIOUS
  <2>2. top[1..m] \in 1..m /\ m <= top[1..m]
    BY <2>1 DEF Largest
  <2>3. top[1..m] = m
    BY <2>2
  <2>4. (1..m) \ {m} = 1..(m - 1)
    OBVIOUS
  <2> QED
    BY <2>1, <2>3, <2>4 DEF Unfolds
<1> QED
  BY <1>1, <1>2

==============================================================================
