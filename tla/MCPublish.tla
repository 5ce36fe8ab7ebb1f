------------------------------ MODULE MCPublish ------------------------------
(* Publish with the symmetry TLC may use: threads and pushers are           *)
(* interchangeable in every safety property.                               *)
EXTENDS Publish, TLC

Symmetric == Permutations(Threads) \cup Permutations(Pushers)
=============================================================================
