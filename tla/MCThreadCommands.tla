--------------------------- MODULE MCThreadCommands ---------------------------
(* ThreadCommands with the built-in categories and the default policy, and  *)
(* the symmetry TLC may use: threads, processes and node ids are            *)
(* interchangeable in every property.                                      *)
EXTENDS ThreadCommands, TLC

MCEdges == [f \in Flavors |-> BuiltInEdges(f)]
MCInitial == [f \in Flavors |-> BuiltInInitial(f)]

Symmetric == Permutations(Threads) \cup Permutations(Procs) \cup Permutations(Nodes)
===============================================================================
