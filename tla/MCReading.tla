------------------------------ MODULE MCReading ------------------------------
(***************************************************************************)
(* Six parts that read what git holds and must make the same of it every   *)
(* time: legacy chains, the batch reader, lookups over refs, the history   *)
(* commands, the reply tree and fix-index. They share no state: a behaviour*)
(* takes the steps of one part, and the others stay where they began.      *)
(***************************************************************************)
EXTENDS LegacyChain, BatchReader, References, History, NodeTree, IndexRepair, TLC

VARIABLE part       \* the part that takes steps

-----------------------------------------------------------------------------
(* BatchReader: a tree with subtrees, one of which may arrive later, and a  *)
(* submodule.                                                               *)

Stored(sort, data, late) == [kind |-> sort, data |-> data, late |-> late]
InTreeAs(mode, name, id) == [mode |-> mode, name |-> name, id |-> id]
MCStore ==
    ("root" :> Stored("tree", <<InTreeAs("100644","a","f"), InTreeAs("40000","d","sub"),
                                InTreeAs("160000","m","elsewhere"),
                                InTreeAs("40000","e","sub2")>>, FALSE))
    @@ ("sub" :> Stored("tree", <<InTreeAs("100644","b","f")>>, TRUE))
    @@ ("sub2" :> Stored("tree", <<InTreeAs("100644","c","f")>>, FALSE))
    @@ ("f" :> Stored("blob", <<"text">>, FALSE))
MCReads ==
    { [op |-> "blob", name |-> n] : n \in {"f", "sub", "no such", "two lines"} }
    \cup { [op |-> "list", name |-> n] : n \in {"root", "f"} }

-----------------------------------------------------------------------------
(* References: bare tokens, a pair of them with a common prefix, an id that *)
(* was never migrated, a sequential one, and node ids that begin alike.     *)

tokenA == <<"a","b","1">>
tokenB == <<"a","b","a">>
kind == <<"K">>
oldId == <<"K","-","a","b","1">>
seqId == <<"K","-","1","1">>
derived == <<"b","a","1">>
nodeA == <<"a","1","b">>
nodeB == <<"a","b","b">>

MCDerived == (seqId :> derived)
MCQuestions ==
    { [op |-> "show", args |-> <<r>>] : r \in { <<"a","b">>, <<"@","a","b","1">>,
         <<"A","B","1">>, oldId, <<"k","-","1","1">>, nodeA } }
    \cup { [op |-> "mark", args |-> a] : a \in
              { << <<"a","1">> >>, << <<"a","b">>, nodeA >>, <<nodeA, nodeB>> } }
    \cup { [op |-> "node", args |-> <<r>>] : r \in { nodeB, <<"a","b">>, <<"a">> } }
    \cup { [op |-> "commit-msg", args |-> m] : m \in
              { << <<tokenA, seqId>>, <<>> >>, << <<>>, <<tokenB, seqId>> >> } }
    \cup { [op |-> "open", args |-> <<tokenA, r>>] : r \in { nodeA, <<"a","b">> } }

OneThread == [threads |-> (tokenA :> {nodeA}), published |-> (tokenA :> {nodeA})]
MCStarts ==
    { OneThread,
      [threads |-> (tokenA :> {nodeA}) @@ (tokenB :> {nodeB}), published |-> <<>>],
      [threads |-> (oldId :> {nodeA}) @@ (tokenB :> {nodeA}), published |-> (tokenA :> {})],
      [threads |-> (derived :> {}), published |-> <<>>] }
MCKindPrefixes == {kind}
MCNewIds == {tokenA, tokenB, oldId}
MCNodeIds == {nodeA, nodeB}
MCAliases == {seqId}

(* What KeepsMeaning supposes of ids.                                       *)
ASSUME IdsInPractice

-----------------------------------------------------------------------------
MCClock == 1..2

-----------------------------------------------------------------------------
(* The parts that take no step begin in one state.                          *)

ReadingInit ==
    /\ part \in {"chain", "batch", "refs", "history", "tree", "repair"}
    /\ ChainInit /\ BatchInit /\ RefInit /\ HistoryInit /\ TreeInit /\ RepairInit
    /\ part # "batch" => present = DOMAIN Store
    /\ part # "refs" => threads = OneThread.threads /\ published = OneThread.published
    /\ part # "history" => ref = "published" /\ Shown.body = Empty
    /\ part # "repair" => blobs = {"c1"}

ReadingNext ==
    /\ \/ /\ part = "chain" /\ ChainNext
          /\ UNCHANGED <<batchVars, refVars, historyVars, treeVars, repairVars>>
       \/ /\ part = "batch" /\ BatchNext
          /\ UNCHANGED <<chain, refVars, historyVars, treeVars, repairVars>>
       \/ /\ part = "refs" /\ RefNext
          /\ UNCHANGED <<chain, batchVars, historyVars, treeVars, repairVars>>
       \/ /\ part = "history" /\ HistoryNext
          /\ UNCHANGED <<chain, batchVars, refVars, treeVars, repairVars>>
       \/ /\ part = "tree" /\ TreeNext
          /\ UNCHANGED <<chain, batchVars, refVars, historyVars, repairVars>>
       \/ /\ part = "repair" /\ RepairNext
          /\ UNCHANGED <<chain, batchVars, refVars, historyVars, treeVars>>
    /\ UNCHANGED part

ReadingSpec ==
    ReadingInit
    /\ [][ReadingNext]_<<part, chain, batchVars, refVars, historyVars, treeVars, repairVars>>
==============================================================================
