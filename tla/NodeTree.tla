------------------------------ MODULE NodeTree ------------------------------
(***************************************************************************)
(* The replies of a thread as the two front ends show them: the tree of    *)
(* the TUI's node pane with its folds and its cursor (tui/state.rs,        *)
(* tui/mod.rs), and the conversations of git forum show                    *)
(* (commands/show.rs). Other processes add nodes at any time; ids are      *)
(* random and creation times come from their clocks, so neither tells the  *)
(* order in which nodes were written. A reply keeps the id it answers,     *)
(* also where a migration left no such node in the thread.                 *)
(***************************************************************************)
EXTENDS Naturals, Sequences, SequencesExt, FiniteSets, Option

CONSTANTS
    NodeCount,      \* nodes are 1 to NodeCount, in the order of their ids
    Clock           \* creation times

VARIABLES
    nodes,      \* the thread's nodes: [reply, at] by id
    pane        \* the thread view of the TUI, or what it saved

treeVars == <<nodes, pane>>

NoReply == 0
Elsewhere == NodeCount + 1      \* an id that no node of the thread has
Root == 0                       \* the thread's own row, above the nodes

-----------------------------------------------------------------------------
(* commands/show.rs                                                         *)

Replies(shown, id) == { n \in DOMAIN shown : shown[n].reply = id }
Roots(shown) == { n \in DOMAIN shown : shown[n].reply \notin DOMAIN shown }
ById(ids) == SetToSortSeq(ids, <)

(* build_conversations: every root with all replies to it, level by level.  *)
RECURSIVE Chain(_, _)
Chain(shown, queue) ==
    IF queue = <<>> THEN <<>>
    ELSE <<Head(queue)>> \o Chain(shown, Tail(queue) \o ById(Replies(shown, Head(queue))))

Conversations(shown) ==
    LET roots == ById(Roots(shown))
    IN  [i \in DOMAIN roots |-> Chain(shown, <<roots[i]>>)]

-----------------------------------------------------------------------------
(* tui/state.rs: build_tree_entries.                                        *)

Earlier(shown, a, b) ==
    shown[a].at < shown[b].at \/ (shown[a].at = shown[b].at /\ a < b)
ByTime(shown, ids) == SetToSortSeq(ids, LAMBDA a, b : Earlier(shown, a, b))

RECURSIVE Walk(_, _, _)
Walk(shown, id, depth) ==
    LET kids == ByTime(shown, Replies(shown, id))
        below == [i \in DOMAIN kids |-> Walk(shown, kids[i], depth + 1)]
    IN  <<[id |-> id, depth |-> depth, parent |-> kids # <<>>]>> \o FlattenSeq(below)

(* Mutant of TreeEntries: a reply to a node that is not there is no root.   *)
TreeEntries_Strict(shown) ==
    LET roots == ByTime(shown, Replies(shown, NoReply))
    IN  FlattenSeq([i \in DOMAIN roots |-> Walk(shown, roots[i], 0)])

TreeEntries(shown) ==
    LET roots == ByTime(shown, Roots(shown))
    IN  FlattenSeq([i \in DOMAIN roots |-> Walk(shown, roots[i], 0)])

-----------------------------------------------------------------------------
(* tui/mod.rs: folds and the cursor.                                        *)

(* recompute_visible_tree: one pass with the depth that is being skipped.   *)
Unfolded(entries, collapsed) ==
    LET step(acc, i) ==
            LET entry == entries[i]
                folds == entry.parent /\ entry.id \in collapsed
            IN  IF acc.skip # None /\ entry.depth > acc.skip THEN acc
                ELSE [rows |-> Append(acc.rows, entry.id),
                      skip |-> IF folds THEN entry.depth ELSE None]
    IN  FoldLeft(step, [rows |-> <<>>, skip |-> None], [i \in DOMAIN entries |-> i]).rows

Rows(p) == Unfolded(TreeEntries(p.shown), p.collapsed)

(* Row 0 is the thread's own.                                               *)
NodeAt(p, row) == IF row = 0 THEN Root ELSE Rows(p)[row]
RowOf(p, id) ==
    LET all == Rows(p)
        rows == { i \in DOMAIN all : all[i] = id }
    IN  IF rows = {} THEN 0 ELSE CHOOSE i \in rows : TRUE

Reselect(p, id) == [p EXCEPT !.row = RowOf(p, id)]
Placed(p, row) == [p EXCEPT !.row = row, !.cursor = NodeAt(p, row)]

(* open_thread_detail reads the thread and looks for the node again.        *)
Opened(p, id) == Reselect([p EXCEPT !.at = "thread", !.shown = nodes], id)

Enter ==
    /\ pane.at = "list"
    /\ pane' = [Opened(pane, Root) EXCEPT !.cursor = Root]
    /\ UNCHANGED nodes

MoveNode ==
    /\ pane.at = "thread"
    /\ \E row \in {pane.row - 1, pane.row + 1} \cap 0..Len(Rows(pane)) :
          pane' = Placed(pane, row)
    /\ UNCHANGED nodes

ClickNodeRow ==
    /\ pane.at = "thread"
    /\ \E row \in 0..Len(Rows(pane)) : pane' = Placed(pane, row)
    /\ UNCHANGED nodes

(* toggle_collapse: a node without replies has no fold.                     *)
Toggle ==
    LET id == NodeAt(pane, pane.row)
    IN  /\ pane.at = "thread" /\ pane.row > 0
        /\ Replies(pane.shown, id) # {}
        /\ pane' = Reselect([pane EXCEPT !.collapsed =
                        IF id \in @ THEN @ \ {id} ELSE @ \cup {id}], id)
        /\ UNCHANGED nodes

(* auto_refresh, once the tip has moved.                                    *)
Refresh ==
    /\ pane.at = "thread"
    /\ pane' = Opened(pane, NodeAt(pane, pane.row))
    /\ UNCHANGED nodes

(* q clears the folds; Ctrl-C saves them, and the row, for the next session.*)
Leave ==
    /\ pane.at = "thread"
    /\ pane' = [pane EXCEPT !.at = "list", !.shown = <<>>, !.collapsed = {}, !.cursor = Root]
    /\ UNCHANGED nodes

Interrupt ==
    /\ pane.at = "thread"
    /\ pane' = [pane EXCEPT !.at = "saved", !.shown = <<>>, !.cursor = Root]
    /\ UNCHANGED nodes

(* run: the thread is opened, the folds come back, then the row.            *)
Resume ==
    /\ pane.at = "saved"
    /\ LET opened == Opened(pane, Root)
           last == Len(Rows(opened))
       IN  pane' = Placed(opened, IF pane.row > last THEN last ELSE pane.row)
    /\ UNCHANGED nodes

(* say, with or without --reply-to, or a migration.                         *)
AddReply(id, reply, at) ==
    /\ id \notin DOMAIN nodes /\ reply \in DOMAIN nodes \cup {NoReply, Elsewhere}
    /\ nodes' = [n \in DOMAIN nodes \cup {id} |->
                    IF n = id THEN [reply |-> reply, at |-> at] ELSE nodes[n]]
    /\ UNCHANGED pane

TreeInit ==
    /\ nodes = <<>>
    /\ pane = [at |-> "list", shown |-> <<>>, collapsed |-> {}, row |-> 0, cursor |-> Root]

TreeNext ==
    \/ Enter \/ MoveNode \/ ClickNodeRow \/ Toggle \/ Refresh \/ Leave \/ Interrupt \/ Resume
    \/ \E id \in 1..NodeCount, reply \in 0..NodeCount + 1, at \in Clock : AddReply(id, reply, at)

TreeSpec == TreeInit /\ [][TreeNext]_treeVars

-----------------------------------------------------------------------------
(* Properties.                                                              *)

(* The nodes of a tree from its i-th entry to the next root.                *)
Branch(entries, i) ==
    { entries[j].id : j \in { k \in i..Len(entries) :
          \A m \in i + 1..k : entries[m].depth > 0 } }

Above(shown, id) ==
    LET up[n \in 0..NodeCount] ==
            IF n = 0 THEN {id}
            ELSE LET below == up[n - 1]
                 IN  below \cup ({ shown[m].reply : m \in below } \cap DOMAIN shown)
    IN  up[NodeCount] \ {id}

(* The pane tells what show tells ("matches CLI / TUI shared semantics",    *)
(* show.rs:1184): every node once, grouped into the same conversations; a   *)
(* fold hides the replies below it, at any depth, and nothing else; and     *)
(* whatever is folded, unfolded or written meanwhile, the cursor stays on   *)
(* the node it was put on.                                                  *)
PaneTrue ==
    pane.at = "thread" =>
        LET entries == TreeEntries(pane.shown)
            shows(id) == id \in ToSet(Rows(pane))
        IN  /\ Len(entries) = Cardinality(DOMAIN pane.shown)
            /\ { ToSet(chain) : chain \in ToSet(Conversations(pane.shown)) }
               = { Branch(entries, i) : i \in { j \in DOMAIN entries : entries[j].depth = 0 } }
            /\ \A id \in DOMAIN pane.shown :
                  shows(id) <=> Above(pane.shown, id) \cap pane.collapsed = {}
            /\ NodeAt(pane, pane.row) = pane.cursor
==============================================================================
