------------------------------- MODULE History -------------------------------
(***************************************************************************)
(* What the commits of one thread ref tell: the log of show and the TUI    *)
(* with the rows of one node (snapshot/history.rs), the body revisions of  *)
(* git forum diff (commands/diff.rs), and the day a thread was resolved    *)
(* according to git forum shortlog (commands/shortlog.rs).                 *)
(*                                                                         *)
(* The ref is a chain of commits, newest last: snapshots of 3.0, each with *)
(* the whole document as its tree, and events of 2.x, whose trees hold the *)
(* event alone. A commit's date is its place in the chain: clocks that run *)
(* backwards are left out.                                                 *)
(***************************************************************************)
EXTENDS Naturals, Sequences, SequencesExt, FiniteSets, Categories, Option

CONSTANTS
    ThreadFlavor,         \* the flavor of the thread
    BodyTexts,         \* body texts
    HistoryNodes,   \* node ids
    MaxLog          \* bound on the commits of the chain

VARIABLES
    ref,        \* the namespace this clone has the thread in
    log         \* the commits of the ref

historyVars == <<ref, log>>

Terminal == {"done", "rejected", "deprecated", "withdrawn"}
Empty == ""     \* the text of a body.md that is not there

-----------------------------------------------------------------------------
(* Commits.                                                                 *)

NoNodes == [n \in HistoryNodes |-> None]
Document(status, body, nodes) == [status |-> status, body |-> body, nodes |-> nodes]

(* The tree of an event has none of the files of a snapshot.                *)
Snapshot(doc, subject) == [form |-> "snapshot", doc |-> doc, subject |-> subject]
Event(change, verb) ==
    [ form |-> "event", doc |-> Document(None, Empty, NoNodes), change |-> change,
      subject |-> [tagged |-> TRUE, verb |-> verb, args |-> <<"thread">>] ]

(* The subjects of the commands: a phrase of their own, nowhere with the    *)
(* tag of migrate and of 2.x. A state change spells its arrow with spaces.  *)
Phrase(verb, args) == [tagged |-> FALSE, verb |-> verb, args |-> args]
StateSubject(from, to) == Phrase("state", <<from, "->", to>>)
MigrateSubject == [tagged |-> TRUE, verb |-> "migrate", args |-> <<"thread", "to", "3.0">>]

Newest == log[Len(log)]

(* replay_thread: the last snapshot seeds, the events above it follow.      *)
Applied(doc, commit) ==
    IF commit.form = "snapshot" THEN commit.doc
    ELSE CASE commit.change.kind = "state" -> [doc EXCEPT !.status = commit.change.to]
           [] commit.change.kind = "body" -> [doc EXCEPT !.body = commit.change.to]
           [] OTHER -> [doc EXCEPT !.nodes[commit.change.node] = commit.change.to]

ShownAfter(n) ==
    FoldLeft(Applied, Document(BuiltInInitial(ThreadFlavor), Empty, NoNodes), SubSeq(log, 1, n))

Shown == ShownAfter(Len(log))

-----------------------------------------------------------------------------
(* snapshot/history.rs                                                      *)

(* parse_subject, of which shortlog asks for state changes alone: the tag,  *)
(* and two words after the verb, of which the second holds both statuses.   *)
ParsedState(subject) ==
    IF subject.tagged /\ subject.verb = "state" /\ Len(subject.args) = 2
    THEN subject.args[2] ELSE None

(* git log --name-only: what differs from the parent, all of it at the root.*)
TouchedNodes(i) ==
    LET before == IF i = 1 THEN NoNodes ELSE log[i - 1].doc.nodes
    IN  { n \in HistoryNodes : log[i].doc.nodes[n] # before[n] }

(* entries_touching, for the files of one node.                             *)
RowsOfNode(n) == { i \in DOMAIN log : n \in TouchedNodes(i) }

-----------------------------------------------------------------------------
(* commands/diff.rs, commands/shortlog.rs                                   *)

(* Mutant of Revised: a body that was there before is no revision.          *)
Revised_Seen(revisions, commit) ==
    IF commit.doc.body \in ToSet(revisions) THEN revisions ELSE Append(revisions, commit.doc.body)

(* collect_revisions                                                        *)
Revised(revisions, commit) ==
    IF revisions # <<>> /\ Last(revisions) = commit.doc.body THEN revisions
    ELSE Append(revisions, commit.doc.body)

Revisions == FoldLeft(Revised, <<>>, log)

(* terminal_state_date. The authoritative ref alone is asked.               *)
TerminalDate ==
    LET moves == { i \in DOMAIN log : LET move == ParsedState(log[i].subject)
                                      IN  move # None /\ move[2] = Shown.status }
    IN  IF Shown.status \notin Terminal \/ ref # "threads" THEN None
        ELSE IF moves = {} THEN Len(log)
        ELSE CHOOSE i \in moves : \A j \in moves : j <= i

-----------------------------------------------------------------------------
(* The commands that write the ref.                                         *)

Room == Len(log) < MaxLog
Commit(commit) == Room /\ log' = Append(log, commit) /\ UNCHANGED ref

(* read_snapshot refuses a tip that is an event; a clone that has the       *)
(* published copy writes nothing.                                           *)
WriteSnapshot(doc, subject) ==
    /\ ref = "threads" /\ Newest.form = "snapshot"
    /\ Commit(Snapshot(doc, subject))

(* state and its verbs; with a comment, a node is added in the same commit. *)
Move(to, commented) ==
    /\ <<Newest.doc.status, to>> \in BuiltInEdges(ThreadFlavor)
    /\ \E n \in commented : Newest.doc.nodes[n] = None
    /\ WriteSnapshot(
          [Newest.doc EXCEPT !.status = to,
                             !.nodes = [n \in HistoryNodes |->
                                           IF n \in commented THEN "open" ELSE @[n]]],
          StateSubject(Newest.doc.status, to))

SayNode(n) ==
    /\ Newest.doc.nodes[n] = None
    /\ WriteSnapshot([Newest.doc EXCEPT !.nodes[n] = "open"], Phrase("node", <<"add">>))

(* The policy restricts in which statuses; here it does not.                *)
ReviseBody(body, incorporates) ==
    /\ \A n \in incorporates : Newest.doc.nodes[n] # None
    /\ WriteSnapshot(
          [Newest.doc EXCEPT !.body = body,
                             !.nodes = [n \in HistoryNodes |->
                                           IF n \in incorporates THEN "incorporated" ELSE @[n]]],
          Phrase("revise", <<"body", "of", "thread">>))

SetNodes(nodes, status) ==
    /\ \A n \in nodes : Newest.doc.nodes[n] # None
    /\ WriteSnapshot(
          [Newest.doc EXCEPT !.nodes = [n \in HistoryNodes |->
                                           IF n \in nodes THEN status ELSE @[n]]],
          Phrase("node", <<"lifecycle:", status>>))

(* Evidence, links, branch and visibility: files of which nothing is asked. *)
WriteOther == WriteSnapshot(Newest.doc, Phrase("evidence", <<"add">>))

(* A 2.x client.                                                            *)
AppendEvent(change, verb) == ref = "threads" /\ Commit(Event(change, verb))

(* git forum migrate writes what replay shows.                              *)
MigrateThread ==
    /\ ref = "threads" /\ Newest.form = "event"
    /\ Commit(Snapshot(Shown, MigrateSubject))

HistoryInit ==
    /\ ref \in {"threads", "published"}
    /\ LET start(body) == Document(BuiltInInitial(ThreadFlavor), body, NoNodes)
           created(body) == Snapshot(start(body), Phrase("create", <<"thread">>))
       IN  log \in { <<created(body)>> : body \in BodyTexts \cup {Empty} }
                   \cup { <<Event([kind |-> "body", to |-> body], "create")>> :
                             body \in IF ref = "threads" THEN BodyTexts ELSE {} }

HistoryNext ==
    \/ \E to \in CanonicalStatuses, n \in HistoryNodes : Move(to, {n}) \/ Move(to, {})
    \/ \E n \in HistoryNodes : SayNode(n)
    \/ \E body \in BodyTexts, nodes \in SUBSET HistoryNodes : ReviseBody(body, nodes)
    \/ \E nodes \in (SUBSET HistoryNodes) \ {{}}, status \in {"open", "resolved"} : SetNodes(nodes, status)
    \/ WriteOther
    \/ \E to \in CanonicalStatuses :
          /\ <<Shown.status, to>> \in BuiltInEdges(ThreadFlavor)
          /\ AppendEvent([kind |-> "state", to |-> to], "state")
    \/ \E body \in BodyTexts : AppendEvent([kind |-> "body", to |-> body], "revise-body")
    \/ \E n \in HistoryNodes :
          Shown.nodes[n] = None /\ AppendEvent([kind |-> "node", node |-> n, to |-> "open"], "say")
    \/ MigrateThread

HistorySpec == HistoryInit /\ [][HistoryNext]_historyVars

-----------------------------------------------------------------------------
(* Properties.                                                              *)

(* The commit after which the status was what it is now.                    *)
ResolvedAt ==
    CHOOSE i \in DOMAIN log :
        /\ \A j \in i..Len(log) : ShownAfter(j).status = Shown.status
        /\ i = 1 \/ ShownAfter(i - 1).status # Shown.status

(* terminal_state_date "scans the thread ref's commit log newest-first and   *)
(* returns the timestamp of the most recent `state` commit whose `to`        *)
(* matches the current terminal status" (shortlog.rs:51-54), and takes the   *)
(* tip only where no such commit is recorded.  So a thread that a command    *)
(* resolved carries the date of that command's commit.                       *)
DatedByItsMove ==
    LET move == log[ResolvedAt] IN
    /\ Shown.status \in Terminal /\ ref = "threads"
    /\ move.form = "snapshot" /\ move.subject.verb = "state"
    => TerminalDate = ResolvedAt

(* What history shows last is what show shows: with a snapshot at the tip,  *)
(* the last revision of diff is the body - whatever bodies came and went,   *)
(* and although events have no body.md -, and the newest row of a node is   *)
(* the commit that made it what it is, unless events came between.          *)
HistoryEndsAtTip ==
    Newest.form = "snapshot" =>
        /\ Last(Revisions) = Shown.body
        /\ \A n \in HistoryNodes : Shown.nodes[n] # None =>
              LET rows == RowsOfNode(n)
                  newest == CHOOSE i \in rows : \A j \in rows : j <= i
              IN  /\ rows # {}
                  /\ log[newest].doc.nodes[n] = Shown.nodes[n]
==============================================================================
