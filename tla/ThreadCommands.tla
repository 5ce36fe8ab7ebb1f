---------------------------- MODULE ThreadCommands ----------------------------
(***************************************************************************)
(* The commands that edit a thread's document, run by several processes of *)
(* one clone: each reads the snapshot (some of them twice or three times), *)
(* checks it against the category and the policy, and writes the whole     *)
(* document back (src/internal/commands, src/internal/tui/state.rs).       *)
(*                                                                         *)
(* write_snapshot (module SnapshotStore) replaces whatever the ref holds   *)
(* when it runs or fails with a conflict: here it is one atomic step that  *)
(* installs the document the command holds in memory.                      *)
(*                                                                         *)
(* Of a document the model keeps what a check reads: flavor, status, the   *)
(* nodes that guards count, links and whether a commit is attached. Bodies, *)
(* comments, branch, visibility and timestamps are left out; a command     *)
(* that edits only those still rewrites the whole document.                *)
(***************************************************************************)
EXTENDS Naturals, FiniteSets, Categories

CONSTANTS
    Threads, Procs, None,
    Nodes,          \* ids that id_alloc can hand out to nodes
    Flavors,        \* thread flavors the policy defines
    Statuses,       \* statuses of all categories
    Edges,          \* Edges[f]: the transitions of flavor f's category
    Initial,        \* Initial[f]: its initial_status
    Guards(_, _, _),  \* guard rules of flavor f's transition from -> to
    Denied,         \* <<rule, flavor, status>>: refused by operation checks
    Kinds,          \* node kinds users add
    Names,          \* verbs and status names users type
    Flags,          \* options of the state verbs that are used
    Commands,       \* which commands users issue
    MaxCommands     \* bound on the number of commands issued

GuardRules == {"no_open_objections", "no_open_actions", "one_approval", "has_commit_evidence"}
NodeKinds == {"objection", "action", "approval", "comment"}
NodeStatuses == {"open", "resolved", "retracted", "incorporated"}
NodeRecord == [kind : NodeKinds, status : NodeStatuses]
Link == {"implements", "supersedes", "superseded-by"} \X Threads

Doc == [flavor : Flavors, status : Statuses, nodes : [Nodes -> NodeRecord \cup {None}],
        links : SUBSET Link, commit : BOOLEAN]

ASSUME RegistryAssumption ==
    /\ Edges \in [Flavors -> SUBSET (Statuses \X Statuses)]
    /\ Initial \in [Flavors -> Statuses]
    /\ Kinds \subseteq NodeKinds
    /\ "draft" \in Statuses
    /\ "deprecated" \in Statuses
    /\ \A name \in Names : Canonical(name) \in Statuses

(* A policy with any other rule name does not load.                         *)
ASSUME GuardsAssumption ==
    \A f \in Flavors, from \in Statuses, to \in Statuses : Guards(f, from, to) \subseteq GuardRules

ASSUME NoneAssumption ==
    \A S \in {Threads, NodeRecord, Doc, NodeKinds, NodeStatuses} : None \notin S

VARIABLES
    docs,       \* docs[t]: the document at refs/forum/threads/<t>, None if absent
    pc,         \* pc[p]: the step process p is at
    job,        \* job[p]: its command, arguments and the document in memory
    issued,     \* number of commands issued
    halfway,    \* <<old, new>>: a two-thread command that stopped in between
    clobbered   \* some write replaced a document its command had not read

vars == <<docs, pc, job, issued, halfway, clobbered>>

-----------------------------------------------------------------------------
(* What commands do to a document in memory.                               *)

NewDoc(f, s, links) ==
    [flavor |-> f, status |-> s, nodes |-> [n \in Nodes |-> None],
     links |-> links, commit |-> FALSE]

Has(d, n) == d.nodes[n] # None

OpenOf(d, kind) ==
    {n \in Nodes : Has(d, n) /\ d.nodes[n] = [kind |-> kind, status |-> "open"]}

SetStatus(d, s) == [d EXCEPT !.status = s]

(* Nodes of S that d holds get status s.                                   *)
Mark(d, S, s) ==
    [d EXCEPT !.nodes =
        [n \in Nodes |-> IF n \in S /\ Has(d, n)
                         THEN [kind |-> d.nodes[n].kind, status |-> s]
                         ELSE d.nodes[n]]]

Retyped(d, S, kind) ==
    [d EXCEPT !.nodes =
        [n \in Nodes |-> IF n \in S /\ Has(d, n)
                         THEN [kind |-> kind, status |-> d.nodes[n].status]
                         ELSE d.nodes[n]]]

AddLink(d, rel, t) == [d EXCEPT !.links = @ \cup {<<rel, t>>}]

(* An id that no document holds; a hash of actor, text and time otherwise. *)
FreshNodes ==
    {n \in Nodes : /\ \A t \in Threads : docs[t] # None => ~Has(docs[t], n)
                   /\ \A p \in Procs : job[p].doc # None => ~Has(job[p].doc, n)}

(* A faulty variant: the status is left to a default nobody fills in.       *)
WithNode_NoStatus(d, kind) ==
    IF kind = "comment" THEN {d}
    ELSE {[d EXCEPT !.nodes = [d.nodes EXCEPT ![n] = [kind |-> kind]]] : n \in FreshNodes}

(* The documents that adding a node can produce; comments are left out.    *)
WithNode(d, kind) ==
    IF kind = "comment" THEN {d}
    ELSE { [d EXCEPT !.nodes = [d.nodes EXCEPT ![n] =
                                   [kind |-> kind, status |-> "open"]]] :
           n \in FreshNodes }

Resolved(d, flags) ==
    IF "resolve" \in flags THEN Mark(d, OpenOf(d, "action"), "resolved") ELSE d

(* A state change with its companions, all in one document.                *)
Moved(d, s, flags) ==
    LET e == Resolved(SetStatus(d, s), flags)
    IN  IF "approve" \in flags THEN WithNode(e, "approval") ELSE {e}

-----------------------------------------------------------------------------
(* The category's transition graph and the guards of the policy.           *)

Closed(f, S) == \A e \in Edges[f] : e[1] \in S => e[2] \in S

(* The statuses in every set that holds from and is closed under edges.     *)
ReachableFrom(f, from) ==
    {to \in Statuses : \A S \in SUBSET Statuses : from \in S /\ Closed(f, S) => to \in S}

(* <<f, from, to>> for which find_path returns a path.                     *)
Paths ==
    UNION {{<<f, from, to>> : to \in ReachableFrom(f, from)} : f \in Flavors, from \in Statuses}

AllowsTransition(f, from, to) == <<from, to>> \in Edges[f]

Satisfies(d, rule) ==
    CASE rule = "no_open_objections" -> OpenOf(d, "objection") = {}
      [] rule = "no_open_actions" -> OpenOf(d, "action") = {}
      [] rule = "one_approval" ->
            \E n \in Nodes : /\ Has(d, n)
                             /\ d.nodes[n].kind = "approval"
                             /\ d.nodes[n].status # "retracted"
      [] rule = "has_commit_evidence" -> d.commit

GuardsPass(d, from, to, cured) ==
    \A rule \in Guards(d.flavor, from, to) \ cured : Satisfies(d, rule)

(* A faulty variant: the options are taken to satisfy every rule they can.  *)
Cured_All(flags) == {"one_approval", "no_open_actions"}

(* The synthetic approvals of --approve satisfy one_approval.               *)
Cured(flags) == IF "approve" \in flags THEN {"one_approval"} ELSE {}

(* The rule that check_say, check_revise or check_evidence looks up.       *)
Rule(j) ==
    CASE j.op = "say" -> j.kind
      [] j.op = "retype" -> "revise_node"
      [] OTHER -> j.op

CheckedOps == {"say", "revise_body", "revise_node", "retype", "evidence"}

PassesCheck(j, d) == <<Rule(j), d.flavor, d.status>> \notin Denied

-----------------------------------------------------------------------------
Ops == CheckedOps \cup {"new", "tui_new", "tui_say", "tui_revise", "link", "edit",
                        "mark", "tui_mark", "state", "bulk", "supersede", "none"}

Stages == {"idle", "check", "filter", "read", "resolve", "guard", "write", "back"}

Job == [op : Ops, t : Threads \cup {None}, peer : Threads \cup {None},
        to : Names \cup Statuses \cup {None}, flags : SUBSET (Flags \cup {"comment"}), kind : NodeKinds \cup {None},
        nodes : SUBSET Nodes, mark : NodeStatuses \cup {None}, todo : SUBSET Threads,
        doc : Doc \cup {None}, second : BOOLEAN, alone : BOOLEAN, current : BOOLEAN]

(* alone: no other process wrote thread t since the command first read it;  *)
(* current: none since it read the document it holds; second: the second   *)
(* half of a two-thread command.                                           *)
NoJob == [op |-> "none", t |-> None, peer |-> None, to |-> None, flags |-> {},
          kind |-> None, nodes |-> {}, mark |-> None, todo |-> {}, doc |-> None,
          second |-> FALSE, alone |-> TRUE, current |-> TRUE]

Init ==
    /\ docs \in [Threads -> {NewDoc(f, Initial[f], {}) : f \in Flavors} \cup {None}]
    /\ pc = [p \in Procs |-> "idle"]
    /\ job = [p \in Procs |-> NoJob]
    /\ issued = 0
    /\ halfway = {}
    /\ clobbered = FALSE

Existing == {t \in Threads : docs[t] # None}

-----------------------------------------------------------------------------
(* Steps of a process, and the ways a command ends.                        *)

Proceed(p, stage, j) ==
    /\ pc' = [pc EXCEPT ![p] = stage]
    /\ job' = [job EXCEPT ![p] = j]
    /\ UNCHANGED <<docs, issued, halfway, clobbered>>

(* The threads a two-thread command joins: <<superseded, superseding>>.     *)
Pair(j) == IF j.op = "new" THEN <<j.t, j.peer>> ELSE <<j.peer, j.t>>

(* The process stops working on the command, finished or not.              *)
Stop(p) ==
    /\ pc' = [pc EXCEPT ![p] = "idle"]
    /\ job' = [job EXCEPT ![p] = NoJob]
    /\ UNCHANGED <<docs, issued, clobbered>>

Finish(p) == Stop(p) /\ UNCHANGED halfway

GiveUp(p) ==
    /\ Stop(p)
    /\ halfway' = IF job[p].second THEN halfway \cup {Pair(job[p])} ELSE halfway

(* An error ends a command; state bulk reports it and takes the next thread. *)
NextOfBulk(p) ==
    Proceed(p, "filter", [job[p] EXCEPT !.t = None, !.doc = None])

Fail(p) == IF job[p].op = "bulk" THEN NextOfBulk(p) ELSE GiveUp(p)

Issue(p, stage, j) ==
    /\ j.op \in Commands
    /\ issued' = issued + 1
    /\ pc' = [pc EXCEPT ![p] = stage]
    /\ job' = [job EXCEPT ![p] = j]
    /\ UNCHANGED <<docs, halfway, clobbered>>

-----------------------------------------------------------------------------
(* Commands, one action each.                                              *)

(* git forum new: peer is a --link-to target or, with rel "supersedes", the *)
(* --from-thread source; kind is that of an inline node; without a source  *)
(* --from-commit may attach a commit.                                      *)
New(p, t, f, peer, rel, kind) ==
    /\ t \notin Existing /\ \A q \in Procs : job[q].t # t
    /\ peer # None /\ rel = "supersedes" => ~(docs[peer].flavor = "rfc" /\ f = "task")
    /\ \E d \in WithNode(NewDoc(f, Initial[f], IF peer = None THEN {} ELSE {<<rel, peer>>}), kind),
          c \in {FALSE, rel = "implements"} :
            Issue(p, "write",
                  [NoJob EXCEPT !.op = "new", !.t = t, !.doc = [d EXCEPT !.commit = c],
                                !.peer = IF rel = "supersedes" THEN peer ELSE None])

(* A faulty variant: another category's status is hard-coded.               *)
TuiNew_Working(p, t, f) ==
    /\ t \notin Existing /\ \A q \in Procs : job[q].t # t
    /\ Issue(p, "write", [NoJob EXCEPT !.op = "tui_new", !.t = t,
                                       !.doc = NewDoc(f, "working", {})])

TuiNew(p, t, f) ==
    /\ t \notin Existing /\ \A q \in Procs : job[q].t # t
    /\ Issue(p, "write", [NoJob EXCEPT !.op = "tui_new", !.t = t,
                                       !.doc = NewDoc(f, "draft", {})])

Say(p, t, kind) ==
    Issue(p, "check", [NoJob EXCEPT !.op = "say", !.t = t, !.kind = kind])

TuiSay(p, t, kind) ==
    Issue(p, "read", [NoJob EXCEPT !.op = "tui_say", !.t = t, !.kind = kind])

TuiRevise(p, t) == Issue(p, "read", [NoJob EXCEPT !.op = "tui_revise", !.t = t])

(* branch bind | clear, visibility: fields the model leaves out.            *)
EditField(p, t) == Issue(p, "read", [NoJob EXCEPT !.op = "edit", !.t = t])

LinkTo(p, t, peer) ==
    Issue(p, "read", [NoJob EXCEPT !.op = "link", !.t = t, !.peer = peer])

AddEvidence(p, t) == Issue(p, "check", [NoJob EXCEPT !.op = "evidence", !.t = t])

(* resolve | reopen | retract, with a list of node ids.                     *)
MarkNodes(p, t, S, s) ==
    Issue(p, "read", [NoJob EXCEPT !.op = "mark", !.t = t, !.nodes = S, !.mark = s])

TuiMark(p, t, n, s) ==
    Issue(p, "check", [NoJob EXCEPT !.op = "tui_mark", !.t = t, !.nodes = {n}, !.mark = s])

(* revise --incorporates S.                                                *)
ReviseBody(p, t, S) ==
    Issue(p, "check", [NoJob EXCEPT !.op = "revise_body", !.t = t, !.nodes = S,
                                    !.mark = "incorporated"])

ReviseNode(p, t, n) ==
    Issue(p, "check", [NoJob EXCEPT !.op = "revise_node", !.t = t, !.nodes = {n}])

Retype(p, t, n, kind) ==
    Issue(p, "check", [NoJob EXCEPT !.op = "retype", !.t = t, !.nodes = {n}, !.kind = kind])

(* git forum state and the shorthand verbs, with --link-to peer.            *)
State(p, t, name, flags, peer) ==
    Issue(p, "read", [NoJob EXCEPT !.op = "state", !.t = t, !.to = name,
                                   !.flags = flags, !.peer = peer])

(* git forum state bulk over the threads T, in any order.                   *)
Bulk(p, T, name, flags) ==
    Issue(p, "filter", [NoJob EXCEPT !.op = "bulk", !.todo = T, !.to = name,
                                     !.flags = flags \ {"fast", "comment"}])

(* git forum supersede <old> --by <new>.                                    *)
Supersede(p, old, new, flags) ==
    /\ old # new
    /\ Issue(p, "read", [NoJob EXCEPT !.op = "supersede", !.t = old, !.peer = new,
                                      !.to = "deprecated",
                                      !.flags = (flags \cap {"fast"}) \cup {"comment"}])

-----------------------------------------------------------------------------
(* Reads and checks.                                                       *)

(* A faulty variant: violations are printed and the command goes on.        *)
CheckPolicy_WarnOnly(p) ==
    /\ pc[p] = "check" /\ job[p].op \in CheckedOps
    /\ Proceed(p, "read", [job[p] EXCEPT !.alone = TRUE])

(* replay_thread before the operation check; node ids resolve against it.  *)
CheckPolicy(p) ==
    LET j == job[p] d == docs[j.t]
    IN  /\ pc[p] = "check" /\ j.op \in CheckedOps
        /\ IF PassesCheck(j, d)
              /\ (j.op \in {"revise_node", "retype"} => \A n \in j.nodes : Has(d, n))
           THEN Proceed(p, "read", [j EXCEPT !.alone = TRUE])
           ELSE Fail(p)

(* apply_node_status_action: does the key do anything to this node?        *)
CheckNode(p) ==
    LET j == job[p] d == docs[j.t]
        useless == IF j.mark = "resolved" THEN {"resolved", "retracted"} ELSE {j.mark}
    IN  /\ pc[p] = "check" /\ j.op = "tui_mark"
        /\ \/ /\ \A n \in j.nodes : ~Has(d, n)
              /\ Fail(p)
           \/ /\ \E n \in j.nodes : Has(d, n) /\ d.nodes[n].status \in useless
              /\ Finish(p)
           \/ /\ \A n \in j.nodes : Has(d, n) /\ d.nodes[n].status \notin useless
              /\ Proceed(p, "read", [j EXCEPT !.alone = TRUE])

(* The document after the command's edit, or none when a node is missing.  *)
Edited(j, d) ==
    CASE j.op \in {"say", "tui_say"} -> WithNode(d, j.kind)
      [] j.op = "link" -> {AddLink(d, "implements", j.peer)}
      [] j.op = "evidence" -> {d, [d EXCEPT !.commit = TRUE]}
      [] j.op = "retype" -> IF \A n \in j.nodes : Has(d, n)
                            THEN {Retyped(d, j.nodes, j.kind)} ELSE {}
      [] j.op = "revise_node" -> IF \A n \in j.nodes : Has(d, n) THEN {d} ELSE {}
      [] OTHER -> {d}

EditOps == {"say", "tui_say", "tui_revise", "link", "edit", "evidence", "retype",
            "revise_node", "revise_body", "mark", "tui_mark"}

(* read_snapshot, then the edit in memory; the commands that name nodes by  *)
(* reference resolve them in a further read.                               *)
ReadAndEdit(p) ==
    LET j == job[p] d == docs[j.t]
        next == IF j.op \in {"mark", "tui_mark", "revise_body"} THEN "resolve" ELSE "write"
        first == j.op \notin CheckedOps \cup {"tui_mark"}
    IN  /\ pc[p] = "read" /\ j.op \in EditOps
        /\ \/ \E e \in Edited(j, d) :
                Proceed(p, next, [j EXCEPT !.doc = e, !.alone = @ \/ first,
                                           !.current = TRUE])
           \/ /\ j.op \in {"retype", "revise_node"} /\ Edited(j, d) = {}
              /\ Fail(p)

(* resolve_node_id_in_thread replays the thread once more. mark applies to  *)
(* the nodes found and fails on none; the others fail on any that is missing. *)
ResolveNodes(p) ==
    LET j == job[p]
        found == {n \in j.nodes : Has(docs[j.t], n)}
        held == {n \in found : Has(j.doc, n)}
    IN  /\ pc[p] = "resolve"
        /\ IF CASE j.op = "mark" -> held # {}
                [] j.op = "tui_mark" -> held = j.nodes
                [] j.op = "revise_body" -> found = j.nodes
           THEN Proceed(p, "write", [j EXCEPT !.doc = Mark(j.doc, held, j.mark)])
           ELSE Fail(p)

(* run_state_shorthand: no guard is evaluated.                             *)
ReadForState(p) ==
    LET j == job[p] d == docs[j.t]
        to == Canonical(j.to)
        linked == IF j.op = "supersede" THEN AddLink(d, "superseded-by", j.peer)
                  ELSE IF j.peer # None THEN AddLink(d, "implements", j.peer) ELSE d
        load(e) == Proceed(p, "write", [j EXCEPT !.doc = e, !.alone = TRUE, !.current = TRUE])
    IN  /\ pc[p] = "read" /\ j.op \in {"state", "supersede"}
        /\ \/ NotApplicable(j.to, d.flavor) /\ Fail(p)
           \/ /\ ~NotApplicable(j.to, d.flavor)
              /\ d.status = to
              /\ IF "comment" \in j.flags THEN load(d) ELSE Finish(p)
           \/ /\ ~NotApplicable(j.to, d.flavor)
              /\ d.status # to
              /\ IF IF "fast" \in j.flags THEN <<d.flavor, d.status, to>> \in Paths
                    ELSE AllowsTransition(d.flavor, d.status, to)
                 THEN \E e \in Moved(linked, to, j.flags) : load(e)
                 ELSE Fail(p)

(* run_bulk_state_change takes the next thread and replays it. Threads that *)
(* do not match the selectors or already have the status are passed over.  *)
FilterBulk(p) ==
    LET j == job[p]
    IN  /\ pc[p] = "filter"
        /\ \/ j.todo = {} /\ Finish(p)
           \/ \E t \in j.todo :
                LET rest == [j EXCEPT !.todo = @ \ {t}]
                IN  \/ Proceed(p, "filter", rest)
                    \/ /\ docs[t].status # Canonical(j.to)
                       /\ Proceed(p, "read", [rest EXCEPT !.t = t, !.alone = TRUE])

(* apply_state_change_snapshot reads the thread again ...                   *)
ReadForBulk(p) ==
    LET j == job[p] d == docs[j.t]
        to == Canonical(j.to)
    IN  /\ pc[p] = "read" /\ j.op = "bulk"
        /\ IF ~NotApplicable(j.to, d.flavor) /\ AllowsTransition(d.flavor, d.status, to)
           THEN Proceed(p, "guard", [j EXCEPT !.doc = d, !.current = TRUE])
           ELSE Fail(p)

(* ... evaluates the guards on a third read, and edits the second.          *)
GuardBulk(p) ==
    LET j == job[p]
        to == Canonical(j.to)
        projected == Resolved(docs[j.t], j.flags)
    IN  /\ pc[p] = "guard"
        /\ IF GuardsPass(projected, j.doc.status, to, Cured(j.flags))
           THEN \E e \in Moved(j.doc, to, j.flags) :
                   Proceed(p, "write", [j EXCEPT !.doc = e])
           ELSE Fail(p)

(* The second half of new --from-thread and supersede.                     *)
ReadForBack(p) ==
    LET j == job[p] d == docs[j.t]
        load(e) == Proceed(p, "write", [j EXCEPT !.doc = e, !.current = TRUE, !.alone = TRUE])
    IN  /\ pc[p] = "back"
        /\ IF j.op = "new" THEN load(AddLink(d, "superseded-by", j.peer))
           ELSE IF <<"supersedes", j.peer>> \in d.links THEN Finish(p)
           ELSE load(AddLink(d, "supersedes", j.peer))

-----------------------------------------------------------------------------
(* write_snapshot.                                                         *)

(* A faulty variant: supersede records itself on the old thread only.       *)
TwoThreads_NewOnly(j) == j.op = "new" /\ j.peer # None

TwoThreads(j) == j.op \in {"new", "supersede"} /\ j.peer # None

NextStage(j) ==
    IF TwoThreads(j) /\ ~j.second THEN "back"
    ELSE IF j.op = "bulk" THEN "filter" ELSE "idle"

NextJob(j) ==
    CASE NextStage(j) = "back" ->
            [NoJob EXCEPT !.op = j.op, !.t = j.peer, !.peer = j.t, !.second = TRUE]
      [] NextStage(j) = "filter" -> [j EXCEPT !.t = None, !.doc = None]
      [] NextStage(j) = "idle" -> NoJob

Write(p) ==
    LET j == job[p]
    IN  /\ pc[p] = "write"
        /\ docs' = [docs EXCEPT ![j.t] = j.doc]
        /\ pc' = [pc EXCEPT ![p] = NextStage(j)]
        /\ job' = [q \in Procs |->
                     IF q = p THEN NextJob(j)
                     ELSE IF job[q].t = j.t
                     THEN [job[q] EXCEPT !.alone = FALSE, !.current = FALSE]
                     ELSE job[q]]
        /\ clobbered' = (clobbered \/ ~j.current)
        /\ UNCHANGED <<issued, halfway>>

(* A conflict or a git error: the ref is as it was.                        *)
WriteFails(p) == pc[p] = "write" /\ Fail(p)

(* The process dies, or the user interrupts it.                            *)
Crash(p) == pc[p] # "idle" /\ GiveUp(p)

-----------------------------------------------------------------------------
ThreadCommand(p, t) ==
    \/ \E kind \in Kinds : Say(p, t, kind) \/ TuiSay(p, t, kind)
    \/ TuiRevise(p, t) \/ EditField(p, t) \/ AddEvidence(p, t)
    \/ \E peer \in Existing : LinkTo(p, t, peer)
    \/ \E S \in SUBSET Nodes : ReviseBody(p, t, S)
    \/ \E S \in (SUBSET Nodes) \ {{}}, s \in {"resolved", "open", "retracted"} :
         MarkNodes(p, t, S, s)
    \/ \E n \in Nodes, s \in {"resolved", "open", "retracted"} : TuiMark(p, t, n, s)
    \/ \E n \in Nodes : ReviseNode(p, t, n)
    \/ \E n \in Nodes, kind \in Kinds : Retype(p, t, n, kind)
    \/ \E name \in Names, flags \in SUBSET Flags, peer \in Existing \cup {None} :
         State(p, t, name, flags, peer)
    \/ \E new \in Existing, flags \in SUBSET Flags : Supersede(p, t, new, flags)

IssueCommand(p) ==
    /\ pc[p] = "idle" /\ issued < MaxCommands
    /\ \/ \E t \in Threads \ Existing, f \in Flavors, peer \in Existing \cup {None},
             rel \in {"implements", "supersedes"}, kind \in Kinds \ {"approval"} :
            New(p, t, f, peer, rel, kind)
       \/ \E t \in Threads \ Existing, f \in Flavors : TuiNew(p, t, f)
       \/ \E t \in Existing : ThreadCommand(p, t)
       \/ \E T \in (SUBSET Existing) \ {{}}, name \in Names, flags \in SUBSET Flags :
            Bulk(p, T, name, flags)

Next ==
    \E p \in Procs :
      \/ IssueCommand(p)
      \/ CheckPolicy(p) \/ CheckNode(p) \/ ReadAndEdit(p) \/ ResolveNodes(p)
      \/ ReadForState(p) \/ FilterBulk(p) \/ ReadForBulk(p) \/ GuardBulk(p)
      \/ ReadForBack(p) \/ Write(p) \/ WriteFails(p) \/ Crash(p)

Spec == Init /\ [][Next]_vars

-----------------------------------------------------------------------------
(* Properties.                                                             *)

(* Every variable stays in its type: no command puts a malformed document   *)
(* at a ref or in memory.                                                  *)
TypeOK ==
    /\ docs \in [Threads -> Doc \cup {None}]
    /\ pc \in [Procs -> Stages]
    /\ job \in [Procs -> Job]
    /\ issued \in Nat
    /\ halfway \in SUBSET (Threads \X Threads)
    /\ clobbered \in BOOLEAN

(* However commands overlap, fail or overwrite each other, a thread's       *)
(* status is one its category's transitions lead to from a status it can be *)
(* created in: the initial_status, or the "draft" of a TUI form.            *)
StatusReachable ==
    \A t \in Existing :
        \E start \in {Initial[docs[t].flavor], "draft"} :
            <<docs[t].flavor, start, docs[t].status>> \in Paths

(* The document that an undisturbed state bulk writes satisfies the guards  *)
(* of the transition it makes, although the guards were evaluated on a      *)
(* projection of another read.                                             *)
BulkGuarded ==
    \A p \in Procs :
        LET j == job[p]
        IN  pc[p] = "write" /\ j.op = "bulk" /\ j.alone =>
                GuardsPass(j.doc, docs[j.t].status, j.doc.status, {})

(* An undisturbed say, revise, retype or evidence writes only to a thread   *)
(* whose status admits it, although the check ran on an earlier read. This  *)
(* is what the code does under the default strict = false as well, since    *)
(* these violations have severity Error (operation_check.rs:207, 283, 324) *)
(* and errors block with and without --force (MANUAL.md:823); the policy    *)
(* that git forum init writes says of strict = false that "violations are  *)
(* WARNINGS; use --force to bypass" (init.rs:49), which would let them pass. *)
ChecksRespected ==
    \A p \in Procs :
        LET j == job[p]
        IN  pc[p] = "write" /\ j.op \in CheckedOps /\ j.alone => PassesCheck(j, docs[j.t])

(* Supersede links come in pairs, one on each thread, unless the command    *)
(* that writes them is between its two writes or stopped there. (supersede *)
(* of a thread that is deprecated already writes only the new thread's      *)
(* link; a document written over unread may have held one.)                *)
SupersedeBothSides ==
    clobbered \/ \A old, new \in Existing :
        LET onOld == <<"superseded-by", new>> \in docs[old].links
            onNew == <<"supersedes", old>> \in docs[new].links
            interrupted == \/ <<old, new>> \in halfway
                           \/ \E p \in Procs : job[p].second /\ Pair(job[p]) = <<old, new>>
        IN  /\ onOld /\ ~onNew => interrupted
            /\ onNew /\ ~onOld => interrupted \/ docs[old].status = "deprecated"

===============================================================================
