----------------------------- MODULE LegacyChain -----------------------------
(***************************************************************************)
(* What a chain of 1.x/2.x events says, and what git forum migrate makes   *)
(* of it (legacy/chain_replay.rs, event.rs, v1.rs, workflow.rs,            *)
(* commands/migrate.rs).                                                   *)
(*                                                                         *)
(* refs/forum/threads/<t> reaches a chain of commits, oldest first: events *)
(* of a 2.x client, snapshots of 3.0 writers, and commits of neither shape *)
(* (an empty merge). 2.x clients do not know snapshots and go on appending *)
(* to a migrated thread; migrating again folds the new tail onto the       *)
(* snapshot below it. The race for the ref is module SnapshotStore's; here *)
(* each append is one step and what matters is what the chain means.       *)
(*                                                                         *)
(* An event's OID is its position in the chain. Bodies, branches, links    *)
(* and evidence are named by the event that wrote them; titles, authors    *)
(* and timestamps are left out.                                            *)
(***************************************************************************)
EXTENDS Naturals, Sequences, SequencesExt, Categories, Option

CONSTANTS
    ThreadKinds,    \* kinds that 2.x clients create
    RawStates,      \* state names in events: canonical, 1.x synonyms, junk
    NodeTypes,      \* node types in events, of the twelve of 1.x and 2.0
    RawLifecycles,  \* lifecycle names in facet_set events
    Tags,           \* tags in facet_set events
    BadTags,        \* those the 3.0 tag grammar refuses
    Slips,          \* event types that some broken client writes incompletely
    MaxCommits,     \* bound on the length of the chain
    MaxOther        \* bound on the commits that are not plain state events

Lifecycles == {"proposal", "execution", "record"}

ASSUME ChainAssumption ==
    /\ ThreadKinds \subseteq {"issue", "rfc", "dec", "task"}
    /\ "decision" \notin BadTags
    /\ None \notin {"kind", "node", "body", "ntype", "state", "link"}  \* names of fields
    /\ MaxCommits \in Nat
    /\ MaxOther \in Nat

VARIABLE
    chain       \* the commits refs/forum/threads/<t> reaches, oldest first

-----------------------------------------------------------------------------
(* The workflow of 2.0.                                                     *)

Allowed(lifecycle) ==
    CASE lifecycle = "proposal"  -> CanonicalStatuses \ {"working"}
      [] lifecycle = "execution" -> CanonicalStatuses \ {"draft", "withdrawn"}
      [] lifecycle = "record"    -> {"open", "done", "rejected", "deprecated"}

UnifiedTransitions ==
    { <<"draft", "open">>, <<"draft", "withdrawn">>, <<"open", "working">>,
      <<"open", "withdrawn">>, <<"open", "review">>, <<"working", "review">>,
      <<"review", "working">>, <<"done", "open">>, <<"rejected", "open">>,
      <<"done", "deprecated">>, <<"rejected", "deprecated">> }
    \cup ({"open", "working", "review"} \X {"done", "rejected"})

LifecycleOfKind(kind) ==
    CASE kind = "rfc" -> "proposal" [] kind = "dec" -> "record"
      [] OTHER -> "execution"

InitialOf(kind) == IF kind = "rfc" THEN "draft" ELSE "open"

(* 1.x names fold onto canonical ones; None when that does not help.        *)
ParseLenient(name) ==
    IF Canonical(name) \in CanonicalStatuses THEN Canonical(name) ELSE None

IsValidTransition(lifecycle, from, to) ==
    /\ {from, to} \subseteq Allowed(lifecycle)
    /\ <<from, to>> \in UnifiedTransitions

LifecycleToCategory(lifecycle) == IF lifecycle = "proposal" THEN "rfc" ELSE "task"

CategoryToLifecycle(category, tags) ==
    IF category # "task" THEN "proposal"
    ELSE IF "decision" \in tags THEN "record" ELSE "execution"

(* A 1.x node type becomes one of four kinds and a label.                   *)
KindOf(type) ==
    IF type \in {"comment", "approval", "objection", "action"} THEN type ELSE "comment"
LabelOf(type) == IF KindOf(type) = type THEN None ELSE type

-----------------------------------------------------------------------------
(* Events.                                                                  *)

BlankEvent(type, id) ==
    [ type |-> type, id |-> id, kind |-> None, body |-> None, node |-> None,
      ntype |-> None, state |-> None, approvals |-> <<>>, evidence |-> None,
      rel |-> None, branch |-> None, incorporated |-> <<>>, lifecycle |-> None,
      add |-> {}, remove |-> {} ]

(* The fields that a type needs; Link has two shapes.                       *)
Required(type) ==
    CASE type = "create" -> <<"kind">>
      [] type = "edit" -> <<"node", "body">>
      [] type \in {"retract", "resolve", "reopen"} -> <<"node">>
      [] type = "say" -> <<"ntype", "body">>
      [] type = "state" -> <<"state">>
      [] type = "revise-body" -> <<"body">>
      [] type = "retype" -> <<"node", "ntype">>
      [] type = "link" -> <<"link">>
      [] OTHER -> <<>>

Absent(ev, field) ==
    IF field = "link" THEN ev.evidence = None /\ (ev.node = None \/ ev.rel = None)
    ELSE ev[field] = None

(* Event::project: the first required field that is absent, or None.        *)
Missing(ev) ==
    LET fields == Required(ev.type)
        gaps == { i \in DOMAIN fields : Absent(ev, fields[i]) }
    IN  IF gaps = {} THEN None ELSE fields[Min(gaps)]

-----------------------------------------------------------------------------
(* Replay. A state is the document so far, the lifecycle that transitions   *)
(* are checked against, whether a facet_set named it, and the issues that   *)
(* strict replay reports.                                                   *)

(* Mutant of Report: an event about an unknown node is skipped in silence.  *)
Report_Silent(s, kind, ev, details) ==
    IF kind = "node" THEN s
    ELSE [s EXCEPT !.issues = @ \cup { [kind |-> kind, event |-> ev.id, detail |-> d] : d \in details }]

Report(s, kind, ev, details) ==
    [s EXCEPT !.issues = @ \cup { [kind |-> kind, event |-> ev.id, detail |-> d] : d \in details }]

(* apply_node_flag and its inline copies for edit and retype change a node  *)
(* into another.                                                            *)
OnNode(s, ev, id, node) ==
    IF id \in DOMAIN s.doc.nodes THEN [s EXCEPT !.doc.nodes[id] = node]
    ELSE Report(s, "node", ev, {id})

AddNodes(s, ids, kind, label, body) ==
    LET node == [kind |-> kind, label |-> label, status |-> "open", body |-> body]
    IN  [s EXCEPT !.doc.nodes = [i \in DOMAIN @ \cup ids |-> IF i \in ids THEN node ELSE @[i]]]

(* The status is set even when the edge is illegal; 1.x approvals become    *)
(* nodes even when the state is not understood.                             *)
ApplyState(s, ev) ==
    LET to == ParseLenient(ev.state)
        legal == \/ s.doc.status = to
                 \/ IsValidTransition(s.lifecycle, s.doc.status, to)
        checked == IF to = None THEN Report(s, "state", ev, {ev.state})
                   ELSE IF legal THEN s
                   ELSE Report(s, "transition", ev, {to})
        moved == IF to = None THEN checked ELSE [checked EXCEPT !.doc.status = to]
        approvals == { <<ev.id, actor>> : actor \in ToSet(ev.approvals) }
    IN  AddNodes(moved, approvals, "approval", None, None)

ApplySay(s, ev) ==
    LET id == IF ev.node = None THEN <<ev.id, "">> ELSE ev.node
    IN  AddNodes(s, {id}, KindOf(ev.ntype), LabelOf(ev.ntype), ev.body)

FlagOf(type) ==
    CASE type = "retract" -> "retracted" [] type = "resolve" -> "resolved"
      [] type = "reopen" -> "open"

ApplyFlag(s, ev) ==
    OnNode(s, ev, ev.node, [s.doc.nodes[ev.node] EXCEPT !.status = FlagOf(ev.type)])

ApplyRetype(s, ev) ==
    OnNode(s, ev, ev.node,
        [s.doc.nodes[ev.node] EXCEPT
            !.kind = KindOf(ev.ntype),
            !.label = IF LabelOf(ev.ntype) = None THEN @ ELSE LabelOf(ev.ntype)])

ApplyReviseBody(s, ev) ==
    LET ids == ToSet(ev.incorporated)
        incorporated(node) == [node EXCEPT !.status = "incorporated"]
    IN  Report([s EXCEPT !.doc.body = ev.body,
                         !.doc.nodes = [id \in DOMAIN @ |-> IF id \in ids THEN incorporated(@[id])
                                                           ELSE @[id]]],
               "node", ev, ids \ DOMAIN s.doc.nodes)

ApplyLink(s, ev) ==
    IF ev.evidence # None THEN [s EXCEPT !.doc.evidence = Append(@, ev.id)]
    ELSE [s EXCEPT !.doc.links = Append(@, ev.id)]

(* Mutant of ApplyLifecycle: a record does not get its tag.                 *)
ApplyLifecycle_NoTag(s, ev) ==
    IF ev.lifecycle \notin Lifecycles \/ s.explicit THEN s
    ELSE [s EXCEPT !.lifecycle = ev.lifecycle, !.explicit = TRUE,
                   !.doc.category = LifecycleToCategory(ev.lifecycle)]

(* The first valid lifecycle wins; later ones are reported.                 *)
ApplyLifecycle(s, ev) ==
    IF ev.lifecycle = None THEN s
    ELSE IF ev.lifecycle \notin Lifecycles THEN Report(s, "lifecycle", ev, {ev.lifecycle})
    ELSE IF ~s.explicit
    THEN [s EXCEPT !.lifecycle = ev.lifecycle,
                   !.explicit = TRUE,
                   !.doc.category = LifecycleToCategory(ev.lifecycle),
                   !.doc.tags = IF ev.lifecycle = "record" THEN @ \cup {"decision"} ELSE @]
    ELSE IF s.lifecycle = ev.lifecycle THEN s
    ELSE Report(s, "lifecycle", ev, {ev.lifecycle})

ApplyFacetSet(s, ev) ==
    [ApplyLifecycle(s, ev) EXCEPT !.doc.tags = (@ \cup ev.add) \ ev.remove]

(* Create, verify and merge change nothing here.                            *)
ApplyEvent(s, ev) ==
    CASE ev.type = "state" -> ApplyState(s, ev)
      [] ev.type = "scope" -> [s EXCEPT !.doc.branch = ev.branch]
      [] ev.type = "say" -> ApplySay(s, ev)
      [] ev.type = "edit" ->
             OnNode(s, ev, ev.node, [s.doc.nodes[ev.node] EXCEPT !.body = ev.body])
      [] ev.type \in {"retract", "resolve", "reopen"} -> ApplyFlag(s, ev)
      [] ev.type = "retype" -> ApplyRetype(s, ev)
      [] ev.type = "revise-body" -> ApplyReviseBody(s, ev)
      [] ev.type = "link" -> ApplyLink(s, ev)
      [] ev.type = "facet-set" -> ApplyFacetSet(s, ev)
      [] OTHER -> s

ApplyChecked(s, ev) ==
    IF Missing(ev) = None THEN ApplyEvent(s, ev) ELSE Report(s, "field", ev, {Missing(ev)})

ApplyAll(s, events) == FoldLeft(ApplyChecked, s, events)

(* The state that a create event seeds.                                     *)
Seed(ev) ==
    LET lifecycle == LifecycleOfKind(ev.kind)
    IN  [ doc |-> [ category |-> LifecycleToCategory(lifecycle),
                    status |-> InitialOf(ev.kind),
                    tags |-> IF lifecycle = "record" THEN {"decision"} ELSE {},
                    nodes |-> <<>>, links |-> <<>>, evidence |-> <<>>,
                    body |-> ev.body, branch |-> ev.branch,
                    visibility |-> "private", supersedes |-> {} ],
          lifecycle |-> lifecycle, explicit |-> FALSE, issues |-> {} ]

(* A corrective tail: after the offending event the thread leaves the       *)
(* status by legal steps and comes back to it. What follows is not looked   *)
(* at.                                                                      *)
SelfHealed(tail, lifecycle, target) ==
    LET stated == SelectSeq(tail, LAMBDA ev : ev.type = "state" /\ ev.state # None)
        at(i) == IF i = 0 THEN target ELSE ParseLenient(stated[i].state)
        legal(i) == \/ at(i) = at(i - 1)
                    \/ IsValidTransition(lifecycle, at(i - 1), at(i))
    IN  \E n \in DOMAIN stated :
            /\ \A i \in 1..n : at(i) # None /\ legal(i)
            /\ at(n) = target
            /\ \E i \in 1..n : at(i) # target

(* suppress_self_healed_invalid_transitions                                *)
Suppressed(s, events) ==
    LET lifecycle == CategoryToLifecycle(s.doc.category, s.doc.tags)
        after(issue) == SelectSeq(events, LAMBDA ev : ev.id > issue.event)
    IN  { issue \in s.issues :
            /\ issue.kind = "transition"
            /\ s.doc.status = issue.detail
            /\ SelfHealed(after(issue), lifecycle, issue.detail) }

(* augment_canonical_kind_tag: what a facet_set removed comes back.         *)
KindTag(kind) ==
    CASE kind = "issue" -> {"bug"} [] kind = "dec" -> {"decision"} [] OTHER -> {}

Replayable(events) ==
    events # <<>> /\ events[1].type = "create" /\ Missing(events[1]) = None

(* replay_with_issues_inner                                                *)
ReplayUnsuppressed(events) ==
    LET s == ApplyAll(Seed(events[1]), Tail(events))
    IN  [s EXCEPT !.doc.tags = @ \cup KindTag(events[1].kind)]

ReplayStrict(events) ==
    LET s == ApplyAll(Seed(events[1]), Tail(events))
    IN  [ReplayUnsuppressed(events) EXCEPT !.issues = @ \ Suppressed(s, events)]

-----------------------------------------------------------------------------
(* Chains with snapshots.                                                   *)

Snapshots(c) == { i \in DOMAIN c : c[i].shape = "snapshot" }
LastSnapshot(c) ==
    IF Snapshots(c) = {} THEN 0
    ELSE CHOOSE i \in Snapshots(c) : \A j \in Snapshots(c) : j <= i

Collect(events, commit) ==
    IF commit.shape = "event" THEN Append(events, commit.event) ELSE events

EventsAbove(c, n) == FoldLeft(Collect, <<>>, SubSeq(c, n + 1, Len(c)))

(* materialize_thread_state_from_snapshot                                  *)
Materialized(doc) ==
    [ doc |-> doc, lifecycle |-> CategoryToLifecycle(doc.category, doc.tags),
      explicit |-> TRUE, issues |-> {} ]

(* load_event_tail_at: what migrate archives.                              *)
EventTail(c) == EventsAbove(c, LastSnapshot(c))

ChainReplays(c) == LastSnapshot(c) # 0 \/ Replayable(EventTail(c))

(* Mutant of ReplayChain: events below the snapshot are folded in again.    *)
ReplayChain_Twice(c) ==
    IF LastSnapshot(c) = 0 THEN ReplayStrict(EventTail(c))
    ELSE ApplyAll(Materialized(c[LastSnapshot(c)].doc), EventsAbove(c, 0))

(* replay_chain_strict_at                                                  *)
ReplayChain(c) ==
    IF LastSnapshot(c) = 0 THEN ReplayStrict(EventTail(c))
    ELSE ApplyAll(Materialized(c[LastSnapshot(c)].doc), EventTail(c))

(* tree_safe_node_id: a slash cannot stand in a file name.                  *)
TreeSafe(id) == IF id[2] = "human/alice" THEN <<id[1], "human-alice">> ELSE id

StatusesOf(category) ==
    IF category = "rfc" THEN CanonicalStatuses \ {"working"}
    ELSE CanonicalStatuses \ {"draft", "withdrawn"}

(* project_state_to_doc. Visibility and supersedes start afresh.            *)
ProjectToDoc(s) ==
    [s.doc EXCEPT
        !.tags = @ \ BadTags,
        !.status = IF @ \in StatusesOf(s.doc.category) THEN @
                   ELSE BuiltInInitial(s.doc.category),
        !.nodes = [id \in { TreeSafe(old) : old \in DOMAIN @ } |->
                      @[CHOOSE old \in DOMAIN @ : TreeSafe(old) = id]],
        !.visibility = "private",
        !.supersedes = {}]

(* The omissions that the report of a migration lists.                      *)
Omissions(c) ==
    LET s == ReplayChain(c)
    IN  { issue.kind : issue \in s.issues }
        \cup (IF s.doc.tags \cap BadTags # {} THEN {"tag"} ELSE {})
        \cup (IF s.doc.status \in StatusesOf(s.doc.category) THEN {} ELSE {"state"})
        \cup (IF LastSnapshot(c) # 0 THEN {"archive"} ELSE {})

-----------------------------------------------------------------------------
(* The ref: a chain of commits.                                            *)

EventCommit(ev) == [shape |-> "event", event |-> ev]
SnapshotCommit(doc) == [shape |-> "snapshot", doc |-> doc]
OtherCommit == [shape |-> "other"]

IsPlainState(commit) == commit.shape = "event" /\ commit.event.type = "state"
Others == Len(SelectSeq(chain, LAMBDA m : ~IsPlainState(m)))

Extend(commit) ==
    /\ Len(chain) < MaxCommits
    /\ IsPlainState(commit) \/ Others < MaxOther
    /\ chain' = Append(chain, commit)

Tip == chain[Len(chain)]

(* write_event: only a create event may start a thread.                     *)
WriteEvent(ev) ==
    /\ chain = <<>> => ev.type = "create"
    /\ Extend(EventCommit(ev))

Next1 == Len(chain) + 1
Blank(type) == BlankEvent(type, Next1)

(* Nodes a 2.x client has seen, by the ids it knows them under, and one it  *)
(* has not.                                                                 *)
KnownIds ==
    LET eventAt(i) == chain[i].event
        said == { i \in DOMAIN chain : chain[i].shape = "event" /\ eventAt(i).type = "say" }
        stated == { i \in DOMAIN chain : IsPlainState(chain[i]) }
    IN  { IF eventAt(i).node = None THEN <<i, "">> ELSE eventAt(i).node : i \in said }
        \cup { <<i, "human/alice">> : i \in { j \in stated : eventAt(j).approvals # <<>> } }
        \cup { <<0, "">> }

Create ==
    \E kind \in ThreadKinds :
        /\ chain = <<>>
        /\ WriteEvent([Blank("create") EXCEPT !.kind = kind, !.body = Next1])

AppendState ==
    \E state \in RawStates, approvals \in {<<>>, <<"human/alice">>} :
        /\ approvals # <<>> => Canonical(state) = "done"
        /\ WriteEvent([Blank("state") EXCEPT !.state = state, !.approvals = approvals])

(* node is an id that the client allocated itself; ids are fresh.           *)
AppendSay ==
    \E type \in NodeTypes, node \in {None, <<1, "">>} \ KnownIds :
        WriteEvent([Blank("say") EXCEPT !.ntype = type, !.body = Next1, !.node = node])

AppendToNode ==
    \E type \in {"edit", "retract", "resolve", "reopen"}, id \in KnownIds :
        WriteEvent([Blank(type) EXCEPT !.node = id, !.body = Next1])

AppendRetype ==
    \E id \in KnownIds, type \in NodeTypes :
        WriteEvent([Blank("retype") EXCEPT !.node = id, !.ntype = type])

AppendRevise ==
    \E ids \in {<<>>} \cup { <<id>> : id \in KnownIds } :
        WriteEvent([Blank("revise-body") EXCEPT !.body = Next1, !.incorporated = ids])

AppendLink ==
    \/ WriteEvent([Blank("link") EXCEPT !.evidence = Next1])
    \/ WriteEvent([Blank("link") EXCEPT !.node = <<0, "">>, !.rel = "implements"])

AppendScope ==
    \E branch \in {None, Next1} : WriteEvent([Blank("scope") EXCEPT !.branch = branch])

AppendFacetSet ==
    \E lifecycle \in RawLifecycles \cup {None}, add \in SUBSET Tags, remove \in SUBSET Tags :
        /\ lifecycle # None \/ add # remove
        /\ add # {} => remove = {}
        /\ WriteEvent([Blank("facet-set") EXCEPT !.lifecycle = lifecycle,
                                                 !.add = add, !.remove = remove])

(* verify, merge, a second create; an event without its fields.             *)
AppendInert ==
    \E type \in {"verify", "merge"} : WriteEvent(Blank(type))
AppendSlip ==
    \E type \in Slips : chain # <<>> /\ WriteEvent(Blank(type))

(* A commit that is neither event nor snapshot.                             *)
MergeCommit == chain # <<>> /\ Extend(OtherCommit)

(* process_one: read_snapshot must find an event tip, and the chain must    *)
(* replay.                                                                  *)
Migrate ==
    /\ chain # <<>>
    /\ Tip.shape = "event"
    /\ ChainReplays(chain)
    /\ Extend(SnapshotCommit(ProjectToDoc(ReplayChain(chain))))

(* git forum thread set-visibility and a supersedes field, on a snapshot.   *)
Edit30 ==
    /\ chain # <<>>
    /\ Tip.shape = "snapshot"
    /\ \/ /\ Tip.doc.visibility = "private"
          /\ Extend(SnapshotCommit([Tip.doc EXCEPT !.visibility = "public"]))
       \/ Extend(SnapshotCommit([Tip.doc EXCEPT !.supersedes = {"t0"}]))

ChainInit == chain = <<>>

ChainNext ==
    \/ Create \/ AppendState \/ AppendSay \/ AppendToNode \/ AppendRetype
    \/ AppendRevise \/ AppendLink \/ AppendScope \/ AppendFacetSet
    \/ AppendInert \/ AppendSlip \/ MergeCommit \/ Migrate \/ Edit30

ChainSpec == ChainInit /\ [][ChainNext]_chain

-----------------------------------------------------------------------------
(* Properties.                                                              *)

PureEvents == chain # <<>> /\ \A i \in DOMAIN chain : chain[i].shape = "event"
ChainEvents == EventsAbove(chain, 0)

(* The chain as it would be if migrate had run after its n-th event.        *)
CutAt(n) ==
    LET below == SubSeq(chain, 1, n)
    IN  Append(below, SnapshotCommit(ProjectToDoc(ReplayChain(below))))
            \o SubSeq(chain, n + 1, Len(chain))

(* What migrating in the middle is known to change: a first lifecycle that  *)
(* is named later, a canonical tag that is removed later, an approval that  *)
(* is addressed by its old id.                                              *)
CutMatters(n) ==
    \E i \in n + 1..Len(chain) :
        LET ev == chain[i].event
        IN  \/ ev.lifecycle # None
            \/ ev.remove \cap {"bug", "decision"} # {}
            \/ ev.node # None /\ TreeSafe(ev.node) # ev.node
            \/ \E k \in DOMAIN ev.incorporated : TreeSafe(ev.incorporated[k]) # ev.incorporated[k]

(* A 2.x client that goes on after a migration loses nothing: folding its   *)
(* events onto the snapshot gives the document that one migration at the    *)
(* end would have given, for every chain and every moment of the first      *)
(* migration, but for the three cases above (replay_chain_at seeds from     *)
(* the last snapshot and project_state_to_doc may have reset the status).   *)
CutoverAgrees ==
    PureEvents =>
        \A n \in 1..Len(chain) :
            ~CutMatters(n) =>
                ProjectToDoc(ReplayChain(CutAt(n))) = ProjectToDoc(ReplayChain(chain))

(* The lifecycle that transitions were checked against is the one that the  *)
(* migrated document's category and tags say, unless tags of the chain      *)
(* touch "decision" or a dec was given another lifecycle.                   *)
LifecycleKept ==
    PureEvents =>
        LET s == ReplayChain(chain)
            doc == ProjectToDoc(s)
            tagged == \E i \in DOMAIN chain :
                          "decision" \in chain[i].event.add \cup chain[i].event.remove
        IN  \/ CategoryToLifecycle(doc.category, doc.tags) = s.lifecycle
            \/ tagged
            \/ chain[1].event.kind = "dec" /\ s.explicit

(* The events that name a node, and what the last of them left it at.       *)
Touches(ev, id) ==
    \/ ev.type \in {"retract", "resolve", "reopen"} /\ ev.node = id
    \/ ev.type = "revise-body" /\ id \in { ev.incorporated[k] : k \in DOMAIN ev.incorporated }
FinalFlag(id) ==
    LET hits == { i \in DOMAIN ChainEvents : Touches(ChainEvents[i], id) }
        last == ChainEvents[Max(hits)]
    IN  IF hits = {} THEN "open"
        ELSE IF last.type = "revise-body" THEN "incorporated" ELSE FlagOf(last.type)
FinalStatus ==
    LET hits == { i \in DOMAIN ChainEvents : ChainEvents[i].type = "state" }
    IN  IF hits = {} THEN InitialOf(chain[1].event.kind)
        ELSE ParseLenient(ChainEvents[Max(hits)].state)

(* A migration that reports no omission has lost no word: the snapshot has  *)
(* the status that the last state event names and every node as the last    *)
(* event about it left it, and no event named a node that is not there. The *)
(* nodes of 1.x approvals get new ids in a migration and are left out.      *)
(* Every event that replay could not apply is therefore in the report       *)
(* (validate.rs: every silent no-op surfaces).                              *)
CleanReportLosesNothing ==
    PureEvents =>
        LET doc == ProjectToDoc(ReplayChain(chain))
        IN  Omissions(chain) = {} =>
                /\ doc.status = FinalStatus
                /\ \A id \in DOMAIN doc.nodes :
                       id[2] = "" => doc.nodes[id].status = FinalFlag(id)
                /\ \A ev \in ToSet(ChainEvents) :
                       ev.type \in {"retract", "resolve", "reopen"} /\ ev.node[2] = ""
                           => ev.node \in DOMAIN doc.nodes
==============================================================================
