---------------------------- MODULE SnapshotStore ----------------------------
(***************************************************************************)
(* The write protocol of refs/forum/threads/<id>: several processes of one *)
(* clone (CLI commands, a TUI, agents, git forum migrate, 2.x clients that *)
(* still append event commits) read the snapshot at a ref's tip, edit the  *)
(* document in memory and move the ref by compare-and-swap                 *)
(* (src/internal/snapshot/store.rs, src/internal/commands/migrate.rs).     *)
(*                                                                         *)
(* A commit's OID is a hash over its tree and its ancestors' OIDs, so the  *)
(* value of a ref is modelled as the sequence of the commits it reaches,   *)
(* oldest first: two refs are equal exactly when their histories are, and  *)
(* <<>> stands for a ref that does not exist. A document is abstracted to  *)
(* the set of the commands whose effect it shows.                          *)
(***************************************************************************)
EXTENDS Naturals, Sequences

CONSTANTS
    Threads,    \* thread ids
    Procs,      \* processes that run git-forum commands on this clone
    Commands,   \* identities of the write commands (each is issued once)
    Faults,     \* which of the disturbances below happen while commands run
    None        \* no thread, no command

(* "churn":  fetches and this clone's own pushes create and remove published *)
(*           refs, and fetches bring threads/* refs, while commands run     *)
(* "lookup": resolve_ref answers "absent" because git rev-parse failed      *)
(* "legacy": a 2.x client still appends event commits to these refs         *)
ASSUME FaultsAssumption == Faults \subseteq {"churn", "lookup", "legacy"}

ASSUME NoneAssumption == None \notin Threads /\ None \notin Commands

VARIABLES
    refs,       \* refs[t]: the history of refs/forum/threads/<t>
    published,  \* threads with a refs/forum/published/<t> ref on this clone
    pc,         \* pc[p]: where process p is in its command
    work,       \* work[p]: what the command has in memory
    issued,     \* commands issued so far
    acked,      \* commands that returned Ok to their caller
    rejected    \* commands that returned an error to their caller

(* A history variable, which no action reads: the commands under which the  *)
(* namespaces moved after they had found no authoritative ref (their thread *)
(* was fetched, or the published ref they read was removed), or that looked *)
(* for a ref and did not get to see it.                                    *)
VARIABLE exposed

vars == <<refs, published, pc, work, issued, acked, rejected, exposed>>

-----------------------------------------------------------------------------
(* Documents, commits and histories.                                       *)

(* What a ThreadDocument shows: the commands folded into it, and whether it *)
(* descends from a sanitized published projection.                         *)
Doc == [shows : SUBSET Commands, sanitized : BOOLEAN]

EmptyDoc == [shows |-> {}, sanitized |-> FALSE]

(* The tree of a published ref: a projection that drops content.           *)
SanitizedDoc == [shows |-> {}, sanitized |-> TRUE]

(* A commit: "event" has an event.json tree, "edit" and "migrate" have a    *)
(* thread.toml tree with an optional legacy/ archive of event commits.     *)
Commit == [kind : {"event", "edit", "migrate"}, by : Commands,
           doc : Doc, archive : SUBSET Commands]

IsSnapshot(c) == c.kind # "event"

Tip(h) == h[Len(h)]

HasEventTip(h) == h # <<>> /\ ~IsSnapshot(Tip(h))

(* load_event_tail_at: the events above the newest snapshot commit.        *)
EventTail(h) ==
    {h[i].by : i \in {i \in DOMAIN h : \A j \in i..Len(h) : ~IsSnapshot(h[j])}}

(* The newest snapshot commit that h reaches (at most one).                *)
NewestSnapshot(h) ==
    {i \in DOMAIN h : /\ IsSnapshot(h[i])
                      /\ \A j \in (i+1)..Len(h) : ~IsSnapshot(h[j])}

(* replay_chain_strict_at: the newest snapshot seeds the state, the event   *)
(* tail is applied on top.                                                 *)
Projection(h) ==
    [shows |-> EventTail(h) \cup UNION {h[i].doc.shows : i \in NewestSnapshot(h)},
     sanitized |-> \E i \in NewestSnapshot(h) : h[i].doc.sanitized]

(* Faulty variant: the parent's legacy/ tree is put into another one.      *)
ParentArchive_Nested(h) ==
    IF h # <<>> /\ IsSnapshot(Tip(h)) THEN {Tip(h).archive} ELSE {}

(* parent_legacy_tree_sha / ArchiveSource::PreserveParent: the legacy/      *)
(* subtree of the parent commit, if there is one; an event commit has none. *)
ParentArchive(h) ==
    IF h # <<>> /\ IsSnapshot(Tip(h)) THEN Tip(h).archive ELSE {}

(* The documents a normal write on history h may have started from: none (a *)
(* new thread), a published projection, or a snapshot of h.                *)
Bases(h) ==
    {EmptyDoc, SanitizedDoc} \cup {h[i].doc : i \in {i \in DOMAIN h : IsSnapshot(h[i])}}

(* The document d with the edit of command c applied.                      *)
Edited(d, c) == [d EXCEPT !.shows = @ \cup {c}]

IsLogged(c) == \E t \in Threads : \E i \in DOMAIN refs[t] : refs[t][i].by = c

-----------------------------------------------------------------------------
(* The memory of a command.                                                *)

Work == [thread : Threads \cup {None}, by : Commands \cup {None},
         doc : Doc, pinned : BOOLEAN, parent : Seq(Commit)]

NoWork == [thread |-> None, by |-> None, doc |-> EmptyDoc,
           pinned |-> FALSE, parent |-> <<>>]

Locations == {"idle", "read_auth", "read_published", "resolve",
              "check_published", "move", "moved", "probe_auth",
              "probe_published", "pin"}

Init ==
    /\ refs = [t \in Threads |-> <<>>]
    /\ published \in SUBSET Threads
    /\ pc = [p \in Procs |-> "idle"]
    /\ work = [p \in Procs |-> NoWork]
    /\ issued = {}
    /\ acked = {}
    /\ rejected = {}
    /\ exposed = {}

(* Process p starts command c on thread t, at location loc with document d. *)
Begin(p, c, t, loc, d) ==
    /\ pc[p] = "idle"
    /\ c \notin issued
    /\ issued' = issued \cup {c}
    /\ pc' = [pc EXCEPT ![p] = loc]
    /\ work' = [work EXCEPT ![p] = [thread |-> t, by |-> c, doc |-> d,
                                    pinned |-> FALSE, parent |-> <<>>]]
    /\ UNCHANGED <<refs, published, acked, rejected, exposed>>

Goto(p, loc) == pc' = [pc EXCEPT ![p] = loc]

Leave(p) ==
    /\ pc' = [pc EXCEPT ![p] = "idle"]
    /\ work' = [work EXCEPT ![p] = NoWork]

(* The command returns an error to its caller.                             *)
ReturnErr(p) ==
    /\ Leave(p)
    /\ rejected' = rejected \cup {work[p].by}
    /\ UNCHANGED <<refs, published, issued, acked, exposed>>

(* The command ends without writing and without an error.                  *)
ReturnUnchanged(p) ==
    /\ Leave(p)
    /\ UNCHANGED <<refs, published, issued, acked, rejected, exposed>>

(* resolve_ref folds a git failure into "absent", in either namespace.      *)
SeenAbsent(t) == refs[t] = <<>> \/ "lookup" \in Faults

SeenUnpublished(t) == t \notin published \/ "lookup" \in Faults

-----------------------------------------------------------------------------
(* A read-modify-write command (comment, revise, state, ...).              *)

(* A thread that a running new command is about to create.                 *)
BeingCreated(t) ==
    \E p \in Procs : work[p].thread = t /\ work[p].doc = Edited(EmptyDoc, work[p].by)

(* resolve_thread_id has found the thread in one of the two namespaces; a   *)
(* fetch or a push may have taken its published ref away since then.        *)
StartEdit(p, c, t) ==
    /\ \/ refs[t] # <<>> \/ t \in published
       \/ "churn" \in Faults /\ ~BeingCreated(t)
    /\ Begin(p, c, t, "read_auth", EmptyDoc)

(* An id drawn at random (alloc_bare_thread_id): nobody else uses it.       *)
Fresh(t) ==
    /\ refs[t] = <<>>
    /\ t \notin published
    /\ \A q \in Procs : work[q].thread # t

(* new: the document is built from scratch and nothing is read.            *)
StartNew(p, c, t) ==
    /\ Fresh(t)
    /\ Begin(p, c, t, "resolve", Edited(EmptyDoc, c))

(* read_snapshot, authoritative ref: parse the tip, or refuse an event tip. *)
ReadAuthSnapshot(p) ==
    LET t == work[p].thread IN
    /\ pc[p] = "read_auth"
    /\ refs[t] # <<>>
    /\ IsSnapshot(Tip(refs[t]))
    /\ Goto(p, "resolve")
    /\ work' = [work EXCEPT ![p].doc = Edited(Tip(refs[t]).doc, work[p].by)]
    /\ UNCHANGED <<refs, published, issued, acked, rejected, exposed>>

ReadAuthEvent(p) ==
    /\ pc[p] = "read_auth"
    /\ HasEventTip(refs[work[p].thread])
    /\ ReturnErr(p)

ReadAuthAbsent(p) ==
    /\ pc[p] = "read_auth"
    /\ SeenAbsent(work[p].thread)
    /\ Goto(p, "read_published")
    /\ exposed' = exposed \cup (IF refs[work[p].thread] # <<>> THEN {work[p].by} ELSE {})
    /\ UNCHANGED <<refs, published, work, issued, acked, rejected>>

(* read_snapshot, published fallback: a second git call.                   *)
ReadPublishedSnapshot(p) ==
    /\ pc[p] = "read_published"
    /\ work[p].thread \in published
    /\ Goto(p, "resolve")
    /\ work' = [work EXCEPT ![p].doc = Edited(SanitizedDoc, work[p].by)]
    /\ UNCHANGED <<refs, published, issued, acked, rejected, exposed>>

ReadPublishedAbsent(p) ==
    /\ pc[p] = "read_published"
    /\ SeenUnpublished(work[p].thread)
    /\ ReturnErr(p)

(* write_snapshot_inner resolves the parent when it writes, not when the    *)
(* document was read.                                                      *)
ResolveParent(p) ==
    LET t == work[p].thread IN
    /\ pc[p] = "resolve"
    /\ refs[t] # <<>>
    /\ Goto(p, "move")
    /\ work' = [work EXCEPT ![p].parent = refs[t]]
    /\ UNCHANGED <<refs, published, issued, acked, rejected, exposed>>

ResolveNoParent(p) ==
    /\ pc[p] = "resolve"
    /\ SeenAbsent(work[p].thread)
    /\ Goto(p, "check_published")
    /\ UNCHANGED <<refs, published, work, issued, acked, rejected, exposed>>

(* Faulty variant: the check for a published ref is left out.              *)
NothingPublished_Unchecked(p) ==
    /\ pc[p] = "check_published"
    /\ Goto(p, "move")
    /\ UNCHANGED <<refs, published, work, issued, acked, rejected, exposed>>

(* No parent: refuse when a published ref stands in its place.             *)
RefuseToPromote(p) ==
    /\ pc[p] = "check_published"
    /\ work[p].thread \in published
    /\ ReturnErr(p)

NothingPublished(p) ==
    /\ pc[p] = "check_published"
    /\ SeenUnpublished(work[p].thread)
    /\ Goto(p, "move")
    /\ exposed' = exposed \cup (IF work[p].thread \in published THEN {work[p].by} ELSE {})
    /\ UNCHANGED <<refs, published, work, issued, acked, rejected>>

-----------------------------------------------------------------------------
(* git forum migrate, for one thread of its walk (process_one). run lists   *)
(* the thread refs first, so the thread has one.                           *)

StartMigrate(p, c, t) ==
    /\ refs[t] # <<>>
    /\ Begin(p, c, t, "probe_auth", EmptyDoc)

ProbeEvent(p) ==
    /\ pc[p] = "probe_auth"
    /\ HasEventTip(refs[work[p].thread])
    /\ Goto(p, "pin")
    /\ UNCHANGED <<refs, published, work, issued, acked, rejected, exposed>>

ProbeAlreadyMigrated(p) ==
    LET h == refs[work[p].thread] IN
    /\ pc[p] = "probe_auth"
    /\ h # <<>>
    /\ IsSnapshot(Tip(h))
    /\ ReturnUnchanged(p)

(* The probe is read_snapshot, with its published fallback.                *)
ProbeAbsent(p) ==
    /\ pc[p] = "probe_auth"
    /\ SeenAbsent(work[p].thread)
    /\ Goto(p, "probe_published")
    /\ UNCHANGED <<refs, published, work, issued, acked, rejected, exposed>>

ProbePublished(p) ==
    /\ pc[p] = "probe_published"
    /\ \/ work[p].thread \in published /\ ReturnUnchanged(p)
       \/ SeenUnpublished(work[p].thread) /\ ReturnErr(p)

(* Pin the tip, then project the history below the pin and build the        *)
(* archive from it. The tip may be a snapshot by now: process_one does not  *)
(* look again.                                                             *)
Pin(p) ==
    LET h == refs[work[p].thread] IN
    /\ pc[p] = "pin"
    /\ h # <<>>
    /\ Goto(p, "move")
    /\ work' = [work EXCEPT ![p].doc = Projection(h),
                            ![p].pinned = TRUE,
                            ![p].parent = h]
    /\ UNCHANGED <<refs, published, issued, acked, rejected, exposed>>

PinAbsent(p) ==
    /\ pc[p] = "pin"
    /\ SeenAbsent(work[p].thread)
    /\ ReturnErr(p)

-----------------------------------------------------------------------------
(* Moving the ref: create_ref when no parent was seen, update_ref_cas       *)
(* otherwise; both are one atomic git update-ref with an expected value.   *)

(* Faulty variant: a normal write starts a tree without legacy/.           *)
NewCommit_NoLegacy(p) ==
    LET w == work[p] IN
    [kind |-> IF w.pinned THEN "migrate" ELSE "edit", by |-> w.by, doc |-> w.doc,
     archive |-> IF w.pinned THEN EventTail(w.parent) ELSE {}]

(* Faulty variant: the document is merged with the parent's.               *)
NewCommit_Merged(p) ==
    LET w == work[p]
        under == IF w.parent = <<>> THEN {} ELSE Tip(w.parent).doc.shows
    IN [kind |-> IF w.pinned THEN "migrate" ELSE "edit", by |-> w.by,
        doc |-> [w.doc EXCEPT !.shows = @ \cup under],
        archive |-> IF w.pinned THEN EventTail(w.parent) ELSE ParentArchive(w.parent)]

(* build_tree and commit_tree: the commit that process p writes.           *)
NewCommit(p) ==
    LET w == work[p] IN
    [kind |-> IF w.pinned THEN "migrate" ELSE "edit",
     by |-> w.by,
     doc |-> w.doc,
     archive |-> IF w.pinned THEN EventTail(w.parent) ELSE ParentArchive(w.parent)]

(* Faulty variant: git update-ref <ref> <new>, whatever the ref holds.      *)
HoldsExpected_Blind(p) == TRUE

(* git update-ref <ref> <new> <old>: the ref holds the expected value.     *)
HoldsExpected(p) == refs[work[p].thread] = work[p].parent

(* Faulty variant: the migrate command resolves the parent again when it    *)
(* writes (write_snapshot_with_archive in place of the pinned form).       *)
MoveRef_Unpinned(p) ==
    LET t == work[p].thread IN
    /\ pc[p] = "move"
    /\ HoldsExpected(p) \/ work[p].pinned
    /\ refs' = [refs EXCEPT ![t] = Append(@, NewCommit(p))]
    /\ Goto(p, "moved")
    /\ UNCHANGED <<published, work, issued, acked, rejected, exposed>>

MoveRef(p) ==
    /\ pc[p] = "move"
    /\ HoldsExpected(p)
    /\ refs' = [refs EXCEPT ![work[p].thread] = Append(work[p].parent, NewCommit(p))]
    /\ Goto(p, "moved")
    /\ UNCHANGED <<published, work, issued, acked, rejected, exposed>>

(* SnapshotWriteConflict: another writer moved or created the ref.         *)
Conflict(p) ==
    /\ pc[p] = "move"
    /\ ~HoldsExpected(p)
    /\ ReturnErr(p)

ReturnOk(p) ==
    /\ pc[p] = "moved"
    /\ Leave(p)
    /\ acked' = acked \cup {work[p].by}
    /\ UNCHANGED <<refs, published, issued, rejected, exposed>>

(* A git child fails (disk full, index or ref lock held, ...): any step     *)
(* before the ref has moved returns the error.                             *)
GitFails(p) ==
    /\ pc[p] \notin {"idle", "moved"}
    /\ ReturnErr(p)

(* The process dies; its caller learns nothing.                            *)
Crash(p) ==
    /\ pc[p] # "idle"
    /\ ReturnUnchanged(p)

-----------------------------------------------------------------------------
(* The surroundings.                                                       *)

(* A 2.x client's write_event: it reads nothing but the parent, and only a  *)
(* create event may start a thread.                                        *)
LegacyWrite(c, t) ==
    /\ "legacy" \in Faults
    /\ c \notin issued
    /\ refs[t] = <<>> => Fresh(t)
    /\ issued' = issued \cup {c}
    /\ refs' = [refs EXCEPT ![t] =
           Append(@, [kind |-> "event", by |-> c, doc |-> EmptyDoc, archive |-> {}])]
    /\ UNCHANGED <<published, pc, work, acked, rejected, exposed>>

(* The commands on t that are about to read its published ref, and those    *)
(* that edit a document they read there.                                   *)
FallingBack(t) ==
    {work[p].by : p \in {q \in Procs : pc[q] = "read_published" /\ work[q].thread = t}}

HoldingProjection(t) ==
    {work[p].by : p \in {q \in Procs : work[q].doc.sanitized /\ work[q].thread = t}}

(* git fetch brings the authoritative ref of a thread this clone lacked.   *)
FetchThread(c, t) ==
    /\ "churn" \in Faults
    /\ refs[t] = <<>>
    /\ ~BeingCreated(t)
    /\ c \notin issued
    /\ issued' = issued \cup {c}
    /\ refs' = [refs EXCEPT ![t] =
           Append(@, [kind |-> "edit", by |-> c, archive |-> {},
                      doc |-> Edited(EmptyDoc, c)])]
    /\ exposed' = exposed \cup FallingBack(t) \cup HoldingProjection(t)
    /\ UNCHANGED <<published, pc, work, acked, rejected>>

(* git forum push publishes a thread this clone holds; a fetch brings the   *)
(* projection of any thread that exists elsewhere.                         *)
PublishedAppears(t) ==
    /\ "churn" \in Faults
    /\ refs[t] # <<>> \/ ~BeingCreated(t)
    /\ t \notin published
    /\ published' = published \cup {t}
    /\ UNCHANGED <<refs, pc, work, issued, acked, rejected, exposed>>

(* git forum push withdraws a published ref, lint_pass also the one of a     *)
(* thread that this clone does not hold; a fetch prunes one.                *)
PublishedVanishes(t) ==
    /\ "churn" \in Faults
    /\ t \in published
    /\ published' = published \ {t}
    /\ exposed' = exposed \cup HoldingProjection(t)
    /\ UNCHANGED <<refs, pc, work, issued, acked, rejected>>

-----------------------------------------------------------------------------
Read(p) ==
    \/ ReadAuthSnapshot(p) \/ ReadAuthEvent(p) \/ ReadAuthAbsent(p)
    \/ ReadPublishedSnapshot(p) \/ ReadPublishedAbsent(p)

Resolve(p) ==
    \/ ResolveParent(p) \/ ResolveNoParent(p)
    \/ RefuseToPromote(p) \/ NothingPublished(p)

Migrate(p) ==
    \/ ProbeEvent(p) \/ ProbeAlreadyMigrated(p) \/ ProbeAbsent(p)
    \/ ProbePublished(p) \/ Pin(p) \/ PinAbsent(p)

Move(p) == MoveRef(p) \/ Conflict(p) \/ ReturnOk(p)

(* The steps a running command takes by itself.                            *)
Continue(p) == Read(p) \/ Resolve(p) \/ Migrate(p) \/ Move(p)

Start(p) ==
    \E c \in Commands, t \in Threads :
        StartEdit(p, c, t) \/ StartNew(p, c, t) \/ StartMigrate(p, c, t)

Surroundings ==
    \/ \E c \in Commands, t \in Threads : LegacyWrite(c, t) \/ FetchThread(c, t)
    \/ \E t \in Threads : PublishedAppears(t) \/ PublishedVanishes(t)

Next ==
    \/ \E p \in Procs : Start(p) \/ Continue(p) \/ GitFails(p) \/ Crash(p)
    \/ Surroundings

Spec == Init /\ [][Next]_vars

-----------------------------------------------------------------------------
(* Properties.                                                             *)

(* Every variable stays in its type.                                       *)
TypeOK ==
    /\ refs \in [Threads -> Seq(Commit)]
    /\ published \subseteq Threads
    /\ pc \in [Procs -> Locations]
    /\ work \in [Procs -> Work]
    /\ issued \subseteq Commands
    /\ acked \subseteq Commands
    /\ rejected \subseteq Commands
    /\ exposed \subseteq Commands

(* A command whose caller got Ok is in a thread's history, and one whose    *)
(* caller got an error is in none, now or later: no path of                 *)
(* write_snapshot_inner or process_one moves the ref and then fails, and a  *)
(* crash or a lost race leaves no trace.                                   *)
OutcomesTrue ==
    /\ \A c \in acked : IsLogged(c)
    /\ \A c \in rejected : ~IsLogged(c)

(* The write functions implement the log that ThreadLog promises: whatever  *)
(* races, every step of a ref appends one commit of a command that is not   *)
(* recorded anywhere yet (update_ref_cas and create_ref).                  *)
Bys(h) == [i \in DOMAIN h |-> h[i].by]

TL == INSTANCE ThreadLog WITH log <- [t \in Threads |-> Bys(refs[t])]

LogPromise == TL!Spec

(* A migration snapshot shows exactly what the history below it projects    *)
(* to, and its archive holds exactly the events between it and the previous *)
(* snapshot: an event that lands while process_one works is never dropped   *)
(* (write_snapshot_with_archive_pinned).                                   *)
MigrationFaithful ==
    \A t \in Threads : \A i \in DOMAIN refs[t] :
        LET below == SubSeq(refs[t], 1, i - 1) IN
        refs[t][i].kind = "migrate" =>
            /\ refs[t][i].doc = Projection(below)
            /\ refs[t][i].archive = EventTail(below)

(* A normal write keeps the legacy/ archive of the commit it lands on, also *)
(* when that is not the commit its document was read from                   *)
(* (ArchiveSource::PreserveParent).                                        *)
ArchivePreserved ==
    \A t \in Threads : \A i \in DOMAIN refs[t] :
        refs[t][i].kind = "edit" =>
            refs[t][i].archive = ParentArchive(SubSeq(refs[t], 1, i - 1))

(* Documents are never mixed: what a normal write commits is its own edit   *)
(* applied to one earlier snapshot of the same thread, to a published       *)
(* projection, or to nothing (a new thread).                               *)
EditsOneState ==
    \A t \in Threads : \A i \in DOMAIN refs[t] :
        LET c == refs[t][i] IN
        c.kind = "edit" =>
            \E d \in Bases(SubSeq(refs[t], 1, i - 1)) : c.doc = Edited(d, c.by)

(* A sanitized document reaches authoritative storage only through the      *)
(* windows that store.rs:160-167 leaves open: its first commit on a thread   *)
(* is one of a command whose thread was fetched or whose published ref was   *)
(* removed, by a fetch or by this clone's own push, between the read of the  *)
(* projection and the write, or whose lookup git did not answer. Otherwise   *)
(* the second look for a published ref refuses, whatever races.              *)
NoPromotion ==
    \A t \in Threads : \A i \in DOMAIN refs[t] :
        refs[t][i].doc.sanitized =>
            \E j \in 1..i : refs[t][j].doc.sanitized /\ refs[t][j].by \in exposed

(* What the tip shows includes every edit and event recorded on the thread  *)
(* (SPEC-3.0 section 10: compare-and-swap prevents silent lost updates).    *)
(* Holds for commands that run one after the other.                        *)
NoLostUpdate ==
    \A t \in Threads : \A i \in DOMAIN refs[t] :
        refs[t][i].kind # "migrate" => refs[t][i].by \in Projection(refs[t]).shows
=============================================================================
