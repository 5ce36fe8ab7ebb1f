------------------------------- MODULE Publish -------------------------------
(***************************************************************************)
(* git forum push: the projection of public threads into                   *)
(* refs/forum/published/<id>, its transmission to a remote, and the        *)
(* withdrawal of threads that stopped being public                         *)
(* (src/internal/publish/orchestrate.rs, commit.rs, exclusion.rs and       *)
(* src/internal/commands/push.rs).                                         *)
(*                                                                         *)
(* A push takes no lock. Between its many git calls the threads of the     *)
(* clone are edited and deleted, another push may run, git fetch moves the *)
(* published refs, git calls fail, the remote accepts some refs and        *)
(* refuses others, and the process dies.                                   *)
(*                                                                         *)
(* A document is abstracted to its visibility and to the threads it names  *)
(* in links and thread evidence; the rest of its content (text, tags, the  *)
(* supersedes list of thread.toml) is passed through by the publisher and  *)
(* is the number of its version. Text is taken to name the threads that    *)
(* the links name, so that the lint has something to find. A published     *)
(* tree is a version with the names that were left in. Commit metadata of  *)
(* published refs is left out: the code compares trees.                    *)
(***************************************************************************)
EXTENDS Naturals, Sequences, FiniteSets

CONSTANTS
    Threads,    \* thread ids
    Pushers,    \* processes that run git forum push on this clone
    MaxEdits,   \* bound on the documents committed in a behaviour
    Faults      \* which of the disturbances below happen

(* "edit":       threads are edited and deleted while a push runs           *)
(* "stop":       a push dies or a git call of it fails                      *)
(* "reject":     the remote refuses any subset of the refs of a push        *)
(* "unreadable": read_snapshot fails for a moment                           *)
(* "lookup":     list_refs and resolve_ref answer "nothing" because their   *)
(*               git call failed                                            *)
(* "fetch":      git fetch runs while a push runs                           *)
ASSUME PublishFaultsAssumption ==
    Faults \subseteq {"edit", "stop", "reject", "unreadable", "lookup", "fetch"}

ASSUME MaxEditsAssumption == MaxEdits \in Nat

VARIABLES
    versions,   \* versions[t]: the documents committed to refs/forum/threads/<t>
    deleted,    \* threads whose authoritative ref was removed
    published,  \* published[t]: the tree at the clone's refs/forum/published/<t>
    remote,     \* remote[t]: the tree at the remote's refs/forum/published/<t>
    pc,         \* pc[p]: the phase of push p
    job         \* job[p]: the memory of push p

vars == <<versions, deleted, published, remote, pc, job>>

-----------------------------------------------------------------------------
(* Documents and trees.                                                    *)

Doc == [public : BOOLEAN, names : SUBSET Threads]

(* Version 0 stands for a ref that does not exist.                         *)
Tree == [version : Nat, names : SUBSET Threads]

NoTree == [version |-> 0, names |-> {}]

Exists(t) == versions[t] # <<>> /\ t \notin deleted

Current(t) == versions[t][Len(versions[t])]

(* read_snapshot: the authoritative ref, else the published one, else an    *)
(* error. A published tree carries visibility = "public".                  *)
Readable(t) == Exists(t) \/ published[t] # NoTree

ReadPublic(t) == IF Exists(t) THEN Current(t).public ELSE TRUE

ReadTree(t) ==
    IF Exists(t) THEN [version |-> Len(versions[t]), names |-> Current(t).names]
    ELSE published[t]

(* Faulty variant: a dropped target leaves a placeholder.                  *)
Exclude_Placeholder(tree, j) ==
    [tree EXCEPT !.names = IF @ \subseteq j.public THEN @
                           ELSE (@ \cap j.public) \cup {"hidden"}]

(* Faulty variant: only targets known to be private are dropped.           *)
Exclude_KnownPrivate(tree, j) == [tree EXCEPT !.names = @ \ j.private]

(* exclusion::apply: drop every target that is not known to be public.     *)
Exclude(tree, j) == [tree EXCEPT !.names = @ \cap j.public]

(* lint::scan: the text names a thread that is known to be private.        *)
Warns(tree, j) == tree.names \cap j.private # {}

(* What a push of the present documents would show of thread t.            *)
PublicNow == {t \in Threads : Exists(t) /\ Current(t).public}

ProjectionOf(t) ==
    IF t \in PublicNow
    THEN [version |-> Len(versions[t]), names |-> Current(t).names \cap PublicNow]
    ELSE NoTree

WasPublic(t) == \E i \in DOMAIN versions[t] : versions[t][i].public

-----------------------------------------------------------------------------
(* The memory of a push: lint_pass's sets, the publish plan (one entry per  *)
(* thread, its PlannedAction, and the ids staged as Withdraw entries, which *)
(* may coincide), --strict, and whether a warning was printed. quiet is a   *)
(* history variable: no document changed and no read failed since the push  *)
(* started.                                                                *)
Entry == [action : {"none", "publish", "written", "skipped"}, tree : Tree]

NoPlan == [t \in Threads |-> [action |-> "none", tree |-> NoTree]]

Job == [listed : SUBSET Threads, unread : SUBSET Threads,
        unprojected : SUBSET Threads,
        public : SUBSET Threads, private : SUBSET Threads,
        plan : [Threads -> Entry], staged : SUBSET Threads,
        warned : BOOLEAN, strict : BOOLEAN, quiet : BOOLEAN]

NoJob == [listed |-> {}, unread |-> {}, unprojected |-> {}, public |-> {},
          private |-> {}, plan |-> NoPlan, staged |-> {},
          warned |-> FALSE, strict |-> FALSE, quiet |-> TRUE]

(* The plan with a Publish entry for thread t.                             *)
ToPublish(plan, t, tree) ==
    [plan EXCEPT ![t] = [action |-> "publish", tree |-> tree]]

Unwritten(j) == {t \in Threads : j.plan[t].action = "publish"}

(* Faulty variant: an entry whose tree did not change gets no refspec.      *)
Updates_WrittenOnly(j) == {t \in Threads : j.plan[t].action = "written"}

(* PublishPlan::refspecs: +REF:REF for created, updated and skipped entries *)
(* alike; :REF for the staged withdrawals.                                 *)
Updates(j) == {t \in Threads : j.plan[t].action \in {"written", "skipped"}}

Refspecs(j) == Updates(j) \cup j.staged

Linted(j) == j.unread = {} /\ j.unprojected = {}

Phases == {"idle", "lint", "commit", "clean"}

Init ==
    /\ versions = [t \in Threads |-> <<>>]
    /\ deleted = {}
    /\ published = [t \in Threads |-> NoTree]
    /\ remote = [t \in Threads |-> NoTree]
    /\ pc = [p \in Pushers |-> "idle"]
    /\ job = [p \in Pushers |-> NoJob]

Hold(p, j) == job' = [job EXCEPT ![p] = j]

Return(p) ==
    /\ pc' = [pc EXCEPT ![p] = "idle"]
    /\ Hold(p, NoJob)

-----------------------------------------------------------------------------
(* Phase 1, lint_pass: nothing is written.                                 *)

List(p, strict, ids, quiet) ==
    /\ pc[p] = "idle"
    /\ pc' = [pc EXCEPT ![p] = "lint"]
    /\ Hold(p, [NoJob EXCEPT !.listed = ids, !.unread = ids, !.unprojected = ids,
                             !.strict = strict, !.quiet = quiet])
    /\ UNCHANGED <<versions, deleted, published, remote>>

ListThreads(p, strict) == List(p, strict, {t \in Threads : Exists(t)}, TRUE)

(* list_refs turns a failed for-each-ref into an empty list.               *)
ListNothing(p, strict) == "lookup" \in Faults /\ List(p, strict, {}, FALSE)

(* compute_visibility_partition, one thread.                               *)
PartitionPublic(p, t) ==
    /\ pc[p] = "lint"
    /\ t \in job[p].unread
    /\ Readable(t) /\ ReadPublic(t)
    /\ Hold(p, [job[p] EXCEPT !.unread = @ \ {t}, !.public = @ \cup {t}])
    /\ UNCHANGED <<versions, deleted, published, remote, pc>>

PartitionPrivate(p, t) ==
    /\ pc[p] = "lint"
    /\ t \in job[p].unread
    /\ ~(Readable(t) /\ ReadPublic(t))
    /\ Hold(p, [job[p] EXCEPT !.unread = @ \ {t}, !.private = @ \cup {t}])
    /\ UNCHANGED <<versions, deleted, published, remote, pc>>

(* A read error counts as private.                                         *)
PartitionUnreadable(p, t) ==
    /\ "unreadable" \in Faults
    /\ pc[p] = "lint"
    /\ t \in job[p].unread
    /\ Hold(p, [job[p] EXCEPT !.unread = @ \ {t}, !.private = @ \cup {t},
                              !.quiet = FALSE])
    /\ UNCHANGED <<versions, deleted, published, remote, pc>>

(* Faulty variant: the document is read again, its visibility is not.      *)
ProjectPublic_Trusting(p, t) ==
    LET j == job[p] IN
    /\ pc[p] = "lint"
    /\ j.unread = {}
    /\ t \in j.unprojected
    /\ Readable(t) /\ t \in j.public
    /\ Hold(p, [j EXCEPT !.unprojected = @ \ {t},
                         !.plan = ToPublish(@, t, Exclude(ReadTree(t), j)),
                         !.warned = @ \/ Warns(ReadTree(t), j)])
    /\ UNCHANGED <<versions, deleted, published, remote, pc>>

(* Pass 1, one thread: read it again, exclude, lint, plan.                 *)
ProjectPublic(p, t) ==
    LET j == job[p] IN
    /\ pc[p] = "lint"
    /\ j.unread = {}
    /\ t \in j.unprojected
    /\ Readable(t) /\ ReadPublic(t)
    /\ Hold(p, [j EXCEPT !.unprojected = @ \ {t},
                         !.plan = ToPublish(@, t, Exclude(ReadTree(t), j)),
                         !.warned = @ \/ Warns(ReadTree(t), j)])
    /\ UNCHANGED <<versions, deleted, published, remote, pc>>

ProjectPrivate(p, t) ==
    /\ pc[p] = "lint"
    /\ job[p].unread = {}
    /\ t \in job[p].unprojected
    /\ Readable(t) /\ ~ReadPublic(t)
    /\ Hold(p, [job[p] EXCEPT !.unprojected = @ \ {t}])
    /\ UNCHANGED <<versions, deleted, published, remote, pc>>

(* A read error in pass 1 ends the push.                                   *)
ProjectUnreadable(p, t) ==
    /\ pc[p] = "lint"
    /\ job[p].unread = {}
    /\ t \in job[p].unprojected
    /\ ~Readable(t) \/ "unreadable" \in Faults
    /\ Return(p)
    /\ UNCHANGED <<versions, deleted, published, remote>>

(* Faulty variant: pass 3 is left out.                                     *)
Orphaned_Pass2Only(j) == {t \in Threads : published[t] # NoTree /\ t \notin j.listed}

(* Passes 2 and 3: published refs without an authoritative thread, and      *)
(* those of private threads.                                               *)
Orphaned(j) ==
    {t \in Threads : published[t] # NoTree /\ (t \notin j.listed \/ t \in j.private)}

(* lint_pass returns the plan; with --strict a warning ends the push.       *)
StageIds(p, ids, quiet) ==
    LET j == job[p] IN
    /\ pc[p] = "lint"
    /\ Linted(j)
    /\ ~(j.warned /\ j.strict)
    /\ pc' = [pc EXCEPT ![p] = "commit"]
    /\ Hold(p, [NoJob EXCEPT !.plan = j.plan, !.staged = ids, !.quiet = quiet])
    /\ UNCHANGED <<versions, deleted, published, remote>>

Stage(p) == StageIds(p, Orphaned(job[p]), job[p].quiet)

(* list_refs and resolve_ref failed: no orphan is seen.                    *)
StageNothing(p) == "lookup" \in Faults /\ StageIds(p, {}, FALSE)

RefuseStrict(p) ==
    /\ pc[p] = "lint"
    /\ Linted(job[p])
    /\ job[p].warned /\ job[p].strict
    /\ Return(p)
    /\ UNCHANGED <<versions, deleted, published, remote>>

-----------------------------------------------------------------------------
(* Phase 2, commit_plan: one planned thread at a time, write_published      *)
(* moves the local ref, whatever it holds, unless its tree is the same.    *)

WritePublished(p, t) ==
    LET tree == job[p].plan[t].tree IN
    /\ pc[p] = "commit"
    /\ t \in Unwritten(job[p])
    /\ published' = [published EXCEPT ![t] = tree]
    /\ Hold(p, [job[p] EXCEPT !.plan[t].action =
                    IF published[t] = tree THEN "skipped" ELSE "written"])
    /\ UNCHANGED <<versions, deleted, remote, pc>>

ReadyToPush(p) == pc[p] = "commit" /\ Unwritten(job[p]) = {}

NothingToPush(p) ==
    /\ ReadyToPush(p)
    /\ Refspecs(job[p]) = {}
    /\ Return(p)
    /\ UNCHANGED <<versions, deleted, published, remote>>

-----------------------------------------------------------------------------
(* Phase 3, git push: it sends what the local refs hold now, and fails as a *)
(* whole when a source is missing or two refspecs have one destination.    *)

Pushable(j) ==
    /\ Updates(j) \cap j.staged = {}
    /\ \A t \in Updates(j) : published[t] # NoTree

(* The remote with the refs in acc accepted.                               *)
RemoteAfter(j, acc) ==
    [t \in Threads |-> IF t \notin acc THEN remote[t]
                       ELSE IF t \in j.staged THEN NoTree ELSE published[t]]

PushAccepted(p) ==
    /\ ReadyToPush(p)
    /\ Refspecs(job[p]) # {}
    /\ Pushable(job[p])
    /\ remote' = RemoteAfter(job[p], Refspecs(job[p]))
    /\ pc' = [pc EXCEPT ![p] = "clean"]
    /\ UNCHANGED <<versions, deleted, published, job>>

(* Faulty variant: a refused push goes on to delete the staged refs.        *)
PushRefused_Cleaning(p, acc) ==
    /\ "reject" \in Faults
    /\ ReadyToPush(p)
    /\ Pushable(job[p])
    /\ acc \subseteq Refspecs(job[p]) /\ acc # Refspecs(job[p])
    /\ remote' = RemoteAfter(job[p], acc)
    /\ pc' = [pc EXCEPT ![p] = "clean"]
    /\ UNCHANGED <<versions, deleted, published, job>>

(* The remote refuses some refs: local refs are all left alone.            *)
PushRefused(p, acc) ==
    /\ "reject" \in Faults
    /\ ReadyToPush(p)
    /\ Pushable(job[p])
    /\ acc \subseteq Refspecs(job[p]) /\ acc # Refspecs(job[p])
    /\ remote' = RemoteAfter(job[p], acc)
    /\ Return(p)
    /\ UNCHANGED <<versions, deleted, published>>

PushImpossible(p) ==
    /\ ReadyToPush(p)
    /\ ~Pushable(job[p])
    /\ Return(p)
    /\ UNCHANGED <<versions, deleted, published, remote>>

(* delete_published, after the remote accepted the whole push. A failed     *)
(* lookup counts as "already gone".                                        *)
DeletePublished(p, t) ==
    /\ pc[p] = "clean"
    /\ t \in job[p].staged
    /\ \/ published' = [published EXCEPT ![t] = NoTree]
       \/ "lookup" \in Faults /\ UNCHANGED published
    /\ Hold(p, [job[p] EXCEPT !.staged = @ \ {t}])
    /\ UNCHANGED <<versions, deleted, remote, pc>>

ReturnOk(p) ==
    /\ pc[p] = "clean"
    /\ job[p].staged = {}
    /\ Return(p)
    /\ UNCHANGED <<versions, deleted, published, remote>>

(* A git call fails where the code propagates it, or the process dies.      *)
Stop(p) ==
    /\ "stop" \in Faults
    /\ pc[p] # "idle"
    /\ Return(p)
    /\ UNCHANGED <<versions, deleted, published, remote>>

-----------------------------------------------------------------------------
(* The surroundings: the other commands, external to this module.          *)

(* The running pushes notice nothing; their history variable does.         *)
Disturbed == [q \in Pushers |->
                 IF pc[q] = "idle" THEN job[q] ELSE [job[q] EXCEPT !.quiet = FALSE]]

Edits == UNION {{t} \X DOMAIN versions[t] : t \in Threads}

MayEdit == "edit" \in Faults \/ \A q \in Pushers : pc[q] = "idle"

Commit(t, d) ==
    /\ MayEdit
    /\ Cardinality(Edits) < MaxEdits
    /\ versions' = [versions EXCEPT ![t] = Append(@, d)]
    /\ job' = Disturbed
    /\ UNCHANGED <<deleted, published, remote, pc>>

(* A new thread is private; its id is drawn at random.                     *)
CreateThread(t) ==
    /\ versions[t] = <<>>
    /\ Commit(t, [public |-> FALSE, names |-> {}])

SetVisibility(t) ==
    /\ Exists(t)
    /\ Commit(t, [Current(t) EXCEPT !.public = ~@])

(* A link, thread evidence or text that names thread u is added; an edit    *)
(* of other content when u is already named.                               *)
NameThread(t, u) ==
    /\ Exists(t)
    /\ u # t
    /\ Commit(t, [Current(t) EXCEPT !.names = @ \cup {u}])

(* git update-ref -d refs/forum/threads/<t> by the operator.               *)
DeleteThread(t) ==
    /\ MayEdit
    /\ Exists(t)
    /\ deleted' = deleted \cup {t}
    /\ job' = Disturbed
    /\ UNCHANGED <<versions, published, remote, pc>>

(* +refs/forum/published/*:refs/forum/published/* without pruning.          *)
FetchPublished ==
    /\ "fetch" \in Faults
    /\ published' = [t \in Threads |->
                        IF remote[t] = NoTree THEN published[t] ELSE remote[t]]
    /\ published' # published
    /\ job' = Disturbed
    /\ UNCHANGED <<versions, deleted, remote, pc>>

-----------------------------------------------------------------------------
Lint(p) ==
    \/ \E t \in Threads : \/ PartitionPublic(p, t) \/ PartitionPrivate(p, t)
                          \/ ProjectPublic(p, t) \/ ProjectPrivate(p, t)
                          \/ ProjectUnreadable(p, t)
    \/ Stage(p)
    \/ RefuseStrict(p)

Realise(p) ==
    \/ \E t \in Threads : WritePublished(p, t)
    \/ NothingToPush(p)
    \/ PushImpossible(p)

Clean(p) == (\E t \in Threads : DeletePublished(p, t)) \/ ReturnOk(p)

(* The steps a running push takes by itself.                               *)
Continue(p) == Lint(p) \/ Realise(p) \/ Clean(p)

Start(p) ==
    \E strict \in BOOLEAN : ListThreads(p, strict) \/ ListNothing(p, strict)

Misfortune(p) ==
    \/ \E t \in Threads : PartitionUnreadable(p, t)
    \/ \E acc \in SUBSET Threads : PushRefused(p, acc)
    \/ StageNothing(p)
    \/ Stop(p)

Surroundings ==
    \/ \E t \in Threads : CreateThread(t) \/ SetVisibility(t) \/ DeleteThread(t)
    \/ \E t \in Threads, u \in Threads : NameThread(t, u)
    \/ FetchPublished

Next ==
    \/ \E p \in Pushers : Start(p) \/ Continue(p) \/ PushAccepted(p) \/ Misfortune(p)
    \/ Surroundings

Spec == Init /\ [][Next]_vars

(* A running push is scheduled, the operator pushes again (without          *)
(* --strict) as long as there is reason to, and the remote does not refuse  *)
(* for ever.                                                               *)
FairSpec ==
    /\ Spec
    /\ \A p \in Pushers : /\ WF_vars(Continue(p))
                          /\ SF_vars(ListThreads(p, FALSE))
                          /\ SF_vars(PushAccepted(p))

-----------------------------------------------------------------------------
(* Properties.                                                             *)

(* Every variable stays in its type.                                       *)
TypeOK ==
    /\ versions \in [Threads -> Seq(Doc)]
    /\ deleted \subseteq Threads
    /\ published \in [Threads -> Tree]
    /\ remote \in [Threads -> Tree]
    /\ pc \in [Pushers -> Phases]
    /\ job \in [Pushers -> Job]

(* A tree may be shown of thread t: its version was public, and it names    *)
(* only threads that the version names and that were public themselves.    *)
Showable(tree, t) ==
    tree # NoTree =>
        /\ tree.version \in DOMAIN versions[t]
        /\ versions[t][tree.version].public
        /\ tree.names \subseteq versions[t][tree.version].names
        /\ \A u \in tree.names : WasPublic(u)

(* SPEC-3.0 section 5.7, at every moment and on every remote: no version of *)
(* a thread that was private is shown, and no link or thread evidence to a  *)
(* thread that was never public, however edits, deletions, fetches and      *)
(* failures interleave with the reads of a push.                           *)
OnlyPublicShown ==
    \A t \in Threads : Showable(remote[t], t) /\ Showable(published[t], t)

(* Preserve-then-retry: of a thread that is shown and should not be, the    *)
(* clone still has the ref that makes a later push withdraw it. Holds when  *)
(* pushes of one clone do not overlap.                                     *)
NothingStranded ==
    \A t \in Threads :
        remote[t] # NoTree /\ t \notin PublicNow => published[t] # NoTree

(* A push that succeeds, and during which nothing else happened on the      *)
(* clone, leaves the remote showing exactly the projection of the threads:  *)
(* whatever earlier pushes left half done is repaired.                     *)
SucceedsOnlyWhenDone ==
    [][\A p \in Pushers :
         (ReturnOk(p) \/ NothingToPush(p)) /\ job[p].quiet =>
             \A t \in Threads : remote'[t] = ProjectionOf(t)]_vars

(* When edits have stopped and the operator keeps pushing, the remote ends  *)
(* up showing exactly the projection of the threads.                       *)
Converges == <>[](\A t \in Threads : remote[t] = ProjectionOf(t))
=============================================================================
