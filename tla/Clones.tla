------------------------------- MODULE Clones -------------------------------
(***************************************************************************)
(* One clone and its remotes: the fetch refspecs that git forum init       *)
(* writes, the fetches that follow them, the hooks that are installed in   *)
(* the repository and run when a worktree is checked out, and what doctor  *)
(* says of the clone (init.rs, commands/init.rs, commands/hook.rs,         *)
(* commands/doctor.rs).                                                    *)
(*                                                                         *)
(* The git configuration and the hooks belong to the repository; .git/forum*)
(* and the .forum that a branch brings belong to one worktree. Other clones*)
(* write to the remotes at any time; a remote may be unreachable, and a    *)
(* write of the configuration may fail.                                    *)
(***************************************************************************)
EXTENDS Naturals, Sequences, SequencesExt, Option

CONSTANTS
    Remotes,        \* the remotes there may be, in the order git lists them
    Worktrees,      \* the worktrees of the repository
    Threads,        \* thread ids
    Branches,       \* what branches hold of .forum: [ForumFiles -> {"absent","good","bad"}]
    MaxEdits        \* bound on hand edits, remotes added, changes elsewhere, and faults

Modes == {"trusted", "public"}

ASSUME ModesAssumption == None \notin Modes
ASSUME RemotesAssumption ==
    /\ Remotes \in Seq(ToSet(Remotes))
    /\ \A i, j \in DOMAIN Remotes : Remotes[i] = Remotes[j] => i = j

VARIABLES
    remote,     \* by remote: [auth: by thread who may see it, pub: SUBSET Threads]
    known,      \* the remotes configured in this clone
    fetch,      \* by remote: how often remote.<name>.fetch has each refspec
    hooks,      \* by hook: "absent", "ours" or "other"
    logs,       \* the worktrees whose .git/forum/logs exists
    dotForum,   \* by worktree: its .forum, like Branches; "bad" is no TOML, or empty
    local,      \* the forum refs of this clone: [auth, pub] as of a remote
    edits,
    \* history, for the properties
    asked,      \* the mode of the last init that gave no warning, unless edited since
    wired,      \* the remotes that init saw
    hooked,     \* a worktree was initialized by the hook since
    imported,   \* the threads whose authoritative ref a fetch has moved since
    ready       \* the worktrees that init ran in, with the branch they are on

files == <<dotForum, ready>>
history == <<asked, wired, hooked, imported>>
cloneVars == <<remote, known, fetch, hooks, logs, local, edits, files, history>>

Specs == {"forum", "threads", "published"}
Authoritative == {"forum", "threads"}
Published == {"forum", "published"}
Bare == [spec \in Specs |-> 0]
Covers(specs, namespace) == \E spec \in namespace : specs[spec] > 0

-----------------------------------------------------------------------------
(* The refspecs.                                                            *)

(* Mutant of Unwanted: init looks for the legacy wildcard alone.            *)
Unwanted_Wildcard == {"forum"}

Unwanted == {"forum", "threads"}

(* Mutant of KnownRemotes: the last remote of the listing is missed.        *)
KnownRemotes_Short == { i \in 1 .. Len(Remotes) - 1 : Remotes[i] \in known }

KnownRemotes == { i \in DOMAIN Remotes : Remotes[i] \in known }

(* The writes reconcile_remote_fetch makes for what a remote has now.       *)
Reconcile(i, mode) ==
    LET there(spec) == fetch[Remotes[i]][spec] > 0
        write(op, specs) == { [op |-> op, at |-> i, spec |-> spec] : spec \in specs }
    IN  IF mode = "trusted"
        THEN IF there("forum") THEN {}
             ELSE write("add", { spec \in {"threads", "published"} : ~there(spec) })
        ELSE write("unset", { spec \in Unwanted : there(spec) })
             \cup write("add", { spec \in {"published"} : ~there(spec) })

Writes(mode) == UNION { Reconcile(i, mode) : i \in KnownRemotes }

(* Remote by remote, and the wildcard, threads and published in this order. *)
Place(spec) == CASE spec = "forum" -> 1 [] spec = "threads" -> 2 [] spec = "published" -> 3
Before(v, w) == v.at < w.at \/ (v.at = w.at /\ Place(v.spec) < Place(w.spec))

(* git config --unset fails when the value is there twice.                  *)
Unsettable(write) == write.op = "unset" /\ fetch[Remotes[write.at]][write.spec] > 1

(* How often the value is there when these writes are done.                 *)
Written(done, r, spec) ==
    LET by == { w.op : w \in { v \in done : v.spec = spec /\ Remotes[v.at] = r } }
    IN  IF "unset" \in by THEN 0 ELSE IF "add" \in by THEN fetch[r][spec] + 1 ELSE fetch[r][spec]

(* ensure_forum_refspecs: the first write that fails ends it; it may be one *)
(* at which another process holds the lock of the configuration.            *)
Ensure(mode, locked) ==
    LET writes == Writes(mode)
        bad == { w \in writes : Unsettable(w) \/ w = locked }
        done == { w \in writes : \A v \in bad : Before(w, v) }
    IN  [ ok |-> bad = {},
          fetch |-> [r \in DOMAIN fetch |-> [spec \in Specs |-> Written(done, r, spec)]] ]

-----------------------------------------------------------------------------
(* Fetching.                                                                *)

(* All forum refspecs are forced, and none prunes.                          *)
Fetched(here, r, specs) ==
    [ auth |-> IF Covers(specs, Authoritative)
               THEN [t \in Threads |-> IF remote[r].auth[t] = None THEN here.auth[t]
                                       ELSE [from |-> r, vis |-> remote[r].auth[t]]]
               ELSE here.auth,
      pub |-> IF Covers(specs, Published) THEN here.pub \cup remote[r].pub ELSE here.pub ]

Moved(before, after) == { t \in Threads : after.auth[t] # before.auth[t] }

InitSpec(mode) == IF mode = "trusted" THEN "forum" ELSE "published"

(* The fetches of init, from each remote that answers: the last one in the  *)
(* order of the listing overwrites what the others brought.                 *)
FetchedAll(mode, answering) ==
    LET sources == { i \in KnownRemotes : Remotes[i] \in answering }
        last(having) == Remotes[CHOOSE i \in having : \A j \in having : j <= i]
        shared == IF InitSpec(mode) \in Authoritative THEN sources ELSE {}
    IN  [ auth |-> [t \in Threads |->
                       LET having == { i \in shared : remote[Remotes[i]].auth[t] # None }
                       IN  IF having = {} THEN local.auth[t]
                           ELSE LET r == last(having) IN [from |-> r, vis |-> remote[r].auth[t]]],
          pub |-> local.pub \cup UNION { remote[Remotes[i]].pub : i \in sources } ]

-----------------------------------------------------------------------------
(* Hooks.                                                                   *)

(* install_all_hooks: a hook of somebody else's ends it, unless forced.     *)
Free(kind, force) == kind # "other" \/ force

Installed(force) ==
    [ commitMsg |-> IF Free(hooks.commitMsg, force) THEN "ours" ELSE "other",
      postCheckout |-> IF Free(hooks.commitMsg, force) /\ Free(hooks.postCheckout, force)
                       THEN "ours" ELSE hooks.postCheckout ]

InstallHooks ==
    /\ \E force \in BOOLEAN : hooks' = Installed(force)
    /\ UNCHANGED <<remote, known, fetch, logs, local, edits, files, history>>

UninstallHooks ==
    /\ hooks.commitMsg # "other"
    /\ hooks' = [ commitMsg |-> "absent",
                  postCheckout |-> IF hooks.postCheckout = "other" THEN "other" ELSE "absent" ]
    /\ UNCHANGED <<remote, known, fetch, logs, local, edits, files, history>>

-----------------------------------------------------------------------------
(* git forum init, and the worktree-init of the post-checkout hook.         *)

Counted == edits < MaxEdits /\ edits' = edits + 1

(* The write at which the configuration is locked, and who answers a fetch. *)
Faultless == [locked |-> None, answering |-> known]
Faults(mode) ==
    IF edits < MaxEdits THEN [locked: {None} \cup Writes(mode), answering: SUBSET known]
    ELSE {Faultless}

May(fault) == IF fault = Faultless THEN UNCHANGED edits ELSE Counted

(* The files of .forum that init writes and doctor looks at.                *)
ForumFiles == {"policy.toml", "issue.md", "rfc.md", "dec.md", "task.md"}

ASSUME BranchesAssumption == Branches \subseteq [ForumFiles -> {"absent", "good", "bad"}]

(* write_if_missing: a file that is there stays, whatever it holds.         *)
WriteIfMissing(file) == IF file = "absent" THEN "good" ELSE file

InitForum(w) == dotForum' = [dotForum EXCEPT ![w] = [f \in ForumFiles |-> WriteIfMissing(@[f])]]

(* init_forum_local                                                         *)
InitLocal(w) == logs' = logs \cup {w}

(* What fails leaves a warning and init goes on: config, fetch, hooks.      *)
Init(mode, w) ==
    \E fault \in Faults(mode) :
        LET ensured == Ensure(mode, fault.locked)
            now == FetchedAll(mode, fault.answering)
        IN  /\ May(fault)
            /\ fetch' = ensured.fetch
            /\ local' = now
            /\ hooks' = Installed(FALSE)
            /\ asked' = IF ensured.ok THEN mode ELSE None
            /\ wired' = IF ensured.ok THEN known ELSE {}
            /\ hooked' = (hooked /\ ~ensured.ok)
            /\ imported' = Moved(local, now) \cup (IF ensured.ok THEN {} ELSE imported)
            /\ InitForum(w) /\ InitLocal(w)
            /\ ready' = ready \cup {w}
            /\ UNCHANGED <<remote, known>>

(* Checking out a worktree runs the hook. Only a worktree without           *)
(* .git/forum/logs is initialized, with the default mode, and nothing is    *)
(* written to its .forum.                                                   *)
Checkout(w) ==
    /\ hooks.postCheckout = "ours" /\ w \notin logs
    /\ \E fault \in Faults("trusted") :
          /\ fault.answering = known /\ May(fault)
          /\ fetch' = Ensure("trusted", fault.locked).fetch
    /\ InitLocal(w)
    /\ hooks' = Installed(FALSE)
    /\ hooked' = TRUE
    /\ UNCHANGED <<remote, known, local, files, asked, wired, imported>>

(* git checkout of another branch, where the hook has nothing to do.        *)
SwitchBranch(w, branch) ==
    /\ Counted
    /\ hooks.postCheckout # "ours" \/ w \in logs
    /\ branch # dotForum[w]
    /\ dotForum' = [dotForum EXCEPT ![w] = branch]
    /\ ready' = ready \ {w}
    /\ UNCHANGED <<remote, known, fetch, hooks, logs, local, history>>

-----------------------------------------------------------------------------
(* The user of the clone, and other clones.                                 *)

PlainFetch(r) ==
    /\ r \in known
    /\ local' = Fetched(local, r, fetch[r])
    /\ imported' = imported \cup Moved(local, local')
    /\ UNCHANGED <<remote, known, fetch, hooks, logs, edits, files, asked, wired, hooked>>

AddRemote(r) ==
    /\ Counted
    /\ r \notin known
    /\ known' = known \cup {r}
    /\ UNCHANGED <<remote, fetch, hooks, logs, local, files, history>>

EditConfig(r, spec) ==
    /\ Counted
    /\ r \in known
    /\ fetch' = [fetch EXCEPT ![r][spec] = @ + 1]
    /\ asked' = None
    /\ wired' = {}
    /\ UNCHANGED <<remote, known, hooks, logs, local, files, hooked, imported>>

(* A thread written in this clone: one it has, or a new one.                *)
WriteHere(t) ==
    /\ Counted
    /\ local.auth[t] = None => \A r \in DOMAIN remote : remote[r].auth[t] = None
    /\ \E vis \in {"private", "public"} :
         local' = [local EXCEPT !.auth[t] = [from |-> None, vis |-> vis]]
    /\ UNCHANGED <<remote, known, fetch, hooks, logs, files, history>>

(* Another clone pushes the thread to a remote, and what it publishes of it.*)
WriteThere(r, t) ==
    /\ Counted
    /\ local.auth[t] # None => \E q \in DOMAIN remote : remote[q].auth[t] # None
    /\ \E vis \in {"private", "public"} :
          remote' = [remote EXCEPT ![r] =
              [ auth |-> [@.auth EXCEPT ![t] = vis],
                pub |-> IF vis = "public" THEN @.pub \cup {t} ELSE @.pub \ {t} ]]
    /\ UNCHANGED <<known, fetch, hooks, logs, local, files, history>>

-----------------------------------------------------------------------------
(* doctor.                                                                  *)

HasForumRefspec(r) == Covers(fetch[r], Specs)

IsPublicConsumer ==
    /\ \E r \in known : fetch[r]["published"] > 0
    /\ \A r \in known : ~Covers(fetch[r], Authoritative)

(* publish_namespace_checks.                                                *)
Advisories ==
    LET here(t) == local.auth[t] # None
    IN  { <<"auth-without-published", t>> : t \in { u \in Threads \ local.pub :
              here(u) /\ local.auth[u].vis = "public" } }
        \cup { <<"stale-published", t>> : t \in { u \in local.pub :
              IF here(u) THEN local.auth[u].vis = "private" ELSE ~IsPublicConsumer } }

(* is_fresh_clone                                                           *)
IsFreshClone(w) ==
    /\ dotForum[w]["policy.toml"] # "absent"
    /\ w \notin logs
    /\ \A t \in Threads : local.auth[t] = None
    /\ known # {}

(* Checks 0 to 5 of run_with_mode, without those that are ok; .git/forum is *)
(* there when its logs are.                                                 *)
Checks(w) ==
    LET broken == { f \in ForumFiles : dotForum[w][f] # "good" }
        lacking == { r \in known : ~HasForumRefspec(r) }
    IN  { [level |-> "fail", about |-> f] : f \in broken }
        \cup { [level |-> "warn", about |-> r] : r \in lacking }
        \cup (IF IsFreshClone(w) THEN {[level |-> "warn", about |-> "fresh clone"]} ELSE {})
        \cup (IF w \in logs THEN {}
              ELSE {[ level |-> IF IsFreshClone(w) THEN "warn" ELSE "fail",
                      about |-> ".git/forum" ]})

-----------------------------------------------------------------------------

(* A clone of any age: older programs configured the wildcard.              *)
NoRefs == [auth |-> [t \in Threads |-> None], pub |-> {}]

CloneInit ==
    /\ remote = [r \in ToSet(Remotes) |->
                    [NoRefs EXCEPT !.auth = [t \in Threads |-> "private"]]]
    /\ known \in SUBSET ToSet(Remotes)
    /\ fetch \in { [r \in ToSet(Remotes) |-> IF r \in old THEN [Bare EXCEPT !["forum"] = 1]
                                               ELSE Bare] : old \in SUBSET known }
    /\ hooks \in [{"commitMsg", "postCheckout"} -> {"absent", "other"}]
    /\ logs = {} /\ local = NoRefs /\ edits = 0
    /\ \E branch \in Branches : dotForum = [w \in Worktrees |-> branch]
    /\ asked = None /\ wired = {} /\ hooked = FALSE /\ imported = {} /\ ready = {}

CloneNext ==
    \/ \E w \in Worktrees :
          \/ \E mode \in Modes : Init(mode, w)
          \/ Checkout(w)
          \/ \E branch \in Branches : SwitchBranch(w, branch)
    \/ InstallHooks \/ UninstallHooks
    \/ \E r \in ToSet(Remotes) :
          \/ PlainFetch(r) \/ AddRemote(r)
          \/ \E spec \in Specs : EditConfig(r, spec)
          \/ \E t \in Threads : WriteThere(r, t)
    \/ \E t \in Threads : WriteHere(t)

CloneSpec == CloneInit /\ [][CloneNext]_cloneVars

-----------------------------------------------------------------------------
(* Properties.                                                              *)

(* "Authoritative refs are never imported, so the privacy boundary is       *)
(* structural" (init.rs:174), "authoritative refs are never imported on     *)
(* these clones" (SPEC-3.0.md:753): after a git forum init --public-only    *)
(* that gave no warning, and as long as nobody edits the refspecs or runs   *)
(* init again, no fetch moves an authoritative ref of the clone.            *)
NeverImported == asked = "public" => imported = {}

(* What holds of it: only the hook of a new worktree can make fetches       *)
(* import again - not a remote added later, a remote that did not answer, a *)
(* configuration that still had the wildcard, or a write that failed - and  *)
(* a second init --public-only makes good what the hook did. Work of this   *)
(* clone is overwritten by no fetch either.                                 *)
ImportsOnlyByHook == asked = "public" /\ ~hooked => imported = {}

(* doctor is content with what init did (doctor.rs:187 "run git forum init  *)
(* to fix"): an init without a warning leaves no remote it saw without a    *)
(* forum refspec, whatever the hook does later; in a worktree that init ran *)
(* in nothing is left to report of this branch but the files the branch     *)
(* holds in a bad form and remotes that init did not see; and doctor does   *)
(* not take the published threads of a public-only clone for withdrawals    *)
(* that have to be pushed again (doctor.rs:650).                            *)
DoctorContent ==
    /\ \A r \in wired : HasForumRefspec(r)
    /\ \A w \in ready : \A check \in Checks(w) :
          check.about \in (known \ wired) \cup { f \in ForumFiles : dotForum[w][f] = "bad" }
    /\ asked = "public" /\ ~hooked =>
          \A t \in Threads : local.auth[t] = None => <<"stale-published", t>> \notin Advisories
==============================================================================
