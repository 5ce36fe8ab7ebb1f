# git-forum: a verification development

git-forum keeps discussion threads inside a git repository: a thread is a ref
`refs/forum/threads/<id>` whose commits hold a snapshot of one document
(`thread.toml`, `body.md`, nodes, links, evidence), and its public form is a
second ref `refs/forum/published/<id>`. There is no server and no lock. CLI
commands, a TUI, agents, `git forum migrate`, 2.x clients and `git fetch` work on
the same refs at the same time, and what holds the data together is the order of
a few git calls. This directory models that order in TLA+, checks it with TLC and
proves the central parts with TLAPS.

Source paths below are relative to `src/internal/` of the repository unless they
start with `doc/`.

| Read this | for |
|---|---|
| [1. The system](#1-the-system) | components, their state, how they interact, what is hard |
| [2. The modules](#2-the-modules) | which module models what, and the correspondence with the code |
| [3. The runs](#3-the-runs) | what is model-checked, bounds, fairness |
| [4. Where code and documents disagree](#4-where-code-and-documents-disagree) | the counterexamples |
| [5. The proofs](#5-the-proofs) | theorems, assumptions, inductive invariants |
| [6. Not modelled](#6-not-modelled) | and why |
| [7. Plan](#7-plan) | what comes next, in order |

How to run (in this directory):

    tlc -workers 2 -config StoreRace.cfg MCSnapshotStore.tla
    tlapm SnapshotStore_proofs.tla

The seven `*_proofs` modules and Recursion take tlapm from a few seconds (Recursion)
to about eight minutes (TuiSession_proofs).

## 1. The system

### 1.1 Components

| Component | State | Operations | Talks to |
|---|---|---|---|
| Snapshot store (`snapshot/store.rs`, `link.rs`) | refs `threads/*`; read-only use of `published/*` | `read_snapshot` (with the published fallback), `write_snapshot`, `write_snapshot_with_archive[_pinned]` | git operations; every command |
| Migration (`commands/migrate.rs`) | none of its own | `process_one`: probe, pin the tip, project the event tail, archive, pinned write | store, legacy chain |
| Legacy event chain (`legacy/*`) | event commits under `threads/*` | lenient and strict replay, projection to a document; appended to by 2.x clients | store, migration, doctor |
| Publishing (`publish/*`, `commands/push.rs`, `visibility.rs`) | refs `published/*`, the remote's copy of them | `lint_pass`, `commit_plan`, one `git push`, `delete_published` | store (reads), the remote |
| Lint (`publish/lint.rs`) | none | finds references in text, stops `--strict` | publishing |
| Thread commands (`commands/*.rs`) | the document in memory | `new`, `say`, `revise`, `retype`, `link`, `evidence`, `resolve`/`reopen`/`retract`/`incorporate`, the state verbs, `state bulk`, `supersede`, branch/visibility edits | store, categories, policy |
| Categories and policy (`policy.rs`, `operation_check.rs`, `commands/verify.rs`) | the registry and `.forum/policy.toml`, edited by hand | load, validate, overlay; `resolve_target_state`, `allows_transition`, `find_path`, `check_guards`, `check_*`; `verify` | thread commands |
| TUI (`tui/*`, `snapshot/list.rs`) | rows, tips, the open view, forms, folds, the filter | draw, `auto_refresh`, one event; create, say, revise, link, set a status; the external editor | store, list cache |
| Git operations (`git_ops.rs`) | none | `resolve_ref`, `list_refs`, `update_ref_cas`, `create_ref`, `delete_ref`, `commit_tree`, ... | git |
| Batched reads (`git_batch.rs`) | a long-lived `cat-file` process | read with one restart, then off | git operations |
| Ids and references (`thread.rs`, `id*.rs`, `refs.rs`) | refs `aliases/*` | token allocation, prefix, case, alias and node resolution | commands, hooks |
| Clone setup (`init.rs`, `commands/init.rs`) | fetch refspecs of every remote, `.forum` and `.git/forum` | `init` in two modes, missing files, reconciliation, its fetches | git, hooks, doctor |
| Hooks (`commands/hook.rs`) | `.git/hooks`, the index | install, uninstall, post-checkout, commit-msg, `fix-index` | clone setup, references |
| History (`snapshot/history.rs`, `diff.rs`, `shortlog.rs`) | none | the log, body revisions, the day of a resolution | commit subjects and trees |
| Doctor, browsing, command line | none | read-only (but doctor repairs the index) or presentation | |

### 1.2 How they interact, and what is hard about it

*Read, edit, write back.* Every command is "read the snapshot at a ref's tip, edit
it in memory, commit the whole document, move the ref by compare-and-swap". The
parent of the new commit is resolved **when the document is written**, not when it
was read. What a command returns to its caller therefore says whether the ref
moved, but not that nobody else moved it since the read.

*Two namespaces.* A thread that exists only as `published/<id>` can still be read.
Whether a document came from that fallback is not carried with it; the store looks
at the refs again when it writes.

*Two formats.* A tip can be a snapshot or a 2.x event commit. A 2.x client does not
know about snapshots and keeps appending. The check that refuses event tips is made
when a document is read; only `migrate` pins the tip it looked at.

*Publishing reads many refs at different moments.* The visibility partition, each
document, and the list of published refs are separate git calls, followed by local
writes, one push whose per-ref outcomes may differ, and deletions of local refs for
the withdrawals the remote accepted. Any of these may be cut short, and the thread
may become private between any two of them.

*Checks on one read, writes of another.* `say` checks the policy on one read and
edits another; `state bulk` reads three times; `supersede` and `new --from-thread`
write two threads one after the other.

*Failures that look like answers.* `resolve_ref` and `list_refs` turn a failing git
process into "absent" and "none".

*What is on the screen is old.* The TUI draws, may refresh from git, and then handles
a key that answers the older frame. It lists rows and reads tips by separate calls,
and keeps rows, folds and the cursor by keys of different kinds.

*One meaning, several readers.* A 2.x chain is replayed leniently by `migrate`,
strictly by `doctor`, and again from the middle when 2.x clients go on after a
migration; `shortlog`, `diff` and the log recover history from subjects and trees;
the TUI's tree and `show` group the same replies by different code.

*State that others edit.* `policy.toml` is edited between a thread's creation and its
moves, refspecs between two fetches, the index between two calls of `fix-index`.

### 1.3 What makes each component correct

- **Store**: what the caller is told is true; a history only grows; a document is an
  edit of one state the thread was in, not a mixture; archived events survive; a
  sanitized document becomes authoritative only through the windows that the second look
  at the refs leaves open.
- **Migration**: the snapshot shows and archives exactly the events below it.
- **Publishing**: nothing that was private when it was read is ever shown, on any
  remote; what is shown and should not be can still be withdrawn; a push that
  succeeds has done the whole job; repeated pushes converge.
- **Thread commands**: a status is always one the category's transitions lead to;
  transitions, guards and operation checks hold for the document that is written,
  not only for the one that was read; links of two threads come in pairs.
- **Legacy chains**: the snapshot is the same wherever the chain was cut over; what is
  lost is reported.
- **Policy**: no command leaves the file in force; `verify` foretells the next move.
- **References**: no reference is guessed, and a whole id keeps its meaning.
- **TUI**: a row is true of the tip it was recorded with; a view that stays open
  catches up; a key acts on what was drawn; no text is lost or written twice.
- **Reading**: an answer of the batch reader is the object asked for; the pane shows
  each node once, under what it answers; history ends at what `show` shows.
- **Clones**: a clone set up for published threads alone imports no others; a repaired
  index can be committed.

The hazards, each at its line, are listed in `PROJECT.json` with the properties that
would catch them going wrong.

## 2. The modules

    ThreadLog                the abstract promise of the store
       ^ implemented by (LogPromise)
    SnapshotStore            store, migration, 2.x writers, fetch/publish around them
       ^ MCSnapshotStore, SnapshotStore_proofs

    Categories               built-in categories, default policy, operation checks
       ^ extended by
    ThreadCommands           every command that edits a thread; a store write is one step
       ^ MCThreadCommands, ThreadCommands_proofs

    Publish                  git forum push, the remote, and the commands around it
       ^ MCPublish, Publish_proofs

    TuiSession               one session of the TUI among other writers
       ^ TuiSession_proofs

    MCSurroundings           what others change under a command's hands:
       PolicyFile, Clones                      (MCClones: Clones alone)
       ^ Surroundings_proofs

    MCReading                what is read more than once, or by more than one reader:
       LegacyChain, BatchReader, References, History, NodeTree, IndexRepair
       ^ References_proofs, Reading_proofs (induction over folds: Recursion)

    Option                   the one constant None of the parts of these two

MCSnapshotStore, MCPublish, MCThreadCommands and MCClones only add the symmetry sets
and, for ThreadCommands, the registry as a function of the flavor, for Clones the
remotes and what branches hold. MCSurroundings and MCReading
give the constants of several modules their values and join them by a disjunction: the
initial state picks one part, only that part takes steps, the others stay in one
state. Their parts share no state, so nothing is gained by interleaving them, and
nothing is claimed about it.

### 2.1 ThreadLog

The store as its callers would like to think of it: per thread a log of the commands
that reached it. `Record` appends a command that is nowhere yet and was not rejected,
`Acknowledge` tells a caller Ok only for a recorded command, `Reject` tells an error
only for an unrecorded one. `SnapshotStore!LogPromise` is the refinement: the log is
the sequence of command identities of the commits a ref reaches.

### 2.2 SnapshotStore

State: `refs[t]` is the history that `refs/forum/threads/<t>` reaches, oldest first.
A commit's OID is a hash over its tree and ancestors, so equal OIDs are equal
histories and the compare-and-swap is `refs[t] = work[p].parent`. A document is the
set of commands it shows, plus whether it descends from a sanitized projection. A
commit is an event, an edit or a migration, with the events in its `legacy/` archive.

| Actions | Code |
|---|---|
| `StartEdit`, `StartNew`, `ReadAuth*`, `ReadPublished*` | `read_snapshot`, `store.rs`: authoritative ref first, then the published one, an event tip is refused |
| `ResolveParent`, `ResolveNoParent`, `RefuseToPromote`, `NothingPublished` | `write_snapshot_inner`: resolve the parent again, refuse a published-only thread |
| `MoveRef`, `Conflict`, `ReturnOk` | `update_ref_cas` / `create_ref` and the way back to the caller |
| `StartMigrate`, `Probe*`, `Pin`, `PinAbsent` | `process_one` of `migrate.rs` |
| `GitFails`, `Crash` | any git call that returns an error, a process that dies between two steps |
| `LegacyWrite`, `FetchThread`, `PublishedAppears`, `PublishedVanishes` | 2.x clients, `git fetch`, `git forum push` of this clone with its withdrawals, those of threads it does not hold included (`publish/orchestrate.rs:183-201`, `push.rs:106`) |

`Faults` selects which surroundings act: `"legacy"`, `"churn"` (fetches, and pushes of
this clone, create and remove refs while commands run), `"lookup"` (`resolve_ref` says
absent because git failed). `StartEdit` asks that the thread is there in one namespace,
since the caller has resolved its id against both, or was there until a fetch or a push
took it away.

`exposed` is a history variable, which no action reads: the commands under which a
namespace moved after they had found no authoritative ref (their thread was fetched
while they were about to read, or held, a projection; the published ref was removed
while they held it), or that looked for a ref that was there and were told it is not.

### 2.3 Publish

State: `versions[t]` is every document of the thread so far (visibility, the threads
it names), `published` the local published refs, `remote` the remote's, `job[p]` what
a push has in memory: what it listed, which threads are still to be read, the public
and private partition, the plan, the staged withdrawals. `quiet` is a history
variable: nothing else has happened on the clone since this push began.

| Actions | Code |
|---|---|
| `ListThreads`, `ListNothing` | first `list_refs` of `lint_pass` |
| `PartitionPublic/Private/Unreadable`, one step per thread | `compute_visibility_partition` |
| `ProjectPublic/Private/Unreadable`, one step per thread | second reading, `exclusion.rs`, the lint, comparison with the published tree |
| `Stage`, `StageNothing`, `RefuseStrict` | orphan pass and the `--strict` short-circuit |
| `WritePublished`, `NothingToPush` | `commit_plan` |
| `PushAccepted`, `PushRefused`, `PushImpossible` | the one `git push` and its per-ref results |
| `DeletePublished`, `ReturnOk` | `delete_published` for accepted withdrawals |
| `Stop` | a git error that is propagated, or the process dies |
| `CreateThread`, `SetVisibility`, `NameThread`, `DeleteThread`, `FetchPublished` | the other commands of the clone (external to the module) |

### 2.4 Categories and ThreadCommands

Categories holds the tables that the code builds in: transitions, initial statuses,
the default policy's guards, the operation checks that `git forum init` writes, verb
names. ThreadCommands takes them as CONSTANTS; the proofs hold for any of them.

State: `docs[t]` (flavor, status, nodes, links, whether a commit is attached), one
`job` per process, `halfway` (two-thread commands that stopped between their writes)
and `clobbered` (some write replaced a document it had not read).

| Actions | Code |
|---|---|
| `New` and `TuiNew` | `commands/thread_new.rs`, `snapshot_create_thread` of `tui/state.rs` |
| `Say`, `TuiSay`, `ReviseBody`, `ReviseNode`, `TuiRevise`, `Retype`, `AddEvidence` | `shorthand_say.rs`, `revise.rs`, `retype.rs`, `evidence.rs`, TUI helpers |
| `EditField`, `LinkTo`, `MarkNodes`, `TuiMark` | branch, visibility and link edits; `node_bulk.rs`; `apply_node_status_action` |
| `State`, `Bulk`, `Supersede` | `state.rs` (verbs, `--fast-track`, `--approve`, `--resolve-open-actions`), `state bulk`, `supersede.rs` |
| `CheckPolicy`, `CheckNode` | the operation check on its own read; the look-up of a node |
| `ReadAndEdit`, `ResolveNodes`, `ReadForState`, `FilterBulk`, `ReadForBulk`, `GuardBulk`, `ReadForBack` | each further read of the thread, in the order the command makes them |
| `Write`, `WriteFails`, `Crash` | `write_snapshot`: installs the document or fails; the process dies |

One `Write` stands for the whole store protocol. SnapshotStore justifies it: a normal
write either replaces whatever the ref holds when it runs or fails without a trace.
A failure of one thread of a `state bulk` goes on with the next, as in the code.

### 2.5 TuiSession

One session is a sequential loop that shares the refs with everybody: `Draw`, a tick
that may refresh, one event. `app` is the App (rows, tips, view, cursor, filter,
overlays), `form` the open form, `todo` the git calls that the running handler still
has to make, `work` what it has read so far, `frame` what is on the screen. A handler
or a tick puts its calls into `todo` in the order of the code; each is a step, and
other processes write between two of them. `saved` is `tui-state.toml`.

| Actions | Code |
|---|---|
| `Run`, `Restore`, `RestoreNode` | `run`: list, then tips, then the saved state or the thread of the command line |
| `Draw`, `TickNotDue`, `TickThread`, `TickNode`, `TickList`, `TickForm`, `NothingTyped` | `run_app`, `auto_refresh` |
| `ListAuth` ... `KeepTips`, `OpenTip`, `OpenRead`, `OpenTheNode`, `GitFails` | `list_threads_reusing` with its cache, the tips, `open_thread_detail`, a failing call |
| `CreateThread`, `Say`, `AddLink`, `Revise`, `Mark` | the writers of `tui/state.rs`, each with the refresh that follows |
| `EnterThread`, `EnterNode`, `Click*`, `MoveIn*`, `OpenBar`, `SelectKey`, ... | `input.rs`, one action per key or click of a view |
| `Begin`, `Type`, `EditBody`, `ChooseTarget`, `Submit`, `EscKey`, `ClickBack`, `Discard` | the forms, the editor, the confirmation |
| `Quit` | saves the state and leaves |

`Inputs` selects groups of keys, `Surroundings` which other processes act, so that each
run walks one part of the session exhaustively. Texts of a form are the set of fields
that have some; `HasUnsaved` looks at those that the confirmation looks at, which are
all that can be typed (`TextInv` of the proofs).

### 2.6 The parts of MCSurroundings

- **PolicyFile**: `file` is what `policy.toml` holds, `thread` one document, `last` the
  last command and its outcome, `report` what `verify` said. `Edit` replaces the file
  between any two commands; `NewThread`, `State`, `Bulk`, `Say`, `Revise`,
  `AddEvidence` and `Settle` take from it what the code takes, by the look-ups of the
  code (exact here, folded there). `HasPath` is reachability by sets closed under the
  edges, where `find_path` searches breadth first.
- **Clones**: `fetch` counts each refspec of each remote, as `git config --add` does;
  `Init`, `Checkout` (the post-checkout hook), `PlainFetch`, hooks, remotes added later,
  hand edits. `Writes(mode)` is the set of writes to the configuration that
  `ensure_forum_refspecs` finds to make, ordered by `Before` as the code makes them; the
  first that fails (a refspec that is there twice, or a `locked` configuration) leaves the
  earlier ones done and the later ones not, and a remote may not answer the fetch.
  `dotForum` is what
  a branch brings into a worktree; `InitForum` writes what is missing, and `Checks` is
  what `doctor` reports of files, remotes and a fresh clone. The hook writes no `.forum`.

### 2.7 The parts of MCReading

- **LegacyChain**: `chain` is what the ref reaches. Every event type, with the lenient
  and the strict replay, malformed events, merge commits, snapshots in the middle; each
  append and each migration is one step (SnapshotStore has the race).
- **BatchReader**: the program's side (`Start`, `Write`, `ReadHeader`, `ReadData`,
  `ReadDirectly`, `Return`) and the process's (`Answer`, `Die`, `Garble`) with a pipe
  between them; a fetch may bring a missing object.
- **References**: ids and references are sequences of characters, because prefixes,
  dashes and case decide. A lookup (`look`) is the series of git calls of
  `resolve_thread_id`, `NodeIdIndex::build`, `resolve_node_targets`,
  `check_thread_refs`; others create, publish, withdraw and delete threads and nodes
  between two calls, and a listing may fail. `earlier` is the lookup before it.
- **History**: a chain of snapshots and events with their subjects; the log, the rows of
  a node, diff's revisions and shortlog's date as operators over it.
- **NodeTree**: `TreeEntries` is the TUI's tree (sorting, walking, folds, cursor),
  `Conversations` is show's. Both are recursive, so TLC is the one to compare them.
- **IndexRepair**: `fix-index` as its git calls (pass 1 over the lines of the index,
  pass 2 over those of `HEAD`, in any order in which git lists them), and the user's
  edits, `git add`, conflicts, commits and resets between them.

## 3. The runs

`CHECK_DEADLOCK FALSE` is in the configurations of programs that really stop: when the
bounded number of commands or edits is used up and all processes are idle, nothing is
left to do. The TUI never stops by itself; its runs check deadlock.

### Passing runs

| Run | What it shows | Distinct states |
|---|---|---|
| `store_race` | two processes, four commands of any kind on one thread with every disturbance: callers are told the truth (`OutcomesTrue`), migrations drop nothing (`MigrationFaithful`), archives survive (`ArchivePreserved`), documents are not mixed (`EditsOneState`), a sanitized document comes into `threads/*` only under a command whose refs moved in one of the open windows (`NoPromotion`), and every step is one of ThreadLog (`LogPromise`) | 112,362 |
| `publish_faults` | one push after another on two threads, six edits, all six disturbances: nothing private and no structured reference to a never-public thread is shown (`OnlyPublicShown`); whatever is shown wrongly can still be withdrawn (`NothingStranded`) | 333,423 |
| `publish_converges` | edits during pushes, a remote that refuses part of a push: an undisturbed push that succeeds leaves exactly the projection (`SucceedsOnlyWhenDone`), and repeated pushes get there (`Converges`) | 14,093 |
| `commands_overlap` | any three of all sixteen commands on two threads by two processes that overlap, fail and die: `StatusReachable`, `BulkGuarded`, `ChecksRespected`, `SupersedeBothSides` | 2,457,433 |
| `tui_list` | the list view of two threads while others edit, create, delete, downgrade, publish and withdraw: once the recorded tips are the tips there are, the rows are what a fresh listing gives (`ListTrue`) | 2,271,873 |
| `tui_detail` | the thread and node views while others edit, force-fetch and git fails: Enter and a click open the node that is drawn (`EnterOpensDrawnNode`), and a view that stays open catches up (`DetailCatchesUp`) | 341,111 |
| `tui_forms` | all forms, editors and overlays: a form does not survive its own write (`LeavesFormAfterWrite`), loses no text unasked (`NoSilentDiscard`), links what it highlights (`LinksWhatWasDrawn`), and going back leads to the list (`BackReachesList`) | 1,088,549 |
| `surroundings` | no command leaves the policy in force (`MovesObeyPolicy`, `ChecksObeyPolicy`) and verify foretells the next move (`VerifyForetells`); only the hook of a new worktree can bring authoritative refs into a public clone (`ImportsOnlyByHook`), and what init did leaves doctor nothing to report but bad files of the branch and remotes added later (`DoctorContent`) | 172,774 |
| `reading` | chains cut over at any event (`CutoverAgrees`, `LifecycleKept`, `CleanReportLosesNothing`); batched answers (`AnswersTrue`); lookups between others' writes guess nothing (`NoGuess`) and keep their meaning (`KeepsMeaning`); history (`HistoryEndsAtTip`); the node pane (`PaneTrue`); fix-index (`RepairCarries`) | 1,059,204 |

### Runs that end in a counterexample

`store_lost_update`, `clone_public_only` and `shortlog_dates` each check one property
that a document or a comment of the repository states and the code does not keep:
section 4.

### Bounds, and why they are enough

- *Commands of the store* (4): a write, a migration and an event can all fall between
  one command's read and its swap, which is every relative order of the three kinds of
  writer with one left over. One thread, because no store operation reads a second.
- *Edits* of Publish (`MaxEdits`, 6 and 4): two threads are created, made public,
  linked, and one is made private again or changed during a push. Bound in the guard of
  `Commit`. One pusher, because `NothingStranded` does not hold of two (section 4).
- *`MaxCommands`* (3): a thread is created and two further commands overlap on it.
- *`Nodes`*: a node and a fresh one; `WithNode` is disabled when ids run out.
- *TuiSession, `MaxCommits`* (3): a change that arrives between two calls of a refresh
  and one after it. `tui_list` has no nodes and `tui_detail` one thread, since their
  views do not show the other. `MaxBacks` (5): no nesting of overlay, form, node,
  thread and list is deeper.
- *References*: tokens of three characters and prefixes of two instead of eight and
  four, so that two ids have a common prefix; two changes by others, one failing
  listing. The questions are one of each shape: id, prefix, other case, marker, old
  kind-prefixed and sequential ids, node ids and prefixes, several at once.
- *PolicyFile*: eight files that differ in what the code treats differently (missing
  and 2.x, default, strict, own machine with spaced and exact arrows, another initial
  status, incomplete, malformed, partial) and five bodies. No counter: the state is
  finite.
- *Clones, `MaxEdits`* (2; 1 in `clone_public_only`): a fault or hand edit before and
  one after an `init`, with two remotes and two worktrees. Two branches: one with all of
  `.forum`, one with an empty `rfc.md` and no `policy.toml`. The worktrees are symmetric.
- *LegacyChain* (`MaxCommits` 4, `MaxOther` 3): a creation, two commits of any type and
  a state event, in any order; all commits but state events count as `MaxOther`. That is
  a node and an event on it, with a cut between any two.
- *BatchReader* (`MaxFaults` 3): both lives of the process and a failing fallback; a
  tree two deep with a late subtree and a submodule. *History* (`MaxLog` 5), *NodeTree*
  (three nodes, two times), *IndexRepair* (two paths, a submodule, four steps of the
  user): three nodes are the least with a reply to a reply.
- *Symmetry* of processes, commands, threads, node ids and worktrees only in runs
  without liveness.

### Fairness

- Publish `FairSpec`: weak fairness of `Continue(p)`; strong fairness of
  `ListThreads(p, FALSE)`, that is, the operator pushes again, without `--strict`;
  strong fairness of `PushAccepted(p)`, that is, the remote does not refuse for ever.
  These are what "eventually published" has to rest on: the program has no daemon.
- TuiSession `FairSpec`: weak fairness of `Session`, a loop that polls for 100 ms and
  goes on, and strong fairness of `Tick`, which is due whenever two seconds have
  passed: infinitely often, and no key can put it off for ever. Nothing is assumed of
  the user or of other processes.
- The other modules state safety only.

## 4. Where code and documents disagree

Three of the disagreements have a run of their own; the quotes are in `PROJECT.json`.

1. **Lost update** (`store_lost_update`, `NoLostUpdate`). `doc/spec/SPEC-3.0.md` says
   the compare-and-swap prevents silent lost updates. Command A reads tip 1, B reads
   and writes tip 2, A resolves tip 2 as its parent and swaps against it: B's edit is
   gone, both callers have Ok. In the same way a 2.x event that lands between read and
   write becomes the parent of a snapshot that neither shows nor archives it
   (`store.rs:184`).
2. **Public-only clones** (`clone_public_only`, `NeverImported`). `init.rs` and the
   specification say that `--public-only` clones never import authoritative refs. The
   post-checkout hook initializes a new worktree in the default mode, and refspecs
   belong to the whole repository: the next fetch imports them.
3. **The day of a resolution** (`shortlog_dates`, `DatedByItsMove`). The comment of
   `terminal_state_date` (`shortlog.rs:51`) says that the date is that of the newest
   state commit with the present status, and the tip's only when none is recorded.
   Commands write `state open -> done`; `parse_subject` (`history.rs:74`) wants the tag
   `[git-forum]`, the id, and `open->done` as one word. So no commit of a command is
   ever recognized, the date is always the tip's, and a note, an evidence entry or a
   change of branch brings a thread that was done long ago back into `shortlog --since`.
   MANUAL.md describes the tip ("reads the thread ref tip's commit time"). The run has
   one thread, one node and four commits; TLC needs three.

Read in the code while modelling; no run checks them by themselves, and where a passing
property makes an exception for one, its comment says so.

Store and publishing:

- A document read from the published fallback is committed to `threads/<id>` when the
  authoritative ref is fetched, or the published one removed, before the write
  (`store.rs:168`). The removal may be this clone's own: `lint_pass` withdraws every
  published ref that has no authoritative thread (`publish/orchestrate.rs:183`), and
  `push` deletes it locally (`push.rs:106`), so that on a clone with published threads
  alone a push beside a comment is enough. `NoPromotion` is checked and proved with all
  of these steps allowed; it says that there is no other way, a lookup that git does not
  answer apart.
- Two overlapping pushes of one clone: one deletes the local published ref that the
  other has just pushed, and no later push knows that there is something to withdraw
  (`push.rs:106`). `NothingStranded` is checked with one push after another.
- A `for-each-ref` that fails is an empty list, so every published thread is an orphan
  and is withdrawn, and the push reports success (`git_ops.rs:379`).
- Migrating a thread again resets its visibility and sets `updated_by` to its creator
  (`migrate.rs:825`).

Commands and policy:

- The shorthand verbs never evaluate guards, `accept` included; `state bulk` and
  `verify` do (`state.rs:202`).
- The TUI creates every thread at `draft`; a task has no such status and no transition
  leaves it (`tui/state.rs:695`). `StatusReachable` allows for it.
- Keys of guards with blanks around the arrow are validated and never asked
  (`policy.rs:811`, `policy.rs:956`), nor are guards that name 1.x statuses. Two keys of
  an allow-list that fold to one status leave it to the hash map which is used
  (`operation_check.rs:199`). An invalid `policy.toml` is silently ignored by `new`,
  `say`, `revise` and `evidence` (`thread_new.rs:193`). Required sections are not asked
  of a thread without a body (`operation_check.rs:134`).
- The policy that `init` writes says of `strict = false`, the default, that "violations
  are WARNINGS; use --force to bypass" (`init.rs:49`). Only missing and empty sections are warnings:
  a missing body, a node type, a revision or an evidence entry that the status does not
  admit has severity Error (`operation_check.rs:127`, `:207`, `:283`, `:324`), which
  `evaluate_violations` (`:389`) lets block with and without `--force` and whatever
  `strict` says, and MANUAL.md:823 agrees ("does not bypass errors").
  `ChecksRespected` and `ChecksObeyPolicy` state what the code does: such commands are
  refused under the default policy. A code that followed the sentence would break both;
  `CheckPolicy_WarnOnly` is that code.
- The same file says of node types per status "Empty/missing = no restriction"
  (`init.rs:64`), and two lines below offers `"done" = []` to restrict them. An empty list
  denies every type (`operation_check.rs:205`), as it denies every revision and every
  evidence entry (`:257`, `:304`, the test at `:619`); `ChecksObeyPolicy` holds with the
  empty list included.

References and hooks:

- An allocated token may consist of digits only, which the commit-msg hook does not
  take for an id (`id_alloc.rs:71`). A node prefix may turn into a thread when one with
  that name appears (`shared.rs:125`); `KeepsMeaning` excepts it.
- `init` stops installing hooks at the first that is somebody else's, and stops
  rewriting refspecs at the first remote whose rewrite fails; a refspec that is there
  twice makes the rewrite fail (`init.rs:312`). A forced fetch of `threads/*` overwrites
  unpushed commits (`init.rs:162`).
- Where `policy.toml` is there already, `init` still writes the templates that are
  missing, though its comment says that it skips re-seeding (`commands/init.rs:35`). An
  empty template stays empty: `doctor` goes on failing, and `init` is no remedy.
- `fix-index` removes an entry before it adds it back, so that a failing `git add` loses
  it; it resolves a conflict silently, restores a staged deletion when the blob of
  `HEAD` is gone, and takes every submodule for a missing blob (`hook.rs:185`). `doctor`,
  which is documented as a check, runs it.

History and the TUI:

- Nodes of 1.x approvals lose their old ids in a migration (`migrate.rs:679`), and
  `CutMatters` names what else the moment of a migration changes.
- In select mode the TUI shows the body of the row below the chosen one
  (`render.rs:239`): the first row is the thread, and the pane does not count it.
- INV-3 of `doc/spec/TUI-UX-TESTING.md` says that from any state Esc, a key for every
  error and `y` for the confirmation lead to the list within ten presses; its test has
  nobody else write. Esc in a node view reads the thread again (`input.rs:152`): when
  somebody deleted the thread meanwhile, that raises an error and the view stays, press
  after press. The forms of a node and of a link are left by the same reading. TLC finds
  it with `BackReachesList` over one thread with one node, ten presses, the inputs
  `{"detail", "node", "back"}` and the surroundings `{"delete"}`; `tui_forms` lets
  nothing vanish.
- After a resumed session a click on "back" and the key lead to different views
  (`input.rs:478`). The saved row index is restored over a tree that may have changed
  (`mod.rs:875`).
- When the refresh after a write fails, the form stays open with its text, and a second
  submit writes it again; `LeavesFormAfterWrite` excepts it.
- The rows of the list are recorded before the tips (`mod.rs:843`): a thread that moved
  between the two calls is shown as it was until it moves again. `ListTrue` excepts it. If only the second
  call fails, the rows are newer than the tips; `SessionListTrue` says what comes of it.

## 5. The proofs

TLAPS checks 729 theorems and lemmas in eight modules. They hold for any sets of
threads, processes, commands, node ids, remotes, files and references, for any number of
steps, and for any subset of the disturbances that a theorem's hypotheses do not name;
for ThreadCommands also for any categories, guards, policy, verbs and flags. Of the
constants they assume what the modules state beside them, and TLC evaluates in every run:

| Assumption | Why the code justifies it |
|---|---|
| `FaultsAssumption`, `PublishFaultsAssumption`, `TuiAssumption`, `MaxEditsAssumption` | the names of the disturbances, bounds that are numbers |
| `NoneAssumption` of three modules | `None` is not a value it stands in for |
| `RegistryAssumption`, `GuardsAssumption` | edges and initial statuses are statuses, guards are sets of the four rules that are parsed, for the other rules do not load |
| `RemotesAssumption`, `ModesAssumption`, `BranchesAssumption` | git lists a remote once; a file of a branch is absent, good or bad |
| `ChainAssumption` | 2.x clients create threads of the four kinds; the 3.0 grammar accepts the tag `decision`; `None` is not the name of a field; bounds are numbers |
| `PathsAssumption` | finitely many files and submodules, none of them both |
| `ReferencesAssumption` | ids have one of the shapes that are allocated or were; a question has an argument; `None` and `Ambiguous` are no ids |

Some theorems have a hypothesis. It is what the code rests on, or the point where the
property stops being true:

| Theorem | Hypothesis | Without it |
|---|---|---|
| `PublishNothingStranded`, `PublishSucceedsOnlyWhenDone` | `OnePush`: pushes of one clone do not overlap | section 4, two overlapping pushes |
| `CommandsPairLinks` | `DeprecatedIsFinal`: no edge leads out of `deprecated`, as in every built-in category | a superseded thread may be reopened and superseded again |
| `SessionListTrue` | no git call of the session fails | a listing succeeds and the tips fail (`mod.rs:843`): the rows are newer than the tips. If the session created a thread and somebody deletes it before the next listing, the tips never differ and its row stays |
| `SessionBackReachesList` | no git call of the session fails (the lookup of a tip may); others delete and withdraw no thread, take away no node and downgrade no document; five presses or more are counted | section 4, INV-3: a view on the way that cannot be opened keeps the user where he is, under an error that costs a press |
| `ReferencesKeepMeaning` | `IdsInPractice`: ids as the code makes them; no opaque id begins with a legacy id or has the token that is allocated for a node. `MCReading` assumes it of its ids, so that TLC evaluates it | a second thread whose id begins with the one that was asked for makes the reference ambiguous, and `resolve_thread_id` goes on to the aliases (`thread.rs:555`); a reference typed like a node is asked of the threads first (`shared.rs:125`) |

### What is proved, module by module

**SnapshotStore_proofs** - `StoreTypes`, `StoreOutcomes`, `StoreMigrations`,
`StoreArchives`, `StoreEdits`, `StoreImplementsLog` from `StoreInvariant`. None of
these properties is inductive: that an error means "recorded nowhere" needs that a
command's identity is on no ref before its own `MoveRef`, and that two processes never
run the same command. `IInv` is therefore
`TypeOK /\ IssuedOK /\ OutcomesTrue /\ ProcsOK /\ \A t : HistoryOK(refs[t])`:

- `IssuedOK`: only issued commands are in histories or rejected;
- `ProcsOK`: a running process has an issued command of its own that is recorded
  exactly when `pc = "moved"`, and the document it holds is its edit of a state in
  `Bases` of its thread;
- `HistoryOK`: every commit fits on the part of the history below it. A history only
  grows at its end, so this survives every append; the new commit is fit because the
  swap compares with the very parent its tree was built from.

The refinement follows: `MoveRef`, `LegacyWrite` and `FetchThread` map to `Record`,
`ReturnOk` to `Acknowledge`, the error returns to `Reject`, all else to stuttering.

`StoreNoPromotion` has no hypothesis; every fetch, push, withdrawal and failing lookup is
allowed. `ApartInv` adds `KeepsApart(p)` to it: a process that holds a sanitized document
either works on a thread of which this clone has the projection and nothing else
(`Vacant`) and has not come further than the second look for a published ref, or it is
`Doubtful`: its command is exposed, or a sanitized commit of an exposed one is on its
thread already (`Tainted`), from which it may have read. A process that is about to
create a ref with an unsanitized document (`Creating`) is `Alone` on an id that nobody
else has and nobody published. Vacancy ends by a fetch or by the removal of the published
ref, and both expose whoever holds a projection at that moment.

**Publish_proofs** - `PublishTypes`, `PublishPrivacy` from `PublishInvariant`. `IInv`
adds to `OnlyPublicShown` that every tree in a plan may be shown (`PlansShowable`) and
that every thread in a partition was public in some version (`PublicKnown`). Versions
are only appended, so what was showable stays showable; that is the whole reason why
edits during a push are harmless. The theorem covers any number of overlapping pushes.

`PublishNothingStranded` needs `AnchorInv`: whatever the remote shows has its local
published ref (`Anchored`), and when the local refs of withdrawals are deleted the remote
has withdrawn them (`WithdrawnFirst`) - the order of `push.rs`. `PublishSucceedsOnlyWhenDone`
needs `Undisturbed`, which follows one push through its phases: the sets of `lint_pass`
are those of the present threads as far as they were read (`LintedSoFar`), then the plan
covers every difference between the published refs and the projection (`PlanComplete`),
then the remote shows the projection (`RemoteDone`). It says nothing of a push during
which something else happened.

**ThreadCommands_proofs** - `CommandsTypes`, `CommandsStatuses` from
`CommandsInvariant`. `StatusReachable` alone is not inductive because a write installs
a document that was read in an earlier state. `JobsFine` says of every running command
that the document it holds has a status reachable in its own flavor's graph, and, per
stage, that its arguments are what that stage needs. Reachability is defined by closed
sets, not by recursion; the lemmas `Paths*` derive reflexivity, steps and transitivity.

`CommandsAlone` is the invariant of what a command knows while nobody else has written
its thread since it first read it (`alone`): a checked command still passes its check on
the document at the ref, and what a bulk move is about to write satisfies the guards of
its move. `CommandsBulkGuarded` and `CommandsChecked` follow. The hard lemma is
`MovedSatisfies`: guards are evaluated on a projection (open actions resolved, approval
added), and must hold of the document that is written.

`CommandsPairLinks` has an invariant of its own, `LinksFine`, which holds as long as no
write replaced a document that its command had not read (`clobbered`): links name existing
threads, every pair is complete or a command stands between its two writes
(`Interrupted`), each running command adds to what it read the one link that its half
calls for (`Carries`), and the first half has left its mark (`HalfDone`).

**TuiSession_proofs** - `SessionInv` relates the plan of calls that is left, the view,
the form and the frame: while a form is open a handler is about to write, or on its way
out with nothing left to lose (`HandlerInv`); nothing but what the confirmation looks at
can have been typed (`TextInv`); the highlight of the last frame is the selection, or
gone (`LitInv`). From it `SessionLeavesForm`, `SessionEntersDrawnNode`,
`SessionLinksDrawnTarget`, `SessionDiscardsNothing`, with any failing calls.

`SessionListTrue` needs to follow a refresh call by call, because rows, tips and the
cache are read at different moments and replaced at others. `ListInv` has one disjunct
per call of the three kinds of refresh (rows first, for the r key, for a tick) with what
the calls so far have established. Its atom is `Fits(t, row, c)`: the row is what a
listing shows of a thread whose tip is c. `Fits` survives what others do since a commit
becomes the tip of a ref once only (`Past`, `Dead`, `Moves`), which is what makes tips comparable
at all. `CacheInv` says that an entry of the cache is what would be read.

`SessionBackReachesList` rests on an order of the views: `Level` is how many presses of
back a view is away from the list (an editor is above its form, a form of a link above the
view it was opened from), and `Presses` adds the bar and the error; a confirmation saves
the press that raised it. `WayInv` says that the presses already counted and those still
needed are at most `Farthest` (5) together, `Nearer`. A press may be answered by a handler that
has yet to read what it returns to, and others write between its calls. Until it has, the
press counts for the view that is `OnTheWay`. That this view will open is the rest of the
invariant: it was opened before or is the origin of what is open (`Stands`), a thread
once there has a document and its nodes in every later one (`Kept`), every ref
and row names a commit of its thread (`RefNamesInv`, `ListNamesInv`), and handlers call for
threads only (`PlanFrom`). Rows are sorted by place, `Sorted`, which the provers can see
through; `PlacesTaken` shows that in a finite order each place has one member.

**Surroundings_proofs** - Of PolicyFile, `PolicyMoves`, `PolicyChecks`, `PolicyForetold` from
`PolicyInvariant`, for any policy files. A command asks the file that is in force when it
runs; an edit of the file forgets the last command, and a report of `verify` is kept
while it speaks of this document under this file (`ReportCurrent`). What remains are the
look-ups: that folding of statuses is idempotent, that a definition that loads has its
targets among its statuses, that a path ends in one.

Of Clones, `CloneImportsOnlyByHook` and `CloneDoctorContent` from
`CloneInvariant`, for any remotes, worktrees, branches and faults. `PublicOnly`: after a
public `init` without a warning, and without a hook since, no known remote has an
authoritative refspec. An `init` gets there since without a warning every write it found
to make was made (lemmas `WritesAre` and `Ensure*`); a remote added later has no
forum refspec.

**References_proofs** - `LookupsDoNotGuess`, for any ids, questions and refs. `LookInv`
says phase by phase what a lookup has seen of the refs that stayed as they were since it
began: `ListsAuth` (the first listing has them), `BestThread` (the thread that is chosen
outranks all others that stayed), `NodesMeant` (a node that is found is the only one with
its prefix, or named in full), `WholeIdFound`, `MissingGone`.

`ReferencesKeepMeaning`, for ids as the code makes them. `MeaningInv` remembers of both
lookups by which way their answer came about (`Told`), that they were asked the same, and
that refs carry ids in use only. The rest is about ids: a reference that begins one id as
typed and another up to case begins both as typed (`BeginsAlike`), the only id that a
reference means in any way is the answer (`OnlyMeantFound`), and a dashed alias begins no
id but itself (`AliasBeginsItself`). `ListKeepsThread`, `AliasKeepsThread` and
`NodeKeepsMeaning` are the three ways to a second answer that differs: from the listing,
from an alias, and a thread where a node was meant.

**Reading_proofs** - `ChainKeepsLifecycle`, `ChainLosesNothing` and `ChainCutoverAgrees`
from `ChainKeepsInv`,
`HistoryReachesTip`, `RepairCarried`.

What replay, diff and the rows of a node make of a chain are folds over it, so all but
the last need induction over data. The library's induction theorems cannot be
instantiated here, but **Recursion** gets along without them: `LeastNumber` (every set of
numbers has a least) follows from the well-foundedness of `<`, `SetInduction` from that,
and `UnfoldingExists` says that what `Folds` defines by CHOOSE exists. The module has the
step of the fold as its constant `Op`; one instance per fold then gives a lemma (`CheckedRuns`,
`CollectedRuns`, `AppliedRuns`, `RevisedRuns`) by which the fold is a run, a sequence of
values of which each is the step from the one before.

`ChainInv` says that events are known by their place and that each say makes a node of
its own. Along the run of replay two more invariants hold. `InStep`: the lifecycle that
transitions are checked against, the category and, until an event touches it, the tag of a
record go together. `TrueTo`: unless something other than a transition was reported, the
status is what the last of the first k events says, each node has the status that the last of
them left it at, and no event named a node that was not there. `Faithful` is the step of
`TrueTo` for one event, proved per event type; `EventLifecycle` that of `InStep`. The
self-healing rule only takes transitions out of the report, which is why `Quiet` may
ignore them; and a status that is outside its category is itself in the report.

`ChainCutoverAgrees` compares two replays: of the events alone, and of the chain with a
migration after its n-th event. `Agree` is their relation after each later event. The
second may have what migration makes of a value where the first has the value: another
status where that of the first is outside its category (`MigratedStatus`), the tag of the
original kind, no tags that the grammar refuses, and the nodes of approvals under their
new ids (`NodesAgree`: under `TreeSafe` the nodes are the same). `StartAgrees`: migration
puts the two in this relation, for replay has made only nodes of events up to n
(`ReplayBelow`). `StepAgrees`: an event keeps it unless it is one of those in `CutMatters`; the
event finds a node in both replays or in neither (`PlainAgree`), and the approvals it adds are
newer than those that the migration renamed (`AddAgrees`). Transitions need not agree,
since an illegal one is reported and made. `AgreedDocs`: what the relation leaves open, the
migration at the end makes equal. `CutFacts` is about the chain itself: its last snapshot
is at n + 1, and the tail above it holds the later events.

`RepairCarried` holds for any files, submodules and blobs.
`GoneIsKnown`: an entry whose blob is gone is still in what pass 1 has to look at, or was
warned of; `StaysStaged`: what was staged leaves the index only to be added back. Sets
are listed by `SetToSeq` in any order; `SetToSeqFacts` derives what is needed from
finiteness.

### Model-checked only

- Liveness (`Converges`, `DetailCatchesUp`): fairness is out of the
  prover's reach.
- `PaneTrue` is about recursive operators.
- `AnswersTrue`: what git would list is defined by descent into trees of any depth, and
  equating it with the reader's stack of open trees is again an induction over data.

## 6. Not modelled

- TOML, JSON and git object encoding, timestamps other than their order, commit
  identities and messages other than the subjects that history reads back: data that no
  property tells apart.
- The scanners that find references in free text. Publish takes text to name the
  threads that the links name, so that `--strict` has something to stop on. Text and
  the `supersedes` field of `thread.toml` are published as authored; `OnlyPublicShown`
  is about versions and structured references.
- The hash that ids are made of: an allocated id is any unused one.
- `policy show`, `brief`, `status`, the sections of `show`, help, the command line: they
  write nothing and render what other modules read.
- Colours, layout, scrolling, markdown and the editing of text inside a field of the
  TUI. Its test fixtures (`tui/ux_*.rs`).
- The texts that `init` writes, `local.toml`, a file system that fails under it, and the
  push refspec of `--auto-push`.
- Several clones pushing to one remote: Publish has one clone with several pushers and
  Clones one clone with changing remotes.
- Commands of several parts at once: MCSurroundings and MCReading let one part act.

## 7. Plan

Done, in this order: ThreadLog and SnapshotStore with their proofs; Publish with its
proofs; Categories and ThreadCommands with their proofs; TuiSession; LegacyChain and
BatchReader; References, PolicyFile and Clones; History, NodeTree and IndexRepair. The
order was chosen by damage: lost or invented writes first, then content shown that
should not be, then statuses and checks, then what is read and shown. Then proofs: the
store's promotion, the two theorems about a single push, guards, checks and links of
overlapping commands, policy, clones, lookups, the index, the session of the TUI,
history, and chains of events.

Next, modelling:

1. Two clones of one remote with different authoritative threads, both pushing.
2. A reference model of the text scanners over short token sequences.
