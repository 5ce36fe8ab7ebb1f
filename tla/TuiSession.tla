----------------------------- MODULE TuiSession -----------------------------
(***************************************************************************)
(* One session of `git forum tui` (tui/mod.rs, input.rs, state.rs,         *)
(* persist.rs, snapshot/list.rs).  The session is a sequential loop: draw a *)
(* frame, perhaps refresh from git, handle one event.  It shares the refs  *)
(* with everybody else, so what it holds in memory (rows, tips, the open   *)
(* document) can be old, and every git call of a handler is a step of its  *)
(* own between which other processes write.                                *)
(*                                                                         *)
(* A document is the index of its commit in `commits`: the index stands    *)
(* for the commit's SHA, and for the time of the update when rows are      *)
(* sorted.  A write of the session (read_snapshot, edit, write_snapshot)   *)
(* is one step; SnapshotStore has its parts.  Folding of the node tree is  *)
(* in NodeTree.                                                            *)
(***************************************************************************)
EXTENDS Naturals, Sequences, FiniteSets, SequencesExt

CONSTANTS
    NThreads,      \* thread ids are 1 .. NThreads, in the order of their names
    NNodes,        \* bound on the nodes of a thread; ids are 1 .. NNodes, in table order
    MaxCommits,    \* bound on the commits written, by anybody
    MaxBacks,      \* bound on the presses of "back" that are counted
    Inputs,        \* which groups of keys the user presses
    Surroundings,  \* which other processes write
    Faults         \* which git calls fail

AllInputs == {"list", "sort", "filter", "detail", "node", "select", "create",
              "say", "link", "edit", "mouse", "back", "quit"}
AllSurroundings == {"edit", "new", "delete", "diverge", "legacy", "publish", "withdraw"}
AllFaults == {"git", "lookup"}

ASSUME TuiAssumption ==
    /\ NThreads \in Nat \ {0} /\ NNodes \in Nat /\ MaxCommits \in Nat /\ MaxBacks \in Nat
    /\ Inputs \subseteq AllInputs
    /\ Surroundings \subseteq AllSurroundings
    /\ Faults \subseteq AllFaults

Threads == 1 .. NThreads
Nodes == 1 .. NNodes
Statuses == {"open", "done"}
NodeMarks == {"open", "resolved", "retracted"}
Texts == {"title", "tags", "body", "manual"}
Forms == {"createThread", "editThreadBody", "createNode", "editNodeBody", "createLink"}

VARIABLES
    commits,   \* every commit: [t, status, nodes, links, event]
    auth,      \* refs/forum/threads/<t>: a commit, 0 when there is no such ref
    pub,       \* refs/forum/published/<t>
    app,       \* the fields of App that outlive one event
    form,      \* the form that is open, or was open last
    loop,      \* where run / run_app is
    todo,      \* the git calls that the current handler still has to make
    work,      \* what the current handler has read so far
    frame,     \* what the last draw put on the screen, until an event is handled
    saved,     \* tui-state.toml
    slipped,   \* history: threads whose rows and tips come from different moments
    backs,     \* history: consecutive presses of "back"
    written    \* history: whether the text of the form is in a commit

repo == <<commits, auth, pub>>
vars == <<commits, auth, pub, app, form, loop, todo, work, frame, saved, slipped, backs, written>>

-----------------------------------------------------------------------------
(* Documents and rows *)

NoNodes == [n \in Nodes |-> "none"]
Document(t, status, nodes, links) ==
    [t |-> t, status |-> status, nodes |-> nodes, links |-> links, event |-> FALSE]

\* read_snapshot_at: a 2.x event commit is not a snapshot.
Readable(c) == c \in DOMAIN commits /\ ~commits[c].event

\* read_snapshot: the authoritative ref when there is one, else the published one.
Source(t) == IF auth[t] # 0 THEN auth[t] ELSE pub[t]

\* The members of S as sort_by puts them, by their places: no two have the
\* same key, so each place is taken by one member.
Sorted(S, key) ==
    [i \in 1 .. Cardinality(S) |->
        CHOOSE x \in S : Cardinality({y \in S : key[y] < key[x]}) = i - 1]

\* Node tables and lists of candidates are in the order of the ids.
Ascending(S) == Sorted(S, [n \in S |-> n])

NodesOf(c) ==
    IF c = 0 THEN <<>> ELSE Ascending({n \in Nodes : commits[c].nodes[n] # "none"})

NoRow == [c |-> 0, published |-> FALSE]
NoEntry == [tip |-> 0, published |-> FALSE, c |-> 0]

\* Mutant of RowAt: the cache is keyed by the thread alone.
RowAt_AnyTip(cache, t, tip, published) ==
    IF cache[t].c # 0 /\ cache[t].published = published THEN cache[t].c
    ELSE IF Readable(tip) THEN tip ELSE 0

\* row_at: the row of a thread whose ref is at `tip`, from the cache when that
\* was read at the same tip and in the same namespace.  0: the thread is skipped.
RowAt(cache, t, tip, published) ==
    IF cache[t].tip = tip /\ cache[t].published = published THEN cache[t].c
    ELSE IF Readable(tip) THEN tip ELSE 0

\* list_threads_reusing: an authoritative snapshot wins, a thread whose
\* authoritative ref cannot be read as a snapshot is looked up as published.
CacheAfter(cache, au, pu) ==
    [t \in Threads |->
        LET own == IF au[t] = 0 THEN 0 ELSE RowAt(cache, t, au[t], FALSE)
            other == IF pu[t] = 0 THEN 0 ELSE RowAt(cache, t, pu[t], TRUE)
        IN  IF own # 0 THEN [tip |-> au[t], published |-> FALSE, c |-> own]
            ELSE IF other # 0 THEN [tip |-> pu[t], published |-> TRUE, c |-> other]
            ELSE NoEntry]

RowsOf(cache) == [t \in Threads |-> [c |-> cache[t].c, published |-> cache[t].published]]

\* What list_threads, without a cache, would return now.
Listing == RowsOf(CacheAfter([t \in Threads |-> NoEntry], auth, pub))

\* thread_tip_shas, from two listings.
TipsOf(au, pu) == [t \in Threads |-> IF au[t] # 0 THEN au[t] ELSE pu[t]]

\* visible_threads: filter, then sort.
Visible(a) ==
    LET shown == {t \in Threads : /\ a.rows[t].c # 0
                                  /\ a.filter = {} \/ commits[a.rows[t].c].status \in a.filter}
        key(t) == IF a.sort.by = "id" THEN t ELSE a.rows[t].c
    IN  Sorted(shown, [t \in shown |-> IF a.sort.asc THEN key(t) ELSE 0 - key(t)])

\* A selection is a row number from 1, 0 when nothing is selected.
FirstRow(a) == IF Visible(a) = <<>> THEN 0 ELSE 1
Clamped(a) ==
    LET n == Len(Visible(a)) IN
    IF n = 0 THEN 0 ELSE IF a.sel = 0 THEN 1 ELSE IF a.sel > n THEN n ELSE a.sel

\* selected_thread_id, 0 for None.
SelectedThread(a) == IF a.sel \in 1 .. Len(Visible(a)) THEN Visible(a)[a.sel] ELSE 0

\* selected_node_id: row 0 of the node table is the thread itself.
SelectedNode(a) ==
    IF a.nodeSel \in 1 .. Len(NodesOf(a.shown)) THEN NodesOf(a.shown)[a.nodeSel] ELSE 0

\* select_node_by_id: the row of the node, or the thread's row.
RowOfNode(c, n) ==
    LET rows == {i \in 1 .. Len(NodesOf(c)) : NodesOf(c)[i] = n} IN
    IF rows = {} THEN 0 ELSE CHOOSE i \in rows : TRUE

\* auto_link_candidates: the other rows, in the order they were listed.
Candidates(a, t) == Ascending({u \in Threads : a.rows[u].c # 0 /\ u # t})

\* selected_link_target; a target typed by hand is any id, shown here as 0.
LinkTarget(a, f, t) ==
    IF f.manual THEN 0
    ELSE IF f.target \in 1 .. Len(Candidates(a, t)) THEN Candidates(a, t)[f.target] ELSE 0

-----------------------------------------------------------------------------
(* Views, forms, steps *)

At(at, t, n) == [at |-> at, t |-> t, n |-> n, from |-> "none"]
ListView == At("list", 0, 0)

EmptyForm == [field |-> 1, text |-> {}, badTags |-> FALSE, manual |-> FALSE, target |-> 1]

\* The fields of a form in the order Tab visits them.
Fields(at) ==
    CASE at \in {"createThread", "editThreadBody"} -> <<"lifecycle", "tags", "title", "body", "submit">>
      [] at \in {"createNode", "editNodeBody"}     -> <<"type", "body", "submit">>
      [] at = "createLink"                         -> <<"relation", "kind", "manual", "submit">>
      [] OTHER                                     -> <<>>
Focus == Fields(app.view.at)[form.field]
FieldNo(at, name) == CHOOSE i \in 1 .. Len(Fields(at)) : Fields(at)[i] = name

\* Mutant of HasUnsaved: the tags are forgotten.
HasUnsaved_NoTags ==
    \/ app.view.at = "createThread" /\ form.text \ {"tags"} # {}
    \/ app.view.at = "createNode"   /\ "body" \in form.text
    \/ app.view.at = "createLink"   /\ "manual" \in form.text

\* has_unsaved_form_input looks at the form that is open; the editors of a body
\* lead back to their form.
HasUnsaved ==
    \/ app.view.at = "createThread" /\ form.text # {}
    \/ app.view.at = "createNode"   /\ "body" \in form.text
    \/ app.view.at = "createLink"   /\ "manual" \in form.text

NewApp(rows) ==
    [view |-> ListView, rows |-> rows, cache |-> [t \in Threads |-> NoEntry],
     tips |-> [t \in Threads |-> 0], sel |-> 0, filter |-> {},
     bar |-> FALSE, draft |-> {}, sort |-> [by |-> "updated", asc |-> FALSE], tip |-> 0, shown |-> 0, nodeSel |-> 0,
     pane |-> 0, select |-> FALSE, confirm |-> FALSE, error |-> FALSE]

Step(do, t, n) == [do |-> do, t |-> t, n |-> n]
GitSteps == {"listAuth", "listPub", "tipsAuth", "tipsPub", "openTip", "openRead", "openNode",
             "create", "say", "link", "revise", "resolve", "reopen", "retract"}

ReadList == <<Step("listAuth", 0, 0), Step("listPub", 0, 0)>>
ReadTips == <<Step("tipsAuth", 0, 0), Step("tipsPub", 0, 0)>>
OpenThread(t, n) == <<Step("openTip", t, n), Step("openRead", t, n)>>
OpenNode(t, n) == <<Step("openNode", t, n)>>

\* refresh_thread_list: the rows are replaced at once, the tips read afterwards.
RefreshList == ReadList \o <<Step("keepRows", 0, 0)>> \o ReadTips \o <<Step("keepTips", 0, 0)>>

NoWork == [auth |-> [t \in Threads |-> 0], rows |-> [t \in Threads |-> NoRow],
           listed |-> [t \in Threads |-> 0], tips |-> [t \in Threads |-> 0],
           own |-> {}, tip |-> 0]
NoFrame == [rows |-> <<>>, lit |-> 0, pane |-> 0]
NothingSaved == [view |-> ListView, sel |-> 0, nodeSel |-> 0, filter |-> {},
                 sort |-> [by |-> "updated", asc |-> FALSE]]

Init ==
    /\ \E live \in {1, NThreads}, nodes \in {NoNodes, [n \in Nodes |-> IF n = 1 THEN "open" ELSE "none"]} :
         /\ commits = [t \in 1 .. live |-> Document(t, "open", nodes, {})]
         /\ auth = [t \in Threads |-> IF t <= live THEN t ELSE 0]
    /\ pub = [t \in Threads |-> 0]
    /\ app = NewApp([t \in Threads |-> NoRow])
    /\ form = EmptyForm
    /\ loop = "off" /\ todo = <<>> /\ work = NoWork /\ frame = NoFrame
    /\ saved = NothingSaved
    /\ slipped = {} /\ backs = 0 /\ written = "no"

-----------------------------------------------------------------------------
(* The loop *)

AfterHandler ==
    CASE loop \in {"start", "restore", "event"} -> "draw"
      [] loop = "ticking" -> "poll"

\* What is left of a handler; when nothing is, the loop goes on.
Continue(rest) ==
    /\ todo' = rest
    /\ loop' = IF rest = <<>> THEN AfterHandler ELSE loop

\* run: list, then record tips; then the saved state, or the thread of the command line.
Run(t) ==
    /\ loop = "off"
    /\ t # 0 => "detail" \in Inputs
    /\ app' = NewApp([u \in Threads |-> NoRow])
    /\ form' = EmptyForm
    /\ slipped' = {} /\ backs' = 0 /\ written' = "no"
    /\ loop' = "start"
    /\ todo' = ReadList \o <<Step("keepRows", 0, 0)>> \o ReadTips
               \o <<Step("keepTips", 0, 0), Step("restore", t, 0)>>
    /\ UNCHANGED <<repo, work, frame, saved>>

\* apply_to_app, then the view to go back to.
Restore ==
    /\ todo # <<>> /\ Head(todo).do = "restore"
    /\ LET shown == [app EXCEPT !.sort = saved.sort, !.filter = saved.filter,
                                !.sel = IF \A t \in Threads : app.rows[t].c = 0 THEN 0 ELSE 1]
           a == IF saved.sel # 0 /\ Visible(shown) # <<>>
                THEN [shown EXCEPT !.sel = Clamped([shown EXCEPT !.sel = saved.sel])] ELSE shown
           t == Head(todo).t
           listed == saved.view.t # 0 /\ app.rows[saved.view.t].c # 0
           back == CASE t # 0 -> OpenThread(t, 0)
                     [] t = 0 /\ listed /\ saved.view.at = "thread" ->
                          OpenThread(saved.view.t, 0) \o <<Step("restoreNode", 0, 0)>>
                     [] t = 0 /\ listed /\ saved.view.at = "node" ->
                          OpenNode(saved.view.t, saved.view.n)
                     [] OTHER -> <<>>
       IN  /\ app' = a
           /\ todo' = back
           /\ loop' = IF back = <<>> THEN "draw" ELSE IF t # 0 THEN "start" ELSE "restore"
           /\ work' = NoWork
    /\ UNCHANGED <<repo, form, frame, saved, slipped, backs, written>>

RestoreNode ==
    /\ todo # <<>> /\ Head(todo).do = "restoreNode"
    /\ app' = [app EXCEPT !.nodeSel =
                 IF saved.nodeSel > Len(NodesOf(app.shown)) THEN Len(NodesOf(app.shown))
                 ELSE saved.nodeSel]
    /\ Continue(Tail(todo))
    /\ UNCHANGED <<repo, form, work, frame, saved, slipped, backs, written>>

\* render_thread_detail puts the selected node, or the thread, in the main pane.
MainPane(a) == SelectedNode(a)

\* render_select_mode indexes the visible nodes with the row number of the
\* table, whose row 0 is the thread.
SelectPane(a) ==
    IF a.nodeSel + 1 \in 1 .. Len(NodesOf(a.shown)) THEN NodesOf(a.shown)[a.nodeSel + 1] ELSE 0

Frame ==
    CASE app.view.at = "list" ->
           [rows |-> Visible(app), lit |-> SelectedThread(app), pane |-> 0]
      [] app.view.at = "thread" ->
           [rows |-> NodesOf(app.shown), lit |-> SelectedNode(app),
            pane |-> IF app.select THEN SelectPane(app) ELSE MainPane(app)]
      [] app.view.at = "createLink" ->
           [rows |-> Candidates(app, app.view.t), lit |-> LinkTarget(app, form, app.view.t), pane |-> 0]
      [] OTHER -> [rows |-> <<>>, lit |-> app.view.n, pane |-> 0]

Draw ==
    /\ loop = "draw"
    /\ loop' = "tick"
    /\ frame' = Frame
    /\ UNCHANGED <<repo, app, form, todo, work, saved, slipped, backs, written>>

\* Less than AUTO_REFRESH_INTERVAL_MS since the last refresh.
TickNotDue ==
    /\ loop = "tick"
    /\ loop' = "poll"
    /\ UNCHANGED <<repo, app, form, todo, work, frame, saved, slipped, backs, written>>

\* auto_refresh.  The two detail views compare the tip they recorded with the
\* ref; a tip that does not resolve changes nothing.
Moved(t) == auth[t] # 0 /\ auth[t] # app.tip

TickThread ==
    /\ loop = "tick" /\ app.view.at = "thread"
    /\ \/ /\ Moved(app.view.t)
          /\ todo' = OpenThread(app.view.t, SelectedNode(app))
          /\ loop' = "ticking"
       \/ /\ ~Moved(app.view.t) \/ "lookup" \in Faults
          /\ loop' = "poll"
          /\ UNCHANGED todo
    /\ UNCHANGED <<repo, app, form, work, frame, saved, slipped, backs, written>>

\* The tip is recorded before the node is read again.
TickNode ==
    /\ loop = "tick" /\ app.view.at = "node"
    /\ \/ /\ Moved(app.view.t)
          /\ app' = [app EXCEPT !.tip = auth[app.view.t]]
          /\ todo' = OpenNode(app.view.t, app.view.n)
          /\ loop' = "ticking"
       \/ /\ ~Moved(app.view.t) \/ "lookup" \in Faults
          /\ loop' = "poll"
          /\ UNCHANGED <<app, todo>>
    /\ UNCHANGED <<repo, form, work, frame, saved, slipped, backs, written>>

TickList ==
    /\ loop = "tick" /\ app.view.at = "list"
    /\ todo' = ReadTips \o <<Step("unlessSame", 0, 0)>> \o ReadList \o <<Step("showList", 0, 0)>>
    /\ loop' = "ticking"
    /\ UNCHANGED <<repo, app, form, work, frame, saved, slipped, backs, written>>

TickForm ==
    /\ loop = "tick" /\ app.view.at \in Forms
    /\ loop' = "poll"
    /\ UNCHANGED <<repo, app, form, todo, work, frame, saved, slipped, backs, written>>

Tick == TickThread \/ TickNode \/ TickList \/ TickForm

NothingTyped ==
    /\ loop = "poll"
    /\ loop' = "draw" /\ frame' = NoFrame
    /\ UNCHANGED <<repo, app, form, todo, work, saved, slipped, backs, written>>

-----------------------------------------------------------------------------
(* The git calls of a handler *)

Doing(do) == todo # <<>> /\ Head(todo).do = do

\* An error ends `run` while it starts and run_app in a tick; a saved view that
\* does not open is left alone; dispatch_event turns an error into a flash.
Fail ==
    /\ todo' = <<>> /\ work' = NoWork
    /\ loop' = CASE loop \in {"start", "ticking"} -> "off"
                 [] loop \in {"restore", "event"} -> "draw"
    /\ app' = [app EXCEPT !.error = (loop = "event")]
    /\ written' = IF written = "yes" THEN "stuck" ELSE written

Keep(a, w, rest) ==
    /\ app' = a
    /\ work' = IF rest = <<>> THEN NoWork ELSE w
    /\ Continue(rest)
    /\ UNCHANGED written

\* list_refs_with_shas of refs/forum/threads/, for a listing or for tips.
ListAuth ==
    /\ Doing("listAuth") \/ Doing("tipsAuth")
    /\ Keep(app, [work EXCEPT !.auth = auth], Tail(todo))
    /\ UNCHANGED <<repo, form, frame, saved, slipped, backs>>

\* ... of refs/forum/published/, after which the changed threads are read.
ListPub ==
    /\ Doing("listPub")
    /\ LET cache == CacheAfter(app.cache, work.auth, pub) IN
       Keep([app EXCEPT !.cache = cache],
            [work EXCEPT !.rows = RowsOf(cache), !.listed = TipsOf(work.auth, pub)], Tail(todo))
    /\ UNCHANGED <<repo, form, frame, saved, slipped, backs>>

TipsPub ==
    /\ Doing("tipsPub")
    /\ Keep(app, [work EXCEPT !.tips = TipsOf(work.auth, pub),
                              !.own = {t \in Threads : work.auth[t] # 0}], Tail(todo))
    /\ UNCHANGED <<repo, form, frame, saved, slipped, backs>>

KeepRows ==
    /\ Doing("keepRows")
    /\ Keep([app EXCEPT !.rows = work.rows], work, Tail(todo))
    /\ UNCHANGED <<repo, form, frame, saved, slipped, backs>>

Slips == {t \in Threads : work.listed[t] # work.tips[t]}

KeepTips ==
    /\ Doing("keepTips")
    /\ Keep([app EXCEPT !.tips = work.tips], work, Tail(todo))
    /\ slipped' = Slips
    /\ UNCHANGED <<repo, form, frame, saved, backs>>

\* auto_refresh of the list: nothing to do when the tips are those recorded.
UnlessSame ==
    /\ Doing("unlessSame")
    /\ Keep(app, work, IF work.tips = app.tips THEN <<>> ELSE Tail(todo))
    /\ UNCHANGED <<repo, form, frame, saved, slipped, backs>>

\* The r key, and a tick, keep the number of the selected row.  What slips in
\* a tick is found by the next one, as an authoritative tip does not come back.
ShowList ==
    /\ Doing("showList")
    /\ LET a == [app EXCEPT !.rows = work.rows, !.tips = work.tips] IN
       Keep([a EXCEPT !.sel = Clamped(a)], work, Tail(todo))
    /\ slipped' = IF loop = "ticking" THEN Slips \ work.own ELSE Slips
    /\ UNCHANGED <<repo, form, frame, saved, backs>>

\* submit_create_thread selects the new thread when the filter shows it.
SelectNew ==
    /\ Doing("selectNew")
    /\ LET t == Head(todo).t
           rows == Visible(app)
       IN  Keep([app EXCEPT !.sel = IF t \in Range(rows)
                                    THEN CHOOSE i \in 1 .. Len(rows) : rows[i] = t ELSE @],
                work, Tail(todo))
    /\ UNCHANGED <<repo, form, frame, saved, slipped, backs>>

\* open_thread_detail resolves the tip it will compare with later, ...
OpenTip ==
    /\ Doing("openTip")
    /\ \E tip \in {auth[Head(todo).t]} \cup (IF "lookup" \in Faults THEN {0} ELSE {}) :
         Keep(app, [work EXCEPT !.tip = tip], Tail(todo))
    /\ UNCHANGED <<repo, form, frame, saved, slipped, backs>>

\* Mutants of OpenRead: a refresh keeps the row, not the node; a document
\* that is on the screen is not read again.
OpenRead_ByRow ==
    /\ Doing("openRead")
    /\ LET t == Head(todo).t
           c == Source(t)
           last == Len(NodesOf(c))
       IN  IF Readable(c)
           THEN Keep([app EXCEPT !.view = At("thread", t, 0), !.shown = c, !.pane = 0,
                                 !.nodeSel = IF @ > last THEN last ELSE @, !.tip = work.tip],
                     work, Tail(todo))
           ELSE Fail
    /\ UNCHANGED <<repo, form, frame, saved, slipped, backs>>

OpenRead_Once ==
    /\ Doing("openRead")
    /\ LET t == Head(todo).t
           c == IF app.shown # 0 THEN app.shown ELSE Source(t)
       IN  IF Readable(c)
           THEN Keep([app EXCEPT !.view = At("thread", t, 0), !.shown = c, !.pane = 0,
                                 !.nodeSel = RowOfNode(c, Head(todo).n), !.tip = work.tip],
                     work, Tail(todo))
           ELSE Fail
    /\ UNCHANGED <<repo, form, frame, saved, slipped, backs>>

\* ... and reads the document with a lookup of its own.
OpenRead ==
    /\ Doing("openRead")
    /\ LET t == Head(todo).t
           c == Source(t)
       IN  IF Readable(c)
           THEN Keep([app EXCEPT !.view = At("thread", t, 0), !.shown = c, !.pane = 0,
                                 !.nodeSel = RowOfNode(c, Head(todo).n), !.tip = work.tip],
                     work, Tail(todo))
           ELSE Fail
    /\ UNCHANGED <<repo, form, frame, saved, slipped, backs>>

\* open_node_detail
OpenTheNode ==
    /\ Doing("openNode")
    /\ LET t == Head(todo).t
           n == Head(todo).n
           c == Source(t)
       IN  IF Readable(c) /\ n \in Range(NodesOf(c))
           THEN Keep([app EXCEPT !.view = At("node", t, n), !.pane = c], work, Tail(todo))
           ELSE Fail
    /\ UNCHANGED <<repo, form, frame, saved, slipped, backs>>

GitFails ==
    /\ "git" \in Faults
    /\ todo # <<>> /\ Head(todo).do \in GitSteps \ {"openTip"}
    /\ Fail
    /\ UNCHANGED <<repo, form, frame, saved, slipped, backs>>

-----------------------------------------------------------------------------
(* Writes of the session: a document is read, edited and written back *)

Install(t, d) ==
    /\ Len(commits) < MaxCommits
    /\ commits' = Append(commits, d)
    /\ auth' = [auth EXCEPT ![t] = Len(commits) + 1]
    /\ UNCHANGED pub

\* snapshot_create_thread, then the list and the new thread.
CreateThread ==
    /\ Doing("create")
    /\ LET t == Head(todo).t IN
       /\ Install(t, Document(t, "open", NoNodes, {}))
       /\ todo' = RefreshList \o <<Step("selectNew", t, 0)>> \o OpenThread(t, 0)
    /\ written' = "yes"
    /\ UNCHANGED <<app, form, loop, work, frame, saved, slipped, backs>>

\* A thread that is only published, or whose tip is an event, is not written.
Writable(t) == auth[t] # 0 /\ Readable(auth[t])
Refused ==
    /\ todo # <<>>
    /\ Head(todo).do \in {"say", "link", "revise"} /\ ~Writable(Head(todo).t)
    /\ Fail
    /\ UNCHANGED <<repo, form, frame, saved, slipped, backs>>

\* snapshot_append_node; the new node may come anywhere in the table.
Unused(c) == {n \in Nodes : c = 0 \/ commits[c].nodes[n] = "none"}

\* Mutant of Say: the form stays open after the write.
Say_StaysInForm ==
    /\ Doing("say") /\ Writable(Head(todo).t)
    /\ LET t == Head(todo).t IN
       \E n \in Unused(auth[t]) :
           /\ Install(t, [commits[auth[t]] EXCEPT !.nodes[n] = "open"])
           /\ todo' = RefreshList
    /\ written' = "yes"
    /\ UNCHANGED <<app, form, loop, work, frame, saved, slipped, backs>>

Say ==
    /\ Doing("say") /\ Writable(Head(todo).t)
    /\ LET t == Head(todo).t IN
       \E n \in Unused(auth[t]) :
           /\ Install(t, [commits[auth[t]] EXCEPT !.nodes[n] = "open"])
           /\ todo' = RefreshList \o OpenThread(t, n)
    /\ written' = "yes"
    /\ UNCHANGED <<app, form, loop, work, frame, saved, slipped, backs>>

\* Mutant of ReturnFromLink: the origin is taken for a node.
ReturnFromLink_ToNode(view) == OpenNode(view.t, view.n)

\* return_from_link_form
ReturnFromLink(view) ==
    IF view.from = "node" THEN OpenNode(view.t, view.n) ELSE OpenThread(view.t, view.n)

\* snapshot_append_link
AddLink ==
    /\ Doing("link") /\ Writable(Head(todo).t)
    /\ LET t == Head(todo).t IN
       Install(t, [commits[auth[t]] EXCEPT !.links = @ \cup {Head(todo).n}])
    /\ todo' = ReturnFromLink(app.view)
    /\ written' = "yes"
    /\ UNCHANGED <<app, form, loop, work, frame, saved, slipped, backs>>

\* handle_external_edit, after the editor: snapshot_revise_body, then the thread.
Revise ==
    /\ Doing("revise") /\ Writable(Head(todo).t)
    /\ LET t == Head(todo).t IN
       /\ Install(t, commits[auth[t]])
       /\ todo' = OpenThread(t, SelectedNode(app))
    /\ UNCHANGED <<app, form, loop, work, frame, saved, slipped, backs, written>>

\* apply_node_status_action, then the node again.
MarkAfter(do, mark) ==
    CASE do = "resolve" /\ mark = "open"      -> "resolved"
      [] do = "reopen"  /\ mark # "open"      -> "open"
      [] do = "retract" /\ mark # "retracted" -> "retracted"
      [] OTHER -> mark

Mark ==
    /\ todo # <<>> /\ Head(todo).do \in {"resolve", "reopen", "retract"}
    /\ LET t == Head(todo).t
           n == Head(todo).n
           c == Source(t)
           new == MarkAfter(Head(todo).do, commits[c].nodes[n])
       IN  \/ /\ ~Readable(c) \/ n \notin Range(NodesOf(c))
              /\ Fail /\ UNCHANGED repo
           \/ /\ Readable(c) /\ n \in Range(NodesOf(c))
              /\ \/ new = commits[c].nodes[n] /\ UNCHANGED repo
                    /\ todo' = OpenNode(t, n) /\ UNCHANGED <<app, work, loop, written>>
                 \/ new # commits[c].nodes[n] /\ Writable(t)
                    /\ Install(t, [commits[c] EXCEPT !.nodes[n] = new])
                    /\ todo' = OpenNode(t, n) /\ UNCHANGED <<app, work, loop, written>>
                 \/ new # commits[c].nodes[n] /\ ~Writable(t)
                    /\ Fail /\ UNCHANGED repo
    /\ UNCHANGED <<form, frame, saved, slipped, backs>>

GitStep ==
    \/ Restore \/ RestoreNode \/ ListAuth \/ ListPub \/ TipsPub \/ KeepRows \/ KeepTips
    \/ UnlessSame \/ ShowList \/ SelectNew \/ OpenTip \/ OpenRead \/ OpenTheNode
    \/ CreateThread \/ Refused \/ Say \/ AddLink \/ Revise \/ Mark

-----------------------------------------------------------------------------
(* The user: one event of the terminal, as dispatch_event handles it *)

Ready == loop = "poll" /\ ~app.confirm /\ ~app.error

\* A handler: the fields it sets at once and the git calls that follow.
Handle(a, f, plan) ==
    /\ loop = "poll"
    /\ app' = a /\ form' = f /\ todo' = plan
    /\ loop' = IF plan = <<>> THEN "draw" ELSE "event"
    /\ frame' = NoFrame
    /\ UNCHANGED <<repo, work, slipped>>

\* Any key ends text selection and is then handled as usual; while text is
\* selected the terminal keeps the mouse to itself.
Pressed == [app EXCEPT !.select = FALSE]
Key(group) == Ready /\ group \in Inputs
Click == Ready /\ "mouse" \in Inputs /\ ~app.select
Calm == backs' = 0 /\ UNCHANGED <<saved, written>>

\* TuiState::from_app: a form is saved as the list.
FromApp ==
    [view |-> IF app.view.at \in {"thread", "node"} THEN app.view ELSE ListView,
     sel |-> app.sel, nodeSel |-> app.nodeSel, filter |-> app.filter, sort |-> app.sort]

InList == app.view.at = "list" /\ ~app.bar
InBar == app.view.at = "list" /\ app.bar
InThread == app.view.at = "thread"
InNode == app.view.at = "node"

\* move_down, move_up, move_to_top, move_to_bottom
MoveInList ==
    /\ Key("list") /\ InList /\ Visible(app) # <<>>
    /\ LET n == Len(Visible(app)) IN
       \E i \in {1, n, IF app.sel = 0 THEN 1 ELSE IF app.sel < n THEN app.sel + 1 ELSE n,
                 IF app.sel <= 1 THEN 1 ELSE app.sel - 1} :
         Handle([Pressed EXCEPT !.sel = i], form, <<>>)
    /\ Calm

EnterThread ==
    /\ Key("detail") /\ InList
    /\ SelectedThread(app) # 0
    /\ Handle(Pressed, form, OpenThread(SelectedThread(app), 0))
    /\ Calm

\* r in the list: list the threads, then record their tips.
RefreshKey ==
    /\ Key("list") /\ InList
    /\ Handle(Pressed, form, ReadList \o ReadTips \o <<Step("showList", 0, 0)>>)
    /\ Calm

\* A click on a row selects it, a second click on it opens the thread.
ClickRow ==
    /\ Click /\ InList
    /\ \E i \in 1 .. Len(Visible(app)) :
         LET a == [app EXCEPT !.sel = i] IN
         \/ Handle(a, form, <<>>)
         \/ "detail" \in Inputs /\ Handle(a, form, OpenThread(SelectedThread(a), 0))
    /\ Calm

ClickHeader ==
    /\ Click /\ "sort" \in Inputs /\ InList
    /\ \E by \in {"id", "updated"} :
         LET a == [app EXCEPT !.sort = IF by = app.sort.by THEN [app.sort EXCEPT !.asc = ~@]
                                       ELSE [by |-> by, asc |-> TRUE]]
         IN  Handle([a EXCEPT !.sel = FirstRow(a)], form, <<>>)
    /\ Calm

\* open_filter_bar, toggle_filter_checkbox, apply_filter_bar, clear_filter_bar
OpenBar ==
    /\ Key("filter") /\ InList
    /\ Handle([Pressed EXCEPT !.bar = TRUE, !.draft = app.filter], form, <<>>)
    /\ Calm

ToggleBar ==
    /\ Key("filter") /\ InBar
    /\ \E s \in Statuses :
         Handle([Pressed EXCEPT !.draft = IF s \in @ THEN @ \ {s} ELSE @ \cup {s}], form, <<>>)
    /\ Calm

CloseBar ==
    /\ Key("filter") /\ InBar
    /\ \E chosen \in {app.draft, {}} :
         LET a == [Pressed EXCEPT !.bar = FALSE, !.draft = {}, !.filter = chosen]
         IN  Handle([a EXCEPT !.sel = FirstRow(a)], form, <<>>)
    /\ Calm

MoveInTree ==
    /\ Key("detail") /\ InThread
    /\ LET n == Len(NodesOf(app.shown)) IN
       \E i \in {IF app.nodeSel < n THEN app.nodeSel + 1 ELSE n,
                 IF app.nodeSel = 0 THEN 0 ELSE app.nodeSel - 1} :
         Handle([Pressed EXCEPT !.nodeSel = i], form, <<>>)
    /\ Calm

EnterNode ==
    /\ Key("node") /\ InThread
    /\ SelectedNode(app) # 0
    /\ Handle(Pressed, form, OpenNode(app.view.t, SelectedNode(app)))
    /\ Calm

ClickNode ==
    /\ Click /\ InThread
    /\ \E i \in 0 .. Len(NodesOf(app.shown)) :
         LET a == [app EXCEPT !.nodeSel = i] IN
         \/ Handle(a, form, <<>>)
         \/ /\ SelectedNode(a) # 0 /\ "node" \in Inputs
            /\ Handle(a, form, OpenNode(app.view.t, SelectedNode(a)))
    /\ Calm

\* r in the two detail views
RereadKey ==
    /\ Key("detail")
    /\ \/ InThread /\ Handle(Pressed, form, OpenThread(app.view.t, SelectedNode(app)))
       \/ InNode /\ Handle(Pressed, form, OpenNode(app.view.t, app.view.n))
    /\ Calm

SelectKey ==
    /\ Key("select") /\ (InThread \/ InNode)
    /\ Handle([app EXCEPT !.select = TRUE], form, <<>>)
    /\ Calm

\* e: the editor is left without a change, or the new body is committed.
EditKey ==
    /\ Key("edit") /\ InThread
    /\ \E plan \in {<<>>, <<Step("revise", app.view.t, 0)>>} :
         /\ plan # <<>> => Len(commits) < MaxCommits
         /\ Handle(Pressed, form, plan)
    /\ Calm

\* x, o, R
MarkKey ==
    /\ Key("node") /\ InNode
    /\ Len(commits) < MaxCommits
    /\ \E do \in {"resolve", "reopen", "retract"} :
         Handle(Pressed, form, <<Step(do, app.view.t, app.view.n)>>)
    /\ Calm

\* begin_create_thread, begin_create_node, begin_create_link_*: an empty form.
Begin ==
    /\ Ready
    /\ \E view \in (IF "create" \in Inputs /\ InList THEN {At("createThread", 0, 0)} ELSE {})
              \cup (IF "say" \in Inputs /\ (InThread \/ InNode)
                    THEN {At("createNode", app.view.t, 0)} ELSE {})
              \cup (IF "link" \in Inputs /\ InThread
                    THEN {[At("createLink", app.view.t, SelectedNode(app)) EXCEPT !.from = "thread"]} ELSE {})
              \cup (IF "link" \in Inputs /\ InNode
                    THEN {[At("createLink", app.view.t, app.view.n) EXCEPT !.from = "node"]} ELSE {}) :
         Handle([Pressed EXCEPT !.view = view], EmptyForm, <<>>)
    /\ backs' = 0 /\ written' = "no" /\ UNCHANGED saved

InForm == app.view.at \in {"createThread", "createNode", "createLink"}
InEditor == app.view.at \in {"editThreadBody", "editNodeBody"}

\* Tab, or a click on a label
FocusField ==
    /\ Ready /\ InForm
    /\ LET n == Len(Fields(app.view.at)) IN
       \E i \in {(form.field % n) + 1} \cup (IF "mouse" \in Inputs THEN 1 .. n - 1 ELSE {}) :
         Handle(app, [form EXCEPT !.field = i], <<>>)
    /\ Calm

\* Characters typed into, or deleted from, the field that has the focus.  A
\* deletion may leave the field empty; tags may be ones validate_tag rejects.
Typed ==
    { name \in Texts :
        \/ InEditor /\ name = "body"
        \/ InForm /\ Focus = name /\ (name = "manual" => form.manual) /\ name # "body" }

Type ==
    /\ Ready /\ Typed # {}
    /\ \/ \E bad \in (IF "tags" \in Typed THEN BOOLEAN ELSE {form.badTags}) :
            Handle(app, [form EXCEPT !.text = @ \cup Typed, !.badTags = bad], <<>>)
       \/ Handle(app, [form EXCEPT !.text = @ \ Typed,
                                   !.badTags = @ /\ "tags" \notin Typed], <<>>)
    /\ backs' = 0 /\ written' = "no" /\ UNCHANGED saved

EditBody ==
    /\ Ready /\ InForm /\ Focus = "body"
    /\ LET at == IF app.view.at = "createThread" THEN "editThreadBody" ELSE "editNodeBody" IN
       Handle([app EXCEPT !.view = [@ EXCEPT !.at = at]], form, <<>>)
    /\ Calm

\* The kind of the target starts the choice again; up, down or a click choose.
\* All threads are of one kind here: other kinds, without candidates, are left out.
ChooseTarget ==
    /\ Ready /\ app.view.at = "createLink"
    /\ \/ Focus = "kind" /\ Handle(app, [form EXCEPT !.manual = ~@, !.target = 1], <<>>)
       \/ /\ Focus = "manual" /\ ~form.manual
          /\ \E i \in 1 .. Len(Candidates(app, app.view.t)) :
               Handle(app, [form EXCEPT !.target = i], <<>>)
    /\ Calm

\* The thread ids of all commits; a new thread gets one that was never used.
UsedIds == {commits[c].t : c \in 1 .. Len(commits)}

\* submit_create_thread, submit_create_node, submit_create_link: by Enter on
\* the last field or by a click on it; an incomplete form stays as it is.
Complete ==
    CASE app.view.at = "createThread" -> "title" \in form.text /\ ~form.badTags
      [] app.view.at = "createNode"   -> "body" \in form.text
      [] app.view.at = "createLink"   ->
           IF form.manual THEN "manual" \in form.text ELSE LinkTarget(app, form, app.view.t) # 0

\* Mutant of Writing: the target is looked up among the rows of the list.
Writing_ByListRow ==
    CASE app.view.at = "createThread" -> {<<Step("create", t, 0)>> : t \in Threads \ UsedIds}
      [] app.view.at = "createNode"   -> {<<Step("say", app.view.t, 0)>>}
      [] app.view.at = "createLink"   ->
           {<<Step("link", app.view.t, IF form.manual THEN 0 ELSE Visible(app)[form.target])>>}

Writing ==
    CASE app.view.at = "createThread" -> {<<Step("create", t, 0)>> : t \in Threads \ UsedIds}
      [] app.view.at = "createNode"   -> {<<Step("say", app.view.t, 0)>>}
      [] app.view.at = "createLink"   -> {<<Step("link", app.view.t, LinkTarget(app, form, app.view.t))>>}

Submit ==
    /\ Ready /\ InForm /\ (Focus = "submit" \/ "mouse" \in Inputs)
    /\ LET f == [form EXCEPT !.field = Len(Fields(app.view.at))] IN
       IF ~Complete THEN Handle(app, f, <<>>)
       ELSE /\ Len(commits) < MaxCommits
            /\ app.view.at = "createNode" => Unused(Source(app.view.t)) # {}
            /\ \E plan \in Writing : Handle(app, f, plan)
    /\ Calm

\* Esc, q in the detail views, or a click on the hint for it.
Leave(a) ==
    CASE app.view.at = "createThread" -> Handle([a EXCEPT !.view = ListView], form, <<>>)
      [] app.view.at = "createNode"   -> Handle(a, form, OpenThread(app.view.t, 0))
      [] app.view.at = "createLink"   -> Handle(a, form, ReturnFromLink(app.view))

CountBack == backs' = IF backs = MaxBacks THEN backs ELSE backs + 1

EscKey ==
    /\ Key("back")
    /\ \/ InList /\ Handle(Pressed, form, <<>>) /\ UNCHANGED saved
       \/ InBar /\ Handle([Pressed EXCEPT !.bar = FALSE, !.draft = {}], form, <<>>) /\ UNCHANGED saved
       \/ /\ InThread
          /\ Handle([Pressed EXCEPT !.view = ListView, !.shown = 0, !.pane = 0], form, <<>>)
          /\ saved' = FromApp
       \/ InNode /\ Handle(Pressed, form, OpenThread(app.view.t, app.view.n)) /\ UNCHANGED saved
       \/ /\ InEditor
          /\ LET at == IF app.view.at = "editThreadBody" THEN "createThread" ELSE "createNode" IN
             Handle([app EXCEPT !.view = [@ EXCEPT !.at = at]], [form EXCEPT !.field = FieldNo(at, "body")], <<>>)
          /\ UNCHANGED saved
       \/ /\ InForm
          /\ IF HasUnsaved THEN Handle([app EXCEPT !.confirm = TRUE], form, <<>>) ELSE Leave(app)
          /\ UNCHANGED saved
    /\ CountBack
    /\ UNCHANGED written

\* In the node view the hint returns to the row that is selected in the tree.
ClickBack ==
    /\ Click /\ "back" \in Inputs /\ InNode
    /\ Handle(app, form, OpenThread(app.view.t, SelectedNode(app)))
    /\ CountBack
    /\ UNCHANGED <<saved, written>>

\* Overlays: y discards; any other key, and a click, only closes.
Discard ==
    /\ loop = "poll" /\ app.confirm
    /\ LET left == CASE app.view.at = "createThread" -> [form EXCEPT !.text = {}, !.badTags = FALSE]
                     [] app.view.at = "createNode"   -> [form EXCEPT !.text = @ \ {"body"}]
                     [] app.view.at = "createLink"   -> [form EXCEPT !.text = @ \ {"manual"}]
           a == [app EXCEPT !.confirm = FALSE]
       IN  CASE app.view.at = "createThread" -> Handle([a EXCEPT !.view = ListView], left, <<>>)
             [] app.view.at = "createNode"   -> Handle(a, left, OpenThread(app.view.t, 0))
             [] app.view.at = "createLink"   -> Handle(a, left, ReturnFromLink(app.view))
    /\ CountBack
    /\ UNCHANGED <<saved, written>>

KeepForm ==
    /\ loop = "poll" /\ app.confirm
    /\ Handle([app EXCEPT !.confirm = FALSE], form, <<>>)
    /\ Calm

DismissError ==
    /\ loop = "poll" /\ ~app.confirm /\ app.error
    /\ Handle([app EXCEPT !.error = FALSE], form, <<>>)
    /\ CountBack
    /\ UNCHANGED <<saved, written>>

\* q in the list, Ctrl-C anywhere; the state is saved.
Quit ==
    /\ Key("quit")
    /\ loop' = "off" /\ saved' = FromApp /\ frame' = NoFrame
    /\ UNCHANGED <<repo, app, form, todo, work, slipped, backs, written>>

User ==
    \/ MoveInList \/ EnterThread \/ RefreshKey \/ ClickRow \/ ClickHeader
    \/ OpenBar \/ ToggleBar \/ CloseBar
    \/ MoveInTree \/ EnterNode \/ ClickNode \/ RereadKey \/ SelectKey \/ EditKey \/ MarkKey
    \/ Begin \/ FocusField \/ Type \/ EditBody \/ ChooseTarget \/ Submit
    \/ EscKey \/ ClickBack \/ Discard \/ KeepForm \/ DismissError \/ Quit

-----------------------------------------------------------------------------
(* Everybody else: other commands, pushes and fetches.  No commit becomes the *)
(* tip of a ref a second time.  Steps that touch only the session's memory    *)
(* are not interleaved, and room is left for the write the session is about   *)
(* to make (MaxCommits, NNodes).                                              *)

Pending(do) == todo # <<>> /\ Head(todo).do = do
Reserved == IF todo # <<>> /\ Head(todo).do \in {"create", "say", "link", "revise", "resolve", "reopen", "retract"}
            THEN 1 ELSE 0

Elsewhere(kind) ==
    /\ kind \in Surroundings
    /\ todo # <<>> => Head(todo).do \in GitSteps
    /\ UNCHANGED <<app, form, loop, todo, work, frame, saved, slipped, backs, written>>

Room == Len(commits) + Reserved < MaxCommits

\* state, say, resolve ...: another process edits the document of the ref.
OtherEdits ==
    /\ Elsewhere("edit") /\ Room
    /\ \E t \in Threads : Writable(t) /\
         LET d == commits[auth[t]] IN
             \/ \E s \in Statuses \ {d.status} : Install(t, [d EXCEPT !.status = s])
             \/ /\ Pending("say") => Cardinality(Unused(auth[t])) > 1
                /\ \E n \in Unused(auth[t]) : Install(t, [d EXCEPT !.nodes[n] = "open"])
             \/ \E m \in Nodes : /\ d.nodes[m] = "open"
                                 /\ Install(t, [d EXCEPT !.nodes[m] = "resolved"])

OtherCreates ==
    /\ Elsewhere("new") /\ Room
    /\ \E t \in Threads \ UsedIds : /\ ~(Pending("create") /\ Head(todo).t = t)
                                    /\ Install(t, Document(t, "open", NoNodes, {}))

OtherDeletes ==
    /\ Elsewhere("delete")
    /\ \E t \in Threads : auth[t] # 0 /\ auth' = [auth EXCEPT ![t] = 0]
    /\ UNCHANGED <<commits, pub>>

\* A forced fetch replaces the ref by history without one of its nodes.
OtherDiverges ==
    /\ Elsewhere("diverge") /\ Room
    /\ \E t \in Threads, n \in Nodes :
         /\ Writable(t) /\ n \notin Unused(auth[t])
         /\ Install(t, [commits[auth[t]] EXCEPT !.nodes[n] = "none"])

\* A 2.x command appends an event to the ref.
OtherIsLegacy ==
    /\ Elsewhere("legacy") /\ Room
    /\ \E t \in Threads : Writable(t) /\ Install(t, [commits[auth[t]] EXCEPT !.event = TRUE])

\* A publish, or a fetch of a published thread.
OtherPublishes ==
    /\ Elsewhere("publish") /\ Room
    /\ \E t \in Threads :
         /\ commits' = Append(commits, IF Readable(Source(t)) THEN commits[Source(t)]
                                       ELSE Document(t, "open", NoNodes, {}))
         /\ pub' = [pub EXCEPT ![t] = Len(commits) + 1]
    /\ UNCHANGED auth

OtherWithdraws ==
    /\ Elsewhere("withdraw")
    /\ \E t \in Threads : pub[t] # 0 /\ pub' = [pub EXCEPT ![t] = 0]
    /\ UNCHANGED <<commits, auth>>

Others ==
    OtherEdits \/ OtherCreates \/ OtherDeletes \/ OtherDiverges \/ OtherIsLegacy
    \/ OtherPublishes \/ OtherWithdraws

Session == Draw \/ TickNotDue \/ Tick \/ NothingTyped \/ GitStep \/ GitFails \/ User

Next == Session \/ Others \/ \E t \in Threads \cup {0} : Run(t)

Spec == Init /\ [][Next]_vars

\* The session keeps running, and a refresh comes due again and again: the loop
\* returns to the check every 100 ms, and is due 2 s after the last one.
FairSpec == Spec /\ WF_vars(Session) /\ SF_vars(Tick)

-----------------------------------------------------------------------------
(* Properties *)

\* What the list shows is what list_threads would return, as soon as the tips
\* that were recorded are the tips there are (read_thread_list, list_changed_since:
\* "the rows are what list_threads returns").  Two gaps of the code are left out:
\* a thread that moved between a listing and the reading of the tips, and a
\* published row behind an authoritative ref that holds no snapshot.
ListTrue ==
    (loop = "poll" /\ app.view.at = "list" /\ app.tips = TipsOf(auth, pub)) =>
        \A t \in Threads \ slipped :
            (auth[t] # 0 => Readable(auth[t])) => app.rows[t] = Listing[t]

\* Once a form's text is in a commit the user is never offered to submit it
\* again, unless the refresh that follows the write fails.
LeavesFormAfterWrite == (loop = "poll" /\ app.view.at \in Forms) => written # "yes"

\* Going back leads to the list without an overlay after MaxBacks presses (INV-3).
Home == app.view.at = "list" /\ ~app.bar /\ ~app.confirm /\ ~app.error
BackReachesList == (loop = "poll" /\ backs = MaxBacks) => Home

\* A form with text in it is left only by a submit that succeeded, by the y of
\* the confirmation, or by ending the session (INV-5), also in a git call of a
\* handler.
Unsaved == app.view.at \in Forms /\ form.text # {}
NoSilentDiscard ==
    [][(Unsaved /\ app'.view.at \notin Forms /\ loop # "off" /\ loop' # "off")
          => written # "no" \/ (app.confirm /\ ~app'.confirm)]_vars

\* Enter in the thread view opens the node that is highlighted on the screen,
\* also when a refresh came after the frame was drawn (auto_refresh selects by id).
EnterOpensDrawnNode == [][EnterNode => SelectedNode(app) = frame.lit]_vars

\* The thread a link goes to is the candidate that was highlighted.
LinksWhatWasDrawn ==
    [][(loop = "poll" /\ app.view.at = "createLink" /\ todo' # <<>> /\ Head(todo').do = "link")
          => Head(todo').n = frame.lit]_vars

\* A thread view that stays open shows in the end what the ref holds, although
\* tip and document are read by separate calls.
DetailCatchesUp ==
    \A t \in Threads :
        <>[](loop # "off" /\ app.view = At("thread", t, 0) /\ auth[t] # 0) => <>[](app.shown = auth[t])

=============================================================================
