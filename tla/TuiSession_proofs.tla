--------------------------- MODULE TuiSession_proofs ---------------------------
(***************************************************************************)
(* Proofs about TuiSession, for any number of threads, nodes and commits,  *)
(* any keys and any writes by others: forms keep what was typed, keys act  *)
(* on what the last frame showed, also when git calls fail; and unless     *)
(* they do, the list shows what a listing would return and, while nothing  *)
(* vanishes, going back ends at the list.                                  *)
(***************************************************************************)
EXTENDS TuiSession, SequenceTheorems, FiniteSetTheorems, TLAPS

(* The fields of the session and of a form.                                *)
IsView(v) == v = [at |-> v.at, t |-> v.t, n |-> v.n, from |-> v.from]
IsApp(a) ==
    /\ a = [ view |-> a.view, rows |-> a.rows, cache |-> a.cache, tips |-> a.tips,
             sel |-> a.sel, filter |-> a.filter, bar |-> a.bar, draft |-> a.draft,
             sort |-> a.sort, tip |-> a.tip, shown |-> a.shown, nodeSel |-> a.nodeSel,
             pane |-> a.pane, select |-> a.select, confirm |-> a.confirm,
             error |-> a.error ]
    /\ IsView(a.view)
    /\ a.confirm \in BOOLEAN
IsForm(f) == f = [ field |-> f.field, text |-> f.text, badTags |-> f.badTags,
                   manual |-> f.manual, target |-> f.target ]

Loops == {"off", "start", "restore", "draw", "tick", "ticking", "poll", "event"}

ListDos == {"tipsAuth", "tipsPub", "unlessSame", "listAuth", "listPub", "showList"}
ReturnDos == {"listAuth", "listPub", "keepRows", "tipsAuth", "tipsPub", "keepTips",
              "selectNew", "openTip", "openRead", "openNode"}
WriteDos == {"create", "say", "link"}

(* A handler that makes only calls of the kinds D.                         *)
Only(p, D) == \E S : p \in Seq(S) /\ \A step \in S : step.do \in D

(* A handler that leaves the form at the end.                              *)
Returning(p) ==
    /\ Only(p, ReturnDos)
    /\ p # <<>>
    /\ p[Len(p)].do \in {"openRead", "openNode"}

(* Between handlers there is nothing left to do; no form is open while the *)
(* session starts, restores its view or refreshes.                         *)
LoopInv ==
    /\ loop \in Loops
    /\ loop \in {"off", "draw", "tick", "poll"} => todo = <<>>
    /\ loop \in {"start", "restore", "ticking"} => app.view.at \notin Forms

(* What a refresh still has to do; that of a thread remembers the node that *)
(* was highlighted.                                                        *)
RefreshInv ==
    loop = "ticking" =>
        \/ /\ app.view.at = "thread"
           /\ \E t : todo \in {OpenThread(t, frame.lit), <<Step("openRead", t, frame.lit)>>}
        \/ app.view.at = "node" /\ \E t, n : todo = OpenNode(t, n)
        \/ app.view.at = "list" /\ Only(todo, ListDos)

(* A handler of a form is about to write, or on its way out of the form    *)
(* with nothing left to lose.                                              *)
HandlerInv ==
    loop = "event" /\ app.view.at \in Forms =>
        \/ written # "yes" /\ Head(todo).do \in WriteDos
        \/ Returning(todo) /\ (written = "yes" \/ form.text = {})

WrittenInv == app.view.at \in Forms /\ written = "yes" => loop = "event"

(* Only what the confirmation looks at can be typed into a form.           *)
TextOf(at, f) ==
    /\ at \in {"createNode", "editNodeBody"} => f.text \subseteq {"body"}
    /\ at = "createLink" => f.text \subseteq {"manual"}
    /\ at \in Forms => f.field \in 1..Len(Fields(at))
TextInv == TextOf(app.view.at, form)

ConfirmInv == app.confirm => InForm /\ loop \in {"draw", "tick", "poll", "off"}

(* What the frame highlights is what the keys will act on; a refresh may   *)
(* have taken the highlight away, but not moved it.                        *)
LitInv ==
    /\ loop = "tick" /\ app.view.at = "thread" => SelectedNode(app) = frame.lit
    /\ loop = "poll" /\ app.view.at = "thread" => SelectedNode(app) \in {0, frame.lit}
    /\ loop \in {"tick", "poll"} /\ app.view.at = "createLink" =>
           frame.lit = LinkTarget(app, form, app.view.t)

(* Commits are only added, so the document on the screen stays as it is.   *)
ShownInv ==
    /\ \E S : commits \in Seq(S)
    /\ app.shown \in {0} \cup DOMAIN commits

SessionInv ==
    /\ IsApp(app) /\ IsForm(form)
    /\ LoopInv /\ RefreshInv /\ HandlerInv /\ WrittenInv
    /\ TextInv /\ ConfirmInv /\ LitInv /\ ShownInv

-----------------------------------------------------------------------------
(* Plans of handlers.                                                      *)

LEMMA TailOnly ==
    ASSUME NEW p, NEW D, Only(p, D), p # <<>>
    PROVE  /\ Head(p).do \in D
           /\ Only(Tail(p), D)
<1>1. PICK S : p \in Seq(S) /\ \A step \in S : step.do \in D
  BY DEF Only
<1>2. Head(p) \in S /\ Tail(p) \in Seq(S)
  BY <1>1
<1> QED
  BY <1>1, <1>2 DEF Only

LEMMA JoinOnly ==
    ASSUME NEW p, NEW q, NEW D, Only(p, D), Only(q, D)
    PROVE  Only(p \o q, D)
<1>1. PICK S : p \in Seq(S) /\ \A step \in S : step.do \in D
  BY DEF Only
<1>2. PICK T : q \in Seq(T) /\ \A step \in T : step.do \in D
  BY DEF Only
<1>3. p \in Seq(S \cup T) /\ q \in Seq(S \cup T)
  BY <1>1, <1>2, SeqMonotonic
<1>4. p \o q \in Seq(S \cup T)
  BY <1>3
<1> QED
  BY <1>1, <1>2, <1>4 DEF Only

LEMMA OneOnly ==
    ASSUME NEW D, NEW do \in D, NEW t, NEW n
    PROVE  Only(<<Step(do, t, n)>>, D)
<1>1. Step(do, t, n).do \in D
  BY DEF Step
<1> DEFINE S == {Step(do, t, n)}
<1>2. <<Step(do, t, n)>> \in Seq(S)
  OBVIOUS
<1>3. \A step \in S : step.do \in D
  BY <1>1
<1> HIDE DEF S
<1> QED
  BY <1>2, <1>3 DEF Only

LEMMA TwoOnly ==
    ASSUME NEW D, NEW do \in D, NEW t, NEW n, NEW do2 \in D, NEW t2, NEW n2
    PROVE  Only(<<Step(do, t, n), Step(do2, t2, n2)>>, D)
<1>1. Step(do, t, n).do \in D /\ Step(do2, t2, n2).do \in D
  BY DEF Step
<1> DEFINE S == {Step(do, t, n), Step(do2, t2, n2)}
<1>2. <<Step(do, t, n), Step(do2, t2, n2)>> \in Seq(S)
  OBVIOUS
<1>3. \A step \in S : step.do \in D
  BY <1>1
<1> HIDE DEF S
<1> QED
  BY <1>2, <1>3 DEF Only

LEMMA ReturningTail ==
    ASSUME NEW p, Returning(p)
    PROVE  /\ p # <<>>
           /\ Head(p).do \in ReturnDos
           /\ Head(p).do \notin {"openRead", "openNode"} => Tail(p) # <<>>
           /\ Tail(p) # <<>> => Returning(Tail(p))
<1>1. p # <<>> /\ Only(p, ReturnDos) /\ p[Len(p)].do \in {"openRead", "openNode"}
  BY DEF Returning
<1>2. Head(p).do \in ReturnDos /\ Only(Tail(p), ReturnDos)
  BY <1>1, TailOnly
<1>3. PICK S : p \in Seq(S)
  BY <1>1 DEF Only
<1>4. ASSUME Tail(p) = <<>>
      PROVE  Head(p) = p[Len(p)]
  BY <1>1, <1>3, <1>4
<1>5. ASSUME Tail(p) # <<>>
      PROVE  Tail(p)[Len(Tail(p))] = p[Len(p)]
  BY <1>1, <1>3, <1>5, HeadTailProperties
<1> QED
  BY <1>1, <1>2, <1>4, <1>5 DEF Returning

LEMMA JoinReturning ==
    ASSUME NEW p, NEW q, Only(p, ReturnDos), Returning(q)
    PROVE  Returning(p \o q)
<1>1. Only(p \o q, ReturnDos)
  BY JoinOnly DEF Returning
<1>2. PICK S : p \in Seq(S)
  BY DEF Only
<1>3. PICK T : q \in Seq(T)
  BY DEF Returning, Only
<1>4. p \in Seq(S \cup T) /\ q \in Seq(S \cup T) /\ q # <<>>
  BY <1>2, <1>3, SeqMonotonic DEF Returning
<1>5. Len(q) \in Nat \ {0} /\ Len(p) \in Nat
  BY <1>4
<1>6. Len(p \o q) = Len(p) + Len(q) /\ (p \o q)[Len(p) + Len(q)] = q[Len(q)]
  BY <1>4, <1>5, ConcatProperties
<1>7. p \o q # <<>>
  BY <1>5, <1>6
<1> QED
  BY <1>1, <1>6, <1>7 DEF Returning

LEMMA OpensReturn ==
    ASSUME NEW t, NEW n
    PROVE  Returning(OpenThread(t, n)) /\ Returning(OpenNode(t, n))
<1>1. Only(OpenThread(t, n), ReturnDos)
  BY TwoOnly DEF OpenThread, ReturnDos
<1>2. Only(OpenNode(t, n), ReturnDos)
  BY OneOnly DEF OpenNode, ReturnDos
<1>3. OpenThread(t, n) # <<>> /\ OpenThread(t, n)[Len(OpenThread(t, n))].do = "openRead"
  BY DEF OpenThread, Step
<1>4. OpenNode(t, n) # <<>> /\ OpenNode(t, n)[Len(OpenNode(t, n))].do = "openNode"
  BY DEF OpenNode, Step
<1> QED
  BY <1>1, <1>2, <1>3, <1>4 DEF Returning

LEMMA RefreshReturns ==
    /\ Only(RefreshList, ReturnDos)
    /\ \A t : Only(<<Step("selectNew", t, 0)>>, ReturnDos)
<1>1. Only(ReadList, ReturnDos) /\ Only(ReadTips, ReturnDos)
  BY TwoOnly DEF ReadList, ReadTips, ReturnDos
<1>2. \A do \in {"keepRows", "keepTips", "selectNew"} :
          \A t : Only(<<Step(do, t, 0)>>, ReturnDos)
  BY OneOnly DEF ReturnDos
<1>3. Only(ReadList \o <<Step("keepRows", 0, 0)>>, ReturnDos)
  BY <1>1, <1>2, JoinOnly
<1>4. Only(ReadList \o <<Step("keepRows", 0, 0)>> \o ReadTips, ReturnDos)
  BY <1>1, <1>3, JoinOnly
<1> QED
  BY <1>2, <1>4, JoinOnly DEF RefreshList

LEMMA ListRefreshOnly ==
    Only(ReadTips \o <<Step("unlessSame", 0, 0)>> \o ReadList \o <<Step("showList", 0, 0)>>,
         ListDos)
<1>1. Only(ReadList, ListDos) /\ Only(ReadTips, ListDos)
  BY TwoOnly DEF ReadList, ReadTips, ListDos
<1>2. Only(<<Step("unlessSame", 0, 0)>>, ListDos) /\ Only(<<Step("showList", 0, 0)>>, ListDos)
  BY OneOnly DEF ListDos
<1>3. Only(ReadTips \o <<Step("unlessSame", 0, 0)>>, ListDos)
  BY <1>1, <1>2, JoinOnly
<1>4. Only(ReadTips \o <<Step("unlessSame", 0, 0)>> \o ReadList, ListDos)
  BY <1>1, <1>3, JoinOnly
<1> QED
  BY <1>2, <1>4, JoinOnly

(* A refresh of a thread: two calls, then one, then none.                  *)
LEMMA OpenThreadTail ==
    ASSUME NEW t, NEW n
    PROVE  /\ Head(OpenThread(t, n)) = Step("openTip", t, n)
           /\ Tail(OpenThread(t, n)) = <<Step("openRead", t, n)>>
           /\ OpenThread(t, n) # <<>>
           /\ Head(<<Step("openRead", t, n)>>) = Step("openRead", t, n)
           /\ Tail(<<Step("openRead", t, n)>>) = <<>>
           /\ <<Step("openRead", t, n)>> # <<>>
           /\ Head(OpenNode(t, n)) = Step("openNode", t, n)
           /\ Tail(OpenNode(t, n)) = <<>>
           /\ OpenNode(t, n) # <<>>
  BY DEF OpenThread, OpenNode

-----------------------------------------------------------------------------
(* The document on the screen.                                             *)

Grown == commits' = commits \/ \E d : commits' = Append(commits, d)

LEMMA CommitsGrow ==
    ASSUME NEW S, commits \in Seq(S), Grown
    PROVE  /\ \E T : commits' \in Seq(T)
           /\ \A c \in DOMAIN commits : c \in DOMAIN commits' /\ commits'[c] = commits[c]
<1>1. CASE commits' = commits
  BY <1>1
<1>2. ASSUME NEW d, commits' = Append(commits, d)
      PROVE  /\ \E T : commits' \in Seq(T)
             /\ \A c \in DOMAIN commits : c \in DOMAIN commits' /\ commits'[c] = commits[c]
  <2>1. commits \in Seq(S \cup {d})
    BY SeqMonotonic
  <2>2. commits' \in Seq(S \cup {d})
    BY <2>1, <1>2
  <2>3. Len(commits') = Len(commits) + 1 /\ \A c \in 1..Len(commits) : commits'[c] = commits[c]
    BY <2>1, <1>2
  <2>4. DOMAIN commits = 1..Len(commits) /\ DOMAIN commits' = 1..Len(commits')
        /\ Len(commits) \in Nat
    BY <2>1, <2>2
  <2> QED
    BY <2>2, <2>3, <2>4
<1> QED
  BY <1>1, <1>2 DEF Grown

LEMMA NodesStay ==
    ASSUME ShownInv, Grown, NEW c \in {0} \cup DOMAIN commits
    PROVE  NodesOf(c)' = NodesOf(c)
<1>1. CASE c = 0
  BY <1>1 DEF NodesOf
<1>2. CASE c # 0
  <2>1. commits'[c] = commits[c]
    BY <1>2, CommitsGrow DEF ShownInv
  <2> QED
    BY <1>2, <2>1 DEF NodesOf
<1> QED
  BY <1>1, <1>2

LEMMA ShownStays ==
    ASSUME ShownInv, Grown, app'.shown = app.shown
    PROVE  ShownInv'
  BY CommitsGrow DEF ShownInv

LEMMA SelectionStays ==
    ASSUME ShownInv, Grown, app'.shown = app.shown, app'.nodeSel = app.nodeSel
    PROVE  SelectedNode(app)' = SelectedNode(app)
<1>1. PICK c : c = app.shown
  OBVIOUS
<1>2. NodesOf(c)' = NodesOf(c)
  BY <1>1, NodesStay DEF ShownInv
<1>3. PICK i : i = app.nodeSel
  OBVIOUS
<1>4. SelectedNode(app) = IF i \in 1..Len(NodesOf(c)) THEN NodesOf(c)[i] ELSE 0
  BY <1>1, <1>3 DEF SelectedNode
<1>5. SelectedNode(app)' = IF i \in 1..Len(NodesOf(c)') THEN NodesOf(c)'[i] ELSE 0
  BY <1>1, <1>3 DEF SelectedNode
<1> QED
  BY <1>2, <1>4, <1>5

(* A node is highlighted again, or, if it is gone, the thread is.          *)
LEMMA RowSelects ==
    ASSUME NEW a, NEW c, NEW n, a.shown = c, a.nodeSel = RowOfNode(c, n)
    PROVE  SelectedNode(a) \in {0, n}
<1> DEFINE rows == {i \in 1..Len(NodesOf(c)) : NodesOf(c)[i] = n}
<1>1. RowOfNode(c, n) = IF rows = {} THEN 0 ELSE CHOOSE i \in rows : TRUE
  BY DEF RowOfNode
<1>2. CASE rows = {}
  <2>1. a.nodeSel = 0
    BY <1>1, <1>2
  <2>2. 0 \notin 1..Len(NodesOf(c))
    OBVIOUS
  <2> QED
    BY <2>1, <2>2 DEF SelectedNode
<1>3. CASE rows # {}
  <2>1. a.nodeSel \in rows
    BY <1>1, <1>3
  <2> QED
    BY <2>1 DEF SelectedNode
<1> QED
  BY <1>2, <1>3

-----------------------------------------------------------------------------
(* The user.                                                               *)

(* An event is handled with its fields set and its git calls to follow.    *)
LEMMA HandleKeeps ==
    ASSUME SessionInv, NEW a, NEW f, NEW plan, Handle(a, f, plan),
           IsApp(a), IsForm(f), a.shown \in {0, app.shown},
           a.confirm => a.view.at \in {"createThread", "createNode", "createLink"} /\ plan = <<>>,
           a.view.at \in Forms => /\ written' # "yes"
                                  /\ \/ plan = <<>>
                                     \/ Head(plan).do \in WriteDos
                                     \/ Returning(plan) /\ f.text = {},
           TextOf(a.view.at, f)
    PROVE  SessionInv'
<1>1. /\ app' = a /\ form' = f /\ todo' = plan
      /\ loop' = IF plan = <<>> THEN "draw" ELSE "event"
      /\ commits' = commits
  BY DEF Handle, repo
<1>2. ShownInv'
  BY <1>1 DEF SessionInv, ShownInv
<1>3. LoopInv' /\ RefreshInv' /\ LitInv'
  BY <1>1 DEF LoopInv, Loops, RefreshInv, LitInv
<1>4. HandlerInv' /\ WrittenInv'
  BY <1>1 DEF HandlerInv, WrittenInv
<1>5. TextInv' /\ ConfirmInv'
  BY <1>1 DEF TextInv, ConfirmInv, InForm
<1> QED
  BY <1>1, <1>2, <1>3, <1>4, <1>5 DEF SessionInv

(* The fields that keys and refreshes change without leaving the view.     *)
Same(b, a) ==
    IsApp(b) /\ b.view = a.view /\ b.shown = a.shown /\ b.confirm = a.confirm

LEMMA SameFields ==
    ASSUME NEW a, IsApp(a), NEW x
    PROVE  /\ Same([a EXCEPT !.sel = x], a)
           /\ Same([a EXCEPT !.nodeSel = x], a)
           /\ Same([a EXCEPT !.filter = x], a)
           /\ Same([a EXCEPT !.bar = x], a)
           /\ Same([a EXCEPT !.draft = x], a)
           /\ Same([a EXCEPT !.sort = x], a)
           /\ Same([a EXCEPT !.select = x], a)
           /\ Same([a EXCEPT !.error = x], a)
           /\ Same([a EXCEPT !.rows = x], a)
           /\ Same([a EXCEPT !.cache = x], a)
           /\ Same([a EXCEPT !.tips = x], a)
           /\ Same([a EXCEPT !.tip = x], a)
<1> USE DEF Same, IsApp
<1>1. Same([a EXCEPT !.sel = x], a) /\ Same([a EXCEPT !.nodeSel = x], a)
  OBVIOUS
<1>2. Same([a EXCEPT !.filter = x], a) /\ Same([a EXCEPT !.bar = x], a)
  OBVIOUS
<1>3. Same([a EXCEPT !.draft = x], a) /\ Same([a EXCEPT !.sort = x], a)
  OBVIOUS
<1>4. Same([a EXCEPT !.select = x], a) /\ Same([a EXCEPT !.error = x], a)
  OBVIOUS
<1>5. Same([a EXCEPT !.rows = x], a) /\ Same([a EXCEPT !.cache = x], a)
  OBVIOUS
<1>6. Same([a EXCEPT !.tips = x], a) /\ Same([a EXCEPT !.tip = x], a)
  OBVIOUS
<1> QED
  BY <1>1, <1>2, <1>3, <1>4, <1>5, <1>6

LEMMA SameTwice ==
    ASSUME NEW a, NEW b, NEW c, Same(c, b), Same(b, a)
    PROVE  Same(c, a)
  BY DEF Same

LEMMA SameBar ==
    ASSUME NEW a, IsApp(a), NEW x, NEW y, NEW z
    PROVE  /\ Same([a EXCEPT !.bar = x, !.draft = y], a)
           /\ Same([a EXCEPT !.bar = x, !.draft = y, !.filter = z], a)
<1>1. [a EXCEPT !.bar = x, !.draft = y] = [[a EXCEPT !.bar = x] EXCEPT !.draft = y]
  BY DEF IsApp
<1>2. [a EXCEPT !.bar = x, !.draft = y, !.filter = z]
          = [[[a EXCEPT !.bar = x] EXCEPT !.draft = y] EXCEPT !.filter = z]
  BY DEF IsApp
<1>3. PICK b : b = [a EXCEPT !.bar = x]
  OBVIOUS
<1>4. Same(b, a) /\ IsApp(b)
  BY <1>3, SameFields DEF Same
<1>5. PICK c : c = [b EXCEPT !.draft = y]
  OBVIOUS
<1>6. Same(c, a) /\ IsApp(c)
  <2>1. Same(c, b)
    BY <1>4, <1>5, SameFields
  <2>2. Same(c, a)
    BY <1>4, <2>1, SameTwice
  <2> QED
    BY <2>2 DEF Same
<1>7. Same([c EXCEPT !.filter = z], a)
  BY <1>6, SameFields, SameTwice
<1> QED
  BY <1>1, <1>2, <1>3, <1>5, <1>6, <1>7

LEMMA SameThenSel ==
    ASSUME NEW a, NEW b, Same(b, a), NEW i
    PROVE  Same([b EXCEPT !.sel = i], a)
<1>1. IsApp(b)
  BY DEF Same
<1>2. Same([b EXCEPT !.sel = i], b)
  BY <1>1, SameFields
<1> QED
  BY <1>2, SameTwice

(* A key of the list, the tree or a node, which leaves the view alone.     *)
LEMMA HandleSame ==
    ASSUME SessionInv, NEW a, NEW plan, Handle(a, form, plan), Same(a, app),
           ~app.confirm, app.view.at \notin Forms
    PROVE  SessionInv'
<1>1. IsApp(a) /\ IsForm(form) /\ a.shown \in {0, app.shown} /\ ~a.confirm
      /\ a.view.at \notin Forms
  BY DEF Same, SessionInv
<1>2. TextOf(a.view.at, form)
  BY <1>1 DEF TextOf, Forms
<1> QED
  BY <1>1, <1>2, HandleKeeps

LEMMA PressedSame ==
    ASSUME SessionInv
    PROVE  Same(Pressed, app) /\ IsApp(Pressed)
<1>1. Same(Pressed, app)
  BY SameFields DEF Pressed, SessionInv
<1> QED
  BY <1>1 DEF Same

LEMMA NotForms ==
    /\ InList \/ InBar \/ InThread \/ InNode => app.view.at \notin Forms
    /\ InForm \/ InEditor <=> app.view.at \in Forms
  BY DEF InList, InBar, InThread, InNode, InForm, InEditor, Forms

LEMMA ListKeys ==
    ASSUME SessionInv, MoveInList \/ EnterThread \/ RefreshKey \/ ClickRow \/ ClickHeader
    PROVE  SessionInv'
<1>1. ~app.confirm /\ app.view.at \notin Forms /\ IsApp(app) /\ Same(app, app)
  BY NotForms DEF MoveInList, EnterThread, RefreshKey, ClickRow, ClickHeader, Key, Click, Ready,
                  SessionInv, Same
<1>2. CASE MoveInList
  <2>1. PICK i : Handle([Pressed EXCEPT !.sel = i], form, <<>>)
    BY <1>2 DEF MoveInList
  <2>2. Same([Pressed EXCEPT !.sel = i], app)
    BY PressedSame, SameFields, SameTwice
  <2> QED
    BY <1>1, <2>1, <2>2, HandleSame
<1>3. CASE EnterThread
  <2>1. Handle(Pressed, form, OpenThread(SelectedThread(app), 0))
    BY <1>3 DEF EnterThread
  <2> QED
    BY <1>1, <2>1, PressedSame, HandleSame
<1>4. CASE RefreshKey
  <2>1. Handle(Pressed, form, ReadList \o ReadTips \o <<Step("showList", 0, 0)>>)
    BY <1>4 DEF RefreshKey
  <2> QED
    BY <1>1, <2>1, PressedSame, HandleSame
<1>5. CASE ClickRow
  <2>1. PICK i, plan : Handle([app EXCEPT !.sel = i], form, plan)
    BY <1>5 DEF ClickRow
  <2>2. Same([app EXCEPT !.sel = i], app)
    BY <1>1, SameFields
  <2> QED
    BY <1>1, <2>1, <2>2, HandleSame
<1>6. CASE ClickHeader
  <2>1. PICK order, i :
          Handle([[app EXCEPT !.sort = order] EXCEPT !.sel = i], form, <<>>)
    BY <1>6 DEF ClickHeader
  <2>2. Same([app EXCEPT !.sort = order], app)
    BY <1>1, SameFields
  <2>3. Same([[app EXCEPT !.sort = order] EXCEPT !.sel = i], app)
    BY <2>2, SameThenSel
  <2> QED
    BY <1>1, <2>1, <2>3, HandleSame
<1> QED
  BY <1>2, <1>3, <1>4, <1>5, <1>6

LEMMA BarKeys ==
    ASSUME SessionInv, OpenBar \/ ToggleBar \/ CloseBar
    PROVE  SessionInv'
<1>1. ~app.confirm /\ app.view.at \notin Forms /\ IsApp(app)
  BY NotForms DEF OpenBar, ToggleBar, CloseBar, Key, Ready, SessionInv
<1>2. IsApp(Pressed) /\ Same(Pressed, app)
  BY PressedSame
<1>3. CASE OpenBar
  <2>1. Handle([Pressed EXCEPT !.bar = TRUE, !.draft = app.filter], form, <<>>)
    BY <1>3 DEF OpenBar
  <2>2. Same([Pressed EXCEPT !.bar = TRUE, !.draft = app.filter], app)
    BY <1>2, SameBar, SameTwice
  <2> QED
    BY <1>1, <2>1, <2>2, HandleSame
<1>4. CASE ToggleBar
  <2>1. PICK draft : Handle([Pressed EXCEPT !.draft = draft], form, <<>>)
    BY <1>4 DEF ToggleBar
  <2>2. Same([Pressed EXCEPT !.draft = draft], app)
    BY <1>2, SameFields, SameTwice
  <2> QED
    BY <1>1, <2>1, <2>2, HandleSame
<1>5. CASE CloseBar
  <2>1. PICK chosen, i :
          Handle([[Pressed EXCEPT !.bar = FALSE, !.draft = {}, !.filter = chosen] EXCEPT !.sel = i],
                 form, <<>>)
    BY <1>5 DEF CloseBar
  <2> DEFINE a == [Pressed EXCEPT !.bar = FALSE, !.draft = {}, !.filter = chosen]
  <2>2. Same(a, app)
    BY <1>2, SameBar, SameTwice
  <2> HIDE DEF a
  <2>3. Same([a EXCEPT !.sel = i], app)
    BY <2>2, SameThenSel
  <2>4. Handle([a EXCEPT !.sel = i], form, <<>>)
    BY <2>1 DEF a
  <2> QED
    BY <1>1, <2>3, <2>4, HandleSame
<1> QED
  BY <1>3, <1>4, <1>5

LEMMA DetailKeys ==
    ASSUME SessionInv, \/ MoveInTree \/ EnterNode \/ ClickNode \/ RereadKey
                       \/ SelectKey \/ EditKey \/ MarkKey \/ ClickBack
    PROVE  SessionInv'
<1>1. ~app.confirm /\ app.view.at \notin Forms /\ IsApp(app) /\ Same(app, app)
  BY NotForms DEF MoveInTree, EnterNode, ClickNode, RereadKey, SelectKey, EditKey, MarkKey,
                  ClickBack, Key, Click, Ready, SessionInv, Same
<1>2. IsApp(Pressed) /\ Same(Pressed, app)
  BY PressedSame
<1>3. CASE MoveInTree
  <2>1. PICK i : Handle([Pressed EXCEPT !.nodeSel = i], form, <<>>)
    BY <1>3 DEF MoveInTree
  <2>2. Same([Pressed EXCEPT !.nodeSel = i], app)
    BY <1>2, SameFields, SameTwice
  <2> QED
    BY <1>1, <2>1, <2>2, HandleSame
<1>4. CASE EnterNode \/ RereadKey \/ EditKey \/ MarkKey
  <2>1. PICK plan : Handle(Pressed, form, plan)
    BY <1>4 DEF EnterNode, RereadKey, EditKey, MarkKey
  <2> QED
    BY <1>1, <1>2, <2>1, HandleSame
<1>5. CASE ClickNode
  <2>1. PICK i, plan : Handle([app EXCEPT !.nodeSel = i], form, plan)
    BY <1>5 DEF ClickNode
  <2>2. Same([app EXCEPT !.nodeSel = i], app)
    BY <1>1, SameFields
  <2> QED
    BY <1>1, <2>1, <2>2, HandleSame
<1>6. CASE SelectKey
  <2>1. Handle([app EXCEPT !.select = TRUE], form, <<>>)
    BY <1>6 DEF SelectKey
  <2>2. Same([app EXCEPT !.select = TRUE], app)
    BY <1>1, SameFields
  <2> QED
    BY <1>1, <2>1, <2>2, HandleSame
<1>7. CASE ClickBack
  <2>1. Handle(app, form, OpenThread(app.view.t, SelectedNode(app)))
    BY <1>7 DEF ClickBack
  <2> QED
    BY <1>1, <2>1, HandleSame
<1> QED
  BY <1>3, <1>4, <1>5, <1>6, <1>7

-----------------------------------------------------------------------------
(* Forms.                                                                  *)

LEMMA ViewFields ==
    ASSUME NEW a, IsApp(a), NEW v, IsView(v)
    PROVE  LET b == [a EXCEPT !.view = v]
           IN  IsApp(b) /\ b.view = v /\ b.shown = a.shown /\ b.confirm = a.confirm
  BY DEF IsApp

LEMMA ConfirmFields ==
    ASSUME NEW a, IsApp(a), NEW x \in BOOLEAN
    PROVE  LET b == [a EXCEPT !.confirm = x]
           IN  IsApp(b) /\ b.view = a.view /\ b.shown = a.shown /\ b.confirm = x
  BY DEF IsApp

LEMMA ClosedFields ==
    ASSUME NEW a, IsApp(a), NEW v, IsView(v), NEW x, NEW y
    PROVE  LET b == [a EXCEPT !.view = v, !.shown = x, !.pane = y]
           IN  IsApp(b) /\ b.view = v /\ b.shown = x /\ b.confirm = a.confirm
<1>1. [a EXCEPT !.view = v, !.shown = x, !.pane = y]
          = [[[a EXCEPT !.view = v] EXCEPT !.shown = x] EXCEPT !.pane = y]
  BY DEF IsApp
<1>2. PICK b : b = [a EXCEPT !.view = v]
  OBVIOUS
<1>3. IsApp(b) /\ b.view = v /\ b.confirm = a.confirm
  BY <1>2, ViewFields
<1>4. PICK c : c = [b EXCEPT !.shown = x]
  OBVIOUS
<1>5. IsApp(c) /\ c.view = v /\ c.confirm = a.confirm /\ c.shown = x
  BY <1>3, <1>4 DEF IsApp
<1>6. PICK d : d = [c EXCEPT !.pane = y]
  OBVIOUS
<1>7. IsApp(d) /\ d.view = v /\ d.confirm = a.confirm /\ d.shown = x
  BY <1>5, <1>6 DEF IsApp
<1> QED
  BY <1>1, <1>2, <1>4, <1>6, <1>7

LEMMA AtIsView ==
    \A at, t, n : IsView(At(at, t, n)) /\ At(at, t, n).at = at
  BY DEF IsView, At

LEMMA ListIsView == IsView(ListView) /\ ListView.at = "list"
  BY AtIsView DEF ListView

LEMMA ViewAt ==
    ASSUME NEW v, IsView(v), NEW x
    PROVE  /\ IsView([v EXCEPT !.at = x]) /\ [v EXCEPT !.at = x].at = x
           /\ IsView([v EXCEPT !.from = x]) /\ [v EXCEPT !.from = x].at = v.at
  BY DEF IsView

LEMMA FormFields ==
    ASSUME NEW f, IsForm(f), NEW x
    PROVE  /\ IsForm([f EXCEPT !.field = x])
           /\ [f EXCEPT !.field = x].field = x /\ [f EXCEPT !.field = x].text = f.text
           /\ IsForm([f EXCEPT !.text = x])
           /\ [f EXCEPT !.text = x].field = f.field /\ [f EXCEPT !.text = x].text = x
           /\ IsForm([f EXCEPT !.target = x])
           /\ [f EXCEPT !.target = x].field = f.field /\ [f EXCEPT !.target = x].text = f.text
<1> USE DEF IsForm
<1>1. IsForm([f EXCEPT !.field = x])
      /\ [f EXCEPT !.field = x].field = x /\ [f EXCEPT !.field = x].text = f.text
  OBVIOUS
<1>2. IsForm([f EXCEPT !.text = x])
      /\ [f EXCEPT !.text = x].field = f.field /\ [f EXCEPT !.text = x].text = x
  OBVIOUS
<1>3. IsForm([f EXCEPT !.target = x])
      /\ [f EXCEPT !.target = x].field = f.field /\ [f EXCEPT !.target = x].text = f.text
  OBVIOUS
<1> QED
  BY <1>1, <1>2, <1>3

LEMMA FieldsAre ==
    /\ Fields("createThread") = <<"lifecycle", "tags", "title", "body", "submit">>
    /\ Fields("editThreadBody") = <<"lifecycle", "tags", "title", "body", "submit">>
    /\ Fields("createNode") = <<"type", "body", "submit">>
    /\ Fields("editNodeBody") = <<"type", "body", "submit">>
    /\ Fields("createLink") = <<"relation", "kind", "manual", "submit">>
  BY DEF Fields

LEMMA FieldCounts ==
    /\ Len(Fields("createThread")) = 5 /\ Len(Fields("editThreadBody")) = 5
    /\ Len(Fields("createNode")) = 3 /\ Len(Fields("editNodeBody")) = 3
    /\ Len(Fields("createLink")) = 4
  BY FieldsAre

LEMMA SomeFields ==
    \A at \in Forms : /\ 1 \in 1..Len(Fields(at))
                      /\ Len(Fields(at)) \in 1..Len(Fields(at))
<1>1. \A at \in Forms : Len(Fields(at)) \in {3, 4, 5}
  BY FieldCounts DEF Forms
<1>2. \A n \in {3, 4, 5} : 1 \in 1..n /\ n \in 1..n
  OBVIOUS
<1> QED
  BY <1>1, <1>2

(* Keys of a form do not write over the text of another field.             *)
LEMMA TypedFits ==
    ASSUME SessionInv
    PROVE  /\ app.view.at \in {"createNode", "editNodeBody"} => Typed \subseteq {"body"}
           /\ app.view.at = "createLink" => Typed \subseteq {"manual"}
           /\ Typed # {} => app.view.at \in Forms
<1>1. TextOf(app.view.at, form)
  BY DEF SessionInv, TextInv
<1>2. CASE app.view.at = "createNode"
  <2>1. form.field \in 1..3
    BY <1>1, <1>2, FieldCounts DEF TextOf, Forms
  <2>2. Focus \in {"type", "body", "submit"}
    BY <2>1, <1>2, FieldsAre DEF Focus
  <2> QED
    BY <1>2, <2>2 DEF Typed, Texts, InForm, InEditor, Forms
<1>3. CASE app.view.at = "createLink"
  <2>1. form.field \in 1..4
    BY <1>1, <1>3, FieldCounts DEF TextOf, Forms
  <2>2. Focus \in {"relation", "kind", "manual", "submit"}
    BY <2>1, <1>3, FieldsAre DEF Focus
  <2> QED
    BY <1>3, <2>2 DEF Typed, Texts, InForm, InEditor, Forms
<1>4. CASE app.view.at \notin {"createNode", "createLink"}
  BY <1>4 DEF Typed, InForm, InEditor, Forms
<1> QED
  BY <1>2, <1>3, <1>4

(* The facts about a form that is open and waits for a key.                *)
LEMMA Waiting ==
    ASSUME SessionInv, loop = "poll", app.view.at \in Forms
    PROVE  /\ written # "yes" /\ IsApp(app) /\ IsForm(form) /\ IsView(app.view)
           /\ TextOf(app.view.at, form)
           /\ app.shown \in {0, app.shown}
  BY DEF SessionInv, WrittenInv, TextInv, IsApp

(* A key of a form that stays in it, or in its editor.                     *)
LEMMA HandleInForm ==
    ASSUME SessionInv, NEW a, NEW f, NEW plan, Handle(a, f, plan),
           app.view.at \in Forms, IsApp(a), a.view.at \in Forms, a.shown = app.shown,
           a.confirm => a.view.at \in {"createThread", "createNode", "createLink"} /\ plan = <<>>,
           IsForm(f), TextOf(a.view.at, f), written' = written \/ written' = "no",
           \/ plan = <<>>
           \/ Head(plan).do \in WriteDos
           \/ Returning(plan) /\ f.text = {}
    PROVE  SessionInv'
<1>1. written' # "yes"
  BY Waiting DEF Handle
<1> QED
  BY <1>1, HandleKeeps

LEMMA FormKeys ==
    ASSUME SessionInv, FocusField \/ ChooseTarget \/ EditBody
    PROVE  SessionInv'
<1>1. loop = "poll" /\ app.confirm = FALSE /\ app.view.at \in Forms /\ written' = written
  BY DEF FocusField, ChooseTarget, EditBody, Ready, InForm, Forms, Calm, SessionInv, IsApp
<1>2. IsApp(app) /\ IsForm(form) /\ IsView(app.view) /\ TextOf(app.view.at, form)
  BY <1>1, Waiting
<1>3. CASE FocusField
  <2>1. PICK i : /\ Handle(app, [form EXCEPT !.field = i], <<>>)
                 /\ i \in {(form.field % Len(Fields(app.view.at))) + 1}
                          \cup (IF "mouse" \in Inputs THEN 1 .. Len(Fields(app.view.at)) - 1 ELSE {})
    BY <1>3 DEF FocusField
  <2>2. Len(Fields(app.view.at)) \in {3, 4, 5} /\ form.field \in 1..Len(Fields(app.view.at))
    BY <1>1, <1>2, FieldCounts DEF TextOf, Forms
  <2>3. i \in 1..Len(Fields(app.view.at))
    BY <2>1, <2>2
  <2>4. TextOf(app.view.at, [form EXCEPT !.field = i]) /\ IsForm([form EXCEPT !.field = i])
    BY <1>2, <2>3, FormFields DEF TextOf
  <2> QED
    BY <1>1, <1>2, <2>1, <2>4, HandleInForm
<1>4. CASE ChooseTarget
  <2>1. PICK f, x, i : /\ Handle(app, f, <<>>)
                       /\ \/ f = [form EXCEPT !.manual = x, !.target = 1]
                          \/ f = [form EXCEPT !.target = i]
    BY <1>4 DEF ChooseTarget
  <2>2. IsForm(f) /\ f.text = form.text /\ f.field = form.field
    <3>1. CASE f = [form EXCEPT !.manual = x, !.target = 1]
      BY <1>2, <3>1 DEF IsForm
    <3>2. CASE f = [form EXCEPT !.target = i]
      BY <1>2, <3>2 DEF IsForm
    <3> QED
      BY <2>1, <3>1, <3>2
  <2>3. TextOf(app.view.at, f)
    BY <1>2, <2>2 DEF TextOf
  <2> QED
    BY <1>1, <1>2, <2>1, <2>2, <2>3, HandleInForm
<1>5. CASE EditBody
  <2> DEFINE at == IF app.view.at = "createThread" THEN "editThreadBody" ELSE "editNodeBody"
             view == [app.view EXCEPT !.at = at]
             a == [app EXCEPT !.view = view]
  <2>1. Handle(a, form, <<>>) /\ InForm /\ Focus = "body"
    BY <1>5 DEF EditBody
  <2>2. app.view.at # "createLink"
    <3>1. SUFFICES ASSUME app.view.at = "createLink" PROVE FALSE
      OBVIOUS
    <3>2. form.field \in 1..4
      BY <1>1, <1>2, <3>1, FieldCounts DEF TextOf
    <3> QED
      BY <2>1, <3>1, <3>2, FieldsAre DEF Focus
  <2>3. at \in Forms /\ TextOf(at, form)
    BY <1>1, <1>2, <2>1, <2>2, FieldCounts DEF TextOf, InForm, Forms
  <2> HIDE DEF at
  <2>4. IsView(view) /\ view.at = at
    BY <1>2, ViewAt
  <2> HIDE DEF view
  <2>5. IsApp(a) /\ a.view = view /\ a.shown = app.shown /\ a.confirm = FALSE
    BY <1>1, <1>2, <2>4, ViewFields
  <2> HIDE DEF a
  <2> QED
    BY <1>1, <1>2, <2>1, <2>3, <2>4, <2>5, HandleInForm
<1> QED
  BY <1>3, <1>4, <1>5

LEMMA TypeKeys ==
    ASSUME SessionInv, Type
    PROVE  SessionInv'
<1>1. loop = "poll" /\ app.confirm = FALSE /\ app.view.at \in Forms /\ written' = "no"
  BY TypedFits DEF Type, Ready, SessionInv, IsApp
<1>2. IsApp(app) /\ IsForm(form) /\ TextOf(app.view.at, form)
  BY <1>1, Waiting
<1>3. PICK text, bad : /\ Handle(app, [form EXCEPT !.text = text, !.badTags = bad], <<>>)
                       /\ text \in {form.text \cup Typed, form.text \ Typed}
  BY DEF Type
<1>4. PICK f : f = [form EXCEPT !.text = text, !.badTags = bad]
  OBVIOUS
<1>5. IsForm(f) /\ f.field = form.field /\ f.text = text
  BY <1>2, <1>4 DEF IsForm
<1>6. TextOf(app.view.at, f)
  BY <1>2, <1>3, <1>5, TypedFits DEF TextOf
<1>7. Handle(app, f, <<>>)
  BY <1>3, <1>4
<1> QED
  BY <1>1, <1>2, <1>5, <1>6, <1>7, HandleInForm

LEMMA BeginKeeps ==
    ASSUME SessionInv, Begin
    PROVE  SessionInv'
<1>1. ~app.confirm /\ written' = "no" /\ IsForm(EmptyForm) /\ EmptyForm.text = {}
      /\ EmptyForm.field = 1
  BY DEF Begin, Ready, EmptyForm, IsForm
<1>2. PICK view :
        /\ Handle([Pressed EXCEPT !.view = view], EmptyForm, <<>>)
        /\ \/ \E at \in {"createThread", "createNode"} : \E t : view = At(at, t, 0)
           \/ \E t, n : \E x : view = [At("createLink", t, n) EXCEPT !.from = x]
  BY DEF Begin
<1>3. IsView(view) /\ view.at \in {"createThread", "createNode", "createLink"}
  <2>1. CASE \E at \in {"createThread", "createNode"} : \E t : view = At(at, t, 0)
    BY <2>1, AtIsView
  <2>2. CASE \E t, n : \E x : view = [At("createLink", t, n) EXCEPT !.from = x]
    BY <2>2 DEF IsView, At
  <2> QED
    BY <1>2, <2>1, <2>2
<1>4. PICK a : a = [Pressed EXCEPT !.view = view]
  OBVIOUS
<1>5. IsApp(a) /\ a.view = view /\ a.shown = app.shown /\ a.confirm = app.confirm
  <2>1. IsApp(Pressed) /\ Pressed.shown = app.shown /\ Pressed.confirm = app.confirm
    BY PressedSame DEF Same
  <2> QED
    BY <1>3, <1>4, <2>1 DEF IsApp
<1>6. TextOf(view.at, EmptyForm)
  <2>1. view.at \in Forms => 1 \in 1..Len(Fields(view.at))
    BY SomeFields
  <2> QED
    BY <1>1, <1>3, <2>1 DEF TextOf
<1>7. Handle(a, EmptyForm, <<>>)
  BY <1>2, <1>4
<1> QED
  BY <1>1, <1>3, <1>5, <1>6, <1>7, HandleKeeps

LEMMA SubmitKeeps ==
    ASSUME SessionInv, Submit
    PROVE  SessionInv'
<1>1. /\ loop = "poll" /\ app.confirm = FALSE /\ app.view.at \in Forms /\ written' = written
      /\ app.view.at \in {"createThread", "createNode", "createLink"}
  BY DEF Submit, Ready, InForm, Forms, Calm, SessionInv, IsApp
<1>2. IsApp(app) /\ IsForm(form) /\ TextOf(app.view.at, form)
  BY <1>1, Waiting
<1>3. PICK f, plan : /\ Handle(app, f, plan)
                     /\ f = [form EXCEPT !.field = Len(Fields(app.view.at))]
                     /\ plan = <<>> \/ plan \in Writing
  BY DEF Submit
<1>4. IsForm(f) /\ f.text = form.text /\ f.field = Len(Fields(app.view.at))
  BY <1>2, <1>3 DEF IsForm
<1>5. TextOf(app.view.at, f)
  <2>1. f.field \in 1..Len(Fields(app.view.at))
    BY <1>1, <1>4, SomeFields
  <2> QED
    BY <1>2, <1>4, <2>1 DEF TextOf
<1>6. plan \in Writing => Head(plan).do \in WriteDos
  <2>1. CASE app.view.at = "createThread"
    BY <2>1 DEF Writing, WriteDos, Step
  <2>2. CASE app.view.at = "createNode"
    BY <2>2 DEF Writing, WriteDos, Step
  <2>3. CASE app.view.at = "createLink"
    BY <2>3 DEF Writing, WriteDos, Step
  <2> QED
    BY <1>1, <2>1, <2>2, <2>3
<1> QED
  BY <1>1, <1>2, <1>3, <1>4, <1>5, <1>6, HandleInForm

(* Out of a form by its way back, with the text given up or empty.         *)
LEMMA LeavingForm ==
    ASSUME SessionInv, loop = "poll", NEW a, NEW f,
           IsApp(a), a.view = app.view, a.shown = app.shown, a.confirm = FALSE,
           IsForm(f), TextOf(app.view.at, f), app.view.at \in Forms, written' = written,
           \/ app.view.at = "createThread" /\ Handle([a EXCEPT !.view = ListView], f, <<>>)
           \/ app.view.at = "createNode" /\ f.text = {} /\ Handle(a, f, OpenThread(app.view.t, 0))
           \/ app.view.at = "createLink" /\ f.text = {} /\ Handle(a, f, ReturnFromLink(app.view))
    PROVE  SessionInv'
<1>1. CASE app.view.at = "createThread" /\ Handle([a EXCEPT !.view = ListView], f, <<>>)
  <2>1. PICK b : b = [a EXCEPT !.view = ListView]
    OBVIOUS
  <2>2. IsApp(b) /\ b.view = ListView /\ b.shown = app.shown /\ b.confirm = FALSE
    BY <2>1, ListIsView DEF IsApp
  <2>3. Handle(b, f, <<>>)
    BY <1>1, <2>1
  <2>4. b.view.at \notin Forms /\ TextOf(b.view.at, f)
    BY <2>2, ListIsView DEF Forms, TextOf
  <2> QED
    BY <2>2, <2>3, <2>4, HandleKeeps
<1>2. CASE app.view.at = "createNode" /\ f.text = {} /\ Handle(a, f, OpenThread(app.view.t, 0))
  BY <1>2, OpensReturn, HandleInForm
<1>3. CASE app.view.at = "createLink" /\ f.text = {} /\ Handle(a, f, ReturnFromLink(app.view))
  <2>1. Returning(ReturnFromLink(app.view))
    BY OpensReturn DEF ReturnFromLink
  <2> QED
    BY <1>3, <2>1, HandleInForm
<1> QED
  BY <1>1, <1>2, <1>3

LEMMA DiscardKeeps ==
    ASSUME SessionInv, Discard
    PROVE  SessionInv'
<1>1. loop = "poll" /\ app.confirm /\ written' = written
  BY DEF Discard
<1>2. app.view.at \in {"createThread", "createNode", "createLink"} /\ app.view.at \in Forms
  BY <1>1 DEF SessionInv, ConfirmInv, InForm, Forms
<1>3. IsApp(app) /\ IsForm(form) /\ TextOf(app.view.at, form)
  BY <1>1, <1>2, Waiting
<1>4. PICK a : a = [app EXCEPT !.confirm = FALSE]
  OBVIOUS
<1>5. IsApp(a) /\ a.view = app.view /\ a.shown = app.shown /\ a.confirm = FALSE
  BY <1>3, <1>4 DEF IsApp
<1>6. CASE app.view.at = "createThread"
  <2>1. PICK f : /\ f = [form EXCEPT !.text = {}, !.badTags = FALSE]
                 /\ Handle([a EXCEPT !.view = ListView], f, <<>>)
    BY <1>4, <1>6 DEF Discard
  <2>2. IsForm(f) /\ f.text = {} /\ f.field = form.field
    BY <1>3, <2>1 DEF IsForm
  <2>3. TextOf(app.view.at, f)
    BY <1>3, <2>2 DEF TextOf
  <2> QED
    BY <1>1, <1>2, <1>5, <1>6, <2>1, <2>2, <2>3, LeavingForm
<1>7. CASE app.view.at = "createNode"
  <2>1. PICK f : /\ f = [form EXCEPT !.text = form.text \ {"body"}]
                 /\ Handle(a, f, OpenThread(app.view.t, 0))
    BY <1>4, <1>7 DEF Discard
  <2>2. IsForm(f) /\ f.text = form.text \ {"body"} /\ f.field = form.field
    BY <1>3, <2>1 DEF IsForm
  <2>3. TextOf(app.view.at, f) /\ f.text = {}
    BY <1>3, <1>7, <2>2 DEF TextOf
  <2> QED
    BY <1>1, <1>2, <1>5, <1>7, <2>1, <2>2, <2>3, LeavingForm
<1>8. CASE app.view.at = "createLink"
  <2>1. PICK f : /\ f = [form EXCEPT !.text = form.text \ {"manual"}]
                 /\ Handle(a, f, ReturnFromLink(app.view))
    BY <1>4, <1>8 DEF Discard
  <2>2. IsForm(f) /\ f.text = form.text \ {"manual"} /\ f.field = form.field
    BY <1>3, <2>1 DEF IsForm
  <2>3. TextOf(app.view.at, f) /\ f.text = {}
    BY <1>3, <1>8, <2>2 DEF TextOf
  <2> QED
    BY <1>1, <1>2, <1>5, <1>8, <2>1, <2>2, <2>3, LeavingForm
<1> QED
  BY <1>2, <1>6, <1>7, <1>8

LEMMA EscKeeps ==
    ASSUME SessionInv, EscKey
    PROVE  SessionInv'
<1>1. loop = "poll" /\ app.confirm = FALSE /\ written' = written
  BY DEF EscKey, Key, Ready, SessionInv, IsApp
<1>2. IsApp(app) /\ IsForm(form) /\ IsView(app.view) /\ TextOf(app.view.at, form)
  BY DEF SessionInv, TextInv, IsApp
<1>3. IsApp(Pressed) /\ Same(Pressed, app) /\ Pressed.confirm = FALSE
  BY <1>1, PressedSame DEF Same
<1>4. CASE InList /\ Handle(Pressed, form, <<>>)
  BY <1>1, <1>3, <1>4, NotForms, HandleSame
<1>5. CASE InBar /\ Handle([Pressed EXCEPT !.bar = FALSE, !.draft = {}], form, <<>>)
  <2>1. Same([Pressed EXCEPT !.bar = FALSE, !.draft = {}], app)
    BY <1>3, SameBar, SameTwice
  <2> QED
    BY <1>1, <1>5, <2>1, NotForms, HandleSame
<1>6. CASE InThread
           /\ Handle([Pressed EXCEPT !.view = ListView, !.shown = 0, !.pane = 0], form, <<>>)
  <2>1. PICK a : a = [Pressed EXCEPT !.view = ListView, !.shown = 0, !.pane = 0]
    OBVIOUS
  <2>2. IsApp(a) /\ a.view = ListView /\ a.shown = 0 /\ a.confirm = FALSE
    BY <1>3, <2>1, ListIsView DEF IsApp
  <2>3. Handle(a, form, <<>>)
    BY <1>6, <2>1
  <2>4. a.view.at \notin Forms /\ TextOf(a.view.at, form)
    BY <2>2, ListIsView DEF Forms, TextOf
  <2> QED
    BY <1>2, <2>2, <2>3, <2>4, HandleKeeps
<1>7. CASE InNode /\ Handle(Pressed, form, OpenThread(app.view.t, app.view.n))
  BY <1>1, <1>3, <1>7, NotForms, HandleSame
<1>8. CASE InEditor
           /\ LET at == IF app.view.at = "editThreadBody" THEN "createThread" ELSE "createNode" IN
              Handle([app EXCEPT !.view = [@ EXCEPT !.at = at]],
                     [form EXCEPT !.field = FieldNo(at, "body")], <<>>)
  <2> DEFINE at == IF app.view.at = "editThreadBody" THEN "createThread" ELSE "createNode"
  <2>1. PICK view : view = [app.view EXCEPT !.at = at]
    OBVIOUS
  <2>2. PICK a : a = [app EXCEPT !.view = view]
    OBVIOUS
  <2>3. PICK f : f = [form EXCEPT !.field = FieldNo(at, "body")]
    OBVIOUS
  <2>4. Handle(a, f, <<>>)
    BY <1>8, <2>1, <2>2, <2>3
  <2>5. /\ at \in {"createThread", "createNode"} /\ at \in Forms /\ app.view.at \in Forms
        /\ at = "createNode" => form.text \subseteq {"body"}
        /\ at # "createLink"
    BY <1>2, <1>8 DEF InEditor, Forms, TextOf
  <2> HIDE DEF at
  <2>6. FieldNo(at, "body") \in 1..Len(Fields(at))
    <3>1. \/ Fields(at)[4] = "body" /\ 4 \in 1..Len(Fields(at))
          \/ Fields(at)[2] = "body" /\ 2 \in 1..Len(Fields(at))
      BY <2>5, FieldsAre
    <3> QED
      BY <3>1 DEF FieldNo
  <2>7. IsView(view) /\ view.at = at
    BY <1>2, <2>1 DEF IsView
  <2>8. IsApp(a) /\ a.view = view /\ a.shown = app.shown /\ a.confirm = FALSE
    BY <1>1, <1>2, <2>2, <2>7 DEF IsApp
  <2>9. IsForm(f) /\ f.text = form.text /\ f.field = FieldNo(at, "body")
    BY <1>2, <2>3 DEF IsForm
  <2>10. TextOf(at, f)
    BY <2>5, <2>6, <2>9 DEF TextOf
  <2> QED
    BY <1>1, <2>4, <2>5, <2>7, <2>8, <2>9, <2>10, HandleInForm
<1>9. CASE InForm /\ HasUnsaved /\ Handle([app EXCEPT !.confirm = TRUE], form, <<>>)
  <2>1. PICK a : a = [app EXCEPT !.confirm = TRUE]
    OBVIOUS
  <2>2. IsApp(a) /\ a.view = app.view /\ a.shown = app.shown
    BY <1>2, <2>1 DEF IsApp
  <2>3. Handle(a, form, <<>>)
    BY <1>9, <2>1
  <2>4. app.view.at \in {"createThread", "createNode", "createLink"} /\ app.view.at \in Forms
    BY <1>9 DEF InForm, Forms
  <2> QED
    BY <1>1, <1>2, <2>2, <2>3, <2>4, HandleInForm
<1>10. CASE InForm /\ ~HasUnsaved /\ Leave(app)
  <2>1. app.view.at \in {"createThread", "createNode", "createLink"} /\ app.view.at \in Forms
    BY <1>10 DEF InForm, Forms
  <2>2. form.text = {}
    BY <1>2, <1>10, <2>1 DEF HasUnsaved, TextOf
  <2>3. \/ /\ app.view.at = "createThread"
           /\ Handle([app EXCEPT !.view = ListView], form, <<>>)
        \/ app.view.at = "createNode" /\ Handle(app, form, OpenThread(app.view.t, 0))
        \/ app.view.at = "createLink" /\ Handle(app, form, ReturnFromLink(app.view))
    BY <1>10, <2>1 DEF Leave
  <2> QED
    BY <1>1, <1>2, <2>1, <2>2, <2>3, LeavingForm
<1> QED
  BY <1>4, <1>5, <1>6, <1>7, <1>8, <1>9, <1>10 DEF EscKey

LEMMA OverlayKeys ==
    ASSUME SessionInv, KeepForm \/ DismissError
    PROVE  SessionInv'
<1>1. loop = "poll" /\ written' = written /\ IsApp(app) /\ IsForm(form)
      /\ TextOf(app.view.at, form)
  BY DEF KeepForm, DismissError, Calm, SessionInv, TextInv
<1>2. CASE KeepForm
  <2>1. PICK a : a = [app EXCEPT !.confirm = FALSE]
    OBVIOUS
  <2>2. IsApp(a) /\ a.view = app.view /\ a.shown = app.shown /\ a.confirm = FALSE
    BY <1>1, <2>1 DEF IsApp
  <2>3. Handle(a, form, <<>>)
    BY <1>2, <2>1 DEF KeepForm
  <2>4. app.view.at \in Forms
    BY <1>2 DEF KeepForm, SessionInv, ConfirmInv, InForm, Forms
  <2> QED
    BY <1>1, <2>2, <2>3, <2>4, HandleInForm
<1>3. CASE DismissError
  <2>1. PICK a : a = [app EXCEPT !.error = FALSE]
    OBVIOUS
  <2>2. IsApp(a) /\ a.view = app.view /\ a.shown = app.shown /\ a.confirm = app.confirm
        /\ ~app.confirm
    BY <1>1, <1>3, <2>1 DEF IsApp, DismissError
  <2>3. Handle(a, form, <<>>)
    BY <1>3, <2>1 DEF DismissError
  <2>4. CASE app.view.at \in Forms
    BY <1>1, <2>2, <2>3, <2>4, HandleInForm
  <2>5. CASE app.view.at \notin Forms
    BY <2>2, <2>3, <2>5, HandleSame DEF Same
  <2> QED
    BY <2>4, <2>5
<1> QED
  BY <1>2, <1>3

LEMMA QuitKeeps ==
    ASSUME SessionInv, Quit
    PROVE  SessionInv'
<1>1. loop = "poll" /\ loop' = "off" /\ ~app.confirm /\ todo = <<>>
      /\ UNCHANGED <<commits, app, form, todo, written>>
  BY DEF Quit, Key, Ready, SessionInv, LoopInv, repo
<1>2. ShownInv' /\ TextInv'
  BY <1>1 DEF SessionInv, ShownInv, TextInv
<1>3. LoopInv' /\ RefreshInv' /\ HandlerInv' /\ WrittenInv' /\ ConfirmInv' /\ LitInv'
  BY <1>1 DEF SessionInv, LoopInv, Loops, RefreshInv, HandlerInv, WrittenInv, ConfirmInv, LitInv
<1> QED
  BY <1>1, <1>2, <1>3 DEF SessionInv

LEMMA UserKeeps ==
    ASSUME SessionInv, User
    PROVE  SessionInv'
<1>1. CASE MoveInList \/ EnterThread \/ RefreshKey \/ ClickRow \/ ClickHeader
  BY <1>1, ListKeys
<1>2. CASE OpenBar \/ ToggleBar \/ CloseBar
  BY <1>2, BarKeys
<1>3. CASE \/ MoveInTree \/ EnterNode \/ ClickNode \/ RereadKey
           \/ SelectKey \/ EditKey \/ MarkKey \/ ClickBack
  BY <1>3, DetailKeys
<1>4. CASE FocusField \/ ChooseTarget \/ EditBody
  BY <1>4, FormKeys
<1>5. CASE Begin \/ Type \/ Submit
  BY <1>5, BeginKeeps, TypeKeys, SubmitKeeps
<1>6. CASE EscKey \/ Discard \/ KeepForm \/ DismissError \/ Quit
  BY <1>6, EscKeeps, DiscardKeeps, OverlayKeys, QuitKeeps
<1> QED
  BY <1>1, <1>2, <1>3, <1>4, <1>5, <1>6 DEF User

-----------------------------------------------------------------------------
(* Git calls.                                                              *)

LEMMA Busy ==
    ASSUME SessionInv, todo # <<>>
    PROVE  /\ loop \in {"start", "restore", "ticking", "event"}
           /\ app.confirm = FALSE /\ IsApp(app) /\ IsForm(form)
  BY DEF SessionInv, LoopInv, Loops, ConfirmInv, IsApp

LEMMA AfterIs ==
    /\ loop \in {"start", "restore", "event"} => AfterHandler = "draw"
    /\ loop = "ticking" => AfterHandler = "poll"
  BY DEF AfterHandler

(* What a refresh can be about to do.                                      *)
LEMMA RefreshHead ==
    ASSUME SessionInv, loop = "ticking", todo # <<>>
    PROVE  /\ Head(todo).do \in ListDos \cup {"openTip", "openRead", "openNode"}
           /\ Head(todo).do = "openTip" =>
                app.view.at = "thread" /\ \E t : Tail(todo) = <<Step("openRead", t, frame.lit)>>
           /\ Head(todo).do = "openRead" => Tail(todo) = <<>> /\ Head(todo).n = frame.lit
           /\ Head(todo).do = "openNode" => Tail(todo) = <<>>
           /\ Head(todo).do \in ListDos => app.view.at = "list" /\ Only(Tail(todo), ListDos)
<1>1. PICK t, n :
        \/ app.view.at = "thread" /\ todo = OpenThread(t, frame.lit)
        \/ app.view.at = "thread" /\ todo = <<Step("openRead", t, frame.lit)>>
        \/ todo = OpenNode(t, n)
        \/ app.view.at = "list" /\ Only(todo, ListDos)
  BY DEF SessionInv, RefreshInv
<1>2. CASE app.view.at = "thread" /\ todo = OpenThread(t, frame.lit)
  <2>1. Head(todo).do = "openTip" /\ Tail(todo) = <<Step("openRead", t, frame.lit)>>
    BY <1>2, OpenThreadTail DEF Step
  <2> QED
    BY <1>2, <2>1 DEF ListDos
<1>3. CASE app.view.at = "thread" /\ todo = <<Step("openRead", t, frame.lit)>>
  <2>1. Head(todo).do = "openRead" /\ Tail(todo) = <<>> /\ Head(todo).n = frame.lit
    BY <1>3, OpenThreadTail DEF Step
  <2> QED
    BY <2>1 DEF ListDos
<1>4. CASE todo = OpenNode(t, n)
  <2>1. Head(todo).do = "openNode" /\ Tail(todo) = <<>>
    BY <1>4, OpenThreadTail DEF Step
  <2> QED
    BY <2>1 DEF ListDos
<1>5. CASE app.view.at = "list" /\ Only(todo, ListDos)
  <2>1. Head(todo).do \in ListDos /\ Only(Tail(todo), ListDos)
    BY <1>5, TailOnly
  <2> QED
    BY <1>5, <2>1 DEF ListDos
<1> QED
  BY <1>1, <1>2, <1>3, <1>4, <1>5

(* What a handler of a form can be about to do.                            *)
LEMMA HandlerHead ==
    ASSUME SessionInv, app.view.at \in Forms, todo # <<>>
    PROVE  /\ loop = "event"
           /\ Head(todo).do \in WriteDos \cup ReturnDos
           /\ Head(todo).do \in ReturnDos => Returning(todo) /\ (written = "yes" \/ form.text = {})
           /\ Head(todo).do \in ReturnDos \ {"openRead", "openNode"} =>
                Tail(todo) # <<>> /\ Returning(Tail(todo))
<1>1. loop = "event"
  BY Busy DEF SessionInv, LoopInv
<1>2. CASE Head(todo).do \in WriteDos /\ written # "yes"
  BY <1>1, <1>2 DEF WriteDos, ReturnDos
<1>3. CASE Returning(todo) /\ (written = "yes" \/ form.text = {})
  <2>1. Head(todo).do \in ReturnDos
    BY <1>3, ReturningTail
  <2> QED
    BY <1>1, <1>3, <2>1, ReturningTail
<1> QED
  BY <1>1, <1>2, <1>3 DEF SessionInv, HandlerInv

(* A call that leaves the view as it is, and the rest of its handler.      *)
LEMMA CallKeeps ==
    ASSUME SessionInv, todo # <<>>, NEW rest, Continue(rest),
           Same(app', app), UNCHANGED <<commits, form, frame, written>>,
           Head(todo).do \notin {"openRead", "openNode"} \cup WriteDos,
           rest = Tail(todo) \/ (rest = <<>> /\ Head(todo).do = "unlessSame")
    PROVE  SessionInv'
<1>1. /\ todo' = rest /\ loop' = IF rest = <<>> THEN AfterHandler ELSE loop
      /\ loop \in {"start", "restore", "ticking", "event"} /\ app.confirm = FALSE
      /\ IsApp(app') /\ app'.view = app.view /\ app'.shown = app.shown /\ app'.confirm = FALSE
      /\ IsForm(form')
  BY Busy DEF Continue, Same
<1>2. ShownInv' /\ TextInv' /\ ConfirmInv'
  BY <1>1 DEF SessionInv, ShownInv, TextInv, ConfirmInv
<1>3. LoopInv'
  BY <1>1, AfterIs DEF SessionInv, LoopInv, Loops
<1>4. ASSUME loop' = "ticking" PROVE RefreshInv'
  <2>1. loop = "ticking" /\ rest = Tail(todo)
    BY <1>1, <1>4, AfterIs
  <2>2. Head(todo).do \in ListDos \cup {"openTip"}
    BY <2>1, RefreshHead
  <2> QED
    BY <1>1, <2>1, <2>2, RefreshHead DEF RefreshInv
<1>5. ASSUME app.view.at \in Forms
      PROVE  loop' = "event" /\ Returning(todo') /\ (written = "yes" \/ form.text = {})
  <2>1. loop = "event" /\ Head(todo).do \in ReturnDos \ {"openRead", "openNode"}
    BY <1>5, HandlerHead
  <2>2. rest = Tail(todo)
    BY <2>1 DEF ReturnDos
  <2> QED
    BY <1>1, <1>5, <2>1, <2>2, HandlerHead
<1>6. HandlerInv' /\ WrittenInv'
  BY <1>1, <1>5 DEF HandlerInv, WrittenInv
<1>7. LitInv'
  <2>1. loop' # "tick"
    BY <1>1, AfterIs
  <2>2. ASSUME loop' = "poll" PROVE app.view.at \notin {"thread", "createLink"}
    <3>1. loop = "ticking" /\ rest = <<>>
      BY <1>1, <2>2, AfterIs
    <3>2. Head(todo).do \in ListDos
      <4>1. Head(todo).do \in ListDos \cup {"openTip"}
        BY <1>1, <3>1, RefreshHead
      <4>2. \A t : <<Step("openRead", t, frame.lit)>> # <<>>
        OBVIOUS
      <4>3. Head(todo).do = "openTip" => Tail(todo) # <<>>
        BY <3>1, <4>2, RefreshHead
      <4>4. Head(todo).do = "openTip" => rest = Tail(todo)
        OBVIOUS
      <4> QED
        BY <3>1, <4>1, <4>3, <4>4
    <3> QED
      BY <3>1, <3>2, RefreshHead
  <2> QED
    BY <1>1, <2>1, <2>2 DEF LitInv
<1> QED
  BY <1>1, <1>2, <1>3, <1>4, <1>6, <1>7 DEF SessionInv, RefreshInv

LEMMA FailKeeps ==
    ASSUME SessionInv, todo # <<>>, Fail, UNCHANGED <<commits, form, frame>>
    PROVE  SessionInv'
<1>1. /\ todo' = <<>> /\ loop' \in {"off", "draw"} /\ written' # "yes"
      /\ app' = [app EXCEPT !.error = (loop = "event")]
  BY Busy DEF Fail
<1>2. /\ IsApp(app') /\ app'.view = app.view /\ app'.shown = app.shown /\ app'.confirm = FALSE
      /\ IsForm(form')
  <2>1. PICK error : app' = [app EXCEPT !.error = error]
    BY <1>1
  <2> QED
    BY <2>1, Busy DEF IsApp
<1>3. ShownInv' /\ TextInv' /\ ConfirmInv'
  BY <1>1, <1>2 DEF SessionInv, ShownInv, TextInv, ConfirmInv
<1>4. LoopInv' /\ RefreshInv' /\ HandlerInv' /\ WrittenInv' /\ LitInv'
  BY <1>1 DEF LoopInv, Loops, RefreshInv, HandlerInv, WrittenInv, LitInv
<1> QED
  BY <1>2, <1>3, <1>4 DEF SessionInv

LEMMA RestoreKeeps ==
    ASSUME SessionInv, Restore
    PROVE  SessionInv'
<1>1. todo # <<>> /\ Head(todo).do = "restore" /\ UNCHANGED <<commits, form, written>>
  BY DEF Restore, repo
<1>2. IsApp(app) /\ IsForm(form) /\ app.confirm = FALSE
  BY <1>1, Busy
<1>3. app.view.at \notin Forms
  BY <1>1, HandlerHead DEF WriteDos, ReturnDos
<1>4. loop' \in {"draw", "start", "restore"} /\ (loop' = "draw" => todo' = <<>>)
  BY DEF Restore
<1>5. PICK x : app' = [app EXCEPT !.sort = saved.sort, !.filter = saved.filter, !.sel = x]
        \/ \E y : app' = [[app EXCEPT !.sort = saved.sort, !.filter = saved.filter, !.sel = x]
                              EXCEPT !.sel = y]
  BY DEF Restore
<1>6. PICK b : b = [app EXCEPT !.sort = saved.sort, !.filter = saved.filter, !.sel = x]
  OBVIOUS
<1>7. Same(b, app)
  BY <1>2, <1>6 DEF Same, IsApp
<1>8. Same(app', app)
  <2>1. app' = b \/ \E y : app' = [b EXCEPT !.sel = y]
    BY <1>5, <1>6
  <2> QED
    BY <1>7, <2>1, SameThenSel
<1>9. /\ IsApp(app') /\ app'.view = app.view /\ app'.shown = app.shown /\ app'.confirm = FALSE
      /\ IsForm(form')
  BY <1>1, <1>2, <1>8 DEF Same
<1>10. ShownInv' /\ TextInv' /\ ConfirmInv'
  BY <1>1, <1>9 DEF SessionInv, ShownInv, TextInv, ConfirmInv
<1>11. LoopInv' /\ RefreshInv' /\ HandlerInv' /\ WrittenInv' /\ LitInv'
  BY <1>3, <1>4, <1>9 DEF LoopInv, Loops, RefreshInv, HandlerInv, WrittenInv, LitInv
<1> QED
  BY <1>9, <1>10, <1>11 DEF SessionInv

LEMMA ReadsKeep ==
    ASSUME SessionInv,
           \/ RestoreNode \/ ListAuth \/ ListPub \/ TipsPub \/ KeepRows \/ KeepTips
           \/ UnlessSame \/ ShowList \/ SelectNew \/ OpenTip
    PROVE  SessionInv'
<1>1. todo # <<>> /\ UNCHANGED <<commits, form, frame, written>>
  BY DEF RestoreNode, ListAuth, ListPub, TipsPub, KeepRows, KeepTips, UnlessSame, ShowList,
         SelectNew, OpenTip, Doing, Keep, repo
<1>2. Head(todo).do \notin {"openRead", "openNode"} \cup WriteDos
  BY DEF RestoreNode, ListAuth, ListPub, TipsPub, KeepRows, KeepTips, UnlessSame, ShowList,
         SelectNew, OpenTip, Doing, WriteDos
<1>3. PICK rest : /\ Continue(rest)
                  /\ rest = Tail(todo) \/ (rest = <<>> /\ Head(todo).do = "unlessSame")
  BY DEF RestoreNode, ListAuth, ListPub, TipsPub, KeepRows, KeepTips, UnlessSame, ShowList,
         SelectNew, OpenTip, Doing, Keep
<1>4. IsApp(app) /\ Same(app, app)
  BY DEF SessionInv, Same
<1>5. Same(app', app)
  <2>1. CASE ListAuth \/ TipsPub \/ UnlessSame \/ OpenTip
    <3>1. app' = app
      BY <2>1 DEF ListAuth, TipsPub, UnlessSame, OpenTip, Keep
    <3> QED
      BY <1>4, <3>1
  <2>2. CASE RestoreNode \/ ListPub \/ KeepRows \/ KeepTips \/ SelectNew
    <3>1. PICK x : \/ app' = [app EXCEPT !.nodeSel = x]
                   \/ app' = [app EXCEPT !.cache = x]
                   \/ app' = [app EXCEPT !.rows = x]
                   \/ app' = [app EXCEPT !.tips = x]
                   \/ app' = [app EXCEPT !.sel = x]
      BY <2>2 DEF RestoreNode, ListPub, KeepRows, KeepTips, SelectNew, Keep
    <3> QED
      BY <1>4, <3>1 DEF Same, IsApp
  <2>3. CASE ShowList
    <3>1. PICK b : b = [app EXCEPT !.rows = work.rows, !.tips = work.tips]
      OBVIOUS
    <3>2. \E y : app' = [b EXCEPT !.sel = y]
      BY <2>3, <3>1 DEF ShowList, Keep
    <3>3. Same(b, app)
      BY <1>4, <3>1 DEF Same, IsApp
    <3> QED
      BY <3>2, <3>3, SameThenSel
  <2> QED
    BY <2>1, <2>2, <2>3
<1> QED
  BY <1>1, <1>2, <1>3, <1>5, CallKeeps

(* The call that opens a thread or a node, which leaves a form for good.   *)
LEMMA OpenKeeps ==
    ASSUME SessionInv, todo # <<>>, Continue(Tail(todo)),
           UNCHANGED <<commits, form, frame, written>>,
           Head(todo).do \in {"openRead", "openNode"},
           IsApp(app'), app'.confirm = FALSE, app'.shown \in {app.shown} \cup DOMAIN commits,
           app'.view.at \in {"thread", "node"},
           app'.view.at = "thread" =>
               Head(todo).do = "openRead" /\ SelectedNode(app)' \in {0, Head(todo).n}
    PROVE  SessionInv'
<1>1. /\ todo' = Tail(todo) /\ loop' = IF todo' = <<>> THEN AfterHandler ELSE loop
      /\ loop \in {"start", "restore", "ticking", "event"} /\ IsForm(form')
      /\ app'.view.at \notin Forms /\ app'.view.at # "createLink"
  BY Busy DEF Continue, Forms
<1>2. loop = "ticking" => todo' = <<>> /\ (Head(todo).do = "openRead" => Head(todo).n = frame.lit)
  BY <1>1, RefreshHead DEF ListDos
<1>3. ShownInv' /\ TextInv' /\ ConfirmInv'
  BY <1>1 DEF SessionInv, ShownInv, TextInv, TextOf, ConfirmInv, Forms
<1>4. LoopInv' /\ RefreshInv' /\ HandlerInv' /\ WrittenInv'
  BY <1>1, <1>2, AfterIs DEF LoopInv, Loops, RefreshInv, HandlerInv, WrittenInv
<1>5. LitInv'
  <2>1. loop' # "tick"
    BY <1>1, AfterIs
  <2>2. loop' = "poll" => loop = "ticking"
    BY <1>1, AfterIs
  <2> QED
    BY <1>1, <1>2, <2>1, <2>2 DEF LitInv
<1> QED
  BY <1>1, <1>3, <1>4, <1>5 DEF SessionInv

LEMMA OpenReadKeeps ==
    ASSUME SessionInv, OpenRead
    PROVE  SessionInv'
<1>1. todo # <<>> /\ Head(todo).do = "openRead" /\ UNCHANGED <<commits, form, frame>>
  BY DEF OpenRead, Doing, repo
<1>2. IsApp(app) /\ app.confirm = FALSE
  BY <1>1, Busy
<1>3. CASE Fail
  BY <1>1, <1>3, FailKeeps
<1>4. ASSUME NEW t, NEW c, NEW n, NEW tip, NEW w, Readable(c), n = Head(todo).n,
             Keep([app EXCEPT !.view = At("thread", t, 0), !.shown = c, !.pane = 0,
                              !.nodeSel = RowOfNode(c, n), !.tip = tip],
                  w, Tail(todo))
      PROVE  SessionInv'
  <2>1. PICK row : row = RowOfNode(c, n)
    OBVIOUS
  <2>2. PICK v : v = At("thread", t, 0)
    OBVIOUS
  <2>3. app' = [app EXCEPT !.view = v, !.shown = c, !.pane = 0, !.nodeSel = row, !.tip = tip]
    BY <1>4, <2>1, <2>2 DEF Keep
  <2>4. IsView(v) /\ v.at = "thread"
    BY <2>2, AtIsView
  <2>5. /\ IsApp(app') /\ app'.confirm = FALSE /\ app'.shown = c /\ app'.view = v
        /\ app'.nodeSel = row
    BY <1>2, <2>3, <2>4 DEF IsApp
  <2>6. c \in DOMAIN commits
    BY <1>4 DEF Readable
  <2>7. Continue(Tail(todo)) /\ written' = written
    BY <1>4 DEF Keep
  <2>8. SelectedNode(app)' \in {0, n}
    <3>1. PICK a : a = app'
      OBVIOUS
    <3>2. SelectedNode(a) \in {0, n}
      BY <2>1, <2>5, <3>1, RowSelects
    <3>3. NodesOf(c)' = NodesOf(c)
      BY <1>1 DEF NodesOf
    <3> QED
      BY <2>5, <3>1, <3>2, <3>3 DEF SelectedNode
  <2> QED
    BY <1>1, <1>4, <2>4, <2>5, <2>6, <2>7, <2>8, OpenKeeps
<1> QED
  BY <1>3, <1>4 DEF OpenRead

LEMMA OpenTheNodeKeeps ==
    ASSUME SessionInv, OpenTheNode
    PROVE  SessionInv'
<1>1. todo # <<>> /\ Head(todo).do = "openNode" /\ UNCHANGED <<commits, form, frame>>
  BY DEF OpenTheNode, Doing, repo
<1>2. IsApp(app) /\ app.confirm = FALSE
  BY <1>1, Busy
<1>3. CASE Fail
  BY <1>1, <1>3, FailKeeps
<1>4. ASSUME NEW t, NEW n, NEW c,
             Keep([app EXCEPT !.view = At("node", t, n), !.pane = c], work, Tail(todo))
      PROVE  SessionInv'
  <2>1. PICK v : v = At("node", t, n)
    OBVIOUS
  <2>2. app' = [app EXCEPT !.view = v, !.pane = c] /\ Continue(Tail(todo)) /\ written' = written
    BY <1>4, <2>1 DEF Keep
  <2>3. IsView(v) /\ v.at = "node"
    BY <2>1, AtIsView
  <2>4. IsApp(app') /\ app'.confirm = FALSE /\ app'.shown = app.shown /\ app'.view = v
    BY <1>2, <2>2, <2>3 DEF IsApp
  <2> QED
    BY <1>1, <2>2, <2>3, <2>4, OpenKeeps
<1> QED
  BY <1>3, <1>4 DEF OpenTheNode

(* A write adds a commit; the form then has its text in it, and is left.   *)
LEMMA WriteKeeps ==
    ASSUME SessionInv, todo # <<>>, Grown, UNCHANGED <<app, form, loop, frame>>,
           Head(todo).do \notin ListDos \cup {"openTip", "openRead", "openNode"},
           \/ written' = "yes" /\ Returning(todo')
           \/ written' = written /\ Head(todo).do \notin WriteDos \cup ReturnDos
    PROVE  SessionInv'
<1>1. loop \in {"start", "restore", "event"} /\ IsApp(app') /\ IsForm(form')
      /\ app.confirm = FALSE
  BY Busy, RefreshHead
<1>2. app.view.at \in Forms => loop = "event" /\ written' = "yes" /\ Returning(todo')
  BY HandlerHead
<1>3. ShownInv'
  BY ShownStays DEF SessionInv
<1>4. TextInv' /\ ConfirmInv'
  BY <1>1 DEF SessionInv, TextInv, ConfirmInv
<1>5. LoopInv' /\ RefreshInv' /\ HandlerInv' /\ WrittenInv' /\ LitInv'
  BY <1>1, <1>2 DEF LoopInv, Loops, RefreshInv, HandlerInv, WrittenInv, LitInv
<1> QED
  BY <1>1, <1>3, <1>4, <1>5 DEF SessionInv

LEMMA InstallGrows ==
    ASSUME NEW t, NEW d, Install(t, d)
    PROVE  Grown
  BY DEF Install, Grown

LEMMA WritesKeep ==
    ASSUME SessionInv, CreateThread \/ Refused \/ Say \/ AddLink \/ Revise \/ Mark
    PROVE  SessionInv'
<1>1. CASE CreateThread
  <2>1. todo # <<>> /\ Head(todo).do = "create" /\ UNCHANGED <<app, form, loop, frame>>
        /\ written' = "yes"
    BY <1>1 DEF CreateThread, Doing
  <2>2. Grown
    BY <1>1, InstallGrows DEF CreateThread
  <2>3. PICK t : todo' = RefreshList \o <<Step("selectNew", t, 0)>> \o OpenThread(t, 0)
    BY <1>1 DEF CreateThread
  <2>4. Only(RefreshList \o <<Step("selectNew", t, 0)>>, ReturnDos)
    BY RefreshReturns, JoinOnly
  <2>5. Returning(todo')
    BY <2>3, <2>4, OpensReturn, JoinReturning
  <2> QED
    BY <2>1, <2>2, <2>5, WriteKeeps DEF ListDos
<1>2. CASE Refused
  <2>1. todo # <<>> /\ Fail /\ UNCHANGED <<commits, form, frame>>
    BY <1>2 DEF Refused, repo
  <2> QED
    BY <2>1, FailKeeps
<1>3. CASE Say
  <2>1. todo # <<>> /\ Head(todo).do = "say" /\ UNCHANGED <<app, form, loop, frame>>
        /\ written' = "yes"
    BY <1>3 DEF Say, Doing
  <2>2. Grown
    BY <1>3, InstallGrows DEF Say
  <2>3. PICK t, n : todo' = RefreshList \o OpenThread(t, n)
    BY <1>3 DEF Say
  <2>4. Returning(todo')
    BY <2>3, RefreshReturns, OpensReturn, JoinReturning
  <2> QED
    BY <2>1, <2>2, <2>4, WriteKeeps DEF ListDos
<1>4. CASE AddLink
  <2>1. todo # <<>> /\ Head(todo).do = "link" /\ UNCHANGED <<app, form, loop, frame>>
        /\ written' = "yes" /\ todo' = ReturnFromLink(app.view)
    BY <1>4 DEF AddLink, Doing
  <2>2. Grown
    BY <1>4, InstallGrows DEF AddLink
  <2>3. Returning(todo')
    BY <2>1, OpensReturn DEF ReturnFromLink
  <2> QED
    BY <2>1, <2>2, <2>3, WriteKeeps DEF ListDos
<1>5. CASE Revise
  <2>1. todo # <<>> /\ Head(todo).do = "revise" /\ UNCHANGED <<app, form, loop, frame, written>>
    BY SMTT(30), <1>5 DEF Revise, Doing
  <2>2. Grown
    BY SMTT(30), <1>5, InstallGrows DEF Revise
  <2> QED
    BY <2>1, <2>2, WriteKeeps DEF ListDos, WriteDos, ReturnDos
<1>6. CASE Mark
  <2>1. todo # <<>> /\ Head(todo).do \in {"resolve", "reopen", "retract"}
        /\ UNCHANGED <<form, frame>>
    BY SMTT(30), <1>6 DEF Mark
  <2>2. \/ Fail /\ UNCHANGED commits
        \/ Grown /\ UNCHANGED <<app, loop, written>>
    BY <1>6, InstallGrows DEF Mark, repo, Grown
  <2>3. CASE Fail /\ UNCHANGED commits
    BY <2>1, <2>3, FailKeeps
  <2>4. CASE Grown /\ UNCHANGED <<app, loop, written>>
    BY <2>1, <2>4, WriteKeeps DEF ListDos, WriteDos, ReturnDos
  <2> QED
    BY SMTT(30), <2>2, <2>3, <2>4
<1> QED
  BY <1>1, <1>2, <1>3, <1>4, <1>5, <1>6

LEMMA GitKeeps ==
    ASSUME SessionInv, GitStep \/ GitFails
    PROVE  SessionInv'
<1>1. CASE GitFails
  <2>1. todo # <<>> /\ Fail /\ UNCHANGED <<commits, form, frame>>
    BY <1>1 DEF GitFails, repo
  <2> QED
    BY <2>1, FailKeeps
<1>2. CASE GitStep
  BY <1>2, RestoreKeeps, ReadsKeep, OpenReadKeeps, OpenTheNodeKeeps, WritesKeep DEF GitStep
<1> QED
  BY <1>1, <1>2

-----------------------------------------------------------------------------
(* The loop, and everybody else.                                           *)

LEMMA DrawKeeps ==
    ASSUME SessionInv, Draw
    PROVE  SessionInv'
<1>1. /\ loop = "draw" /\ loop' = "tick" /\ frame' = Frame /\ todo = <<>>
      /\ UNCHANGED <<commits, app, form, todo, written>>
  BY DEF Draw, SessionInv, LoopInv, repo
<1>2. ShownInv' /\ TextInv'
  BY <1>1 DEF SessionInv, ShownInv, TextInv
<1>3. LoopInv' /\ RefreshInv' /\ HandlerInv' /\ WrittenInv' /\ ConfirmInv'
  BY <1>1 DEF SessionInv, LoopInv, Loops, RefreshInv, HandlerInv, WrittenInv, ConfirmInv, InForm
<1>4. LitInv'
  <2>1. SelectedNode(app)' = SelectedNode(app)
    BY <1>1 DEF SelectedNode, NodesOf
  <2>2. LinkTarget(app, form, app.view.t)' = LinkTarget(app, form, app.view.t)
    BY <1>1
  <2>3. app.view.at = "thread" => Frame.lit = SelectedNode(app)
    BY DEF Frame
  <2>4. app.view.at = "createLink" => Frame.lit = LinkTarget(app, form, app.view.t)
    BY DEF Frame
  <2> QED
    BY <1>1, <2>1, <2>2, <2>3, <2>4 DEF LitInv
<1> QED
  BY <1>1, <1>2, <1>3, <1>4 DEF SessionInv

LEMMA TicksKeep ==
    ASSUME SessionInv, TickNotDue \/ Tick \/ NothingTyped
    PROVE  SessionInv'
<1>1. /\ loop \in {"tick", "poll"} /\ todo = <<>> /\ IsApp(app)
      /\ UNCHANGED <<commits, form, written>>
  BY DEF TickNotDue, Tick, TickThread, TickNode, TickList, TickForm, NothingTyped, repo,
         SessionInv, LoopInv
<1>2. CASE UNCHANGED <<app, todo, frame>> /\ loop = "tick" /\ loop' = "poll"
  <2>1. ShownInv' /\ TextInv'
    BY <1>1, <1>2 DEF SessionInv, ShownInv, TextInv
  <2>2. LoopInv' /\ RefreshInv' /\ HandlerInv' /\ WrittenInv' /\ ConfirmInv'
    BY <1>1, <1>2
       DEF SessionInv, LoopInv, Loops, RefreshInv, HandlerInv, WrittenInv, ConfirmInv, InForm
  <2>3. LitInv'
    <3>1. SelectedNode(app)' = SelectedNode(app)
      BY <1>1, <1>2 DEF SelectedNode, NodesOf
    <3>2. LinkTarget(app, form, app.view.t)' = LinkTarget(app, form, app.view.t)
      BY <1>1, <1>2
    <3> QED
      BY <1>1, <1>2, <3>1, <3>2 DEF SessionInv, LitInv
  <2> QED
    BY <1>1, <1>2, <2>1, <2>2, <2>3 DEF SessionInv
<1>3. CASE NothingTyped
  <2>1. UNCHANGED <<app, todo>> /\ loop = "poll" /\ loop' = "draw"
    BY <1>3 DEF NothingTyped
  <2>2. ShownInv' /\ TextInv'
    BY <1>1, <2>1 DEF SessionInv, ShownInv, TextInv
  <2>3. LoopInv' /\ RefreshInv' /\ HandlerInv' /\ WrittenInv' /\ ConfirmInv' /\ LitInv'
    BY <1>1, <2>1 DEF SessionInv, LoopInv, Loops, RefreshInv, HandlerInv, WrittenInv, ConfirmInv,
                      InForm, LitInv
  <2> QED
    BY <1>1, <2>1, <2>2, <2>3 DEF SessionInv
<1>4. ASSUME loop = "tick", loop' = "ticking", Same(app', app), app.view.at \notin Forms,
             UNCHANGED frame, RefreshInv'
      PROVE  SessionInv'
  <2>1. ~app.confirm \/ InForm
    BY DEF SessionInv, ConfirmInv
  <2>2. IsApp(app') /\ app'.view = app.view /\ app'.shown = app.shown /\ app'.confirm = app.confirm
    BY <1>4 DEF Same
  <2>3. ShownInv' /\ TextInv' /\ ConfirmInv'
    BY <1>1, <1>4, <2>1, <2>2 DEF SessionInv, ShownInv, TextInv, ConfirmInv, InForm, Forms
  <2>4. LoopInv' /\ HandlerInv' /\ WrittenInv' /\ LitInv'
    BY <1>1, <1>4, <2>2 DEF LoopInv, Loops, HandlerInv, WrittenInv, LitInv
  <2> QED
    BY <1>1, <1>4, <2>2, <2>3, <2>4 DEF SessionInv
<1>5. CASE TickThread /\ loop' = "ticking"
  <2>1. /\ app' = app /\ frame' = frame /\ app.view.at = "thread" /\ loop = "tick"
        /\ todo' = OpenThread(app.view.t, SelectedNode(app))
    BY <1>5 DEF TickThread
  <2>2. SelectedNode(app) = frame.lit
    BY <2>1 DEF SessionInv, LitInv
  <2>3. RefreshInv'
    BY <2>1, <2>2 DEF RefreshInv
  <2> QED
    BY <1>1, <1>4, <1>5, <2>1, <2>3 DEF Same, Forms
<1>6. CASE TickNode /\ loop' = "ticking"
  <2>1. /\ frame' = frame /\ app.view.at = "node" /\ loop = "tick"
        /\ todo' = OpenNode(app.view.t, app.view.n)
        /\ app' = [app EXCEPT !.tip = auth[app.view.t]]
    BY <1>6 DEF TickNode
  <2>2. PICK tip : app' = [app EXCEPT !.tip = tip]
    BY <2>1
  <2>3. Same(app', app)
    BY <1>1, <2>2 DEF Same, IsApp
  <2>4. RefreshInv'
    BY <2>1, <2>3 DEF RefreshInv, Same
  <2> QED
    BY <1>4, <1>6, <2>1, <2>3, <2>4 DEF Forms
<1>7. CASE TickList
  <2>1. /\ app' = app /\ frame' = frame /\ app.view.at = "list" /\ loop = "tick"
        /\ loop' = "ticking"
        /\ todo' = ReadTips \o <<Step("unlessSame", 0, 0)>> \o ReadList \o <<Step("showList", 0, 0)>>
    BY <1>7 DEF TickList
  <2>2. RefreshInv'
    BY <2>1, ListRefreshOnly DEF RefreshInv
  <2> QED
    BY <1>1, <1>4, <2>1, <2>2 DEF Same, Forms
<1> QED
  BY <1>2, <1>3, <1>5, <1>6, <1>7 DEF Tick, TickThread, TickNode, TickForm, TickNotDue

LEMMA OthersKeep ==
    ASSUME SessionInv, Others
    PROVE  SessionInv'
<1>1. Grown
  BY InstallGrows
     DEF Others, OtherEdits, OtherCreates, OtherDeletes, OtherDiverges, OtherIsLegacy,
         OtherPublishes, OtherWithdraws, Grown
<1>2. UNCHANGED <<app, form, loop, todo, frame, written>>
  BY DEF Others, OtherEdits, OtherCreates, OtherDeletes, OtherDiverges, OtherIsLegacy,
         OtherPublishes, OtherWithdraws, Elsewhere
<1>3. ShownInv' /\ SelectedNode(app)' = SelectedNode(app)
  BY <1>1, <1>2, ShownStays, SelectionStays DEF SessionInv
<1>4. LinkTarget(app, form, app.view.t)' = LinkTarget(app, form, app.view.t)
  BY <1>2
<1>5. TextInv' /\ ConfirmInv' /\ LitInv'
  BY <1>2, <1>3, <1>4 DEF SessionInv, TextInv, ConfirmInv, InForm, LitInv
<1>6. LoopInv' /\ RefreshInv' /\ HandlerInv' /\ WrittenInv'
  BY <1>2 DEF SessionInv, LoopInv, RefreshInv, HandlerInv, WrittenInv
<1> QED
  BY <1>2, <1>3, <1>5, <1>6 DEF SessionInv

LEMMA RunKeeps ==
    ASSUME NEW t, Run(t), SessionInv
    PROVE  SessionInv'
<1>1. PICK rows : app' = NewApp(rows)
  BY DEF Run
<1>2. /\ IsApp(app') /\ app'.view = ListView /\ app'.shown = 0 /\ app'.confirm = FALSE
  <2>1. NewApp(rows).view = ListView /\ NewApp(rows).shown = 0 /\ NewApp(rows).confirm = FALSE
    BY DEF NewApp
  <2>2. IsApp(NewApp(rows))
    BY <2>1, ListIsView DEF IsApp, NewApp
  <2> QED
    BY <1>1, <2>1, <2>2
<1>3. loop' = "start" /\ form' = EmptyForm /\ written' = "no" /\ commits' = commits
  BY DEF Run, repo
<1>4. ShownInv'
  BY <1>2, <1>3 DEF SessionInv, ShownInv
<1>5. app'.view.at \notin Forms
  BY <1>2, ListIsView DEF Forms
<1>6. LoopInv' /\ RefreshInv' /\ HandlerInv' /\ WrittenInv' /\ ConfirmInv' /\ LitInv'
  BY <1>2, <1>3, <1>5 DEF LoopInv, Loops, RefreshInv, HandlerInv, WrittenInv, ConfirmInv, LitInv
<1>7. TextInv' /\ IsForm(form')
  BY <1>3, <1>5 DEF TextInv, TextOf, Forms, IsForm, EmptyForm
<1> QED
  BY <1>2, <1>4, <1>6, <1>7 DEF SessionInv

LEMMA InitSession == Init => SessionInv
<1> SUFFICES ASSUME Init PROVE SessionInv
  OBVIOUS
<1>1. PICK rows : app = NewApp(rows)
  BY DEF Init
<1>2. app.view = ListView /\ app.shown = 0 /\ app.confirm = FALSE
  BY <1>1 DEF NewApp
<1>3. IsApp(app)
  BY <1>1, <1>2, ListIsView DEF IsApp, NewApp
<1>4. ShownInv
  <2>1. PICK live, nodes :
            live \in {1, NThreads} /\ commits = [t \in 1 .. live |-> Document(t, "open", nodes, {})]
    BY DEF Init
  <2>2. live \in Nat
    BY <2>1, TuiAssumption
  <2> DEFINE S == {Document(t, "open", nodes, {}) : t \in 1..live}
  <2>3. commits \in [1..live -> S]
    BY <2>1
  <2> HIDE DEF S
  <2>4. commits \in Seq(S)
    BY <2>2, <2>3
  <2> QED
    BY <1>2, <2>4 DEF ShownInv
<1>5. app.view.at \notin Forms /\ loop = "off" /\ todo = <<>> /\ form = EmptyForm
  BY <1>2, ListIsView DEF Forms, Init
<1>6. LoopInv /\ RefreshInv /\ HandlerInv /\ WrittenInv /\ ConfirmInv /\ LitInv
  BY <1>2, <1>5 DEF LoopInv, Loops, RefreshInv, HandlerInv, WrittenInv, ConfirmInv, LitInv
<1>7. TextInv /\ IsForm(form)
  BY <1>5 DEF TextInv, TextOf, Forms, IsForm, EmptyForm
<1> QED
  BY <1>3, <1>4, <1>6, <1>7 DEF SessionInv

LEMMA NextKeeps == SessionInv /\ [Next]_vars => SessionInv'
<1> SUFFICES ASSUME SessionInv, [Next]_vars PROVE SessionInv'
  OBVIOUS
<1>1. CASE Draw
  BY <1>1, DrawKeeps
<1>2. CASE TickNotDue \/ Tick \/ NothingTyped
  BY <1>2, TicksKeep
<1>3. CASE GitStep \/ GitFails
  BY <1>3, GitKeeps
<1>4. CASE User
  BY <1>4, UserKeeps
<1>5. CASE Others
  BY <1>5, OthersKeep
<1>6. CASE \E t \in Threads \cup {0} : Run(t)
  BY <1>6, RunKeeps
<1>7. CASE UNCHANGED vars
  <2>1. UNCHANGED <<commits, app, form, loop, todo, frame, written>>
    BY <1>7 DEF vars
  <2>2. SelectedNode(app)' = SelectedNode(app)
    BY <2>1 DEF SelectedNode, NodesOf
  <2>3. LinkTarget(app, form, app.view.t)' = LinkTarget(app, form, app.view.t)
    BY <2>1
  <2>4. ShownInv' /\ TextInv' /\ ConfirmInv' /\ LitInv'
    BY <2>1, <2>2, <2>3 DEF SessionInv, ShownInv, TextInv, ConfirmInv, InForm, LitInv
  <2>5. LoopInv' /\ RefreshInv' /\ HandlerInv' /\ WrittenInv'
    BY <2>1 DEF SessionInv, LoopInv, RefreshInv, HandlerInv, WrittenInv
  <2> QED
    BY <2>1, <2>4, <2>5 DEF SessionInv
<1> QED
  BY <1>1, <1>2, <1>3, <1>4, <1>5, <1>6, <1>7 DEF Next, Session

LEMMA SessionHolds == Spec => []SessionInv
<1> QED
  BY InitSession, NextKeeps, PTL DEF Spec

-----------------------------------------------------------------------------
(* The theorems.                                                           *)

(* When the session next waits for a key, the form whose text is in a      *)
(* commit is no longer open, whatever failed after the write, unless the   *)
(* refresh that follows it failed.                                         *)
THEOREM SessionLeavesForm == Spec => []LeavesFormAfterWrite
<1>1. SessionInv => LeavesFormAfterWrite
  BY DEF SessionInv, WrittenInv, LeavesFormAfterWrite
<1> QED
  BY <1>1, SessionHolds, PTL

(* Enter opens the node that was highlighted when the user pressed it,     *)
(* although a refresh may have replaced the document behind the frame.     *)
THEOREM SessionEntersDrawnNode == Spec => EnterOpensDrawnNode
<1>1. SessionInv /\ [Next]_vars => [EnterNode => SelectedNode(app) = frame.lit]_vars
  BY DEF SessionInv, LitInv, EnterNode, Key, Ready, InThread
<1> QED
  BY <1>1, SessionHolds, PTL DEF Spec, EnterOpensDrawnNode

(* A link goes to the candidate that the frame highlighted.                *)
THEOREM SessionLinksDrawnTarget == Spec => LinksWhatWasDrawn
<1>1. ASSUME SessionInv, Next,
             loop = "poll", app.view.at = "createLink", todo' # <<>>, Head(todo').do = "link"
      PROVE  Head(todo').n = frame.lit
  <2>1. todo = <<>> /\ frame.lit = LinkTarget(app, form, app.view.t)
    BY <1>1 DEF SessionInv, LoopInv, LitInv
  <2>2. todo' # todo
    BY <1>1, <2>1
  <2>3. User
    <3>1. CASE Draw \/ TickNotDue \/ Tick \/ \E t \in Threads \cup {0} : Run(t)
      BY <1>1, <3>1 DEF Draw, TickNotDue, Tick, TickThread, TickNode, TickList, TickForm, Run
    <3>2. CASE NothingTyped \/ Others
      BY <2>2, <3>2 DEF NothingTyped, Others, OtherEdits, OtherCreates, OtherDeletes,
         OtherDiverges, OtherIsLegacy, OtherPublishes, OtherWithdraws, Elsewhere
    <3>3. ~(GitStep \/ GitFails)
      BY <2>1 DEF GitStep, GitFails, Restore, RestoreNode, ListAuth, ListPub, TipsPub, KeepRows,
         KeepTips, UnlessSame, ShowList, SelectNew, OpenTip, OpenRead, OpenTheNode,
         CreateThread, Refused, Say, AddLink, Revise, Mark, Doing
    <3> QED
      BY <1>1, <3>1, <3>2, <3>3 DEF Next, Session
  <2>4. Head(OpenThread(app.view.t, app.view.n)).do = "openTip"
        /\ Head(OpenNode(app.view.t, app.view.n)).do = "openNode"
    BY OpenThreadTail DEF Step
  <2>5. Submit
    <3>1. ~(InList \/ InBar \/ InThread \/ InNode \/ InEditor)
      BY <1>1 DEF InList, InBar, InThread, InNode, InEditor
    <3>2. ~(MoveInList \/ EnterThread \/ RefreshKey \/ ClickRow \/ ClickHeader)
      BY <3>1 DEF MoveInList, EnterThread, RefreshKey, ClickRow, ClickHeader
    <3>3. ~(OpenBar \/ ToggleBar \/ CloseBar)
      BY <3>1 DEF OpenBar, ToggleBar, CloseBar
    <3>4. ~(MoveInTree \/ EnterNode \/ ClickNode \/ RereadKey \/ SelectKey \/ EditKey \/ MarkKey)
      BY <3>1 DEF MoveInTree, EnterNode, ClickNode, RereadKey, SelectKey, EditKey, MarkKey
    <3>5. ~(Begin \/ FocusField \/ Type \/ EditBody \/ ChooseTarget)
      BY <1>1 DEF Begin, FocusField, Type, EditBody, ChooseTarget, Handle
    <3>6. ~(KeepForm \/ DismissError \/ Quit)
      BY <1>1, <2>2 DEF KeepForm, DismissError, Quit, Handle
    <3>7. ~ClickBack
      BY <3>1 DEF ClickBack
    <3>8. ~EscKey
      <4>1. ASSUME EscKey PROVE FALSE
        <5>1. (HasUnsaved /\ todo' = <<>>) \/ Leave(app)
          BY <3>1, <4>1 DEF EscKey, Handle
        <5>2. Leave(app)
          BY <1>1, <5>1
        <5>3. todo' = ReturnFromLink(app.view)
          BY <1>1, <5>2 DEF Leave, Handle
        <5> QED
          BY <1>1, <2>4, <5>3 DEF ReturnFromLink
      <4> QED
        BY <4>1
    <3>9. ~Discard
      <4>1. ASSUME Discard PROVE FALSE
        <5>1. todo' = ReturnFromLink(app.view)
          BY <1>1, <4>1 DEF Discard, Handle
        <5> QED
          BY <1>1, <2>4, <5>1 DEF ReturnFromLink
      <4> QED
        BY <4>1
    <3> QED
      BY <2>3, <3>2, <3>3, <3>4, <3>5, <3>6, <3>7, <3>8, <3>9 DEF User
  <2>6. todo' \in Writing
    BY <1>1, <2>5 DEF Submit, Handle
  <2>7. todo' = <<Step("link", app.view.t, LinkTarget(app, form, app.view.t))>>
    BY <1>1, <2>6 DEF Writing
  <2> QED
    BY <2>1, <2>7 DEF Step
<1>2. SessionInv /\ [Next]_vars =>
        [(loop = "poll" /\ app.view.at = "createLink" /\ todo' # <<>> /\ Head(todo').do = "link")
             => Head(todo').n = frame.lit]_vars
  BY <1>1
<1> QED
  BY <1>2, SessionHolds, PTL DEF Spec, LinksWhatWasDrawn

LEMMA FailView ==
    ASSUME SessionInv, todo # <<>>, Fail
    PROVE  app'.view = app.view
<1>1. PICK error : app' = [app EXCEPT !.error = error]
  BY DEF Fail
<1> QED
  BY <1>1, Busy DEF IsApp

(* A call of a handler leaves a form with text in it only after the write. *)
LEMMA GitDiscardsNothing ==
    ASSUME SessionInv, GitStep \/ GitFails, Unsaved, app'.view.at \notin Forms
    PROVE  written # "no"
<1>1. todo # <<>>
  BY DEF GitStep, GitFails, Restore, RestoreNode, ListAuth, ListPub, TipsPub, KeepRows,
         KeepTips, UnlessSame, ShowList, SelectNew, OpenTip, OpenRead, OpenTheNode,
         CreateThread, Refused, Say, AddLink, Revise, Mark, Doing
<1>2. app.view.at \in Forms /\ form.text # {}
  BY DEF Unsaved
<1>3. SUFFICES ASSUME Head(todo).do \in WriteDos PROVE FALSE
  <2>1. Head(todo).do \in WriteDos \cup ReturnDos
    BY <1>1, <1>2, HandlerHead
  <2>2. Head(todo).do \in ReturnDos => written = "yes"
    BY <1>1, <1>2, HandlerHead
  <2> QED
    BY <1>3, <2>1, <2>2
<1>4. Fail \/ CreateThread \/ Say \/ AddLink
  BY <1>3 DEF GitStep, GitFails, Restore, RestoreNode, ListAuth, ListPub, TipsPub, KeepRows,
         KeepTips, UnlessSame, ShowList, SelectNew, OpenTip, OpenRead, OpenTheNode,
         Refused, Revise, Mark, Doing, WriteDos
<1>5. app'.view = app.view
  <2>1. CASE Fail
    BY <1>1, <2>1, FailView
  <2>2. CASE CreateThread \/ Say \/ AddLink
    BY <2>2 DEF CreateThread, Say, AddLink
  <2> QED
    BY <1>4, <2>1, <2>2
<1> QED
  BY <1>2, <1>5

(* A key leaves such a form only by the confirmation.                      *)
LEMMA KeysDiscardNothing ==
    ASSUME SessionInv, User, Unsaved, app'.view.at \notin Forms, loop' # "off"
    PROVE  app.confirm /\ ~app'.confirm
<1>1. app.view.at \in Forms /\ form.text # {} /\ IsApp(app) /\ IsForm(form) /\ IsView(app.view)
      /\ TextOf(app.view.at, form)
  BY DEF Unsaved, SessionInv, TextInv, IsApp
<1>2. ~(InList \/ InBar \/ InThread \/ InNode)
  BY <1>1, NotForms
<1>3. app'.view # app.view
  BY <1>1
<1>4. ~(MoveInList \/ EnterThread \/ RefreshKey \/ ClickRow \/ ClickHeader)
  BY <1>2 DEF MoveInList, EnterThread, RefreshKey, ClickRow, ClickHeader
<1>5. ~(OpenBar \/ ToggleBar \/ CloseBar)
  BY <1>2 DEF OpenBar, ToggleBar, CloseBar
<1>6. ~(MoveInTree \/ EnterNode \/ ClickNode \/ RereadKey \/ SelectKey \/ EditKey \/ MarkKey)
  BY <1>2 DEF MoveInTree, EnterNode, ClickNode, RereadKey, SelectKey, EditKey, MarkKey
<1>7. ~(ClickBack \/ Quit \/ Begin)
  BY <1>2 DEF ClickBack, Quit, Begin, Handle
<1>8. ~(FocusField \/ Type \/ ChooseTarget \/ Submit)
  BY <1>3 DEF FocusField, Type, ChooseTarget, Submit, Handle
<1>9. ~EditBody
  <2>1. ASSUME EditBody PROVE FALSE
    <3>1. PICK at, view : /\ at \in Forms /\ view = [app.view EXCEPT !.at = at]
                          /\ app' = [app EXCEPT !.view = view]
      BY <2>1 DEF EditBody, Handle, Forms
    <3>2. view.at = at
      BY <1>1, <3>1 DEF IsView
    <3>3. app'.view = view
      BY <1>1, <3>1 DEF IsApp
    <3> QED
      BY <3>1, <3>2, <3>3
  <2> QED
    BY <2>1
<1>10. ~EscKey
  <2>1. ASSUME EscKey PROVE FALSE
    <3>1. CASE InEditor
      <4>1. PICK at, view : /\ at \in Forms /\ view = [app.view EXCEPT !.at = at]
                            /\ app' = [app EXCEPT !.view = view]
        BY <1>2, <2>1, <3>1 DEF EscKey, Handle, Forms, InEditor, InForm
      <4>2. view.at = at
        BY <1>1, <4>1 DEF IsView
      <4>3. app'.view = view
        BY <1>1, <4>1 DEF IsApp
      <4> QED
        BY <4>1, <4>2, <4>3
    <3>2. CASE InForm
      <4>1. HasUnsaved
        BY <1>1, <3>2 DEF HasUnsaved, InForm, TextOf
      <4>2. app' = [app EXCEPT !.confirm = TRUE]
        BY <1>2, <2>1, <3>2, <4>1 DEF EscKey, Handle, InEditor, InForm
      <4>3. app'.view = app.view
        BY <1>1, <4>2 DEF IsApp
      <4> QED
        BY <1>3, <4>3
    <3> QED
      BY <1>1, <3>1, <3>2, NotForms
  <2> QED
    BY <2>1
<1>11. ~DismissError
  <2>1. ASSUME DismissError PROVE FALSE
    <3>1. app' = [app EXCEPT !.error = FALSE]
      BY <2>1 DEF DismissError, Handle
    <3> QED
      BY <1>1, <1>3, <3>1 DEF IsApp
  <2> QED
    BY <2>1
<1>12. ~KeepForm
  <2>1. ASSUME KeepForm PROVE FALSE
    <3>1. app' = [app EXCEPT !.confirm = FALSE]
      BY <2>1 DEF KeepForm, Handle
    <3> QED
      BY <1>1, <1>3, <3>1 DEF IsApp
  <2> QED
    BY <2>1
<1>13. Discard
  BY <1>4, <1>5, <1>6, <1>7, <1>8, <1>9, <1>10, <1>11, <1>12 DEF User
<1>14. app.confirm
  BY <1>13 DEF Discard
<1>15. PICK a : a = [app EXCEPT !.confirm = FALSE]
  OBVIOUS
<1>16. IsApp(a) /\ a.confirm = FALSE
  BY <1>1, <1>15 DEF IsApp
<1>17. app' = a \/ app' = [a EXCEPT !.view = ListView]
  <2>1. app.view.at \in {"createThread", "createNode", "createLink"}
    BY <1>14 DEF SessionInv, ConfirmInv, InForm
  <2> QED
    BY <1>13, <1>15, <2>1 DEF Discard, Handle, ReturnFromLink
<1>18. ~app'.confirm
  BY <1>16, <1>17 DEF IsApp
<1> QED
  BY <1>14, <1>18

(* Text that was typed into a form is lost only when the user says so, by  *)
(* the y of the confirmation or by ending the session, or is in a commit.  *)
THEOREM SessionDiscardsNothing == Spec => NoSilentDiscard
<1>1. ASSUME SessionInv, Next, Unsaved, app'.view.at \notin Forms, loop # "off", loop' # "off"
      PROVE  written # "no" \/ (app.confirm /\ ~app'.confirm)
  <2>1. app.view.at \in Forms /\ IsApp(app)
    BY <1>1 DEF Unsaved, SessionInv
  <2>2. ~(Draw \/ TickNotDue \/ Tick \/ NothingTyped \/ Others)
    BY <1>1, <2>1
       DEF Draw, TickNotDue, Tick, TickThread, TickNode, TickList, TickForm, NothingTyped,
           Others, OtherEdits, OtherCreates, OtherDeletes, OtherDiverges, OtherIsLegacy,
           OtherPublishes, OtherWithdraws, Elsewhere, Forms
  <2>3. ~(\E t \in Threads \cup {0} : Run(t))
    BY <1>1 DEF Run
  <2> QED
    BY <1>1, <2>2, <2>3, GitDiscardsNothing, KeysDiscardNothing DEF Next, Session
<1>2. SessionInv /\ [Next]_vars =>
        [(Unsaved /\ app'.view.at \notin Forms /\ loop # "off" /\ loop' # "off")
             => written # "no" \/ (app.confirm /\ ~app'.confirm)]_vars
  BY <1>1
<1> QED
  BY <1>2, SessionHolds, PTL DEF Spec, NoSilentDiscard

-----------------------------------------------------------------------------
(* The list.                                                               *)

ListCalls == {"listAuth", "listPub", "keepRows", "tipsAuth", "tipsPub", "keepTips",
              "unlessSame", "showList"}

(* The three ways to read the list again: rows and then tips, for a start, *)
(* a new thread or a new node; both before they are kept, for the r key;   *)
(* tips and, when they differ, rows, for a tick.                           *)
RowsFirst == <<"listAuth", "listPub", "keepRows", "tipsAuth", "tipsPub", "keepTips">>
ByKey == <<"listAuth", "listPub", "tipsAuth", "tipsPub", "showList">>
ByTick == <<"tipsAuth", "tipsPub", "unlessSame", "listAuth", "listPub", "showList">>

(* Call k of `calls` comes next, and after the last one nothing about the list. *)
Stage(p, calls, k) ==
    /\ \E S : p \in Seq(S)
    /\ Len(p) >= Len(calls) - k + 1
    /\ \A i \in 1 .. Len(calls) - k + 1 : p[i].do = calls[k - 1 + i]
    /\ \A i \in Len(calls) - k + 2 .. Len(p) : p[i].do \notin ListCalls

Quiet(p) == (\E S : p \in Seq(S)) /\ \A i \in 1 .. Len(p) : p[i].do \notin ListCalls

(* A commit that was the tip of the thread's authoritative ref, so never   *)
(* that of its published ref; one that no ref of the thread will name again. *)
Past(t, c) == c \in DOMAIN commits /\ pub[t] # c
Dead(t, c) == Past(t, c) /\ auth[t] # c

(* A row as it was listed when the tip was c.                              *)
Fits(t, row, c) ==
    \/ c = 0 /\ row = NoRow
    \/ Past(t, c) /\ (Readable(c) => row = [c |-> c, published |-> FALSE])
    \/ c \in DOMAIN commits /\ auth[t] # c /\ row = [c |-> c, published |-> TRUE]

Settled ==
    \A t \in Threads \ slipped :
        Fits(t, app.rows[t], app.tips[t]) \/ Dead(t, app.tips[t])
PastAuth == \A t \in Threads : work.auth[t] # 0 => Past(t, work.auth[t])
Listed(rows) == \A t \in Threads : Fits(t, rows[t], work.listed[t])
OwnTips == \A t \in work.own : t \in Threads /\ Past(t, work.tips[t])
OwnAuth ==
    \A t \in work.own : t \in Threads /\ (work.auth[t] = work.tips[t] \/ Dead(t, work.tips[t]))
OwnListed ==
    \A t \in work.own : t \in Threads /\ (work.listed[t] = work.tips[t] \/ Dead(t, work.tips[t]))

ListInv ==
    \/ Quiet(todo) /\ Settled
    \/ Stage(todo, RowsFirst, 1) /\ Settled
    \/ Stage(todo, RowsFirst, 2) /\ Settled /\ PastAuth
    \/ Stage(todo, RowsFirst, 3) /\ Listed(work.rows)
    \/ (\E k \in 4 .. 6 : Stage(todo, RowsFirst, k)) /\ Listed(app.rows)
    \/ loop = "event" /\ Stage(todo, ByKey, 1) /\ Settled
    \/ loop = "event" /\ Stage(todo, ByKey, 2) /\ Settled /\ PastAuth
    \/ loop = "event" /\ (\E k \in 3 .. 5 : Stage(todo, ByKey, k)) /\ Settled /\ Listed(work.rows)
    \/ Stage(todo, ByTick, 1) /\ Settled
    \/ Stage(todo, ByTick, 2) /\ Settled /\ PastAuth
    \/ (\E k \in 3 .. 4 : Stage(todo, ByTick, k)) /\ Settled /\ OwnTips
    \/ Stage(todo, ByTick, 5) /\ Settled /\ PastAuth /\ OwnTips /\ OwnAuth
    \/ Stage(todo, ByTick, 6) /\ Settled /\ Listed(work.rows) /\ OwnListed

RefsInv ==
    /\ auth \in [Threads -> {0} \cup DOMAIN commits]
    /\ pub \in [Threads -> {0} \cup DOMAIN commits]
    /\ \A t \in Threads : /\ pub[t] # 0 => Readable(pub[t])
                          /\ auth[t] # 0 => auth[t] # pub[t]

(* What the cache holds is what would be read.                             *)
CacheInv ==
    \A t \in Threads :
        app.cache[t].tip # 0 => /\ app.cache[t].c = app.cache[t].tip
                                /\ Readable(app.cache[t].tip)

IsWork(w) == w = [ auth |-> w.auth, rows |-> w.rows, listed |-> w.listed,
                   tips |-> w.tips, own |-> w.own, tip |-> w.tip ]

CacheTrue == IsWork(work) /\ RefsInv /\ CacheInv /\ ListInv

-----------------------------------------------------------------------------

LEMMA StageTail ==
    ASSUME NEW p, NEW D, NEW calls \in Seq(D), NEW k \in 1 .. Len(calls), Stage(p, calls, k)
    PROVE  p # <<>> /\ Head(p).do = calls[k] /\ Stage(Tail(p), calls, k + 1)
<1>1. PICK S : p \in Seq(S)
  BY DEF Stage
<1>2. Len(calls) \in Nat /\ Len(p) \in Nat /\ k \in Nat /\ k <= Len(calls)
  BY <1>1
<1>3. Len(p) >= 1 /\ p # <<>>
  BY <1>1, <1>2 DEF Stage
<1>4. Head(p).do = calls[k]
  <2>1. p[1].do = calls[k - 1 + 1]
    BY <1>2 DEF Stage
  <2> QED
    BY <1>1, <1>2, <1>3, <2>1
<1>5. Tail(p) \in Seq(S) /\ Len(Tail(p)) = Len(p) - 1
      /\ \A i \in 1 .. Len(p) - 1 : Tail(p)[i] = p[i + 1]
  BY <1>1, <1>3, HeadTailProperties
<1>6. \A i \in 1 .. Len(calls) - (k + 1) + 1 : Tail(p)[i].do = calls[(k + 1) - 1 + i]
  <2>1. SUFFICES ASSUME NEW i \in 1 .. Len(calls) - (k + 1) + 1
                 PROVE  Tail(p)[i].do = calls[(k + 1) - 1 + i]
    OBVIOUS
  <2>2. i + 1 \in 1 .. Len(calls) - k + 1 /\ i \in 1 .. Len(p) - 1
    BY <1>2 DEF Stage
  <2>3. p[i + 1].do = calls[k - 1 + (i + 1)]
    BY <2>2 DEF Stage
  <2>4. k - 1 + (i + 1) = (k + 1) - 1 + i
    BY <1>2
  <2> QED
    BY <1>5, <2>2, <2>3, <2>4
<1>7. \A i \in Len(calls) - (k + 1) + 2 .. Len(Tail(p)) : Tail(p)[i].do \notin ListCalls
  <2>1. SUFFICES ASSUME NEW i \in Len(calls) - (k + 1) + 2 .. Len(p) - 1
                 PROVE  Tail(p)[i].do \notin ListCalls
    BY <1>5
  <2>2. i + 1 \in Len(calls) - k + 2 .. Len(p) /\ i \in 1 .. Len(p) - 1
    BY <1>2
  <2>3. p[i + 1].do \notin ListCalls
    BY <2>2 DEF Stage
  <2> QED
    BY <1>5, <2>2, <2>3
<1>8. Len(Tail(p)) >= Len(calls) - (k + 1) + 1
  BY <1>2, <1>5 DEF Stage
<1> QED
  BY <1>3, <1>4, <1>5, <1>6, <1>7, <1>8 DEF Stage

LEMMA StageOver ==
    ASSUME NEW p, NEW D, NEW calls \in Seq(D), Stage(p, calls, Len(calls) + 1)
    PROVE  Quiet(p)
<1>1. Len(calls) \in Nat
  OBVIOUS
<1>2. Len(calls) - (Len(calls) + 1) + 2 = 1
  BY <1>1
<1> QED
  BY <1>2 DEF Stage, Quiet

LEMMA QuietTail ==
    ASSUME NEW p, Quiet(p), p # <<>>
    PROVE  Head(p).do \notin ListCalls /\ Quiet(Tail(p))
<1>1. PICK S : p \in Seq(S)
  BY DEF Quiet
<1>2. Len(p) \in Nat /\ Len(p) >= 1 /\ Head(p) = p[1]
  BY <1>1
<1>3. Tail(p) \in Seq(S) /\ Len(Tail(p)) = Len(p) - 1
      /\ \A i \in 1 .. Len(p) - 1 : Tail(p)[i] = p[i + 1]
  BY <1>1, HeadTailProperties
<1>4. \A i \in 1 .. Len(p) - 1 : i + 1 \in 1 .. Len(p)
  BY <1>2
<1>5. 1 \in 1 .. Len(p)
  BY <1>2
<1> QED
  BY <1>2, <1>3, <1>4, <1>5 DEF Quiet

LEMMA QuietOne ==
    ASSUME NEW do, do \notin ListCalls, NEW t, NEW n
    PROVE  Quiet(<<Step(do, t, n)>>)
<1> DEFINE p == <<Step(do, t, n)>>
<1>1. p \in Seq({Step(do, t, n)}) /\ Len(p) = 1 /\ p[1].do = do
  BY DEF Step
<1> HIDE DEF p
<1>2. \A i \in 1 .. Len(p) : p[i].do \notin ListCalls
  BY <1>1
<1> QED
  BY <1>1, <1>2 DEF Quiet, p

LEMMA QuietJoin ==
    ASSUME NEW p, NEW q, Quiet(p), Quiet(q)
    PROVE  Quiet(p \o q)
<1>1. PICK S : p \in Seq(S)
  BY DEF Quiet
<1>2. PICK T : q \in Seq(T)
  BY DEF Quiet
<1>3. p \in Seq(S \cup T) /\ q \in Seq(S \cup T)
  BY <1>1, <1>2, SeqMonotonic
<1>4. /\ p \o q \in Seq(S \cup T) /\ Len(p \o q) = Len(p) + Len(q)
      /\ \A i \in 1 .. Len(p) + Len(q) : (p \o q)[i] = IF i <= Len(p) THEN p[i] ELSE q[i - Len(p)]
  BY <1>3, ConcatProperties
<1>5. \A i \in 1 .. Len(p) + Len(q) : (p \o q)[i].do \notin ListCalls
  <2>1. SUFFICES ASSUME NEW i \in 1 .. Len(p) + Len(q) PROVE (p \o q)[i].do \notin ListCalls
    OBVIOUS
  <2>2. Len(p) \in Nat /\ Len(q) \in Nat
    BY <1>3
  <2>3. CASE i <= Len(p)
    <3>1. i \in 1 .. Len(p)
      BY <2>2, <2>3
    <3> QED
      BY <1>4, <2>3, <3>1 DEF Quiet
  <2>4. CASE ~(i <= Len(p))
    <3>1. i - Len(p) \in 1 .. Len(q)
      BY <2>2, <2>4
    <3> QED
      BY <1>4, <2>4, <3>1 DEF Quiet
  <2> QED
    BY <2>3, <2>4
<1> QED
  BY <1>4, <1>5 DEF Quiet

(* Reading the list first, and then something else.                        *)
LEMMA StageJoin ==
    ASSUME NEW p, NEW q, NEW D, NEW calls \in Seq(D), Len(p) = Len(calls), \E S : p \in Seq(S),
           \A i \in 1 .. Len(calls) : p[i].do = calls[i], Quiet(q)
    PROVE  Stage(p \o q, calls, 1)
<1>1. PICK S : p \in Seq(S)
  OBVIOUS
<1>2. PICK T : q \in Seq(T)
  BY DEF Quiet
<1>3. p \in Seq(S \cup T) /\ q \in Seq(S \cup T)
  BY <1>1, <1>2, SeqMonotonic
<1>4. /\ p \o q \in Seq(S \cup T) /\ Len(p \o q) = Len(p) + Len(q)
      /\ \A i \in 1 .. Len(p) + Len(q) : (p \o q)[i] = IF i <= Len(p) THEN p[i] ELSE q[i - Len(p)]
  BY <1>3, ConcatProperties
<1>5. Len(p) \in Nat /\ Len(q) \in Nat /\ Len(calls) \in Nat
  BY <1>3
<1>6. \A i \in 1 .. Len(calls) - 1 + 1 : (p \o q)[i].do = calls[1 - 1 + i]
  <2>1. SUFFICES ASSUME NEW i \in 1 .. Len(calls) - 1 + 1 PROVE (p \o q)[i].do = calls[1 - 1 + i]
    OBVIOUS
  <2>2. i \in 1 .. Len(calls) /\ i \in 1 .. Len(p) + Len(q) /\ i <= Len(p) /\ 1 - 1 + i = i
    BY <1>5
  <2> QED
    BY <1>4, <2>2
<1>7. \A i \in Len(calls) - 1 + 2 .. Len(p \o q) : (p \o q)[i].do \notin ListCalls
  <2>1. SUFFICES ASSUME NEW i \in Len(calls) - 1 + 2 .. Len(p) + Len(q)
                 PROVE (p \o q)[i].do \notin ListCalls
    BY <1>4
  <2>2. i \in 1 .. Len(p) + Len(q) /\ ~(i <= Len(p)) /\ i - Len(p) \in 1 .. Len(q)
    BY <1>5
  <2> QED
    BY <1>4, <2>2 DEF Quiet
<1>8. Len(p \o q) >= Len(calls) - 1 + 1
  BY <1>4, <1>5
<1> QED
  BY <1>4, <1>6, <1>7, <1>8 DEF Stage

LEMMA CallsAre ==
    /\ RowsFirst \in Seq(ListCalls) /\ Len(RowsFirst) = 6
    /\ RowsFirst[1] = "listAuth" /\ RowsFirst[2] = "listPub" /\ RowsFirst[3] = "keepRows"
    /\ RowsFirst[4] = "tipsAuth" /\ RowsFirst[5] = "tipsPub" /\ RowsFirst[6] = "keepTips"
    /\ ByKey \in Seq(ListCalls) /\ Len(ByKey) = 5
    /\ ByKey[1] = "listAuth" /\ ByKey[2] = "listPub"
    /\ ByKey[3] = "tipsAuth" /\ ByKey[4] = "tipsPub" /\ ByKey[5] = "showList"
    /\ ByTick \in Seq(ListCalls) /\ Len(ByTick) = 6
    /\ ByTick[1] = "tipsAuth" /\ ByTick[2] = "tipsPub" /\ ByTick[3] = "unlessSame"
    /\ ByTick[4] = "listAuth" /\ ByTick[5] = "listPub" /\ ByTick[6] = "showList"
<1>1. RowsFirst \in Seq(ListCalls) /\ ByKey \in Seq(ListCalls) /\ ByTick \in Seq(ListCalls)
  BY DEF RowsFirst, ByKey, ByTick, ListCalls
<1>2. Len(RowsFirst) = 6 /\ Len(ByKey) = 5 /\ Len(ByTick) = 6
  BY DEF RowsFirst, ByKey, ByTick
<1> QED
  BY <1>1, <1>2 DEF RowsFirst, ByKey, ByTick

(* The call that comes next, and what comes after it.                      *)
LEMMA StageSteps ==
    ASSUME NEW p, NEW calls \in {RowsFirst, ByKey, ByTick}, NEW k \in 1 .. Len(calls),
           Stage(p, calls, k)
    PROVE  /\ p # <<>> /\ Head(p).do = calls[k] /\ calls[k] \in ListCalls
           /\ Stage(Tail(p), calls, k + 1)
           /\ k = Len(calls) => Quiet(Tail(p))
           /\ k < Len(calls) => Tail(p) # <<>>
<1>1. calls \in Seq(ListCalls)
  BY CallsAre
<1>2. p # <<>> /\ Head(p).do = calls[k] /\ Stage(Tail(p), calls, k + 1)
  BY <1>1, StageTail
<1>3. calls[k] \in ListCalls
  BY <1>1
<1>4. k = Len(calls) => Quiet(Tail(p))
  BY <1>1, <1>2, StageOver
<1>5. k < Len(calls) => Tail(p) # <<>>
  <2>1. Len(calls) \in Nat /\ k \in Nat
    BY <1>1
  <2>2. ASSUME k < Len(calls), Tail(p) = <<>> PROVE FALSE
    <3>1. Len(Tail(p)) >= Len(calls) - (k + 1) + 1
      BY <1>2 DEF Stage
    <3>2. Len(Tail(p)) = 0
      <4>1. Len(<<>>) = 0
        OBVIOUS
      <4> QED
        BY <2>2, <4>1, Zenon
    <3>3. 0 >= Len(calls) - (k + 1) + 1
      BY <3>1, <3>2
    <3> QED
      BY <2>1, <2>2, <3>3
  <2> QED
    BY <2>2
<1> QED
  BY <1>2, <1>3, <1>4, <1>5

LEMMA QuietPlans ==
    /\ Quiet(<<>>)
    /\ \A t, n : Quiet(OpenThread(t, n)) /\ Quiet(OpenNode(t, n))
    /\ \A t, n : Quiet(OpenThread(t, n) \o <<Step("restoreNode", 0, 0)>>)
    /\ \A t, n, u : Quiet(<<Step("selectNew", u, 0)>> \o OpenThread(t, n))
    /\ \A do \in {"create", "say", "link", "revise", "resolve", "reopen", "retract", "restore"} :
          \A t, n : Quiet(<<Step(do, t, n)>>)
<1>1. Quiet(<<>>)
  <2>1. <<>> \in Seq({}) /\ Len(<<>>) = 0
    OBVIOUS
  <2> QED
    BY <2>1 DEF Quiet
<1>2. \A do \in {"openTip", "openRead", "openNode", "restoreNode", "selectNew", "create", "say",
                 "link", "revise", "resolve", "reopen", "retract", "restore"} :
          do \notin ListCalls
  BY DEF ListCalls
<1>3. ASSUME NEW t, NEW n PROVE Quiet(OpenThread(t, n)) /\ Quiet(OpenNode(t, n))
  <2>1. OpenThread(t, n) = <<Step("openTip", t, n)>> \o <<Step("openRead", t, n)>>
    BY DEF OpenThread
  <2>2. Quiet(<<Step("openTip", t, n)>>) /\ Quiet(<<Step("openRead", t, n)>>)
        /\ Quiet(<<Step("openNode", t, n)>>)
    BY <1>2, QuietOne
  <2> QED
    BY <2>1, <2>2, QuietJoin DEF OpenNode
<1>4. Quiet(<<Step("restoreNode", 0, 0)>>) /\ \A u : Quiet(<<Step("selectNew", u, 0)>>)
  BY <1>2, QuietOne
<1>5. \A do \in {"create", "say", "link", "revise", "resolve", "reopen", "retract", "restore"} :
          \A t, n : Quiet(<<Step(do, t, n)>>)
  BY <1>2, QuietOne
<1> QED
  BY <1>1, <1>3, <1>4, <1>5, QuietJoin

IsPlan(p) == \E S : p \in Seq(S)

(* Two plans, one after the other.                                         *)
LEMMA JoinIs ==
    ASSUME NEW p, NEW q, IsPlan(p), IsPlan(q)
    PROVE  /\ IsPlan(p \o q)
           /\ Len(p \o q) = Len(p) + Len(q) /\ Len(p) \in Nat /\ Len(q) \in Nat
           /\ \A i \in 1 .. Len(p) : (p \o q)[i] = p[i]
           /\ \A i \in 1 .. Len(q) : (p \o q)[Len(p) + i] = q[i]
<1>1. PICK S : p \in Seq(S)
  BY DEF IsPlan
<1>2. PICK T : q \in Seq(T)
  BY DEF IsPlan
<1>3. p \in Seq(S \cup T) /\ q \in Seq(S \cup T)
  BY <1>1, <1>2, SeqMonotonic
<1>4. /\ p \o q \in Seq(S \cup T) /\ Len(p \o q) = Len(p) + Len(q)
      /\ \A i \in 1 .. Len(p) + Len(q) : (p \o q)[i] = IF i <= Len(p) THEN p[i] ELSE q[i - Len(p)]
  BY <1>3, ConcatProperties
<1>5. Len(p) \in Nat /\ Len(q) \in Nat
  BY <1>3
<1>6. \A i \in 1 .. Len(p) : i \in 1 .. Len(p) + Len(q) /\ i <= Len(p)
  BY <1>5
<1>7. \A i \in 1 .. Len(q) : /\ Len(p) + i \in 1 .. Len(p) + Len(q) /\ ~(Len(p) + i <= Len(p))
                             /\ (Len(p) + i) - Len(p) = i
  BY <1>5
<1> QED
  BY <1>4, <1>5, <1>6, <1>7 DEF IsPlan

LEMMA PairIs ==
    /\ IsPlan(ReadList)
    /\ Len(ReadList) = 2 /\ ReadList[1].do = "listAuth" /\ ReadList[2].do = "listPub"
    /\ IsPlan(ReadTips)
    /\ Len(ReadTips) = 2 /\ ReadTips[1].do = "tipsAuth" /\ ReadTips[2].do = "tipsPub"
<1>1. /\ ReadList \in Seq({Step("listAuth", 0, 0), Step("listPub", 0, 0)})
      /\ Len(ReadList) = 2 /\ ReadList[1].do = "listAuth" /\ ReadList[2].do = "listPub"
  BY DEF ReadList, Step
<1>2. /\ ReadTips \in Seq({Step("tipsAuth", 0, 0), Step("tipsPub", 0, 0)})
      /\ Len(ReadTips) = 2 /\ ReadTips[1].do = "tipsAuth" /\ ReadTips[2].do = "tipsPub"
  BY DEF ReadTips, Step
<1> QED
  BY <1>1, <1>2 DEF IsPlan

LEMMA OneIs ==
    ASSUME NEW do, NEW t, NEW n
    PROVE  LET p == <<Step(do, t, n)>>
           IN  (IsPlan(p)) /\ Len(p) = 1 /\ p[1].do = do
<1> DEFINE p == <<Step(do, t, n)>>
<1>1. p \in Seq({Step(do, t, n)}) /\ Len(p) = 1 /\ p[1].do = do
  BY DEF Step
<1> QED
  BY <1>1 DEF IsPlan

(* What a plan does after one more piece, for pieces of one or two calls.  *)
LEMMA MoreIs ==
    ASSUME NEW p, NEW q, IsPlan(p), IsPlan(q)
    PROVE  /\ IsPlan(p \o q)
           /\ \A i \in 1 .. Len(p) : (p \o q)[i] = p[i]
           /\ Len(q) = 1 => Len(p \o q) = Len(p) + 1 /\ (p \o q)[Len(p) + 1] = q[1]
           /\ Len(q) = 2 => /\ Len(p \o q) = Len(p) + 2
                           /\ (p \o q)[Len(p) + 1] = q[1] /\ (p \o q)[Len(p) + 2] = q[2]
<1>1. Len(q) = 1 => 1 \in 1 .. Len(q)
  OBVIOUS
<1>2. Len(q) = 2 => 1 \in 1 .. Len(q) /\ 2 \in 1 .. Len(q)
  OBVIOUS
<1>3. /\ IsPlan(p \o q) /\ Len(p \o q) = Len(p) + Len(q)
      /\ \A i \in 1 .. Len(p) : (p \o q)[i] = p[i]
      /\ \A i \in 1 .. Len(q) : (p \o q)[Len(p) + i] = q[i]
  BY JoinIs
<1> QED
  BY <1>1, <1>2, <1>3

(* ReadList, one call, ReadTips, one call: for a start and after a write.  *)
LEMMA RowsFirstPlan ==
    ASSUME NEW q, Quiet(q)
    PROVE  Stage(RefreshList \o q, RowsFirst, 1)
<1> DEFINE k == <<Step("keepRows", 0, 0)>>
           m == <<Step("keepTips", 0, 0)>>
           a == ReadList \o k
           b == a \o ReadTips
           c == b \o m
<1>a. a = ReadList \o k
  OBVIOUS
<1>b. b = a \o ReadTips
  OBVIOUS
<1>c. c = b \o m
  OBVIOUS
<1>0. IsPlan(k) /\ Len(k) = 1 /\ k[1].do = "keepRows"
      /\ IsPlan(m) /\ Len(m) = 1 /\ m[1].do = "keepTips"
  BY OneIs
<1> HIDE DEF c, b, a, k, m
<1>1. c = RefreshList
  BY DEF RefreshList, c, b, a, k, m
<1>2. /\ IsPlan(a)
      /\ Len(a) = 3 /\ a[1].do = "listAuth" /\ a[2].do = "listPub" /\ a[3].do = "keepRows"
  <2>1. IsPlan(ReadList) /\ IsPlan(k) /\ Len(ReadList) = 2 /\ Len(k) = 1
    BY <1>0, PairIs
  <2>2. /\ IsPlan(a) /\ \A i \in 1 .. Len(ReadList) : a[i] = ReadList[i]
        /\ Len(a) = Len(ReadList) + 1 /\ a[Len(ReadList) + 1] = k[1]
    BY <1>a, <2>1, MoreIs
  <2> QED
    BY <1>0, <2>1, <2>2, PairIs
<1>3. /\ IsPlan(b)
      /\ Len(b) = 5 /\ b[1].do = "listAuth" /\ b[2].do = "listPub" /\ b[3].do = "keepRows"
      /\ b[4].do = "tipsAuth" /\ b[5].do = "tipsPub"
  <2>1. IsPlan(a) /\ IsPlan(ReadTips) /\ Len(a) = 3 /\ Len(ReadTips) = 2
    BY <1>2, PairIs
  <2>2. /\ IsPlan(b) /\ \A i \in 1 .. Len(a) : b[i] = a[i]
        /\ Len(b) = Len(a) + 2 /\ b[Len(a) + 1] = ReadTips[1] /\ b[Len(a) + 2] = ReadTips[2]
    BY <1>b, <2>1, MoreIs
  <2> QED
    BY <1>2, <2>1, <2>2, PairIs
<1>4. /\ IsPlan(c)
      /\ Len(c) = 6 /\ c[1].do = "listAuth" /\ c[2].do = "listPub" /\ c[3].do = "keepRows"
      /\ c[4].do = "tipsAuth" /\ c[5].do = "tipsPub" /\ c[6].do = "keepTips"
  <2>1. IsPlan(b) /\ IsPlan(m) /\ Len(b) = 5 /\ Len(m) = 1
    BY <1>0, <1>3
  <2>2. /\ IsPlan(c) /\ \A i \in 1 .. Len(b) : c[i] = b[i]
        /\ Len(c) = Len(b) + 1 /\ c[Len(b) + 1] = m[1]
    BY <1>c, <2>1, MoreIs
  <2> QED
    BY <1>0, <1>3, <2>1, <2>2
<1>5. \A i \in 1 .. Len(RowsFirst) : c[i].do = RowsFirst[i]
  BY <1>4, CallsAre
<1>6. Stage(c \o q, RowsFirst, 1)
  BY <1>4, <1>5, CallsAre, StageJoin DEF IsPlan
<1> QED
  BY <1>1, <1>6

LEMMA KeyPlan ==
    Stage(ReadList \o ReadTips \o <<Step("showList", 0, 0)>>, ByKey, 1)
<1> DEFINE k == <<Step("showList", 0, 0)>>
           a == ReadList \o ReadTips
           b == a \o k
<1>a. a = ReadList \o ReadTips
  OBVIOUS
<1>b. b = a \o k
  OBVIOUS
<1>0. IsPlan(k) /\ Len(k) = 1 /\ k[1].do = "showList"
  BY OneIs
<1> HIDE DEF b, a, k
<1>1. /\ IsPlan(a)
      /\ Len(a) = 4 /\ a[1].do = "listAuth" /\ a[2].do = "listPub"
      /\ a[3].do = "tipsAuth" /\ a[4].do = "tipsPub"
  <2>1. IsPlan(ReadList) /\ IsPlan(ReadTips) /\ Len(ReadList) = 2 /\ Len(ReadTips) = 2
    BY PairIs
  <2>2. /\ IsPlan(a) /\ \A i \in 1 .. Len(ReadList) : a[i] = ReadList[i]
        /\ Len(a) = Len(ReadList) + 2 /\ a[Len(ReadList) + 1] = ReadTips[1] /\ a[Len(ReadList) + 2] = ReadTips[2]
    BY <1>a, <2>1, MoreIs
  <2> QED
    BY <2>1, <2>2, PairIs
<1>2. /\ IsPlan(b)
      /\ Len(b) = 5 /\ b[1].do = "listAuth" /\ b[2].do = "listPub"
      /\ b[3].do = "tipsAuth" /\ b[4].do = "tipsPub" /\ b[5].do = "showList"
  <2>1. IsPlan(a) /\ IsPlan(k) /\ Len(a) = 4 /\ Len(k) = 1
    BY <1>0, <1>1
  <2>2. /\ IsPlan(b) /\ \A i \in 1 .. Len(a) : b[i] = a[i]
        /\ Len(b) = Len(a) + 1 /\ b[Len(a) + 1] = k[1]
    BY <1>b, <2>1, MoreIs
  <2> QED
    BY <1>0, <1>1, <2>1, <2>2
<1>3. \A i \in 1 .. Len(ByKey) : b[i].do = ByKey[i]
  BY <1>2, CallsAre
<1>4. Stage(b \o <<>>, ByKey, 1)
  BY <1>2, <1>3, CallsAre, StageJoin, QuietPlans DEF IsPlan
<1>5. b \o <<>> = b
  BY <1>2 DEF IsPlan
<1> QED
  BY <1>4, <1>5 DEF b, a, k

LEMMA TickPlan ==
    Stage(ReadTips \o <<Step("unlessSame", 0, 0)>> \o ReadList \o <<Step("showList", 0, 0)>>,
          ByTick, 1)
<1> DEFINE k == <<Step("unlessSame", 0, 0)>>
           m == <<Step("showList", 0, 0)>>
           a == ReadTips \o k
           b == a \o ReadList
           c == b \o m
<1>a. a = ReadTips \o k
  OBVIOUS
<1>b. b = a \o ReadList
  OBVIOUS
<1>c. c = b \o m
  OBVIOUS
<1>0. IsPlan(k) /\ Len(k) = 1 /\ k[1].do = "unlessSame"
      /\ IsPlan(m) /\ Len(m) = 1 /\ m[1].do = "showList"
  BY OneIs
<1> HIDE DEF c, b, a, k, m
<1>1. /\ IsPlan(a)
      /\ Len(a) = 3 /\ a[1].do = "tipsAuth" /\ a[2].do = "tipsPub" /\ a[3].do = "unlessSame"
  <2>1. IsPlan(ReadTips) /\ IsPlan(k) /\ Len(ReadTips) = 2 /\ Len(k) = 1
    BY <1>0, PairIs
  <2>2. /\ IsPlan(a) /\ \A i \in 1 .. Len(ReadTips) : a[i] = ReadTips[i]
        /\ Len(a) = Len(ReadTips) + 1 /\ a[Len(ReadTips) + 1] = k[1]
    BY <1>a, <2>1, MoreIs
  <2> QED
    BY <1>0, <2>1, <2>2, PairIs
<1>2. /\ IsPlan(b)
      /\ Len(b) = 5 /\ b[1].do = "tipsAuth" /\ b[2].do = "tipsPub" /\ b[3].do = "unlessSame"
      /\ b[4].do = "listAuth" /\ b[5].do = "listPub"
  <2>1. IsPlan(a) /\ IsPlan(ReadList) /\ Len(a) = 3 /\ Len(ReadList) = 2
    BY <1>1, PairIs
  <2>2. /\ IsPlan(b) /\ \A i \in 1 .. Len(a) : b[i] = a[i]
        /\ Len(b) = Len(a) + 2 /\ b[Len(a) + 1] = ReadList[1] /\ b[Len(a) + 2] = ReadList[2]
    BY <1>b, <2>1, MoreIs
  <2> QED
    BY <1>1, <2>1, <2>2, PairIs
<1>3. /\ IsPlan(c)
      /\ Len(c) = 6 /\ c[1].do = "tipsAuth" /\ c[2].do = "tipsPub" /\ c[3].do = "unlessSame"
      /\ c[4].do = "listAuth" /\ c[5].do = "listPub" /\ c[6].do = "showList"
  <2>1. IsPlan(b) /\ IsPlan(m) /\ Len(b) = 5 /\ Len(m) = 1
    BY <1>0, <1>2
  <2>2. /\ IsPlan(c) /\ \A i \in 1 .. Len(b) : c[i] = b[i]
        /\ Len(c) = Len(b) + 1 /\ c[Len(b) + 1] = m[1]
    BY <1>c, <2>1, MoreIs
  <2> QED
    BY <1>0, <1>2, <2>1, <2>2
<1>4. \A i \in 1 .. Len(ByTick) : c[i].do = ByTick[i]
  BY <1>3, CallsAre
<1>5. Stage(c \o <<>>, ByTick, 1)
  BY <1>3, <1>4, CallsAre, StageJoin, QuietPlans DEF IsPlan
<1>6. c \o <<>> = c
  BY <1>3 DEF IsPlan
<1> QED
  BY <1>5, <1>6 DEF c, b, a, k, m

-----------------------------------------------------------------------------
(* What a listing finds.                                                   *)

LEMMA ZeroIsNone == ShownInv => 0 \notin DOMAIN commits
<1> SUFFICES ASSUME ShownInv PROVE 0 \notin DOMAIN commits
  OBVIOUS
<1>1. PICK S : commits \in Seq(S)
  BY DEF ShownInv
<1>2. DOMAIN commits = 1 .. Len(commits) /\ Len(commits) \in Nat
  BY <1>1
<1> QED
  BY <1>2

(* The row of a thread, whether it was in the cache or read, is the row of *)
(* the tip that the listing found; so is the entry that the cache keeps.   *)
LEMMA ListingFits ==
    ASSUME ShownInv, RefsInv, CacheInv, NEW au, NEW t \in Threads,
           au[t] # 0 => Past(t, au[t])
    PROVE  LET new == CacheAfter(app.cache, au, pub)
           IN  /\ Fits(t, RowsOf(new)[t], TipsOf(au, pub)[t])
               /\ new[t].tip # 0 => new[t].c = new[t].tip /\ Readable(new[t].tip)
<1> DEFINE own == IF au[t] = 0 THEN 0 ELSE RowAt(app.cache, t, au[t], FALSE)
           other == IF pub[t] = 0 THEN 0 ELSE RowAt(app.cache, t, pub[t], TRUE)
           entry == IF own # 0 THEN [tip |-> au[t], published |-> FALSE, c |-> own]
                    ELSE IF other # 0 THEN [tip |-> pub[t], published |-> TRUE, c |-> other]
                    ELSE NoEntry
           new == CacheAfter(app.cache, au, pub)
<1>1. new[t] = entry /\ TipsOf(au, pub)[t] = IF au[t] # 0 THEN au[t] ELSE pub[t]
  BY DEF CacheAfter, TipsOf
<1>0. RowsOf(new)[t] = [c |-> new[t].c, published |-> new[t].published]
  BY DEF RowsOf
<1>2. app.cache[t].tip # 0 => app.cache[t].c = app.cache[t].tip /\ Readable(app.cache[t].tip)
  BY DEF CacheInv
<1>3. own = IF au[t] # 0 /\ Readable(au[t]) THEN au[t] ELSE 0
  BY <1>2 DEF RowAt
<1>4. pub[t] # 0 => Readable(pub[t]) /\ auth[t] # pub[t]
  BY DEF RefsInv
<1>5. other = pub[t]
  BY <1>2, <1>4 DEF RowAt
<1>6. 0 \notin DOMAIN commits
  BY ZeroIsNone
<1> HIDE DEF own, other, new
<1>7. CASE own # 0
  <2>1. own = au[t] /\ au[t] # 0 /\ Readable(au[t])
    BY <1>3, <1>7
  <2>2. new[t] = [tip |-> au[t], published |-> FALSE, c |-> au[t]]
    BY <1>1, <1>7, <2>1
  <2>3. RowsOf(new)[t] = [c |-> au[t], published |-> FALSE] /\ TipsOf(au, pub)[t] = au[t]
    BY <1>0, <1>1, <2>1, <2>2
  <2> QED
    BY <2>1, <2>2, <2>3 DEF Fits, new
<1>8. CASE own = 0 /\ pub[t] # 0
  <2>1. new[t] = [tip |-> pub[t], published |-> TRUE, c |-> pub[t]]
    BY <1>1, <1>5, <1>8
  <2>2. RowsOf(new)[t] = [c |-> pub[t], published |-> TRUE]
    BY <1>0, <2>1
  <2>3. CASE au[t] = 0
    <3>1. TipsOf(au, pub)[t] = pub[t] /\ Readable(pub[t]) /\ auth[t] # pub[t]
      BY <1>1, <1>4, <1>8, <2>3
    <3> QED
      BY <2>1, <2>2, <3>1 DEF Fits, Readable, new
  <2>4. CASE au[t] # 0
    <3>1. TipsOf(au, pub)[t] = au[t] /\ Past(t, au[t]) /\ ~Readable(au[t]) /\ Readable(pub[t])
      BY <1>1, <1>3, <1>4, <1>8, <2>4
    <3> QED
      BY <2>1, <2>2, <3>1 DEF Fits, new
  <2> QED
    BY <2>3, <2>4
<1>9. CASE own = 0 /\ pub[t] = 0
  <2>1. new[t] = NoEntry
    BY <1>1, <1>5, <1>9
  <2>2. RowsOf(new)[t] = NoRow /\ NoEntry.tip = 0
    BY <1>0, <2>1 DEF NoEntry, NoRow
  <2>3. CASE au[t] = 0
    <3>1. TipsOf(au, pub)[t] = 0
      BY <1>1, <1>9, <2>3
    <3> QED
      BY <2>1, <2>2, <3>1 DEF Fits, new
  <2>4. CASE au[t] # 0
    <3>1. TipsOf(au, pub)[t] = au[t] /\ Past(t, au[t]) /\ ~Readable(au[t])
      BY <1>1, <1>3, <1>9, <2>4
    <3> QED
      BY <2>1, <2>2, <3>1 DEF Fits, new
  <2> QED
    BY <2>3, <2>4
<1> QED
  BY <1>7, <1>8, <1>9

(* A listing without a cache agrees with the row of the tip there is.      *)
LEMMA RowIsListing ==
    ASSUME ShownInv, RefsInv, NEW t \in Threads, auth[t] # 0 => Readable(auth[t]),
           Fits(t, app.rows[t], TipsOf(auth, pub)[t])
    PROVE  app.rows[t] = Listing[t]
<1> DEFINE none == [u \in Threads |-> NoEntry]
           own == IF auth[t] = 0 THEN 0 ELSE RowAt(none, t, auth[t], FALSE)
           other == IF pub[t] = 0 THEN 0 ELSE RowAt(none, t, pub[t], TRUE)
           entry == IF own # 0 THEN [tip |-> auth[t], published |-> FALSE, c |-> own]
                    ELSE IF other # 0 THEN [tip |-> pub[t], published |-> TRUE, c |-> other]
                    ELSE NoEntry
<1>1. Listing[t] = [c |-> entry.c, published |-> entry.published]
      /\ TipsOf(auth, pub)[t] = IF auth[t] # 0 THEN auth[t] ELSE pub[t]
  BY DEF Listing, CacheAfter, RowsOf, TipsOf
<1>2. none[t] = NoEntry /\ NoEntry.tip = 0 /\ NoEntry.c = 0 /\ NoEntry.published = FALSE
  BY DEF NoEntry
<1>3. pub[t] # 0 => Readable(pub[t])
  BY DEF RefsInv
<1>4. own = auth[t]
  BY <1>2 DEF RowAt
<1>5. other = pub[t]
  BY <1>2, <1>3 DEF RowAt
<1>6. 0 \notin DOMAIN commits /\ (auth[t] # 0 => auth[t] # pub[t])
  BY ZeroIsNone DEF RefsInv
<1> HIDE DEF own, other, none
<1>7. CASE auth[t] # 0
  <2>1. Listing[t] = [c |-> auth[t], published |-> FALSE] /\ TipsOf(auth, pub)[t] = auth[t]
    BY <1>1, <1>4, <1>7
  <2> QED
    BY <1>7, <2>1 DEF Fits
<1>8. CASE auth[t] = 0 /\ pub[t] # 0
  <2>1. Listing[t] = [c |-> pub[t], published |-> TRUE] /\ TipsOf(auth, pub)[t] = pub[t]
    BY <1>1, <1>4, <1>5, <1>8
  <2> QED
    BY <1>8, <2>1 DEF Fits, Past
<1>9. CASE auth[t] = 0 /\ pub[t] = 0
  <2>1. Listing[t] = NoRow /\ TipsOf(auth, pub)[t] = 0
    BY <1>1, <1>2, <1>4, <1>5, <1>9 DEF NoRow
  <2> QED
    BY <1>6, <2>1 DEF Fits, Past
<1> QED
  BY <1>7, <1>8, <1>9

-----------------------------------------------------------------------------
(* What others do to the refs.                                             *)

(* Commits stay, and a ref stays, goes, or names a commit of its own.      *)
Moves ==
    /\ \A c \in DOMAIN commits : c \in DOMAIN commits' /\ commits'[c] = commits[c]
    /\ \A t \in Threads : auth'[t] \in {auth[t], 0} \/ auth'[t] \notin DOMAIN commits
    /\ \A t \in Threads : pub'[t] \in {pub[t], 0} \/ pub'[t] \notin DOMAIN commits

LEMMA SameRepoMoves ==
    ASSUME RefsInv, UNCHANGED repo
    PROVE  RefsInv' /\ Moves
<1>1. commits' = commits /\ auth' = auth /\ pub' = pub
  BY DEF repo
<1>2. Moves
  BY <1>1 DEF Moves
<1>3. RefsInv'
  BY <1>1 DEF RefsInv, Readable
<1> QED
  BY <1>2, <1>3

(* A commit that is added is nobody's yet.                                 *)
LEMMA Fresh ==
    ASSUME ShownInv, NEW d, commits' = Append(commits, d)
    PROVE  /\ \A c \in DOMAIN commits : c \in DOMAIN commits' /\ commits'[c] = commits[c]
           /\ Len(commits) + 1 \in DOMAIN commits' /\ Len(commits) + 1 \notin DOMAIN commits
           /\ commits'[Len(commits) + 1] = d
           /\ Len(commits) + 1 # 0
<1>1. PICK S : commits \in Seq(S)
  BY DEF ShownInv
<1>2. commits \in Seq(S \cup {d})
  BY <1>1, SeqMonotonic
<1>3. /\ Len(commits') = Len(commits) + 1 /\ commits' \in Seq(S \cup {d})
      /\ \A c \in 1..Len(commits) : commits'[c] = commits[c]
      /\ commits'[Len(commits) + 1] = d
  BY <1>2
<1>4. DOMAIN commits = 1..Len(commits) /\ DOMAIN commits' = 1..Len(commits')
      /\ Len(commits) \in Nat
  BY <1>2, <1>3
<1> QED
  BY <1>3, <1>4

LEMMA InstallMoves ==
    ASSUME ShownInv, RefsInv, NEW t \in Threads, NEW d, Install(t, d)
    PROVE  RefsInv' /\ Moves
<1> DEFINE new == Len(commits) + 1
<1>1. commits' = Append(commits, d) /\ auth' = [auth EXCEPT ![t] = new] /\ pub' = pub
  BY DEF Install
<1>2. /\ \A c \in DOMAIN commits : c \in DOMAIN commits' /\ commits'[c] = commits[c]
      /\ new \in DOMAIN commits' /\ new \notin DOMAIN commits /\ new # 0
  BY <1>1, Fresh
<1> HIDE DEF new
<1>3. auth \in [Threads -> {0} \cup DOMAIN commits] /\ pub \in [Threads -> {0} \cup DOMAIN commits]
      /\ (\A u \in Threads : pub[u] # 0 => Readable(pub[u]))
      /\ (\A u \in Threads : auth[u] # 0 => auth[u] # pub[u])
  BY DEF RefsInv
<1>4. \A u \in Threads : auth'[u] = IF u = t THEN new ELSE auth[u]
  BY <1>1, <1>3
<1>5. Moves
  BY <1>1, <1>2, <1>4 DEF Moves
<1>6. auth' \in [Threads -> {0} \cup DOMAIN commits'] /\ pub' \in [Threads -> {0} \cup DOMAIN commits']
  <2>1. {0} \cup DOMAIN commits \subseteq {0} \cup DOMAIN commits'
    BY <1>2
  <2> QED
    BY <1>1, <1>2, <1>3, <2>1
<1>7. \A u \in Threads : pub'[u] # 0 => Readable(pub[u])'
  BY <1>1, <1>2, <1>3 DEF Readable
<1>8. \A u \in Threads : auth'[u] # 0 => auth'[u] # pub'[u]
  BY <1>1, <1>2, <1>3, <1>4
<1> QED
  BY <1>5, <1>6, <1>7, <1>8 DEF RefsInv

LEMMA InstallAnyMoves ==
    ASSUME ShownInv, RefsInv, NEW t, NEW d, Install(t, d)
    PROVE  RefsInv' /\ Moves
<1>1. CASE t \in Threads
  BY <1>1, InstallMoves
<1>2. CASE t \notin Threads
  <2>1. commits' = Append(commits, d) /\ pub' = pub /\ auth' = auth
    BY <1>2 DEF Install, RefsInv
  <2>2. \A c \in DOMAIN commits : c \in DOMAIN commits' /\ commits'[c] = commits[c]
    BY <2>1, Fresh
  <2>3. Moves
    BY <2>1, <2>2 DEF Moves
  <2>4. {0} \cup DOMAIN commits \subseteq {0} \cup DOMAIN commits'
    BY <2>2
  <2>5. \A u \in Threads : pub'[u] # 0 => Readable(pub[u])'
    BY <2>1, <2>2 DEF RefsInv, Readable
  <2>6. RefsInv'
    BY <2>1, <2>4, <2>5 DEF RefsInv
  <2> QED
    BY <2>3, <2>6
<1> QED
  BY <1>1, <1>2

LEMMA DeleteMoves ==
    ASSUME ShownInv, RefsInv, OtherDeletes
    PROVE  RefsInv' /\ Moves
<1>1. PICK t \in Threads : auth' = [auth EXCEPT ![t] = 0]
  BY DEF OtherDeletes
<1>2. commits' = commits /\ pub' = pub
  BY DEF OtherDeletes
<1>3. auth \in [Threads -> {0} \cup DOMAIN commits] /\ pub \in [Threads -> {0} \cup DOMAIN commits]
      /\ (\A u \in Threads : pub[u] # 0 => Readable(pub[u]))
      /\ (\A u \in Threads : auth[u] # 0 => auth[u] # pub[u])
  BY DEF RefsInv
<1>4. \A u \in Threads : auth'[u] \in {auth[u], 0}
  BY <1>1, <1>3
<1>5. auth' \in [Threads -> {0} \cup DOMAIN commits]
  BY <1>1, <1>3
<1>6. Moves
  BY <1>2, <1>4 DEF Moves
<1>7. \A u \in Threads : auth'[u] # 0 => auth'[u] # pub'[u]
  BY <1>2, <1>3, <1>4
<1>8. \A u \in Threads : pub'[u] # 0 => Readable(pub[u])'
  BY <1>2, <1>3 DEF Readable
<1> QED
  BY <1>2, <1>3, <1>5, <1>6, <1>7, <1>8 DEF RefsInv

LEMMA WithdrawMoves ==
    ASSUME ShownInv, RefsInv, OtherWithdraws
    PROVE  RefsInv' /\ Moves
<1>1. PICK t \in Threads : pub' = [pub EXCEPT ![t] = 0]
  BY DEF OtherWithdraws
<1>2. commits' = commits /\ auth' = auth
  BY DEF OtherWithdraws
<1>3. auth \in [Threads -> {0} \cup DOMAIN commits] /\ pub \in [Threads -> {0} \cup DOMAIN commits]
      /\ (\A u \in Threads : pub[u] # 0 => Readable(pub[u]))
      /\ (\A u \in Threads : auth[u] # 0 => auth[u] # pub[u])
  BY DEF RefsInv
<1>4. \A u \in Threads : pub'[u] \in {pub[u], 0}
  BY <1>1, <1>3
<1>5. pub' \in [Threads -> {0} \cup DOMAIN commits]
  BY <1>1, <1>3
<1>6. Moves
  BY <1>2, <1>4 DEF Moves
<1>7. \A u \in Threads : auth'[u] # 0 => auth'[u] # pub'[u]
  BY <1>2, <1>3, <1>4
<1>8. \A u \in Threads : pub'[u] # 0 => Readable(pub[u])'
  BY <1>2, <1>3, <1>4 DEF Readable
<1> QED
  BY <1>2, <1>3, <1>5, <1>6, <1>7, <1>8 DEF RefsInv

(* What is published can be read: it is a projection of the thread.        *)
LEMMA PublishMoves ==
    ASSUME ShownInv, RefsInv, OtherPublishes
    PROVE  RefsInv' /\ Moves
<1> DEFINE new == Len(commits) + 1
<1>1. PICK t \in Threads :
         /\ commits' = Append(commits, IF Readable(Source(t)) THEN commits[Source(t)]
                                       ELSE Document(t, "open", NoNodes, {}))
         /\ pub' = [pub EXCEPT ![t] = new]
  BY DEF OtherPublishes
<1>2. auth' = auth
  BY DEF OtherPublishes
<1>3. PICK d : commits' = Append(commits, d) /\ ~d.event
  <2>1. CASE Readable(Source(t))
    BY <1>1, <2>1 DEF Readable
  <2>2. CASE ~Readable(Source(t))
    BY <1>1, <2>2 DEF Document
  <2> QED
    BY <2>1, <2>2
<1>4. /\ \A c \in DOMAIN commits : c \in DOMAIN commits' /\ commits'[c] = commits[c]
      /\ new \in DOMAIN commits' /\ new \notin DOMAIN commits /\ new # 0
      /\ commits'[new] = d
  BY <1>3, Fresh
<1> HIDE DEF new
<1>5. auth \in [Threads -> {0} \cup DOMAIN commits] /\ pub \in [Threads -> {0} \cup DOMAIN commits]
      /\ (\A u \in Threads : pub[u] # 0 => Readable(pub[u]))
      /\ (\A u \in Threads : auth[u] # 0 => auth[u] # pub[u])
  BY DEF RefsInv
<1>6. \A u \in Threads : pub'[u] = IF u = t THEN new ELSE pub[u]
  BY <1>1, <1>5
<1>7. Moves
  BY <1>2, <1>4, <1>6 DEF Moves
<1>8. auth' \in [Threads -> {0} \cup DOMAIN commits'] /\ pub' \in [Threads -> {0} \cup DOMAIN commits']
  <2>1. {0} \cup DOMAIN commits \subseteq {0} \cup DOMAIN commits'
    BY <1>4
  <2> QED
    BY <1>1, <1>2, <1>4, <1>5, <2>1
<1>9. \A u \in Threads : pub'[u] # 0 => Readable(pub[u])'
  BY <1>3, <1>4, <1>5, <1>6 DEF Readable
<1>10. \A u \in Threads : auth'[u] # 0 => auth'[u] # pub'[u]
  BY <1>2, <1>4, <1>5, <1>6
<1> QED
  BY <1>7, <1>8, <1>9, <1>10 DEF RefsInv

LEMMA OthersMove ==
    ASSUME ShownInv, RefsInv, Others
    PROVE  RefsInv' /\ Moves
<1>1. ASSUME OtherEdits \/ OtherCreates \/ OtherDiverges \/ OtherIsLegacy
      PROVE  RefsInv' /\ Moves
  <2>1. PICK t, d : Install(t, d)
    BY <1>1 DEF OtherEdits, OtherCreates, OtherDiverges, OtherIsLegacy
  <2> QED
    BY <2>1, InstallAnyMoves
<1> QED
  BY <1>1, DeleteMoves, WithdrawMoves, PublishMoves DEF Others

(* What a row says of a commit stays true of it.                           *)
LEMMA FitsOn ==
    ASSUME ShownInv, Moves, NEW t \in Threads, NEW row, NEW c
    PROVE  /\ Past(t, c) => Past(t, c)'
           /\ Dead(t, c) => Dead(t, c)'
           /\ Fits(t, row, c) => Fits(t, row, c)'
<1>1. 0 \notin DOMAIN commits
  BY ZeroIsNone
<1>2. ASSUME c \in DOMAIN commits
      PROVE  /\ c \in DOMAIN commits' /\ commits'[c] = commits[c]
             /\ pub[t] # c => pub'[t] # c
             /\ auth[t] # c => auth'[t] # c
  BY <1>1, <1>2 DEF Moves
<1>3. Past(t, c) => Past(t, c)'
  BY <1>2 DEF Past
<1>4. Dead(t, c) => Dead(t, c)'
  BY <1>2 DEF Dead, Past
<1>5. c \in DOMAIN commits => (Readable(c)' <=> Readable(c))
  BY <1>2 DEF Readable
<1> QED
  BY <1>2, <1>3, <1>4, <1>5 DEF Fits, Past

-----------------------------------------------------------------------------
(* The next call of a refresh.                                             *)

Leads(p, do, calls, k) ==
    /\ p # <<>> /\ Head(p).do = do
    /\ Stage(Tail(p), calls, k) /\ Tail(p) # <<>>
Ends(p, do) == p # <<>> /\ Head(p).do = do /\ Quiet(Tail(p))

LEMMA StageLeads ==
    ASSUME NEW p, NEW calls \in {RowsFirst, ByKey, ByTick}, NEW k \in 1 .. Len(calls),
           k < Len(calls), Stage(p, calls, k)
    PROVE  Leads(p, calls[k], calls, k + 1)
  BY StageSteps DEF Leads

LEMMA StageEnds ==
    ASSUME NEW p, NEW calls \in {RowsFirst, ByKey, ByTick}, Stage(p, calls, Len(calls))
    PROVE  Ends(p, calls[Len(calls)])
<1>0. Len(calls) \in {5, 6}
  BY CallsAre
<1>1. Len(calls) \in 1 .. Len(calls)
  BY <1>0
<1> QED
  BY <1>1, StageSteps DEF Ends

LEMMA RowsFirstNext ==
    ASSUME NEW p
    PROVE  /\ Stage(p, RowsFirst, 1) => Leads(p, "listAuth", RowsFirst, 2)
           /\ Stage(p, RowsFirst, 2) => Leads(p, "listPub", RowsFirst, 3)
           /\ Stage(p, RowsFirst, 3) => Leads(p, "keepRows", RowsFirst, 4)
           /\ Stage(p, RowsFirst, 4) => Leads(p, "tipsAuth", RowsFirst, 5)
           /\ Stage(p, RowsFirst, 5) => Leads(p, "tipsPub", RowsFirst, 6)
           /\ Stage(p, RowsFirst, 6) => Ends(p, "keepTips")
<1>1. ASSUME NEW k \in 1 .. 5, Stage(p, RowsFirst, k) PROVE Leads(p, RowsFirst[k], RowsFirst, k + 1)
  <2>1. k \in 1 .. Len(RowsFirst) /\ k < Len(RowsFirst)
    BY CallsAre
  <2> QED
    BY <1>1, <2>1, StageLeads
<1>2. Stage(p, RowsFirst, 6) => Ends(p, RowsFirst[6])
  BY CallsAre, StageEnds
<1> QED
  BY <1>1, <1>2, CallsAre

LEMMA ByKeyNext ==
    ASSUME NEW p
    PROVE  /\ Stage(p, ByKey, 1) => Leads(p, "listAuth", ByKey, 2)
           /\ Stage(p, ByKey, 2) => Leads(p, "listPub", ByKey, 3)
           /\ Stage(p, ByKey, 3) => Leads(p, "tipsAuth", ByKey, 4)
           /\ Stage(p, ByKey, 4) => Leads(p, "tipsPub", ByKey, 5)
           /\ Stage(p, ByKey, 5) => Ends(p, "showList")
<1>1. ASSUME NEW k \in 1 .. 4, Stage(p, ByKey, k) PROVE Leads(p, ByKey[k], ByKey, k + 1)
  <2>1. k \in 1 .. Len(ByKey) /\ k < Len(ByKey)
    BY CallsAre
  <2> QED
    BY <1>1, <2>1, StageLeads
<1>2. Stage(p, ByKey, 5) => Ends(p, ByKey[5])
  BY CallsAre, StageEnds
<1> QED
  BY <1>1, <1>2, CallsAre

LEMMA ByTickNext ==
    ASSUME NEW p
    PROVE  /\ Stage(p, ByTick, 1) => Leads(p, "tipsAuth", ByTick, 2)
           /\ Stage(p, ByTick, 2) => Leads(p, "tipsPub", ByTick, 3)
           /\ Stage(p, ByTick, 3) => Leads(p, "unlessSame", ByTick, 4)
           /\ Stage(p, ByTick, 4) => Leads(p, "listAuth", ByTick, 5)
           /\ Stage(p, ByTick, 5) => Leads(p, "listPub", ByTick, 6)
           /\ Stage(p, ByTick, 6) => Ends(p, "showList")
<1>1. ASSUME NEW k \in 1 .. 5, Stage(p, ByTick, k) PROVE Leads(p, ByTick[k], ByTick, k + 1)
  <2>1. k \in 1 .. Len(ByTick) /\ k < Len(ByTick)
    BY CallsAre
  <2> QED
    BY <1>1, <2>1, StageLeads
<1>2. Stage(p, ByTick, 6) => Ends(p, ByTick[6])
  BY CallsAre, StageEnds
<1> QED
  BY <1>1, <1>2, CallsAre

(* What the next call finds, and what it leaves to be done.                *)
LEMMA NextCall ==
    ASSUME ListInv, todo # <<>>
    PROVE  LET do == Head(todo).do
               rest == Tail(todo)
           IN  /\ do \notin ListCalls => Quiet(rest) /\ Settled
               /\ do = "listAuth" => /\ rest # <<>> /\ Settled
                                     /\ \/ Stage(rest, RowsFirst, 2)
                                        \/ loop = "event" /\ Stage(rest, ByKey, 2)
                                        \/ Stage(rest, ByTick, 5) /\ OwnTips
               /\ do = "listPub" => /\ rest # <<>> /\ Settled /\ PastAuth
                                    /\ \/ Stage(rest, RowsFirst, 3)
                                       \/ loop = "event" /\ Stage(rest, ByKey, 3)
                                       \/ Stage(rest, ByTick, 6) /\ OwnTips /\ OwnAuth
               /\ do = "keepRows" => rest # <<>> /\ Stage(rest, RowsFirst, 4) /\ Listed(work.rows)
               /\ do = "tipsAuth" =>
                    /\ rest # <<>>
                    /\ \/ Stage(rest, RowsFirst, 5) /\ Listed(app.rows)
                       \/ loop = "event" /\ Stage(rest, ByKey, 4) /\ Settled /\ Listed(work.rows)
                       \/ Stage(rest, ByTick, 2) /\ Settled
               /\ do = "tipsPub" =>
                    /\ rest # <<>>
                    /\ \/ Stage(rest, RowsFirst, 6) /\ Listed(app.rows)
                       \/ loop = "event" /\ Stage(rest, ByKey, 5) /\ Settled /\ Listed(work.rows)
                       \/ Stage(rest, ByTick, 3) /\ Settled /\ PastAuth
               /\ do = "keepTips" => Quiet(rest) /\ Listed(app.rows)
               /\ do = "unlessSame" => /\ rest # <<>> /\ Stage(rest, ByTick, 4)
                                       /\ Settled /\ OwnTips
               /\ do = "showList" => /\ Quiet(rest) /\ Listed(work.rows)
                                     /\ loop = "event" \/ OwnListed
<1> DEFINE do == Head(todo).do
           rest == Tail(todo)
<1> USE DEF Leads, Ends
<1>1. CASE Quiet(todo) /\ Settled
  <2>1. do \notin ListCalls /\ Quiet(rest)
    BY <1>1, QuietTail
  <2> QED
    BY <1>1, <2>1 DEF ListCalls
<1>2. CASE Stage(todo, RowsFirst, 1) /\ Settled
  BY <1>2, RowsFirstNext DEF ListCalls
<1>3. CASE Stage(todo, RowsFirst, 2) /\ Settled /\ PastAuth
  BY <1>3, RowsFirstNext DEF ListCalls
<1>4. CASE Stage(todo, RowsFirst, 3) /\ Listed(work.rows)
  BY <1>4, RowsFirstNext DEF ListCalls
<1>5. CASE (\E k \in 4 .. 6 : Stage(todo, RowsFirst, k)) /\ Listed(app.rows)
  <2>1. Stage(todo, RowsFirst, 4) \/ Stage(todo, RowsFirst, 5) \/ Stage(todo, RowsFirst, 6)
    BY <1>5
  <2> QED
    BY <1>5, <2>1, RowsFirstNext DEF ListCalls
<1>6. CASE loop = "event" /\ Stage(todo, ByKey, 1) /\ Settled
  BY <1>6, ByKeyNext DEF ListCalls
<1>7. CASE loop = "event" /\ Stage(todo, ByKey, 2) /\ Settled /\ PastAuth
  BY <1>7, ByKeyNext DEF ListCalls
<1>8. CASE loop = "event" /\ (\E k \in 3 .. 5 : Stage(todo, ByKey, k)) /\ Settled /\ Listed(work.rows)
  <2>1. Stage(todo, ByKey, 3) \/ Stage(todo, ByKey, 4) \/ Stage(todo, ByKey, 5)
    BY <1>8
  <2> QED
    BY <1>8, <2>1, ByKeyNext DEF ListCalls
<1>9. CASE Stage(todo, ByTick, 1) /\ Settled
  BY <1>9, ByTickNext DEF ListCalls
<1>10. CASE Stage(todo, ByTick, 2) /\ Settled /\ PastAuth
  BY <1>10, ByTickNext DEF ListCalls
<1>11. CASE (\E k \in 3 .. 4 : Stage(todo, ByTick, k)) /\ Settled /\ OwnTips
  <2>1. Stage(todo, ByTick, 3) \/ Stage(todo, ByTick, 4)
    BY <1>11
  <2> QED
    BY <1>11, <2>1, ByTickNext DEF ListCalls
<1>12. CASE Stage(todo, ByTick, 5) /\ Settled /\ PastAuth /\ OwnTips /\ OwnAuth
  BY <1>12, ByTickNext DEF ListCalls
<1>13. CASE Stage(todo, ByTick, 6) /\ Settled /\ Listed(work.rows) /\ OwnListed
  BY <1>13, ByTickNext DEF ListCalls
<1> QED
  BY <1>1, <1>2, <1>3, <1>4, <1>5, <1>6, <1>7, <1>8, <1>9, <1>10, <1>11, <1>12, <1>13 DEF ListInv

(* Nothing is left to be done: the rows are those of the tips.             *)
LEMMA DoneSettled ==
    ASSUME ListInv, todo = <<>>
    PROVE  Settled
<1>1. ASSUME NEW k \in 1 .. 6, Stage(todo, RowsFirst, k) \/ Stage(todo, ByTick, k) PROVE FALSE
  <2>1. k \in {1, 2, 3, 4, 5, 6}
    OBVIOUS
  <2> QED
    BY <1>1, <2>1, RowsFirstNext, ByTickNext DEF Leads, Ends
<1> QED
  BY <1>1 DEF ListInv

-----------------------------------------------------------------------------
(* What a step leaves alone.                                               *)

LEMMA SettledOn ==
    ASSUME ShownInv, Moves, app'.rows = app.rows, app'.tips = app.tips, slipped' = slipped, Settled
    PROVE  Settled'
<1>1. SUFFICES ASSUME NEW t \in Threads \ slipped
               PROVE  Fits(t, app.rows[t], app.tips[t])' \/ Dead(t, app.tips[t])'
  BY DEF Settled
<1>2. PICK row : row = app.rows[t]
  OBVIOUS
<1>3. PICK c : c = app.tips[t]
  OBVIOUS
<1>4. Fits(t, row, c) \/ Dead(t, c)
  BY <1>2, <1>3 DEF Settled
<1>5. Fits(t, row, c)' \/ Dead(t, c)'
  BY <1>4, FitsOn
<1>6. app'.rows[t] = row /\ app'.tips[t] = c
  BY <1>2, <1>3
<1> QED
  BY <1>5, <1>6 DEF Fits, Dead, Past, Readable

LEMMA AppListedOn ==
    ASSUME ShownInv, Moves, app'.rows = app.rows, work'.listed = work.listed, Listed(app.rows)
    PROVE  Listed(app.rows)'
<1>1. SUFFICES ASSUME NEW t \in Threads PROVE Fits(t, app.rows[t], work.listed[t])'
  BY DEF Listed
<1>2. PICK row : row = app.rows[t]
  OBVIOUS
<1>3. PICK c : c = work.listed[t]
  OBVIOUS
<1>4. Fits(t, row, c)'
  BY <1>2, <1>3, FitsOn DEF Listed
<1>5. app'.rows[t] = row /\ work'.listed[t] = c
  BY <1>2, <1>3
<1> QED
  BY <1>4, <1>5 DEF Fits, Past, Readable

LEMMA WorkListedOn ==
    ASSUME ShownInv, Moves, work'.rows = work.rows, work'.listed = work.listed, Listed(work.rows)
    PROVE  Listed(work.rows)'
<1>1. SUFFICES ASSUME NEW t \in Threads PROVE Fits(t, work.rows[t], work.listed[t])'
  BY DEF Listed
<1>2. PICK row : row = work.rows[t]
  OBVIOUS
<1>3. PICK c : c = work.listed[t]
  OBVIOUS
<1>4. Fits(t, row, c)'
  BY <1>2, <1>3, FitsOn DEF Listed
<1>5. work'.rows[t] = row /\ work'.listed[t] = c
  BY <1>2, <1>3
<1> QED
  BY <1>4, <1>5 DEF Fits, Past, Readable

LEMMA PastAuthOn ==
    ASSUME ShownInv, Moves, work'.auth = work.auth, PastAuth
    PROVE  PastAuth'
<1>1. SUFFICES ASSUME NEW t \in Threads, work'.auth[t] # 0 PROVE Past(t, work.auth[t])'
  BY DEF PastAuth
<1>2. PICK c : c = work.auth[t]
  OBVIOUS
<1>3. Past(t, c)'
  BY <1>1, <1>2, FitsOn DEF PastAuth
<1>4. work'.auth[t] = c
  BY <1>2
<1> QED
  BY <1>3, <1>4 DEF Past

LEMMA OwnOn ==
    ASSUME ShownInv, Moves, work'.own = work.own, work'.tips = work.tips
    PROVE  /\ OwnTips => OwnTips'
           /\ work'.auth = work.auth => (OwnAuth => OwnAuth')
           /\ work'.listed = work.listed => (OwnListed => OwnListed')
<1>1. ASSUME NEW t \in work.own, t \in Threads
      PROVE  /\ Past(t, work.tips[t]) => Past(t, work.tips[t])'
             /\ Dead(t, work.tips[t]) => Dead(t, work.tips[t])'
  <2>1. PICK c : c = work.tips[t]
    OBVIOUS
  <2>2. (Past(t, c) => Past(t, c)') /\ (Dead(t, c) => Dead(t, c)')
    BY <1>1, FitsOn
  <2>3. work'.tips[t] = c
    BY <2>1
  <2> QED
    BY <2>1, <2>2, <2>3 DEF Past, Dead
<1>2. OwnTips => OwnTips'
  BY <1>1 DEF OwnTips
<1>3. ASSUME work'.auth = work.auth, OwnAuth PROVE OwnAuth'
  BY <1>1, <1>3 DEF OwnAuth
<1>4. ASSUME work'.listed = work.listed, OwnListed PROVE OwnListed'
  BY <1>1, <1>4 DEF OwnListed
<1> QED
  BY <1>2, <1>3, <1>4

LEMMA CacheOn ==
    ASSUME CacheInv, Moves, app'.cache = app.cache
    PROVE  CacheInv'
<1>1. SUFFICES ASSUME NEW t \in Threads, app'.cache[t].tip # 0
               PROVE  app'.cache[t].c = app'.cache[t].tip /\ Readable(app.cache[t].tip)'
  BY DEF CacheInv
<1>2. PICK entry : entry = app.cache[t]
  OBVIOUS
<1>3. entry.c = entry.tip /\ Readable(entry.tip) /\ app'.cache[t] = entry
  BY <1>1, <1>2 DEF CacheInv
<1> QED
  BY <1>3 DEF Moves, Readable

(* A step that has nothing to do with the list.                            *)
LEMMA QuietStep ==
    ASSUME ShownInv, CacheTrue, Settled, RefsInv', Moves, IsWork(work'),
           app'.rows = app.rows, app'.tips = app.tips, app'.cache = app.cache, slipped' = slipped,
           \/ Quiet(todo')
           \/ Stage(todo', RowsFirst, 1)
           \/ loop' = "event" /\ Stage(todo', ByKey, 1)
           \/ Stage(todo', ByTick, 1)
    PROVE  CacheTrue'
<1>1. Settled'
  BY SettledOn
<1>2. CacheInv'
  BY CacheOn DEF CacheTrue
<1>3. ListInv'
  <2>1. CASE Quiet(todo')
    BY <1>1, <2>1 DEF ListInv, Quiet
  <2>2. CASE Stage(todo', RowsFirst, 1)
    BY <1>1, <2>2 DEF ListInv
  <2>3. CASE loop' = "event" /\ Stage(todo', ByKey, 1)
    BY <1>1, <2>3 DEF ListInv
  <2>4. CASE Stage(todo', ByTick, 1)
    BY <1>1, <2>4 DEF ListInv
  <2> QED
    BY <2>1, <2>2, <2>3, <2>4
<1> QED
  BY <1>2, <1>3 DEF CacheTrue, IsWork

(* A step of somebody else.                                                *)
LEMMA SameStep ==
    ASSUME ShownInv, CacheTrue, RefsInv', Moves, UNCHANGED <<app, work, todo, loop, slipped>>
    PROVE  CacheTrue'
<1>1. CacheInv' /\ IsWork(work')
  BY CacheOn DEF CacheTrue
<1>2. /\ Settled => Settled'
      /\ PastAuth => PastAuth'
      /\ Listed(work.rows) => Listed(work.rows)'
      /\ Listed(app.rows) => Listed(app.rows)'
      /\ OwnTips => OwnTips'
      /\ OwnAuth => OwnAuth'
      /\ OwnListed => OwnListed'
  BY SettledOn, PastAuthOn, WorkListedOn, AppListedOn, OwnOn
<1>3. todo' = todo /\ loop' = loop
  OBVIOUS
<1>4. ListInv'
  <2>1. CASE Quiet(todo) /\ Settled
    BY <1>2, <1>3, <2>1 DEF ListInv, Quiet
  <2>2. CASE Stage(todo, RowsFirst, 1) /\ Settled
    BY <1>2, <1>3, <2>2 DEF ListInv
  <2>3. CASE Stage(todo, RowsFirst, 2) /\ Settled /\ PastAuth
    BY <1>2, <1>3, <2>3 DEF ListInv
  <2>4. CASE Stage(todo, RowsFirst, 3) /\ Listed(work.rows)
    BY <1>2, <1>3, <2>4 DEF ListInv
  <2>5. CASE (\E k \in 4 .. 6 : Stage(todo, RowsFirst, k)) /\ Listed(app.rows)
    BY <1>2, <1>3, <2>5 DEF ListInv
  <2>6. CASE loop = "event" /\ Stage(todo, ByKey, 1) /\ Settled
    BY <1>2, <1>3, <2>6 DEF ListInv
  <2>7. CASE loop = "event" /\ Stage(todo, ByKey, 2) /\ Settled /\ PastAuth
    BY <1>2, <1>3, <2>7 DEF ListInv
  <2>8. CASE loop = "event" /\ (\E k \in 3 .. 5 : Stage(todo, ByKey, k)) /\ Settled
             /\ Listed(work.rows)
    BY <1>2, <1>3, <2>8 DEF ListInv
  <2>9. CASE Stage(todo, ByTick, 1) /\ Settled
    BY <1>2, <1>3, <2>9 DEF ListInv
  <2>10. CASE Stage(todo, ByTick, 2) /\ Settled /\ PastAuth
    BY <1>2, <1>3, <2>10 DEF ListInv
  <2>11. CASE (\E k \in 3 .. 4 : Stage(todo, ByTick, k)) /\ Settled /\ OwnTips
    <3>1. Settled' /\ OwnTips'
      BY <1>2, <2>11
    <3>2. \E k \in 3 .. 4 : Stage(todo', ByTick, k)
      BY <1>3, <2>11
    <3> QED
      BY <3>1, <3>2 DEF ListInv
  <2>12. CASE Stage(todo, ByTick, 5) /\ Settled /\ PastAuth /\ OwnTips /\ OwnAuth
    <3>1. Settled' /\ PastAuth' /\ OwnTips' /\ OwnAuth'
      BY <1>2, <2>12
    <3>2. Stage(todo', ByTick, 5)
      BY <1>3, <2>12
    <3> QED
      BY <3>1, <3>2 DEF ListInv
  <2>13. CASE Stage(todo, ByTick, 6) /\ Settled /\ Listed(work.rows) /\ OwnListed
    <3>1. Settled' /\ Listed(work.rows)' /\ OwnListed'
      BY <1>2, <2>13
    <3>2. Stage(todo', ByTick, 6)
      BY <1>3, <2>13
    <3> QED
      BY <3>1, <3>2 DEF ListInv
  <2> QED
    BY <2>1, <2>2, <2>3, <2>4, <2>5, <2>6, <2>7, <2>8, <2>9, <2>10, <2>11, <2>12, <2>13
       DEF CacheTrue, ListInv
<1> QED
  BY <1>1, <1>4 DEF CacheTrue

-----------------------------------------------------------------------------
(* The calls of a refresh of the list.                                     *)

LEMMA ListAuthTrue ==
    ASSUME ShownInv, CacheTrue, ListAuth
    PROVE  CacheTrue'
<1>1. /\ todo # <<>> /\ Head(todo).do \in {"listAuth", "tipsAuth"}
      /\ UNCHANGED <<repo, slipped>> /\ app' = app /\ todo' = Tail(todo)
      /\ work' = IF Tail(todo) = <<>> THEN NoWork ELSE [work EXCEPT !.auth = auth]
      /\ loop' = IF Tail(todo) = <<>> THEN AfterHandler ELSE loop
  BY DEF ListAuth, Doing, Keep, Continue
<1>2. IsWork(work) /\ RefsInv /\ CacheInv /\ ListInv
  BY DEF CacheTrue
<1>3. Tail(todo) # <<>>
  BY <1>1, <1>2, NextCall
<1>4. /\ IsWork(work') /\ work'.auth = auth /\ work'.rows = work.rows
      /\ work'.listed = work.listed /\ work'.tips = work.tips /\ work'.own = work.own
  BY <1>1, <1>2, <1>3 DEF IsWork
<1>5. RefsInv' /\ Moves
  BY <1>1, <1>2, SameRepoMoves
<1>6. CacheInv'
  BY <1>1, <1>2, <1>5, CacheOn
<1>7. Settled => Settled'
  BY <1>1, <1>5, SettledOn
<1>8. (Listed(work.rows) => Listed(work.rows)') /\ (Listed(app.rows) => Listed(app.rows)')
  BY <1>1, <1>4, <1>5, WorkListedOn, AppListedOn
<1>9. OwnTips => OwnTips'
  BY <1>4, <1>5, OwnOn
<1>10. commits' = commits /\ pub' = pub /\ auth' = auth
  BY <1>1 DEF repo
<1>11. PastAuth'
  <2>1. SUFFICES ASSUME NEW t \in Threads, auth[t] # 0 PROVE Past(t, work.auth[t])'
    BY <1>4 DEF PastAuth
  <2>2. auth[t] \in DOMAIN commits /\ pub[t] # auth[t]
    BY <1>2, <2>1 DEF RefsInv
  <2> QED
    BY <1>4, <1>10, <2>2 DEF Past
<1>12. ASSUME OwnTips PROVE OwnAuth'
  <2>1. SUFFICES ASSUME NEW t \in work.own
                 PROVE  t \in Threads /\ (work'.auth[t] = work'.tips[t] \/ Dead(t, work.tips[t])')
    BY <1>4 DEF OwnAuth
  <2>2. t \in Threads /\ Past(t, work.tips[t])
    BY <1>12 DEF OwnTips
  <2> QED
    BY <1>4, <1>10, <2>2 DEF Dead, Past
<1>13. ListInv'
  <2>1. CASE Head(todo).do = "listAuth"
    <3>1. /\ Settled
          /\ \/ Stage(Tail(todo), RowsFirst, 2)
             \/ loop = "event" /\ Stage(Tail(todo), ByKey, 2)
             \/ Stage(Tail(todo), ByTick, 5) /\ OwnTips
      BY <1>1, <1>2, <2>1, NextCall
    <3> QED
      BY <1>1, <1>3, <1>7, <1>9, <1>11, <1>12, <3>1 DEF ListInv
  <2>2. CASE Head(todo).do = "tipsAuth"
    <3>1. \/ Stage(Tail(todo), RowsFirst, 5) /\ Listed(app.rows)
          \/ loop = "event" /\ Stage(Tail(todo), ByKey, 4) /\ Settled /\ Listed(work.rows)
          \/ Stage(Tail(todo), ByTick, 2) /\ Settled
      BY <1>1, <1>2, <2>2, NextCall
    <3>2. CASE Stage(Tail(todo), RowsFirst, 5) /\ Listed(app.rows)
      BY <1>1, <1>8, <3>2 DEF ListInv
    <3>3. CASE loop = "event" /\ Stage(Tail(todo), ByKey, 4) /\ Settled /\ Listed(work.rows)
      BY SMTT(30), <1>1, <1>3, <1>7, <1>8, <3>3 DEF ListInv
    <3>4. CASE Stage(Tail(todo), ByTick, 2) /\ Settled
      BY <1>1, <1>7, <1>11, <3>4 DEF ListInv
    <3> QED
      BY <3>1, <3>2, <3>3, <3>4
  <2> QED
    BY <1>1, <2>1, <2>2
<1> QED
  BY <1>4, <1>5, <1>6, <1>13 DEF CacheTrue

LEMMA ListPubTrue ==
    ASSUME ShownInv, CacheTrue, IsApp(app), ListPub
    PROVE  CacheTrue'
<1> DEFINE cache == CacheAfter(app.cache, work.auth, pub)
           rows == RowsOf(cache)
           tips == TipsOf(work.auth, pub)
<1>1. /\ todo # <<>> /\ Head(todo).do = "listPub"
      /\ UNCHANGED <<repo, slipped>> /\ app' = [app EXCEPT !.cache = cache] /\ todo' = Tail(todo)
      /\ work' = IF Tail(todo) = <<>> THEN NoWork
                 ELSE [work EXCEPT !.rows = rows, !.listed = tips]
      /\ loop' = IF Tail(todo) = <<>> THEN AfterHandler ELSE loop
  BY DEF ListPub, Doing, Keep, Continue
<1>2. IsWork(work) /\ RefsInv /\ CacheInv /\ ListInv
  BY DEF CacheTrue
<1>3. Tail(todo) # <<>> /\ Settled /\ PastAuth
      /\ \/ Stage(Tail(todo), RowsFirst, 3)
         \/ loop = "event" /\ Stage(Tail(todo), ByKey, 3)
         \/ Stage(Tail(todo), ByTick, 6) /\ OwnTips /\ OwnAuth
  BY <1>1, <1>2, NextCall
<1>4. ASSUME NEW t \in Threads
      PROVE  /\ Fits(t, rows[t], tips[t])
             /\ cache[t].tip # 0 => cache[t].c = cache[t].tip /\ Readable(cache[t].tip)
  <2>1. work.auth[t] # 0 => Past(t, work.auth[t])
    BY <1>3 DEF PastAuth
  <2> QED
    BY <1>2, <2>1, ListingFits
<1>5. \A t \in Threads : tips[t] = IF work.auth[t] # 0 THEN work.auth[t] ELSE pub[t]
  BY DEF TipsOf
<1> HIDE DEF cache, rows, tips
<1>6. /\ IsWork(work') /\ work'.auth = work.auth /\ work'.rows = rows
      /\ work'.listed = tips /\ work'.tips = work.tips /\ work'.own = work.own
  BY <1>1, <1>2, <1>3 DEF IsWork
<1>7. app'.rows = app.rows /\ app'.tips = app.tips /\ app'.cache = cache
  BY <1>1 DEF IsApp
<1>8. commits' = commits /\ pub' = pub /\ auth' = auth
  BY <1>1 DEF repo
<1>9. RefsInv' /\ Moves
  BY <1>1, <1>2, SameRepoMoves
<1>10. CacheInv'
  BY <1>4, <1>7, <1>8 DEF CacheInv, Readable
<1>11. Settled'
  BY <1>1, <1>3, <1>7, <1>9, SettledOn
<1>12. Listed(work.rows)'
  BY <1>4, <1>6, <1>8 DEF Listed, Fits, Past, Readable
<1>13. ASSUME OwnTips, OwnAuth PROVE OwnListed'
  <2>1. SUFFICES ASSUME NEW t \in work.own
                 PROVE  t \in Threads /\ (work'.listed[t] = work'.tips[t] \/ Dead(t, work.tips[t])')
    BY <1>6 DEF OwnListed
  <2>2. t \in Threads /\ Past(t, work.tips[t])
        /\ (work.auth[t] = work.tips[t] \/ Dead(t, work.tips[t]))
    BY <1>13 DEF OwnTips, OwnAuth
  <2>3. CASE work.auth[t] = work.tips[t]
    <3>1. work.auth[t] # 0
      BY <2>2, <2>3, ZeroIsNone DEF Past
    <3> QED
      BY <1>5, <1>6, <2>2, <2>3, <3>1
  <2>4. CASE Dead(t, work.tips[t])
    BY <1>6, <1>8, <2>2, <2>4 DEF Dead, Past
  <2> QED
    BY <2>2, <2>3, <2>4
<1>14. ListInv'
  <2>1. CASE Stage(Tail(todo), RowsFirst, 3)
    BY <1>1, <1>12, <2>1 DEF ListInv
  <2>2. CASE loop = "event" /\ Stage(Tail(todo), ByKey, 3)
    <3>1. \E k \in 3 .. 5 : Stage(todo', ByKey, k)
      BY <1>1, <2>2
    <3> QED
      BY <1>1, <1>3, <1>11, <1>12, <2>2, <3>1 DEF ListInv
  <2>3. CASE Stage(Tail(todo), ByTick, 6) /\ OwnTips /\ OwnAuth
    BY <1>1, <1>11, <1>12, <1>13, <2>3 DEF ListInv
  <2> QED
    BY <1>3, <2>1, <2>2, <2>3
<1> QED
  BY <1>6, <1>9, <1>10, <1>14 DEF CacheTrue

LEMMA TipsPubTrue ==
    ASSUME ShownInv, CacheTrue, TipsPub
    PROVE  CacheTrue'
<1> DEFINE tips == TipsOf(work.auth, pub)
           own == {t \in Threads : work.auth[t] # 0}
<1>1. /\ todo # <<>> /\ Head(todo).do = "tipsPub"
      /\ UNCHANGED <<repo, slipped>> /\ app' = app /\ todo' = Tail(todo)
      /\ work' = IF Tail(todo) = <<>> THEN NoWork
                 ELSE [work EXCEPT !.tips = tips, !.own = own]
      /\ loop' = IF Tail(todo) = <<>> THEN AfterHandler ELSE loop
  BY DEF TipsPub, Doing, Keep, Continue
<1>2. IsWork(work) /\ RefsInv /\ CacheInv /\ ListInv
  BY DEF CacheTrue
<1>3. Tail(todo) # <<>>
      /\ \/ Stage(Tail(todo), RowsFirst, 6) /\ Listed(app.rows)
         \/ loop = "event" /\ Stage(Tail(todo), ByKey, 5) /\ Settled /\ Listed(work.rows)
         \/ Stage(Tail(todo), ByTick, 3) /\ Settled /\ PastAuth
  BY <1>1, <1>2, NextCall
<1>4. \A t \in own : t \in Threads /\ work.auth[t] # 0 /\ tips[t] = work.auth[t]
  BY DEF TipsOf
<1> HIDE DEF tips, own
<1>5. /\ IsWork(work') /\ work'.auth = work.auth /\ work'.rows = work.rows
      /\ work'.listed = work.listed /\ work'.tips = tips /\ work'.own = own
  BY <1>1, <1>2, <1>3 DEF IsWork
<1>6. commits' = commits /\ pub' = pub /\ auth' = auth
  BY <1>1 DEF repo
<1>7. RefsInv' /\ Moves
  BY <1>1, <1>2, SameRepoMoves
<1>8. CacheInv'
  BY <1>1, <1>2, <1>7, CacheOn
<1>9. Settled => Settled'
  BY <1>1, <1>7, SettledOn
<1>10. (Listed(work.rows) => Listed(work.rows)') /\ (Listed(app.rows) => Listed(app.rows)')
  BY <1>1, <1>5, <1>7, WorkListedOn, AppListedOn
<1>11. ASSUME PastAuth PROVE OwnTips'
  <2>1. SUFFICES ASSUME NEW t \in own PROVE t \in Threads /\ Past(t, work.tips[t])'
    BY <1>5 DEF OwnTips
  <2>2. t \in Threads /\ Past(t, tips[t])
    BY <1>4, <1>11 DEF PastAuth
  <2> QED
    BY <1>5, <1>6, <2>2 DEF Past
<1>12. ListInv'
  <2>1. CASE Stage(Tail(todo), RowsFirst, 6) /\ Listed(app.rows)
    BY <1>1, <1>10, <2>1 DEF ListInv
  <2>2. CASE loop = "event" /\ Stage(Tail(todo), ByKey, 5) /\ Settled /\ Listed(work.rows)
    BY SMTT(30), <1>1, <1>3, <1>9, <1>10, <2>2 DEF ListInv
  <2>3. CASE Stage(Tail(todo), ByTick, 3) /\ Settled /\ PastAuth
    BY <1>1, <1>9, <1>11, <2>3 DEF ListInv
  <2> QED
    BY <1>3, <2>1, <2>2, <2>3
<1> QED
  BY <1>5, <1>7, <1>8, <1>12 DEF CacheTrue

LEMMA NoWorkIsWork == IsWork(NoWork)
  BY DEF IsWork, NoWork

LEMMA KeepRowsTrue ==
    ASSUME ShownInv, CacheTrue, IsApp(app), KeepRows
    PROVE  CacheTrue'
<1>1. /\ todo # <<>> /\ Head(todo).do = "keepRows"
      /\ UNCHANGED <<repo, slipped>> /\ app' = [app EXCEPT !.rows = work.rows] /\ todo' = Tail(todo)
      /\ work' = IF Tail(todo) = <<>> THEN NoWork ELSE work
  BY DEF KeepRows, Doing, Keep, Continue
<1>2. IsWork(work) /\ RefsInv /\ CacheInv /\ ListInv
  BY DEF CacheTrue
<1>3. Tail(todo) # <<>> /\ Stage(Tail(todo), RowsFirst, 4) /\ Listed(work.rows)
  BY <1>1, <1>2, NextCall
<1>4. work' = work /\ app'.rows = work.rows /\ app'.cache = app.cache
  BY <1>1, <1>3 DEF IsApp
<1>5. RefsInv' /\ Moves
  BY <1>1, <1>2, SameRepoMoves
<1>6. CacheInv'
  BY <1>2, <1>4, <1>5, CacheOn
<1>7. Listed(app.rows)'
  <2>1. commits' = commits /\ pub' = pub /\ auth' = auth
    BY <1>1 DEF repo
  <2> QED
    BY <1>3, <1>4, <2>1 DEF Listed, Fits, Past, Readable
<1>8. \E k \in 4 .. 6 : Stage(todo', RowsFirst, k)
  BY <1>1, <1>3
<1>9. ListInv'
  BY <1>7, <1>8 DEF ListInv
<1> QED
  BY <1>2, <1>4, <1>5, <1>6, <1>9 DEF CacheTrue

(* The rows of the threads whose tips were read alike by both calls.       *)
LEMMA SlipsSettled ==
    ASSUME UNCHANGED repo, NEW rows, NEW own, app'.rows = rows, app'.tips = work.tips,
           Listed(rows), slipped' = Slips \ own,
           \A t \in own : t \in Threads /\ (work.listed[t] = work.tips[t] \/ Dead(t, work.tips[t]))
    PROVE  Settled'
<1>1. SUFFICES ASSUME NEW t \in Threads \ slipped'
               PROVE  Fits(t, app.rows[t], app.tips[t])' \/ Dead(t, app.tips[t])'
  BY DEF Settled
<1>2. commits' = commits /\ pub' = pub /\ auth' = auth
  BY DEF repo
<1>3. Fits(t, rows[t], work.listed[t])
  BY DEF Listed
<1>4. work.listed[t] = work.tips[t] \/ Dead(t, work.tips[t])
  BY DEF Slips
<1>5. Fits(t, rows[t], work.tips[t]) \/ Dead(t, work.tips[t])
  BY <1>3, <1>4
<1> QED
  BY <1>2, <1>5 DEF Fits, Dead, Past, Readable

LEMMA KeepTipsTrue ==
    ASSUME ShownInv, CacheTrue, IsApp(app), KeepTips
    PROVE  CacheTrue'
<1>1. /\ todo # <<>> /\ Head(todo).do = "keepTips"
      /\ UNCHANGED repo /\ app' = [app EXCEPT !.tips = work.tips] /\ todo' = Tail(todo)
      /\ work' = IF Tail(todo) = <<>> THEN NoWork ELSE work
      /\ slipped' = Slips
  BY DEF KeepTips, Doing, Keep, Continue
<1>2. IsWork(work) /\ RefsInv /\ CacheInv /\ ListInv
  BY DEF CacheTrue
<1>3. Quiet(Tail(todo)) /\ Listed(app.rows)
  BY <1>1, <1>2, NextCall
<1>4. app'.tips = work.tips /\ app'.rows = app.rows /\ app'.cache = app.cache
  BY <1>1 DEF IsApp
<1>5. RefsInv' /\ Moves
  BY <1>1, <1>2, SameRepoMoves
<1>6. CacheInv'
  BY <1>2, <1>4, <1>5, CacheOn
<1>7. IsWork(work')
  BY <1>1, <1>2, NoWorkIsWork
<1>8. Settled'
  <2>1. PICK own : own = {} /\ slipped' = Slips \ own
    BY <1>1
  <2>2. \A t \in own :
          t \in Threads /\ (work.listed[t] = work.tips[t] \/ Dead(t, work.tips[t]))
    BY <2>1
  <2> QED
    BY <1>1, <1>3, <1>4, <2>1, <2>2, SlipsSettled
<1>9. ListInv'
  BY <1>1, <1>3, <1>8 DEF ListInv, Quiet
<1> QED
  BY <1>5, <1>6, <1>7, <1>9 DEF CacheTrue

LEMMA UnlessSameTrue ==
    ASSUME ShownInv, CacheTrue, UnlessSame
    PROVE  CacheTrue'
<1> DEFINE rest == IF work.tips = app.tips THEN <<>> ELSE Tail(todo)
<1>1. /\ todo # <<>> /\ Head(todo).do = "unlessSame"
      /\ UNCHANGED <<repo, slipped>> /\ app' = app /\ todo' = rest
      /\ work' = IF rest = <<>> THEN NoWork ELSE work
  BY DEF UnlessSame, Doing, Keep, Continue
<1>2. IsWork(work) /\ RefsInv /\ CacheInv /\ ListInv
  BY DEF CacheTrue
<1>3. Tail(todo) # <<>> /\ Stage(Tail(todo), ByTick, 4) /\ Settled /\ OwnTips
  BY <1>1, <1>2, NextCall
<1>4. RefsInv' /\ Moves
  BY <1>1, <1>2, SameRepoMoves
<1>5. CASE work.tips = app.tips
  <2>1. Quiet(todo') /\ IsWork(work')
    BY <1>1, <1>5, QuietPlans, NoWorkIsWork
  <2> QED
    BY <1>1, <1>3, <1>4, <2>1, QuietStep
<1>6. CASE work.tips # app.tips
  <2>1. todo' = Tail(todo) /\ work' = work
    BY <1>1, <1>3, <1>6
  <2>2. Settled' /\ OwnTips' /\ CacheInv'
    BY <1>1, <1>2, <1>3, <1>4, <2>1, SettledOn, OwnOn, CacheOn
  <2>3. \E k \in 3 .. 4 : Stage(todo', ByTick, k)
    BY <1>3, <2>1
  <2>4. ListInv'
    BY <2>2, <2>3 DEF ListInv
  <2> QED
    BY <1>2, <1>4, <2>1, <2>2, <2>4 DEF CacheTrue
<1> QED
  BY <1>5, <1>6

LEMMA ShowListTrue ==
    ASSUME ShownInv, CacheTrue, IsApp(app), ShowList
    PROVE  CacheTrue'
<1>1. PICK i : app' = [[app EXCEPT !.rows = work.rows, !.tips = work.tips] EXCEPT !.sel = i]
  BY DEF ShowList, Keep
<1>2. /\ todo # <<>> /\ Head(todo).do = "showList"
      /\ UNCHANGED repo /\ todo' = Tail(todo)
      /\ work' = IF Tail(todo) = <<>> THEN NoWork ELSE work
      /\ slipped' = IF loop = "ticking" THEN Slips \ work.own ELSE Slips
  BY DEF ShowList, Doing, Keep, Continue
<1>3. IsWork(work) /\ RefsInv /\ CacheInv /\ ListInv
  BY DEF CacheTrue
<1>4. Quiet(Tail(todo)) /\ Listed(work.rows) /\ (loop = "event" \/ OwnListed)
  BY <1>2, <1>3, NextCall
<1>5. app'.rows = work.rows /\ app'.tips = work.tips /\ app'.cache = app.cache
  <2>1. PICK rows, tips : rows = work.rows /\ tips = work.tips
    OBVIOUS
  <2>2. app' = [[app EXCEPT !.rows = rows, !.tips = tips] EXCEPT !.sel = i]
    BY <1>1, <2>1
  <2>3. app'.rows = rows /\ app'.tips = tips /\ app'.cache = app.cache
    BY <2>2 DEF IsApp
  <2> QED
    BY <2>1, <2>3
<1>6. RefsInv' /\ Moves
  BY <1>2, <1>3, SameRepoMoves
<1>7. CacheInv'
  BY <1>3, <1>5, <1>6, CacheOn
<1>8. IsWork(work')
  BY <1>2, <1>3, NoWorkIsWork
<1>9. Settled'
  <2>1. CASE loop = "ticking"
    <3>1. slipped' = Slips \ work.own
      BY <1>2, <2>1
    <3>2. \A t \in work.own :
              t \in Threads /\ (work.listed[t] = work.tips[t] \/ Dead(t, work.tips[t]))
      BY <1>4, <2>1 DEF OwnListed
    <3> QED
      BY <1>2, <1>4, <1>5, <3>1, <3>2, SlipsSettled
  <2>2. CASE loop # "ticking"
    <3>1. PICK own : own = {} /\ slipped' = Slips \ own
      BY <1>2, <2>2
    <3>2. \A t \in own :
            t \in Threads /\ (work.listed[t] = work.tips[t] \/ Dead(t, work.tips[t]))
      BY <3>1
    <3> QED
      BY <1>2, <1>4, <1>5, <3>1, <3>2, SlipsSettled
  <2> QED
    BY <2>1, <2>2
<1>10. ListInv'
  BY <1>2, <1>4, <1>9 DEF ListInv, Quiet
<1> QED
  BY <1>6, <1>7, <1>8, <1>10 DEF CacheTrue

-----------------------------------------------------------------------------
(* Everything else the session does.                                       *)

(* The fields of the list are those of a.                                  *)
Lists(b, a) ==
    /\ b = [ view |-> b.view, rows |-> b.rows, cache |-> b.cache, tips |-> b.tips,
             sel |-> b.sel, filter |-> b.filter, bar |-> b.bar, draft |-> b.draft,
             sort |-> b.sort, tip |-> b.tip, shown |-> b.shown, nodeSel |-> b.nodeSel,
             pane |-> b.pane, select |-> b.select, confirm |-> b.confirm,
             error |-> b.error ]
    /\ b.rows = a.rows /\ b.tips = a.tips /\ b.cache = a.cache

LEMMA ListsField ==
    ASSUME NEW a, NEW b, Lists(b, a), NEW x
    PROVE  /\ Lists([b EXCEPT !.sel = x], a) /\ Lists([b EXCEPT !.nodeSel = x], a)
           /\ Lists([b EXCEPT !.filter = x], a) /\ Lists([b EXCEPT !.bar = x], a)
           /\ Lists([b EXCEPT !.draft = x], a) /\ Lists([b EXCEPT !.sort = x], a)
           /\ Lists([b EXCEPT !.select = x], a) /\ Lists([b EXCEPT !.error = x], a)
           /\ Lists([b EXCEPT !.view = x], a) /\ Lists([b EXCEPT !.tip = x], a)
           /\ Lists([b EXCEPT !.shown = x], a) /\ Lists([b EXCEPT !.pane = x], a)
           /\ Lists([b EXCEPT !.confirm = x], a)
<1>1. Lists([b EXCEPT !.sel = x], a) /\ Lists([b EXCEPT !.nodeSel = x], a)
  BY DEF Lists
<1>2. Lists([b EXCEPT !.filter = x], a) /\ Lists([b EXCEPT !.bar = x], a)
  BY DEF Lists
<1>3. Lists([b EXCEPT !.draft = x], a) /\ Lists([b EXCEPT !.sort = x], a)
  BY DEF Lists
<1>4. Lists([b EXCEPT !.select = x], a) /\ Lists([b EXCEPT !.error = x], a)
  BY DEF Lists
<1>5. Lists([b EXCEPT !.view = x], a) /\ Lists([b EXCEPT !.tip = x], a)
  BY DEF Lists
<1>6. Lists([b EXCEPT !.shown = x], a) /\ Lists([b EXCEPT !.pane = x], a)
  BY DEF Lists
<1>7. Lists([b EXCEPT !.confirm = x], a)
  BY DEF Lists
<1> QED
  BY <1>1, <1>2, <1>3, <1>4, <1>5, <1>6, <1>7

LEMMA AppLists ==
    ASSUME SessionInv
    PROVE  Lists(app, app) /\ Lists(Pressed, app)
<1>1. Lists(app, app)
  BY DEF SessionInv, IsApp, Lists
<1> QED
  BY <1>1, ListsField DEF Pressed

(* A key.                                                                  *)
LEMMA HandleLists ==
    ASSUME SessionInv, CacheTrue, NEW a, NEW f, NEW plan, Handle(a, f, plan), Lists(a, app),
           Quiet(plan) \/ Stage(plan, ByKey, 1)
    PROVE  CacheTrue'
<1>1. /\ loop = "poll" /\ app' = a /\ todo' = plan /\ UNCHANGED <<repo, work, slipped>>
      /\ loop' = IF plan = <<>> THEN "draw" ELSE "event"
  BY DEF Handle
<1>2. ShownInv /\ todo = <<>>
  BY <1>1 DEF SessionInv, LoopInv
<1>3. RefsInv /\ ListInv /\ IsWork(work)
  BY DEF CacheTrue
<1>4. Settled
  BY <1>2, <1>3, DoneSettled
<1>5. RefsInv' /\ Moves
  BY <1>1, <1>3, SameRepoMoves
<1>6. Stage(plan, ByKey, 1) => plan # <<>>
  BY ByKeyNext DEF Leads
<1>7. IsWork(work')
  BY <1>1, <1>3
<1>8. app'.rows = app.rows /\ app'.tips = app.tips /\ app'.cache = app.cache
  BY <1>1 DEF Lists
<1>9. Quiet(todo') \/ (loop' = "event" /\ Stage(todo', ByKey, 1))
  BY <1>1, <1>6
<1> QED
  BY <1>1, <1>2, <1>4, <1>5, <1>7, <1>8, <1>9, QuietStep

LEMMA ListKeysTrue ==
    ASSUME SessionInv, CacheTrue,
           \/ MoveInList \/ EnterThread \/ RefreshKey \/ ClickRow \/ ClickHeader
           \/ OpenBar \/ ToggleBar \/ CloseBar
    PROVE  CacheTrue'
<1>1. Lists(app, app) /\ Lists(Pressed, app) /\ Quiet(<<>>)
  BY AppLists, QuietPlans
<1>2. CASE MoveInList
  <2>1. PICK i : Handle([Pressed EXCEPT !.sel = i], form, <<>>)
    BY <1>2 DEF MoveInList
  <2> QED
    BY <1>1, <2>1, ListsField, HandleLists
<1>3. CASE EnterThread
  <2>1. Handle(Pressed, form, OpenThread(SelectedThread(app), 0))
    BY <1>3 DEF EnterThread
  <2> QED
    BY <1>1, <2>1, QuietPlans, HandleLists
<1>4. CASE RefreshKey
  <2>1. Handle(Pressed, form, ReadList \o ReadTips \o <<Step("showList", 0, 0)>>)
    BY <1>4 DEF RefreshKey
  <2>2. Stage(ReadList \o ReadTips \o <<Step("showList", 0, 0)>>, ByKey, 1)
    BY KeyPlan
  <2> QED
    BY <1>1, <2>1, <2>2, HandleLists
<1>5. CASE ClickRow
  <2>1. PICK i, t : \/ Handle([app EXCEPT !.sel = i], form, <<>>)
                    \/ Handle([app EXCEPT !.sel = i], form, OpenThread(t, 0))
    BY <1>5 DEF ClickRow
  <2> QED
    BY <1>1, <2>1, ListsField, QuietPlans, HandleLists
<1>6. CASE ClickHeader
  <2>1. PICK order, i : Handle([[app EXCEPT !.sort = order] EXCEPT !.sel = i], form, <<>>)
    BY <1>6 DEF ClickHeader
  <2>2. Lists([[app EXCEPT !.sort = order] EXCEPT !.sel = i], app)
    BY <1>1, ListsField
  <2> QED
    BY <1>1, <2>1, <2>2, HandleLists
<1>7. CASE OpenBar
  <2>1. PICK x, y : Handle([Pressed EXCEPT !.bar = x, !.draft = y], form, <<>>)
    BY <1>7 DEF OpenBar
  <2>2. [Pressed EXCEPT !.bar = x, !.draft = y] = [[Pressed EXCEPT !.bar = x] EXCEPT !.draft = y]
    BY <1>1 DEF Lists
  <2>3. Lists([[Pressed EXCEPT !.bar = x] EXCEPT !.draft = y], app)
    BY <1>1, ListsField
  <2> QED
    BY <1>1, <2>1, <2>2, <2>3, HandleLists
<1>8. CASE ToggleBar
  <2>1. PICK draft : Handle([Pressed EXCEPT !.draft = draft], form, <<>>)
    BY <1>8 DEF ToggleBar
  <2> QED
    BY <1>1, <2>1, ListsField, HandleLists
<1>9. CASE CloseBar
  <2>1. PICK z, i :
          Handle([[Pressed EXCEPT !.bar = FALSE, !.draft = {}, !.filter = z] EXCEPT !.sel = i],
                 form, <<>>)
    BY <1>9 DEF CloseBar
  <2> DEFINE a == [Pressed EXCEPT !.bar = FALSE, !.draft = {}, !.filter = z]
  <2>2. a = [[[Pressed EXCEPT !.bar = FALSE] EXCEPT !.draft = {}] EXCEPT !.filter = z]
    BY <1>1 DEF Lists
  <2>3. Lists([[[Pressed EXCEPT !.bar = FALSE] EXCEPT !.draft = {}] EXCEPT !.filter = z], app)
    BY <1>1, ListsField
  <2>4. Lists(a, app)
    BY <2>2, <2>3
  <2>5. Handle([a EXCEPT !.sel = i], form, <<>>)
    BY <2>1
  <2> HIDE DEF a
  <2>6. Lists([a EXCEPT !.sel = i], app)
    BY <2>4, ListsField
  <2> QED
    BY <1>1, <2>5, <2>6, HandleLists
<1> QED
  BY <1>2, <1>3, <1>4, <1>5, <1>6, <1>7, <1>8, <1>9

LEMMA QuietWrites ==
    \A do \in {"create", "say", "link", "revise", "resolve", "reopen", "retract"} :
        \A t, n : Quiet(<<Step(do, t, n)>>)
  BY QuietPlans

LEMMA DetailKeysTrue ==
    ASSUME SessionInv, CacheTrue,
           \/ MoveInTree \/ EnterNode \/ ClickNode \/ RereadKey
           \/ SelectKey \/ EditKey \/ MarkKey \/ ClickBack
    PROVE  CacheTrue'
<1>1. Lists(app, app) /\ Lists(Pressed, app) /\ Quiet(<<>>)
  BY AppLists, QuietPlans
<1>2. CASE MoveInTree
  <2>1. PICK i : Handle([Pressed EXCEPT !.nodeSel = i], form, <<>>)
    BY <1>2 DEF MoveInTree
  <2> QED
    BY <1>1, <2>1, ListsField, HandleLists
<1>3. CASE EnterNode \/ RereadKey
  <2>1. PICK t, n : Handle(Pressed, form, OpenNode(t, n)) \/ Handle(Pressed, form, OpenThread(t, n))
    BY <1>3 DEF EnterNode, RereadKey
  <2> QED
    BY <1>1, <2>1, QuietPlans, HandleLists
<1>4. CASE EditKey
  <2>1. PICK plan \in {<<>>, <<Step("revise", app.view.t, 0)>>} : Handle(Pressed, form, plan)
    BY <1>4 DEF EditKey
  <2>2. Quiet(plan)
    BY <1>1, <2>1, QuietWrites
  <2> QED
    BY <1>1, <2>1, <2>2, HandleLists
<1>5. CASE MarkKey
  <2>1. PICK do \in {"resolve", "reopen", "retract"} :
            Handle(Pressed, form, <<Step(do, app.view.t, app.view.n)>>)
    BY <1>5 DEF MarkKey
  <2>2. Quiet(<<Step(do, app.view.t, app.view.n)>>)
    BY <2>1, QuietWrites
  <2> QED
    BY <1>1, <2>1, <2>2, HandleLists
<1>6. CASE ClickNode
  <2>1. PICK i, t, n : \/ Handle([app EXCEPT !.nodeSel = i], form, <<>>)
                       \/ Handle([app EXCEPT !.nodeSel = i], form, OpenNode(t, n))
    BY <1>6 DEF ClickNode
  <2> QED
    BY <1>1, <2>1, ListsField, QuietPlans, HandleLists
<1>7. CASE SelectKey
  <2>1. Handle([app EXCEPT !.select = TRUE], form, <<>>)
    BY <1>7 DEF SelectKey
  <2> QED
    BY <1>1, <2>1, ListsField, HandleLists
<1>8. CASE ClickBack
  <2>1. Handle(app, form, OpenThread(app.view.t, SelectedNode(app)))
    BY <1>8 DEF ClickBack
  <2> QED
    BY <1>1, <2>1, QuietPlans, HandleLists
<1> QED
  BY <1>2, <1>3, <1>4, <1>5, <1>6, <1>7, <1>8

LEMMA LeavePlans ==
    ASSUME NEW a, Lists(a, app)
    PROVE  /\ Quiet(ReturnFromLink(app.view))
           /\ \A v : Lists([a EXCEPT !.view = v], app)
  BY QuietPlans, ListsField DEF ReturnFromLink

LEMMA FormKeysTrue ==
    ASSUME SessionInv, CacheTrue,
           Begin \/ FocusField \/ Type \/ EditBody \/ ChooseTarget \/ Submit
    PROVE  CacheTrue'
<1>1. Lists(app, app) /\ Lists(Pressed, app) /\ Quiet(<<>>)
  BY AppLists, QuietPlans
<1>2. CASE Begin
  <2>1. PICK v : Handle([Pressed EXCEPT !.view = v], EmptyForm, <<>>)
    BY <1>2 DEF Begin
  <2> QED
    BY <1>1, <2>1, ListsField, HandleLists
<1>3. CASE FocusField \/ Type \/ ChooseTarget
  <2>1. PICK f : Handle(app, f, <<>>)
    BY <1>3 DEF FocusField, Type, ChooseTarget
  <2> QED
    BY <1>1, <2>1, HandleLists
<1>4. CASE EditBody
  <2>1. PICK v : Handle([app EXCEPT !.view = v], form, <<>>)
    BY <1>4 DEF EditBody
  <2> QED
    BY <1>1, <2>1, ListsField, HandleLists
<1>5. CASE Submit
  <2>1. PICK f : Handle(app, f, <<>>) \/ \E plan \in Writing : Handle(app, f, plan) /\ InForm
    BY <1>5 DEF Submit
  <2>2. ASSUME NEW plan \in Writing, InForm PROVE Quiet(plan)
    <3>1. app.view.at \in {"createThread", "createNode", "createLink"}
      BY <2>2 DEF InForm
    <3>2. \/ \E t : plan = <<Step("create", t, 0)>>
          \/ plan = <<Step("say", app.view.t, 0)>>
          \/ plan = <<Step("link", app.view.t, LinkTarget(app, form, app.view.t))>>
      BY <3>1 DEF Writing
    <3> QED
      BY <3>2, QuietWrites
  <2> QED
    BY <1>1, <2>1, <2>2, HandleLists
<1> QED
  BY <1>2, <1>3, <1>4, <1>5

LEMMA LeaveTrue ==
    ASSUME SessionInv, CacheTrue, InForm, NEW a, Lists(a, app), NEW f,
           \/ Handle([a EXCEPT !.view = ListView], f, <<>>)
           \/ Handle(a, f, OpenThread(app.view.t, 0))
           \/ Handle(a, f, ReturnFromLink(app.view))
    PROVE  CacheTrue'
<1>1. Quiet(<<>>) /\ Quiet(OpenThread(app.view.t, 0)) /\ Quiet(ReturnFromLink(app.view))
  BY QuietPlans, LeavePlans
<1>2. Lists([a EXCEPT !.view = ListView], app)
  BY LeavePlans
<1> QED
  BY <1>1, <1>2, HandleLists

LEMMA BackKeysTrue ==
    ASSUME SessionInv, CacheTrue, EscKey \/ Discard \/ KeepForm \/ DismissError
    PROVE  CacheTrue'
<1>1. Lists(app, app) /\ Lists(Pressed, app) /\ Quiet(<<>>)
  BY AppLists, QuietPlans
<1>2. CASE EscKey
  <2>1. CASE Handle(Pressed, form, <<>>)
    BY <1>1, <2>1, HandleLists
  <2>2. CASE Handle([Pressed EXCEPT !.bar = FALSE, !.draft = {}], form, <<>>)
    <3>1. [Pressed EXCEPT !.bar = FALSE, !.draft = {}]
              = [[Pressed EXCEPT !.bar = FALSE] EXCEPT !.draft = {}]
      BY <1>1 DEF Lists
    <3>2. Lists([[Pressed EXCEPT !.bar = FALSE] EXCEPT !.draft = {}], app)
      BY <1>1, ListsField
    <3> QED
      BY <1>1, <2>2, <3>1, <3>2, HandleLists
  <2>3. CASE Handle([Pressed EXCEPT !.view = ListView, !.shown = 0, !.pane = 0], form, <<>>)
    <3>1. PICK v : v = ListView
      OBVIOUS
    <3>2. [Pressed EXCEPT !.view = v, !.shown = 0, !.pane = 0]
              = [[[Pressed EXCEPT !.view = v] EXCEPT !.shown = 0] EXCEPT !.pane = 0]
      BY <1>1 DEF Lists
    <3>3. Lists([[[Pressed EXCEPT !.view = v] EXCEPT !.shown = 0] EXCEPT !.pane = 0], app)
      BY <1>1, ListsField
    <3>4. Handle([Pressed EXCEPT !.view = v, !.shown = 0, !.pane = 0], form, <<>>)
      BY <2>3, <3>1
    <3> QED
      BY <1>1, <3>2, <3>3, <3>4, HandleLists
  <2>4. CASE Handle(Pressed, form, OpenThread(app.view.t, app.view.n))
    BY <1>1, <2>4, QuietPlans, HandleLists
  <2>5. CASE \E v, f : Handle([app EXCEPT !.view = v], f, <<>>)
    <3>1. PICK v, f : Handle([app EXCEPT !.view = v], f, <<>>)
      BY <2>5
    <3> QED
      BY <1>1, <3>1, ListsField, HandleLists
  <2>6. CASE Handle([app EXCEPT !.confirm = TRUE], form, <<>>)
    BY <1>1, <2>6, ListsField, HandleLists
  <2>7. CASE InForm /\ Leave(app)
    <3>1. \/ Handle([app EXCEPT !.view = ListView], form, <<>>)
          \/ Handle(app, form, OpenThread(app.view.t, 0))
          \/ Handle(app, form, ReturnFromLink(app.view))
      BY <2>7 DEF Leave, InForm
    <3> QED
      BY <1>1, <2>7, <3>1, LeaveTrue
  <2> QED
    BY <1>2, <2>1, <2>2, <2>3, <2>4, <2>5, <2>6, <2>7 DEF EscKey
<1>3. CASE Discard
  <2>1. PICK a : a = [app EXCEPT !.confirm = FALSE]
    OBVIOUS
  <2>2. InForm
    BY <1>3 DEF SessionInv, ConfirmInv, Discard
  <2>3. PICK f : \/ Handle([a EXCEPT !.view = ListView], f, <<>>)
                 \/ Handle(a, f, OpenThread(app.view.t, 0))
                 \/ Handle(a, f, ReturnFromLink(app.view))
    BY <1>3, <2>1, <2>2 DEF Discard, InForm
  <2>4. Lists(a, app)
    BY <1>1, <2>1, ListsField
  <2> QED
    BY <2>2, <2>3, <2>4, LeaveTrue
<1>4. CASE KeepForm
  <2>1. Handle([app EXCEPT !.confirm = FALSE], form, <<>>)
    BY <1>4 DEF KeepForm
  <2> QED
    BY <1>1, <2>1, ListsField, HandleLists
<1>5. CASE DismissError
  <2>1. Handle([app EXCEPT !.error = FALSE], form, <<>>)
    BY <1>5 DEF DismissError
  <2> QED
    BY <1>1, <2>1, ListsField, HandleLists
<1> QED
  BY <1>2, <1>3, <1>4, <1>5

(* A step between two handlers.                                            *)
LEMMA IdleStep ==
    ASSUME SessionInv, CacheTrue, todo = <<>>, UNCHANGED <<repo, work, slipped>>, Lists(app', app),
           Quiet(todo') \/ Stage(todo', ByTick, 1)
    PROVE  CacheTrue'
<1>1. RefsInv /\ ListInv /\ IsWork(work) /\ ShownInv
  BY DEF CacheTrue, SessionInv
<1>2. Settled
  BY <1>1, DoneSettled
<1>3. RefsInv' /\ Moves
  BY <1>1, SameRepoMoves
<1>4. IsWork(work')
  BY <1>1
<1>5. app'.rows = app.rows /\ app'.tips = app.tips /\ app'.cache = app.cache
  BY DEF Lists
<1> QED
  BY <1>1, <1>2, <1>3, <1>4, <1>5, QuietStep

LEMMA UserTrue ==
    ASSUME SessionInv, CacheTrue, User
    PROVE  CacheTrue'
<1>1. CASE Quit
  <2>1. loop = "poll" /\ UNCHANGED <<repo, app, todo, work, slipped>>
    BY <1>1 DEF Quit, Key, Ready
  <2>2. todo = <<>>
    BY <2>1 DEF SessionInv, LoopInv
  <2>3. Lists(app', app) /\ Quiet(todo')
    BY <2>1, <2>2, AppLists, QuietPlans
  <2> QED
    BY <2>1, <2>2, <2>3, IdleStep
<1>2. CASE \/ MoveInList \/ EnterThread \/ RefreshKey \/ ClickRow \/ ClickHeader
           \/ OpenBar \/ ToggleBar \/ CloseBar
  BY <1>2, ListKeysTrue
<1>3. CASE \/ MoveInTree \/ EnterNode \/ ClickNode \/ RereadKey
           \/ SelectKey \/ EditKey \/ MarkKey \/ ClickBack
  BY <1>3, DetailKeysTrue
<1>4. CASE Begin \/ FocusField \/ Type \/ EditBody \/ ChooseTarget \/ Submit
  BY <1>4, FormKeysTrue
<1>5. CASE EscKey \/ Discard \/ KeepForm \/ DismissError
  BY <1>5, BackKeysTrue
<1> QED
  BY <1>1, <1>2, <1>3, <1>4, <1>5 DEF User

LEMMA LoopTrue ==
    ASSUME SessionInv, CacheTrue, Draw \/ TickNotDue \/ Tick \/ NothingTyped
    PROVE  CacheTrue'
<1>1. loop \in {"draw", "tick", "poll"} /\ UNCHANGED <<repo, work, slipped>>
  BY DEF Draw, TickNotDue, Tick, TickThread, TickNode, TickList, TickForm, NothingTyped
<1>2. todo = <<>>
  BY <1>1 DEF SessionInv, LoopInv
<1>3. app' = app \/ \E x : app' = [app EXCEPT !.tip = x]
  BY DEF Draw, TickNotDue, Tick, TickThread, TickNode, TickList, TickForm, NothingTyped
<1>4. Lists(app', app)
  <2>1. Lists(app, app)
    BY AppLists
  <2>2. CASE app' = app
    BY <2>1, <2>2
  <2>3. CASE \E x : app' = [app EXCEPT !.tip = x]
    <3>1. PICK x : app' = [app EXCEPT !.tip = x]
      BY <2>3
    <3>2. Lists([app EXCEPT !.tip = x], app)
      BY <2>1, ListsField
    <3> QED
      BY <3>1, <3>2
  <2> QED
    BY <1>3, <2>2, <2>3
<1>5. \/ todo' = todo
      \/ \E t, n : todo' = OpenThread(t, n) \/ todo' = OpenNode(t, n)
      \/ todo' = ReadTips \o <<Step("unlessSame", 0, 0)>> \o ReadList \o <<Step("showList", 0, 0)>>
  BY DEF Draw, TickNotDue, Tick, TickThread, TickNode, TickList, TickForm, NothingTyped
<1>6. Quiet(todo') \/ Stage(todo', ByTick, 1)
  BY <1>2, <1>5, QuietPlans, TickPlan
<1> QED
  BY <1>1, <1>2, <1>4, <1>6, IdleStep

-----------------------------------------------------------------------------
(* The other git calls.                                                    *)

(* A call that is not about the list, and that leaves the list alone.      *)
LEMMA CallTrue ==
    ASSUME SessionInv, CacheTrue, todo # <<>>, Head(todo).do \notin ListCalls,
           RefsInv', Moves, IsWork(work'), Lists(app', app), slipped' = slipped,
           Quiet(todo') \/ Stage(todo', RowsFirst, 1) \/ todo' = Tail(todo)
    PROVE  CacheTrue'
<1>1. ShownInv /\ ListInv
  BY DEF SessionInv, CacheTrue
<1>2. Settled /\ Quiet(Tail(todo))
  BY <1>1, NextCall
<1>3. app'.rows = app.rows /\ app'.tips = app.tips /\ app'.cache = app.cache
  BY DEF Lists
<1>4. Quiet(todo') \/ Stage(todo', RowsFirst, 1)
  BY <1>2
<1> QED
  BY <1>1, <1>2, <1>3, <1>4, QuietStep

LEMMA FailTrue ==
    ASSUME SessionInv, CacheTrue, todo # <<>>, Head(todo).do \notin ListCalls,
           UNCHANGED <<repo, slipped>>, Fail
    PROVE  CacheTrue'
<1>1. PICK x : app' = [app EXCEPT !.error = x]
  BY DEF Fail
<1>2. Lists([app EXCEPT !.error = x], app)
  BY AppLists, ListsField
<1>3. Lists(app', app)
  BY <1>1, <1>2
<1>4. work' = NoWork /\ todo' = <<>>
  BY DEF Fail
<1>5. IsWork(work') /\ Quiet(todo')
  BY <1>4, NoWorkIsWork, QuietPlans
<1>6. RefsInv' /\ Moves
  BY SameRepoMoves DEF CacheTrue
<1> QED
  BY <1>3, <1>5, <1>6, CallTrue

LEMMA KeepTrue ==
    ASSUME SessionInv, CacheTrue, todo # <<>>, Head(todo).do \notin ListCalls,
           UNCHANGED <<repo, slipped>>, NEW a, Lists(a, app), NEW w, IsWork(w),
           Keep(a, w, Tail(todo))
    PROVE  CacheTrue'
<1>1. app' = a /\ todo' = Tail(todo) /\ (work' = w \/ work' = NoWork)
  BY DEF Keep, Continue
<1>2. Lists(app', app) /\ IsWork(work')
  BY <1>1, NoWorkIsWork
<1>3. RefsInv' /\ Moves
  BY SameRepoMoves DEF CacheTrue
<1> QED
  BY <1>1, <1>2, <1>3, CallTrue

LEMMA ReadsTrue ==
    ASSUME SessionInv, CacheTrue,
           RestoreNode \/ SelectNew \/ OpenTip \/ OpenRead \/ OpenTheNode \/ Refused
    PROVE  CacheTrue'
<1>1. Lists(app, app) /\ IsWork(work)
  BY AppLists DEF CacheTrue
<1>2. CASE RestoreNode
  <2>1. PICK x : app' = [app EXCEPT !.nodeSel = x]
    BY <1>2 DEF RestoreNode
  <2>2. /\ todo # <<>> /\ Head(todo).do \notin ListCalls /\ UNCHANGED <<repo, slipped, work>>
        /\ todo' = Tail(todo)
    BY <1>2 DEF RestoreNode, Continue, ListCalls
  <2>3. Lists([app EXCEPT !.nodeSel = x], app)
    BY <1>1, ListsField
  <2>4. Lists(app', app) /\ IsWork(work')
    BY <1>1, <2>1, <2>2, <2>3
  <2>5. RefsInv' /\ Moves
    BY <2>2, SameRepoMoves DEF CacheTrue
  <2> QED
    BY <2>2, <2>4, <2>5, CallTrue
<1>3. CASE SelectNew
  <2>1. PICK x : Keep([app EXCEPT !.sel = x], work, Tail(todo))
    BY <1>3 DEF SelectNew
  <2>2. todo # <<>> /\ Head(todo).do \notin ListCalls /\ UNCHANGED <<repo, slipped>>
    BY <1>3 DEF SelectNew, Doing, ListCalls
  <2>3. Lists([app EXCEPT !.sel = x], app)
    BY <1>1, ListsField
  <2> QED
    BY <1>1, <2>1, <2>2, <2>3, KeepTrue
<1>4. CASE OpenTip
  <2>1. PICK x : Keep(app, [work EXCEPT !.tip = x], Tail(todo))
    BY <1>4 DEF OpenTip
  <2>2. todo # <<>> /\ Head(todo).do \notin ListCalls /\ UNCHANGED <<repo, slipped>>
    BY <1>4 DEF OpenTip, Doing, ListCalls
  <2>3. IsWork([work EXCEPT !.tip = x])
    BY <1>1 DEF IsWork
  <2> QED
    BY <1>1, <2>1, <2>2, <2>3, KeepTrue
<1>5. CASE OpenRead
  <2>1. \/ \E v, c, i, tip : Keep([app EXCEPT !.view = v, !.shown = c, !.pane = 0,
                                              !.nodeSel = i, !.tip = tip], work, Tail(todo))
        \/ Fail
    BY <1>5 DEF OpenRead
  <2>2. todo # <<>> /\ Head(todo).do \notin ListCalls /\ UNCHANGED <<repo, slipped>>
    BY <1>5 DEF OpenRead, Doing, ListCalls
  <2>3. CASE Fail
    BY <2>2, <2>3, FailTrue
  <2>4. CASE ~Fail
    <3>1. PICK v, c, i, tip : Keep([app EXCEPT !.view = v, !.shown = c, !.pane = 0,
                                               !.nodeSel = i, !.tip = tip], work, Tail(todo))
      BY <2>1, <2>4
    <3> DEFINE a == [app EXCEPT !.view = v, !.shown = c, !.pane = 0, !.nodeSel = i, !.tip = tip]
    <3>2. a = [[[[[app EXCEPT !.view = v] EXCEPT !.shown = c] EXCEPT !.pane = 0]
                   EXCEPT !.nodeSel = i] EXCEPT !.tip = tip]
      BY <1>1 DEF Lists
    <3>3. Lists([[[app EXCEPT !.view = v] EXCEPT !.shown = c] EXCEPT !.pane = 0], app)
      BY <1>1, ListsField
    <3>4. PICK b : b = [[[app EXCEPT !.view = v] EXCEPT !.shown = c] EXCEPT !.pane = 0]
      OBVIOUS
    <3>5. Lists([[b EXCEPT !.nodeSel = i] EXCEPT !.tip = tip], app)
      BY <3>3, <3>4, ListsField
    <3>6. Lists(a, app)
      BY <3>2, <3>4, <3>5
    <3> HIDE DEF a
    <3>7. Keep(a, work, Tail(todo))
      BY <3>1 DEF a
    <3> QED
      BY <1>1, <2>2, <3>6, <3>7, KeepTrue
  <2> QED
    BY <2>3, <2>4
<1>6. CASE OpenTheNode
  <2>1. \/ \E v, c : Keep([app EXCEPT !.view = v, !.pane = c], work, Tail(todo))
        \/ Fail
    BY <1>6 DEF OpenTheNode
  <2>2. todo # <<>> /\ Head(todo).do \notin ListCalls /\ UNCHANGED <<repo, slipped>>
    BY <1>6 DEF OpenTheNode, Doing, ListCalls
  <2>3. CASE Fail
    BY <2>2, <2>3, FailTrue
  <2>4. CASE ~Fail
    <3>1. PICK v, c : Keep([app EXCEPT !.view = v, !.pane = c], work, Tail(todo))
      BY <2>1, <2>4
    <3> DEFINE a == [app EXCEPT !.view = v, !.pane = c]
    <3>2. a = [[app EXCEPT !.view = v] EXCEPT !.pane = c]
      BY <1>1 DEF Lists
    <3>3. Lists([[app EXCEPT !.view = v] EXCEPT !.pane = c], app)
      BY <1>1, ListsField
    <3>4. Lists(a, app)
      BY <3>2, <3>3
    <3> HIDE DEF a
    <3>5. Keep(a, work, Tail(todo))
      BY <3>1 DEF a
    <3> QED
      BY <1>1, <2>2, <3>4, <3>5, KeepTrue
  <2> QED
    BY <2>3, <2>4
<1>7. CASE Refused
  <2>1. Fail /\ todo # <<>> /\ Head(todo).do \notin ListCalls /\ UNCHANGED <<repo, slipped>>
    BY <1>7 DEF Refused, ListCalls
  <2> QED
    BY <2>1, FailTrue
<1> QED
  BY <1>2, <1>3, <1>4, <1>5, <1>6, <1>7

LEMMA RestoreTrue ==
    ASSUME SessionInv, CacheTrue, Restore
    PROVE  CacheTrue'
<1>1. /\ todo # <<>> /\ Head(todo).do \notin ListCalls /\ UNCHANGED <<repo, slipped>>
      /\ work' = NoWork
  BY DEF Restore, ListCalls
<1>2. PICK x, y, i : \/ app' = [app EXCEPT !.sort = x, !.filter = y, !.sel = i]
                     \/ \E j : app' = [[app EXCEPT !.sort = x, !.filter = y, !.sel = i] EXCEPT !.sel = j]
  BY DEF Restore
<1> DEFINE a == [app EXCEPT !.sort = x, !.filter = y, !.sel = i]
<1>3. Lists(app, app)
  BY AppLists
<1>4. a = [[[app EXCEPT !.sort = x] EXCEPT !.filter = y] EXCEPT !.sel = i]
  BY <1>3 DEF Lists
<1>5. Lists([[[app EXCEPT !.sort = x] EXCEPT !.filter = y] EXCEPT !.sel = i], app)
  BY <1>3, ListsField
<1>6. Lists(a, app)
  BY <1>4, <1>5
<1>7. app' = a \/ \E j : app' = [a EXCEPT !.sel = j]
  BY <1>2
<1> HIDE DEF a
<1>8. Lists(app', app)
  <2>1. CASE app' = a
    BY <1>6, <2>1
  <2>2. CASE \E j : app' = [a EXCEPT !.sel = j]
    <3>1. PICK j : app' = [a EXCEPT !.sel = j]
      BY <2>2
    <3>2. Lists([a EXCEPT !.sel = j], app)
      BY <1>6, ListsField
    <3> QED
      BY <3>1, <3>2
  <2> QED
    BY <1>7, <2>1, <2>2
<1>9. \/ todo' = <<>>
      \/ \E t, n : \/ todo' = OpenThread(t, n) \/ todo' = OpenNode(t, n)
                   \/ todo' = OpenThread(t, n) \o <<Step("restoreNode", 0, 0)>>
  <2>1. PICK t, listed :
            todo' = CASE t # 0 -> OpenThread(t, 0)
                      [] t = 0 /\ listed /\ saved.view.at = "thread" ->
                           OpenThread(saved.view.t, 0) \o <<Step("restoreNode", 0, 0)>>
                      [] t = 0 /\ listed /\ saved.view.at = "node" ->
                           OpenNode(saved.view.t, saved.view.n)
                      [] OTHER -> <<>>
    BY DEF Restore
  <2>2. CASE t # 0
    BY <2>1, <2>2
  <2>3. CASE t = 0 /\ listed /\ saved.view.at = "thread"
    BY <2>1, <2>3
  <2>4. CASE t = 0 /\ listed /\ saved.view.at = "node"
    BY <2>1, <2>4
  <2>5. CASE t = 0 /\ ~(listed /\ saved.view.at = "thread") /\ ~(listed /\ saved.view.at = "node")
    BY <2>1, <2>5
  <2> QED
    BY <2>2, <2>3, <2>4, <2>5
<1>10. Quiet(todo')
  BY <1>9, QuietPlans
<1>11. RefsInv' /\ Moves
  BY <1>1, SameRepoMoves DEF CacheTrue
<1>12. IsWork(work')
  BY <1>1, NoWorkIsWork
<1> QED
  BY <1>1, <1>8, <1>10, <1>11, <1>12, CallTrue

LEMMA CreatePlan ==
    ASSUME NEW t
    PROVE  Stage(RefreshList \o <<Step("selectNew", t, 0)>> \o OpenThread(t, 0), RowsFirst, 1)
<1> DEFINE s == <<Step("selectNew", t, 0)>>
           o == OpenThread(t, 0)
<1>1. Quiet(s \o o)
  BY QuietPlans
<1>2. IsPlan(RefreshList) /\ IsPlan(s) /\ IsPlan(o)
  <2>1. RefreshList \in Seq({Step("listAuth", 0, 0), Step("listPub", 0, 0), Step("keepRows", 0, 0),
                             Step("tipsAuth", 0, 0), Step("tipsPub", 0, 0), Step("keepTips", 0, 0)})
    BY DEF RefreshList, ReadList, ReadTips
  <2>2. s \in Seq({Step("selectNew", t, 0)})
    OBVIOUS
  <2>3. Quiet(o)
    BY QuietPlans
  <2> QED
    BY <2>1, <2>2, <2>3 DEF IsPlan, Quiet
<1> HIDE DEF s, o
<1>3. (RefreshList \o s) \o o = RefreshList \o (s \o o)
  <2>1. PICK A : RefreshList \in Seq(A)
    BY <1>2 DEF IsPlan
  <2>2. PICK B : s \in Seq(B)
    BY <1>2 DEF IsPlan
  <2>3. PICK C : o \in Seq(C)
    BY <1>2 DEF IsPlan
  <2> DEFINE D == A \cup B \cup C
  <2>4. RefreshList \in Seq(D) /\ s \in Seq(D) /\ o \in Seq(D)
    BY <2>1, <2>2, <2>3, SeqMonotonic
  <2> HIDE DEF D
  <2> QED
    BY <2>4, ConcatAssociative
<1>4. Stage(RefreshList \o (s \o o), RowsFirst, 1)
  BY <1>1, RowsFirstPlan
<1> QED
  BY <1>3, <1>4 DEF s, o

LEMMA WritesTrue ==
    ASSUME SessionInv, CacheTrue, CreateThread \/ Say \/ AddLink \/ Revise \/ Mark
    PROVE  CacheTrue'
<1>1. Lists(app, app) /\ IsWork(work) /\ RefsInv /\ ShownInv
  BY AppLists DEF CacheTrue, SessionInv
<1>2. CASE CreateThread \/ Say \/ AddLink \/ Revise
  <2>1. todo # <<>> /\ Head(todo).do \notin ListCalls /\ UNCHANGED <<app, work, slipped>>
    BY <1>2 DEF CreateThread, Say, AddLink, Revise, Doing, ListCalls
  <2>2. \E t, d : Install(t, d)
    BY <1>2 DEF CreateThread, Say, AddLink, Revise
  <2>3. RefsInv' /\ Moves
    BY <1>1, <2>2, InstallAnyMoves
  <2>4. \E t, n : \/ todo' = RefreshList \o <<Step("selectNew", t, 0)>> \o OpenThread(t, 0)
                  \/ todo' = RefreshList \o OpenThread(t, n)
                  \/ todo' = OpenNode(t, n) \/ todo' = OpenThread(t, n)
    BY <1>2 DEF CreateThread, Say, AddLink, Revise, ReturnFromLink
  <2>5. Quiet(todo') \/ Stage(todo', RowsFirst, 1)
    BY <2>4, QuietPlans, CreatePlan, RowsFirstPlan
  <2>6. Lists(app', app) /\ IsWork(work')
    BY <1>1, <2>1
  <2> QED
    BY <2>1, <2>3, <2>5, <2>6, CallTrue
<1>3. CASE Mark
  <2>1. todo # <<>> /\ Head(todo).do \notin ListCalls /\ slipped' = slipped
    BY SMTT(30), <1>3 DEF Mark, ListCalls
  <2>2. \/ Fail /\ UNCHANGED repo
        \/ /\ (\E t, d : Install(t, d)) \/ UNCHANGED repo
           /\ \E t, n : todo' = OpenNode(t, n)
           /\ UNCHANGED <<app, work>>
    BY <1>3 DEF Mark
  <2>3. CASE Fail /\ UNCHANGED repo
    BY <2>1, <2>3, FailTrue
  <2>4. CASE ~(Fail /\ UNCHANGED repo)
    <3>1. RefsInv' /\ Moves
      BY <1>1, <2>2, <2>4, InstallAnyMoves, SameRepoMoves
    <3>2. Quiet(todo')
      BY <2>2, <2>4, QuietPlans
    <3>3. Lists(app', app) /\ IsWork(work')
      BY <1>1, <2>2, <2>4
    <3> QED
      BY <2>1, <3>1, <3>2, <3>3, CallTrue
  <2> QED
    BY <2>3, <2>4
<1> QED
  BY <1>2, <1>3

LEMMA GitTrue ==
    ASSUME SessionInv, CacheTrue, GitStep
    PROVE  CacheTrue'
<1>1. ShownInv /\ IsApp(app)
  BY DEF SessionInv
<1> QED
  BY <1>1, ListAuthTrue, ListPubTrue, TipsPubTrue, KeepRowsTrue, KeepTipsTrue, UnlessSameTrue,
     ShowListTrue, ReadsTrue, RestoreTrue, WritesTrue DEF GitStep

LEMMA StartPlan ==
    ASSUME NEW t
    PROVE  Stage(ReadList \o <<Step("keepRows", 0, 0)>> \o ReadTips
                     \o <<Step("keepTips", 0, 0), Step("restore", t, 0)>>, RowsFirst, 1)
<1> DEFINE k == <<Step("keepRows", 0, 0)>>
           m == <<Step("keepTips", 0, 0), Step("restore", t, 0)>>
           a == ReadList \o k
           b == a \o ReadTips
           c == b \o m
<1>a. a = ReadList \o k
  OBVIOUS
<1>b. b = a \o ReadTips
  OBVIOUS
<1>c. c = b \o m
  OBVIOUS
<1>1. IsPlan(k) /\ Len(k) = 1 /\ k[1].do = "keepRows"
  BY OneIs
<1>2. IsPlan(m) /\ Len(m) = 2 /\ m[1].do = "keepTips" /\ m[2].do = "restore"
  <2>1. m \in Seq({Step("keepTips", 0, 0), Step("restore", t, 0)})
    OBVIOUS
  <2>2. Step("keepTips", 0, 0).do = "keepTips" /\ Step("restore", t, 0).do = "restore"
    BY DEF Step
  <2> QED
    BY <2>1, <2>2 DEF IsPlan
<1> HIDE DEF c, b, a, k, m
<1>3. /\ IsPlan(a)
      /\ Len(a) = 3 /\ a[1].do = "listAuth" /\ a[2].do = "listPub" /\ a[3].do = "keepRows"
  <2>1. IsPlan(ReadList) /\ IsPlan(k) /\ Len(ReadList) = 2 /\ Len(k) = 1
    BY <1>1, PairIs
  <2>2. /\ IsPlan(a) /\ \A i \in 1 .. Len(ReadList) : a[i] = ReadList[i]
        /\ Len(a) = Len(ReadList) + 1 /\ a[Len(ReadList) + 1] = k[1]
    BY <1>a, <2>1, MoreIs
  <2> QED
    BY <1>1, <2>1, <2>2, PairIs
<1>4. /\ IsPlan(b)
      /\ Len(b) = 5 /\ b[1].do = "listAuth" /\ b[2].do = "listPub" /\ b[3].do = "keepRows"
      /\ b[4].do = "tipsAuth" /\ b[5].do = "tipsPub"
  <2>1. IsPlan(a) /\ IsPlan(ReadTips) /\ Len(a) = 3 /\ Len(ReadTips) = 2
    BY <1>3, PairIs
  <2>2. /\ IsPlan(b) /\ \A i \in 1 .. Len(a) : b[i] = a[i]
        /\ Len(b) = Len(a) + 2 /\ b[Len(a) + 1] = ReadTips[1] /\ b[Len(a) + 2] = ReadTips[2]
    BY <1>b, <2>1, MoreIs
  <2> QED
    BY <1>3, <2>1, <2>2, PairIs
<1>5. /\ IsPlan(c)
      /\ Len(c) = 7 /\ c[1].do = "listAuth" /\ c[2].do = "listPub" /\ c[3].do = "keepRows"
      /\ c[4].do = "tipsAuth" /\ c[5].do = "tipsPub" /\ c[6].do = "keepTips" /\ c[7].do = "restore"
  <2>1. IsPlan(b) /\ IsPlan(m) /\ Len(b) = 5 /\ Len(m) = 2
    BY <1>2, <1>4
  <2>2. /\ IsPlan(c) /\ \A i \in 1 .. Len(b) : c[i] = b[i]
        /\ Len(c) = Len(b) + 2 /\ c[Len(b) + 1] = m[1] /\ c[Len(b) + 2] = m[2]
    BY <1>c, <2>1, MoreIs
  <2> QED
    BY <1>2, <1>4, <2>1, <2>2
<1>6. \A i \in 1 .. 6 : c[i].do = RowsFirst[i]
  BY <1>5, CallsAre
<1>7. c[7].do \notin ListCalls
  BY <1>5 DEF ListCalls
<1>8. Stage(c, RowsFirst, 1)
  <2>1. Len(RowsFirst) = 6 /\ Len(c) = 7
    BY <1>5, CallsAre
  <2>2. \A i \in 1 .. 6 : c[i].do = RowsFirst[1 - 1 + i]
    BY <1>6
  <2>3. \A i \in 7 .. 7 : c[i].do \notin ListCalls
    BY <1>7
  <2> QED
    BY <1>5, <2>1, <2>2, <2>3 DEF Stage, IsPlan
<1> QED
  BY <1>8 DEF c, b, a, k, m

(* Without rows and tips there is nothing to be wrong about.               *)
LEMMA RunTrue ==
    ASSUME NEW t, Run(t), SessionInv, CacheTrue
    PROVE  CacheTrue'
<1>1. app' = NewApp([u \in Threads |-> NoRow]) /\ slipped' = {} /\ UNCHANGED <<repo, work>>
  BY DEF Run
<1>2. /\ app'.rows = [u \in Threads |-> NoRow]
      /\ app'.tips = [u \in Threads |-> 0]
      /\ app'.cache = [u \in Threads |-> NoEntry]
  BY <1>1 DEF NewApp
<1>3. RefsInv' /\ IsWork(work')
  BY <1>1, SameRepoMoves DEF CacheTrue
<1>4. CacheInv'
  BY <1>2 DEF CacheInv, NoEntry
<1>5. Settled'
  BY <1>2 DEF Settled, Fits
<1>6. Stage(todo', RowsFirst, 1)
  BY StartPlan DEF Run
<1> QED
  BY <1>3, <1>4, <1>5, <1>6 DEF CacheTrue, ListInv

LEMMA InitTrue == Init => CacheTrue
<1> SUFFICES ASSUME Init PROVE CacheTrue
  OBVIOUS
<1>1. app = NewApp([u \in Threads |-> NoRow]) /\ todo = <<>> /\ work = NoWork
  BY DEF Init
<1>2. /\ app.rows = [u \in Threads |-> NoRow]
      /\ app.tips = [u \in Threads |-> 0]
      /\ app.cache = [u \in Threads |-> NoEntry]
  BY <1>1 DEF NewApp
<1>3. CacheInv /\ Settled
  BY <1>2 DEF CacheInv, NoEntry, Settled, Fits
<1>4. IsWork(work)
  BY <1>1, NoWorkIsWork
<1>5. RefsInv
  <2>1. PICK live, nodes :
            /\ live \in {1, NThreads}
            /\ commits = [t \in 1 .. live |-> Document(t, "open", nodes, {})]
            /\ auth = [t \in Threads |-> IF t <= live THEN t ELSE 0]
    BY DEF Init
  <2>2. live \in Nat /\ DOMAIN commits = 1 .. live
    BY <2>1, TuiAssumption
  <2>3. pub = [t \in Threads |-> 0]
    BY DEF Init
  <2>4. auth \in [Threads -> {0} \cup DOMAIN commits]
    BY <2>1, <2>2 DEF Threads
  <2>5. pub \in [Threads -> {0} \cup DOMAIN commits]
    BY <2>3
  <2> QED
    BY <2>3, <2>4, <2>5 DEF RefsInv
<1>6. ListInv
  BY <1>1, <1>3, QuietPlans DEF ListInv
<1> QED
  BY <1>3, <1>4, <1>5, <1>6 DEF CacheTrue

LEMMA ListNext ==
    ASSUME "git" \notin Faults, SessionInv, CacheTrue, [Next]_vars
    PROVE  CacheTrue'
<1>1. CASE Draw \/ TickNotDue \/ Tick \/ NothingTyped
  BY <1>1, LoopTrue
<1>2. CASE GitStep
  BY <1>2, GitTrue
<1>3. ~GitFails
  BY DEF GitFails
<1>4. CASE User
  BY <1>4, UserTrue
<1>5. CASE Others
  <2>1. ShownInv /\ RefsInv
    BY DEF SessionInv, CacheTrue
  <2>2. RefsInv' /\ Moves
    BY <1>5, <2>1, OthersMove
  <2>3. UNCHANGED <<app, work, todo, loop, slipped>>
    BY <1>5 DEF Others, OtherEdits, OtherCreates, OtherDeletes, OtherDiverges, OtherIsLegacy,
                OtherPublishes, OtherWithdraws, Elsewhere
  <2> QED
    BY <2>1, <2>2, <2>3, SameStep
<1>6. CASE \E t \in Threads \cup {0} : Run(t)
  BY <1>6, RunTrue
<1>7. CASE UNCHANGED vars
  <2>1. UNCHANGED repo /\ UNCHANGED <<app, work, todo, loop, slipped>>
    BY <1>7 DEF vars, repo
  <2>2. ShownInv /\ RefsInv
    BY DEF SessionInv, CacheTrue
  <2>3. RefsInv' /\ Moves
    BY <2>1, <2>2, SameRepoMoves
  <2> QED
    BY <2>1, <2>2, <2>3, SameStep
<1> QED
  BY <1>1, <1>2, <1>3, <1>4, <1>5, <1>6, <1>7 DEF Next, Session

LEMMA ListShown == SessionInv /\ CacheTrue => ListTrue
<1> SUFFICES ASSUME SessionInv, CacheTrue, loop = "poll", app.tips = TipsOf(auth, pub),
                    NEW t \in Threads \ slipped, auth[t] # 0 => Readable(auth[t])
             PROVE  app.rows[t] = Listing[t]
  BY DEF ListTrue
<1>1. ShownInv /\ RefsInv /\ ListInv /\ todo = <<>>
  BY DEF SessionInv, LoopInv, CacheTrue
<1>2. Fits(t, app.rows[t], app.tips[t]) \/ Dead(t, app.tips[t])
  BY <1>1, DoneSettled DEF Settled
<1>3. TipsOf(auth, pub)[t] = IF auth[t] # 0 THEN auth[t] ELSE pub[t]
  BY DEF TipsOf
<1>4. ~Dead(t, app.tips[t])
  BY <1>1, <1>3, ZeroIsNone DEF Dead, Past
<1> QED
  BY <1>1, <1>2, <1>4, RowIsListing

(* When the tips that were recorded are the tips there are, the rows are   *)
(* what list_threads would return, whatever others wrote in between: the   *)
(* list is not old without auto_refresh noticing.  A git call that fails   *)
(* between the rows and the tips would leave rows that are newer than the  *)
(* tips, so none fails here.                                               *)
THEOREM SessionListTrue ==
    ASSUME "git" \notin Faults
    PROVE  Spec => []ListTrue
<1>1. Init => CacheTrue
  BY InitTrue
<1>2. SessionInv /\ CacheTrue /\ [Next]_vars => CacheTrue'
  BY ListNext
<1>3. SessionInv /\ CacheTrue => ListTrue
  BY ListShown
<1> QED
  BY <1>1, <1>2, <1>3, SessionHolds, PTL DEF Spec

-----------------------------------------------------------------------------
(* The way back to the list.                                               *)

(* Every place in a finite order is taken, by one member.                  *)
LEMMA PlacesTaken ==
    ASSUME NEW S, IsFiniteSet(S), NEW k \in [S -> Int],
           \A x, y \in S : k[x] = k[y] => x = y
    PROVE  /\ Cardinality(S) \in Nat
           /\ \A x \in S : Cardinality({y \in S : k[y] < k[x]}) \in 0 .. Cardinality(S) - 1
           /\ \A i \in 1 .. Cardinality(S) :
                 \E x \in S : Cardinality({y \in S : k[y] < k[x]}) = i - 1
           /\ \A x, z \in S : Cardinality({y \in S : k[y] < k[x]})
                                  = Cardinality({y \in S : k[y] < k[z]}) => x = z
<1> DEFINE Below(x) == {y \in S : k[y] < k[x]}
           n == Cardinality(S)
           place == [x \in S |-> Cardinality(Below(x)) + 1]
<1>1. n \in Nat
  BY FS_CardinalityType
<1>2. ASSUME NEW x \in S
      PROVE  IsFiniteSet(Below(x)) /\ Cardinality(Below(x)) \in 0 .. n - 1
  <2>1. Below(x) \in SUBSET S /\ x \notin Below(x)
    OBVIOUS
  <2>2. IsFiniteSet(Below(x)) /\ Cardinality(Below(x)) <= n /\ (n = Cardinality(Below(x)) => S = Below(x))
    BY <2>1, FS_Subset
  <2>3. Cardinality(Below(x)) \in Nat
    BY <2>2, FS_CardinalityType
  <2>4. S # Below(x)
    BY <2>1
  <2> HIDE DEF Below, n
  <2> QED
    BY <1>1, <2>2, <2>3, <2>4
<1>3. ASSUME NEW x \in S, NEW z \in S, k[x] < k[z]
      PROVE  Cardinality(Below(x)) # Cardinality(Below(z))
  <2>1. Below(x) \in SUBSET Below(z) /\ x \in Below(z) /\ x \notin Below(x)
    BY <1>3
  <2>2. IsFiniteSet(Below(z))
    BY <1>2
  <2> HIDE DEF Below
  <2> QED
    BY <2>1, <2>2, FS_Subset
<1>4. ASSUME NEW x \in S, NEW z \in S, Cardinality(Below(x)) = Cardinality(Below(z))
      PROVE  x = z
  <2>1. ~(k[x] < k[z]) /\ ~(k[z] < k[x])
    BY <1>3, <1>4
  <2> QED
    BY <2>1
<1>5. place \in [S -> 1 .. n]
  <2> HIDE DEF Below, n
  <2> QED
    BY <1>1, <1>2
<1>6. place \in Injection(S, 1 .. n)
  <2>1. \A x, z \in S : place[x] = place[z] => x = z
    <3> HIDE DEF Below
    <3>1. ASSUME NEW x \in S, NEW z \in S, place[x] = place[z] PROVE x = z
      <4>1. Cardinality(Below(x)) \in Nat /\ Cardinality(Below(z)) \in Nat
        BY <1>1, <1>2
      <4> QED
        BY <1>4, <3>1, <4>1
    <3> QED
      BY <3>1
  <2> HIDE DEF place
  <2> QED
    BY <1>5, <2>1 DEF Injection, IsInjective
<1>7. IsFiniteSet(1 .. n) /\ Cardinality(1 .. n) = n
  BY <1>1, FS_Interval
<1>8. place \in Surjection(S, 1 .. n)
  BY <1>6, <1>7, FS_Injection
<1>9. \A i \in 1 .. n : \E x \in S : Cardinality(Below(x)) = i - 1
  <2>1. ASSUME NEW i \in 1 .. n PROVE \E x \in S : Cardinality(Below(x)) = i - 1
    <3>1. PICK x \in S : place[x] = i
      BY <1>8 DEF Surjection
    <3> HIDE DEF Below
    <3>2. Cardinality(Below(x)) \in Nat /\ Cardinality(Below(x)) + 1 = i
      BY <1>1, <1>2, <3>1
    <3> QED
      BY <3>2
  <2> QED
    BY <2>1
<1> QED
  BY <1>1, <1>2, <1>4, <1>9

(* The node table of a document lists the nodes that it has.               *)
LEMMA NodesListed ==
    ASSUME NEW c, c # 0, NEW n
    PROVE  n \in Range(NodesOf(c)) <=> n \in Nodes /\ commits[c].nodes[n] # "none"
<1> DEFINE S == {m \in Nodes : commits[c].nodes[m] # "none"}
           k == [m \in S |-> m]
<1>1. IsFiniteSet(S)
  <2>1. IsFiniteSet(Nodes)
    BY FS_Interval, TuiAssumption DEF Nodes
  <2> QED
    BY <2>1, FS_Subset
<1>2. S \subseteq Int
  BY TuiAssumption DEF Nodes
<1>3. NodesOf(c) = Sorted(S, k)
  BY DEF NodesOf, Ascending
<1> HIDE DEF S
<1>4. k \in [S -> Int] /\ \A x, y \in S : k[x] = k[y] => x = y
  BY <1>2
<1> HIDE DEF k
<1> DEFINE P(x) == Cardinality({y \in S : k[y] < k[x]})
<1>5. /\ Cardinality(S) \in Nat
      /\ \A x \in S : P(x) \in 0 .. Cardinality(S) - 1
      /\ \A i \in 1 .. Cardinality(S) : \E x \in S : P(x) = i - 1
      /\ \A x, z \in S : P(x) = P(z) => x = z
  BY <1>1, <1>4, PlacesTaken
<1>6. NodesOf(c) = [i \in 1 .. Cardinality(S) |-> CHOOSE x \in S : P(x) = i - 1]
  BY <1>3 DEF Sorted
<1> HIDE DEF P
<1>7. \A i \in 1 .. Cardinality(S) : NodesOf(c)[i] \in S /\ P(NodesOf(c)[i]) = i - 1
  BY <1>5, <1>6
<1>8. Range(NodesOf(c)) = {NodesOf(c)[i] : i \in 1 .. Cardinality(S)}
  BY <1>6 DEF Range
<1>9. ASSUME n \in S PROVE n \in Range(NodesOf(c))
  <2>1. PICK i : i = P(n) + 1
    OBVIOUS
  <2>2. i \in 1 .. Cardinality(S) /\ P(n) = i - 1
    BY <1>5, <1>9, <2>1
  <2>3. NodesOf(c)[i] = n
    BY <1>5, <1>7, <1>9, <2>2
  <2> QED
    BY <1>8, <2>2, <2>3
<1>10. n \in Range(NodesOf(c)) => n \in S
  BY <1>7, <1>8
<1>11. n \in S <=> n \in Nodes /\ commits[c].nodes[n] # "none"
  BY DEF S
<1> QED
  BY <1>9, <1>10, <1>11

(* How many presses of "back" a view is away from the list: an editor is   *)
(* above its form, a form asks before it closes, the form of a link leads  *)
(* back to where it was opened.                                            *)
Level(v) ==
    CASE v.at = "list" -> 0
      [] v.at = "thread" -> 1
      [] v.at \in {"node", "createThread"} -> 2
      [] v.at \in {"createNode", "editThreadBody"} -> 3
      [] v.at = "editNodeBody" -> 4
      [] v.at = "createLink" -> IF v.from = "node" THEN 4 ELSE 3
Presses(a) ==
    IF a.confirm THEN Level(a.view) - 1
    ELSE Level(a.view) + (IF a.bar THEN 1 ELSE 0) + (IF a.error THEN 1 ELSE 0)
Farthest == 5

(* A commit of the thread t; documents have their fields, and are no events. *)
Names(c, t) == c = 0 \/ (c \in DOMAIN commits /\ commits[c].t = t)
IsDoc(d) ==
    /\ d = [t |-> d.t, status |-> d.status, nodes |-> d.nodes, links |-> d.links,
            event |-> d.event]
    /\ d.nodes = [n \in Nodes |-> d.nodes[n]]
    /\ d.event = FALSE
DocsInv == \A c \in DOMAIN commits : IsDoc(commits[c])
RefNamesInv ==
    /\ auth = [t \in Threads |-> auth[t]] /\ pub = [t \in Threads |-> pub[t]]
    /\ \A t \in Threads : Names(auth[t], t) /\ Names(pub[t], t)
ListNamesInv ==
    /\ IsWork(work)
    /\ \A t \in Threads : /\ Names(app.rows[t].c, t) /\ Names(app.cache[t].c, t)
                          /\ Names(work.auth[t], t) /\ Names(work.rows[t].c, t)

(* What can be opened: threads that have a document, nodes that are in it. *)
Has(t) == t \in Threads /\ Source(t) # 0
HasNode(t, n) == Has(t) /\ n \in Nodes /\ commits[Source(t)].nodes[n] # "none"
Stands(v) ==
    /\ v.at \in {"thread", "node", "createNode", "editNodeBody", "createLink"} => Has(v.t)
    /\ v.at = "node" \/ (v.at = "createLink" /\ v.from = "node") => HasNode(v.t, v.n)

(* Overlays come up between handlers; the bar is over the list.            *)
Views == {"list", "thread", "node"} \cup Forms
Idle == {"draw", "tick", "ticking", "poll", "off"}
Overlays(a, at) ==
    /\ a.view.at \in Views /\ a.bar \in BOOLEAN /\ a.error \in BOOLEAN
    /\ a.bar => a.view.at = "list" /\ at \in Idle
    /\ a.error => ~a.confirm /\ at \in Idle
    /\ a.confirm => a.view.at \in {"createThread", "createNode", "createLink"}

(* The calls of a handler are about threads; a thread is created, and a    *)
(* link made, by the only call of the handler of their form.               *)
ThreadDos == {"openTip", "openRead", "openNode", "say", "revise", "resolve", "reopen", "retract"}
AboutThreads(step) ==
    /\ step.do \in ThreadDos => step.t \in Threads
    /\ step.do = "restore" => step.t \in Threads \cup {0}
    /\ step.do \notin {"create", "link"}
Plan(p) == \E S : p \in Seq(S) /\ \A step \in S : AboutThreads(step)
PlanFrom(p, a) ==
    \/ Plan(p)
    \/ \E t \in Threads : \E n : p = <<Step("create", t, n)>> /\ a.view.at = "createThread"
    \/ \E t \in Threads : \E n : p = <<Step("link", t, n)>> /\ a.view.at = "createLink"

(* A press of "back" has been answered, or is on its way to a view that is *)
(* a press nearer.                                                         *)
OnTheWay(p, count) ==
    \/ \E t, n : /\ p = OpenThread(t, n) \/ p = <<Step("openRead", t, n)>>
                 /\ Has(t) /\ 1 + count <= Farthest
    \/ \E t, n : p = OpenNode(t, n) /\ HasNode(t, n) /\ 2 + count <= Farthest
Nearer(a, at, p, count) ==
    /\ count \in Nat
    /\ at \in {"start", "restore"} => count = 0
    /\ IF at = "event" /\ count # 0 THEN OnTheWay(p, count)
       ELSE Presses(a) = 0 \/ Presses(a) + count <= Farthest

SavedInv == saved.view.at \in {"thread", "node"} => saved.view.t \in Threads

WayInv ==
    /\ DocsInv /\ RefNamesInv /\ ListNamesInv
    /\ Overlays(app, loop) /\ PlanFrom(todo, app) /\ Stands(app.view) /\ SavedInv
    /\ Nearer(app, loop, todo, backs)

-----------------------------------------------------------------------------
(* What the list shows are threads.                                        *)

LEMMA NamesNumber ==
    ASSUME ShownInv, NEW c, NEW t, Names(c, t)
    PROVE  c \in Nat
<1>1. PICK S : commits \in Seq(S)
  BY DEF ShownInv
<1>2. DOMAIN commits = 1 .. Len(commits) /\ Len(commits) \in Nat
  BY <1>1
<1> QED
  BY <1>2 DEF Names

LEMMA SelectedListed ==
    ASSUME ShownInv, NEW a, \A t \in Threads : Names(a.rows[t].c, t),
           a.sel \in 1 .. Len(Visible(a)) \/ SelectedThread(a) # 0
    PROVE  SelectedThread(a) \in Threads
<1> DEFINE shown == {t \in Threads : /\ a.rows[t].c # 0
                                     /\ a.filter = {} \/ commits[a.rows[t].c].status \in a.filter}
           key(t) == IF a.sort.by = "id" THEN t ELSE a.rows[t].c
           k == [t \in shown |-> IF a.sort.asc THEN key(t) ELSE 0 - key(t)]
           P(x) == Cardinality({y \in shown : k[y] < k[x]})
<1>1. IsFiniteSet(shown)
  <2>1. IsFiniteSet(Threads)
    BY FS_Interval, TuiAssumption DEF Threads
  <2> QED
    BY <2>1, FS_Subset
<1>2. \A t \in shown : key(t) \in Nat
  BY NamesNumber, TuiAssumption DEF Threads
<1>3. \A x, y \in shown : key(x) = key(y) => x = y
  BY DEF Names
<1>4. k \in [shown -> Int] /\ \A x, y \in shown : k[x] = k[y] => x = y
  <2> HIDE DEF shown, key
  <2> QED
    BY <1>2, <1>3
<1>5. Visible(a) = Sorted(shown, k)
  BY DEF Visible
<1>6. /\ Cardinality(shown) \in Nat
      /\ \A i \in 1 .. Cardinality(shown) : \E x \in shown : P(x) = i - 1
  <2> HIDE DEF k, shown
  <2>1. /\ Cardinality(shown) \in Nat
        /\ \A x \in shown : P(x) \in 0 .. Cardinality(shown) - 1
        /\ \A i \in 1 .. Cardinality(shown) : \E x \in shown : P(x) = i - 1
        /\ \A x, z \in shown : P(x) = P(z) => x = z
    BY <1>1, <1>4, PlacesTaken
  <2> QED
    BY <2>1
<1>7. Visible(a) = [i \in 1 .. Cardinality(shown) |-> CHOOSE x \in shown : P(x) = i - 1]
  <2> HIDE DEF k, shown
  <2> QED
    BY <1>5 DEF Sorted
<1>8. shown \subseteq Threads
  OBVIOUS
<1> HIDE DEF P, shown
<1>9. \A i \in 1 .. Cardinality(shown) : Visible(a)[i] \in shown
  BY <1>6, <1>7
<1>10. Len(Visible(a)) = Cardinality(shown)
  BY <1>6, <1>7
<1>11. a.sel \in 1 .. Len(Visible(a)) /\ SelectedThread(a) = Visible(a)[a.sel]
  BY DEF SelectedThread
<1> QED
  BY <1>8, <1>9, <1>10, <1>11

-----------------------------------------------------------------------------
(* Plans.                                                                  *)

LEMMA PlanTail ==
    ASSUME NEW p, Plan(p), p # <<>>
    PROVE  AboutThreads(Head(p)) /\ Plan(Tail(p))
<1>1. PICK S : p \in Seq(S) /\ \A step \in S : AboutThreads(step)
  BY DEF Plan
<1>2. Head(p) \in S /\ Tail(p) \in Seq(S)
  BY <1>1
<1> QED
  BY <1>1, <1>2 DEF Plan

LEMMA PlanJoin ==
    ASSUME NEW p, NEW q, Plan(p), Plan(q)
    PROVE  Plan(p \o q)
<1>1. PICK S : p \in Seq(S) /\ \A step \in S : AboutThreads(step)
  BY DEF Plan
<1>2. PICK T : q \in Seq(T) /\ \A step \in T : AboutThreads(step)
  BY DEF Plan
<1>3. p \in Seq(S \cup T) /\ q \in Seq(S \cup T)
  BY <1>1, <1>2, SeqMonotonic
<1>4. p \o q \in Seq(S \cup T)
  BY <1>3
<1> QED
  BY <1>1, <1>2, <1>4 DEF Plan

LEMMA PlanNone == Plan(<<>>)
<1> DEFINE S == {}
<1>1. <<>> \in Seq(S) /\ \A step \in S : AboutThreads(step)
  OBVIOUS
<1> HIDE DEF S
<1> QED
  BY <1>1 DEF Plan

LEMMA PlanOne ==
    ASSUME NEW do, NEW t, NEW n, do \in ThreadDos => t \in Threads,
           do = "restore" => t \in Threads \cup {0}, do \notin {"create", "link"}
    PROVE  Plan(<<Step(do, t, n)>>)
<1>1. AboutThreads(Step(do, t, n))
  BY DEF AboutThreads, Step
<1> DEFINE S == {Step(do, t, n)}
<1>2. <<Step(do, t, n)>> \in Seq(S)
  OBVIOUS
<1>3. \A step \in S : AboutThreads(step)
  BY <1>1
<1> HIDE DEF S
<1> QED
  BY <1>2, <1>3 DEF Plan

LEMMA PlansOpen ==
    ASSUME NEW t \in Threads, NEW n
    PROVE  Plan(OpenThread(t, n)) /\ Plan(OpenNode(t, n)) /\ Plan(<<Step("openRead", t, n)>>)
<1>1. Plan(<<Step("openTip", t, n)>>) /\ Plan(<<Step("openRead", t, n)>>)
      /\ Plan(<<Step("openNode", t, n)>>)
  BY PlanOne
<1>2. OpenThread(t, n) = <<Step("openTip", t, n)>> \o <<Step("openRead", t, n)>>
  BY DEF OpenThread
<1>3. OpenNode(t, n) = <<Step("openNode", t, n)>>
  BY DEF OpenNode
<1> QED
  BY <1>1, <1>2, <1>3, PlanJoin

LEMMA PlansList ==
    /\ Plan(ReadList) /\ Plan(ReadTips) /\ Plan(RefreshList)
    /\ Plan(ReadList \o ReadTips \o <<Step("showList", 0, 0)>>)
    /\ Plan(ReadTips \o <<Step("unlessSame", 0, 0)>> \o ReadList \o <<Step("showList", 0, 0)>>)
    /\ Plan(ReadList \o <<Step("keepRows", 0, 0)>> \o ReadTips)
<1>1. /\ Plan(<<Step("listAuth", 0, 0)>>) /\ Plan(<<Step("listPub", 0, 0)>>)
      /\ Plan(<<Step("tipsAuth", 0, 0)>>) /\ Plan(<<Step("tipsPub", 0, 0)>>)
      /\ Plan(<<Step("showList", 0, 0)>>) /\ Plan(<<Step("unlessSame", 0, 0)>>)
      /\ Plan(<<Step("keepRows", 0, 0)>>) /\ Plan(<<Step("keepTips", 0, 0)>>)
  BY PlanOne DEF ThreadDos
<1>2. /\ ReadList = <<Step("listAuth", 0, 0)>> \o <<Step("listPub", 0, 0)>>
      /\ ReadTips = <<Step("tipsAuth", 0, 0)>> \o <<Step("tipsPub", 0, 0)>>
  BY DEF ReadList, ReadTips
<1>3. Plan(ReadList) /\ Plan(ReadTips)
  BY <1>1, <1>2, PlanJoin
<1>4. Plan(ReadList \o ReadTips \o <<Step("showList", 0, 0)>>)
  BY <1>1, <1>3, PlanJoin
<1>5. Plan(ReadTips \o <<Step("unlessSame", 0, 0)>> \o ReadList \o <<Step("showList", 0, 0)>>)
  BY <1>1, <1>3, PlanJoin
<1>6. Plan(ReadList \o <<Step("keepRows", 0, 0)>> \o ReadTips)
  BY <1>1, <1>3, PlanJoin
<1>7. Plan(RefreshList)
  BY <1>1, <1>6, PlanJoin DEF RefreshList
<1> QED
  BY <1>3, <1>4, <1>5, <1>6, <1>7

(* The fields that decide how far the list is, and what it shows.          *)
Kin(b, a) ==
    /\ IsApp(b) /\ b.view = a.view /\ b.rows = a.rows /\ b.cache = a.cache
    /\ b.bar = a.bar /\ b.error = a.error /\ b.confirm = a.confirm

LEMMA KinField ==
    ASSUME NEW a, NEW b, Kin(b, a), NEW x
    PROVE  /\ Kin([b EXCEPT !.sel = x], a)
           /\ Kin([b EXCEPT !.nodeSel = x], a)
           /\ Kin([b EXCEPT !.filter = x], a)
           /\ Kin([b EXCEPT !.draft = x], a)
           /\ Kin([b EXCEPT !.sort = x], a)
           /\ Kin([b EXCEPT !.select = x], a)
           /\ Kin([b EXCEPT !.shown = x], a)
           /\ Kin([b EXCEPT !.pane = x], a)
           /\ Kin([b EXCEPT !.tips = x], a)
           /\ Kin([b EXCEPT !.tip = x], a)
<1> USE DEF Kin, IsApp
<1>1. Kin([b EXCEPT !.sel = x], a) /\ Kin([b EXCEPT !.nodeSel = x], a)
  OBVIOUS
<1>2. Kin([b EXCEPT !.filter = x], a) /\ Kin([b EXCEPT !.draft = x], a)
  OBVIOUS
<1>3. Kin([b EXCEPT !.sort = x], a) /\ Kin([b EXCEPT !.select = x], a)
  OBVIOUS
<1>4. Kin([b EXCEPT !.shown = x], a) /\ Kin([b EXCEPT !.pane = x], a)
  OBVIOUS
<1>5. Kin([b EXCEPT !.tips = x], a) /\ Kin([b EXCEPT !.tip = x], a)
  OBVIOUS
<1> QED
  BY <1>1, <1>2, <1>3, <1>4, <1>5

LEMMA KinSelf ==
    ASSUME SessionInv
    PROVE  Kin(app, app) /\ Kin(Pressed, app)
<1>1. Kin(app, app)
  BY DEF SessionInv, Kin
<1> QED
  BY <1>1, KinField DEF Pressed

(* How far the list is at most.                                            *)
LEMMA LevelBound ==
    ASSUME NEW v, v.at \in Views
    PROVE  /\ Level(v) \in 0 .. 4
           /\ Level(v) = 0 <=> v.at = "list"
           /\ v.at \in {"createThread", "createNode", "createLink"} => Level(v) \in 2 .. 4
<1>1. CASE v.at = "list"
  BY <1>1 DEF Level
<1>2. CASE v.at = "thread"
  BY <1>2 DEF Level
<1>3. CASE v.at \in {"node", "createThread"}
  BY <1>3 DEF Level
<1>4. CASE v.at \in {"createNode", "editThreadBody"}
  BY <1>4 DEF Level
<1>5. CASE v.at = "editNodeBody"
  BY <1>5 DEF Level
<1>6. CASE v.at = "createLink"
  BY <1>6 DEF Level
<1> QED
  BY <1>1, <1>2, <1>3, <1>4, <1>5, <1>6 DEF Views, Forms

LEMMA PressesBound ==
    ASSUME NEW a, NEW at, Overlays(a, at), a.confirm \in BOOLEAN
    PROVE  Presses(a) \in 0 .. Farthest
<1>1. Level(a.view) \in 0 .. 4 /\ (a.bar => Level(a.view) = 0)
      /\ (a.confirm => Level(a.view) \in 2 .. 4)
  BY LevelBound DEF Overlays
<1>2. CASE a.confirm
  BY <1>1, <1>2 DEF Presses, Farthest
<1>3. CASE ~a.confirm
  BY <1>1, <1>3 DEF Presses, Farthest, Overlays
<1> QED
  BY <1>2, <1>3

LEMMA NoPresses ==
    ASSUME NEW a, NEW at, Overlays(a, at), a.confirm \in BOOLEAN, NEW p
    PROVE  Nearer(a, at, p, 0)
  BY PressesBound DEF Nearer, Farthest

(* A key is answered.                                                      *)
LEMMA HandleWay ==
    ASSUME WayInv, NEW a, NEW f, NEW plan, Handle(a, f, plan), a.confirm \in BOOLEAN,
           a.rows = app.rows, a.cache = app.cache,
           Overlays(a, IF plan = <<>> THEN "draw" ELSE "event"),
           PlanFrom(plan, a), Stands(a.view), SavedInv',
           backs' = 0 \/ Nearer(a, IF plan = <<>> THEN "draw" ELSE "event", plan, backs')
    PROVE  WayInv'
<1>1. /\ app' = a /\ todo' = plan /\ loop' = IF plan = <<>> THEN "draw" ELSE "event"
      /\ UNCHANGED <<commits, auth, pub, work>>
  BY DEF Handle, repo
<1>2. DocsInv' /\ RefNamesInv'
  BY <1>1 DEF WayInv, DocsInv, IsDoc, RefNamesInv, Names
<1>3. ListNamesInv'
  BY <1>1 DEF WayInv, ListNamesInv, Names, IsWork
<1>4. Stands(app.view)'
  BY <1>1 DEF Stands, Has, HasNode, Source
<1>5. Overlays(app, loop)'
  BY <1>1 DEF Overlays
<1>6. PlanFrom(todo, app)'
  BY <1>1 DEF PlanFrom, Plan, AboutThreads
<1>7. Nearer(a, IF plan = <<>> THEN "draw" ELSE "event", plan, backs')
  BY NoPresses
<1>8. Nearer(app, loop, todo, backs)'
  <2>1. PICK at : at = IF plan = <<>> THEN "draw" ELSE "event"
    OBVIOUS
  <2>2. PICK n : n = backs'
    OBVIOUS
  <2>3. Nearer(a, at, plan, n)
    BY <1>7, <2>1, <2>2
  <2>4. app' = a /\ loop' = at /\ todo' = plan /\ backs' = n
    BY <1>1, <2>1, <2>2
  <2>5. OnTheWay(plan, n) => OnTheWay(todo, backs)'
    BY <1>1, <2>4 DEF OnTheWay, Has, HasNode, Source
  <2>6. Presses(app)' = Presses(a)
    BY <2>4 DEF Presses
  <2> QED
    BY <2>3, <2>4, <2>5, <2>6 DEF Nearer
<1> QED
  BY <1>2, <1>3, <1>4, <1>5, <1>6, <1>8 DEF WayInv

LEMMA KeyWay ==
    ASSUME WayInv, NEW a, NEW f, NEW plan, Handle(a, f, plan), Kin(a, app),
           backs' = 0, saved' = saved, Plan(plan) \/ PlanFrom(plan, a),
           plan = <<>> \/ (~app.bar /\ ~app.error)
    PROVE  WayInv'
<1>1. loop = "poll"
  BY DEF Handle
<1>2. Overlays(a, IF plan = <<>> THEN "draw" ELSE "event")
  BY <1>1 DEF WayInv, Overlays, Kin, Idle
<1>3. PlanFrom(plan, a)
  BY DEF PlanFrom
<1>4. Stands(a.view) /\ SavedInv'
  BY DEF WayInv, SavedInv, Kin
<1>5. a.confirm \in BOOLEAN /\ a.rows = app.rows /\ a.cache = app.cache
  BY DEF Kin, IsApp
<1> QED
  BY <1>2, <1>3, <1>4, <1>5, HandleWay

VisibleOf(rows, filter, sort) ==
    LET shown == {t \in Threads : /\ rows[t].c # 0
                                  /\ filter = {} \/ commits[rows[t].c].status \in filter}
        key(t) == IF sort.by = "id" THEN t ELSE rows[t].c
    IN  Sorted(shown, [t \in shown |-> IF sort.asc THEN key(t) ELSE 0 - key(t)])

LEMMA RowClicked ==
    ASSUME IsApp(app), NEW i
    PROVE  Visible([app EXCEPT !.sel = i]) = Visible(app) /\ [app EXCEPT !.sel = i].sel = i
<1>1. PICK a : a = [app EXCEPT !.sel = i]
  OBVIOUS
<1>2. a.rows = app.rows /\ a.filter = app.filter /\ a.sort = app.sort /\ a.sel = i
  BY <1>1 DEF IsApp
<1>3. Visible(a) = VisibleOf(a.rows, a.filter, a.sort)
  BY DEF Visible, VisibleOf
<1>4. Visible(app) = VisibleOf(app.rows, app.filter, app.sort)
  BY DEF Visible, VisibleOf
<1> QED
  BY <1>1, <1>2, <1>3, <1>4

LEMMA ListKeysWay ==
    ASSUME SessionInv, WayInv, MoveInList \/ EnterThread \/ RefreshKey \/ ClickRow \/ ClickHeader
    PROVE  WayInv'
<1>1. Kin(app, app) /\ Kin(Pressed, app) /\ IsApp(app) /\ ShownInv
  BY KinSelf DEF SessionInv
<1>2. ~app.bar /\ ~app.error /\ backs' = 0 /\ saved' = saved
  BY DEF MoveInList, EnterThread, RefreshKey, ClickRow, ClickHeader, Key, Click, Ready, Calm, InList
<1>3. \A t \in Threads : Names(app.rows[t].c, t)
  BY DEF WayInv, ListNamesInv
<1>4. CASE MoveInList
  <2>1. PICK i : Handle([Pressed EXCEPT !.sel = i], form, <<>>)
    BY <1>4 DEF MoveInList
  <2>2. Kin([Pressed EXCEPT !.sel = i], app)
    BY <1>1, KinField
  <2> QED
    BY <1>2, <2>1, <2>2, KeyWay, PlanNone
<1>5. CASE EnterThread
  <2>1. Handle(Pressed, form, OpenThread(SelectedThread(app), 0)) /\ SelectedThread(app) # 0
    BY <1>5 DEF EnterThread
  <2>2. SelectedThread(app) \in Threads
    BY <1>1, <1>3, <2>1, SelectedListed
  <2>3. Plan(OpenThread(SelectedThread(app), 0))
    BY <2>2, PlansOpen
  <2> QED
    BY <1>1, <1>2, <2>1, <2>3, KeyWay
<1>6. CASE RefreshKey
  <2>1. Handle(Pressed, form, ReadList \o ReadTips \o <<Step("showList", 0, 0)>>)
    BY <1>6 DEF RefreshKey
  <2> QED
    BY <1>1, <1>2, <2>1, PlansList, KeyWay
<1>7. CASE ClickRow
  <2>1. PICK i \in 1 .. Len(Visible(app)) :
            \/ Handle([app EXCEPT !.sel = i], form, <<>>)
            \/ Handle([app EXCEPT !.sel = i], form, OpenThread(SelectedThread([app EXCEPT !.sel = i]), 0))
    BY <1>7 DEF ClickRow
  <2>2. PICK a : a = [app EXCEPT !.sel = i]
    OBVIOUS
  <2>3. Kin(a, app)
    BY <1>1, <2>2, KinField
  <2>4. a.sel \in 1 .. Len(Visible(a)) /\ a.rows = app.rows
    BY <1>1, <2>1, <2>2, <2>3, RowClicked DEF Kin
  <2>5. SelectedThread(a) \in Threads
    BY <1>1, <1>3, <2>4, SelectedListed
  <2>6. Plan(OpenThread(SelectedThread(a), 0))
    BY <2>5, PlansOpen
  <2>7. Handle(a, form, <<>>) \/ Handle(a, form, OpenThread(SelectedThread(a), 0))
    BY <2>1, <2>2
  <2> QED
    BY <1>2, <2>3, <2>6, <2>7, KeyWay, PlanNone
<1>8. CASE ClickHeader
  <2>1. PICK order, i : Handle([[app EXCEPT !.sort = order] EXCEPT !.sel = i], form, <<>>)
    BY <1>8 DEF ClickHeader
  <2>2. PICK a : a = [app EXCEPT !.sort = order]
    OBVIOUS
  <2>3. Kin(a, app)
    BY <1>1, <2>2, KinField
  <2>4. Kin([a EXCEPT !.sel = i], app)
    BY <2>3, KinField
  <2>5. Handle([a EXCEPT !.sel = i], form, <<>>)
    BY <2>1, <2>2
  <2> QED
    BY <1>2, <2>4, <2>5, KeyWay, PlanNone
<1> QED
  BY <1>4, <1>5, <1>6, <1>7, <1>8

(* A change of the overlays, the rest as it was.                           *)
Barred(c, a, x) ==
    /\ IsApp(c) /\ c.view = a.view /\ c.rows = a.rows /\ c.cache = a.cache
    /\ c.bar = x /\ c.error = a.error /\ c.confirm = a.confirm

LEMMA BarFields ==
    ASSUME NEW a, NEW b, Kin(b, a), NEW x, NEW y, NEW z
    PROVE  /\ Barred([b EXCEPT !.bar = x, !.draft = y], a, x)
           /\ Barred([b EXCEPT !.bar = x, !.draft = y, !.filter = z], a, x)
<1>1. PICK c : c = [b EXCEPT !.bar = x]
  OBVIOUS
<1>2. PICK d : d = [c EXCEPT !.draft = y]
  OBVIOUS
<1>3. PICK e : e = [d EXCEPT !.filter = z]
  OBVIOUS
<1>4. /\ IsApp(c) /\ c.view = a.view /\ c.rows = a.rows /\ c.cache = a.cache
      /\ c.bar = x /\ c.error = a.error /\ c.confirm = a.confirm
  BY <1>1 DEF Kin, IsApp
<1>5. Kin(d, c) /\ Kin(e, c)
  <2>1. Kin(c, c)
    BY <1>4 DEF Kin
  <2>2. Kin(d, c)
    BY <1>2, <2>1, KinField
  <2> QED
    BY <1>3, <2>2, KinField
<1>6. d = [b EXCEPT !.bar = x, !.draft = y] /\ e = [b EXCEPT !.bar = x, !.draft = y, !.filter = z]
  BY <1>1, <1>2, <1>3 DEF Kin, IsApp
<1> QED
  BY <1>4, <1>5, <1>6 DEF Kin, Barred

LEMMA BarKeysWay ==
    ASSUME SessionInv, WayInv, OpenBar \/ ToggleBar \/ CloseBar
    PROVE  WayInv'
<1>1. Kin(Pressed, app) /\ IsApp(app) /\ app.confirm \in BOOLEAN
  BY KinSelf DEF SessionInv, IsApp
<1>2. /\ app.view.at = "list" /\ ~app.error /\ ~app.confirm /\ backs' = 0 /\ saved' = saved
      /\ Overlays(app, loop) /\ Stands(app.view) /\ SavedInv'
  BY DEF OpenBar, ToggleBar, CloseBar, Key, Ready, Calm, InList, InBar, WayInv, SavedInv
<1>3. \A a : Plan(<<>>) /\ PlanFrom(<<>>, a)
  BY PlanNone DEF PlanFrom
<1>4. CASE OpenBar
  <2>1. PICK a : a = [Pressed EXCEPT !.bar = TRUE, !.draft = app.filter]
    OBVIOUS
  <2>2. /\ a.view = app.view /\ a.rows = app.rows /\ a.cache = app.cache
        /\ a.bar = TRUE /\ a.error = app.error /\ a.confirm = app.confirm
    <3>1. Barred(a, app, TRUE)
      BY <1>1, <2>1, BarFields
    <3> QED
      BY <3>1 DEF Barred
  <2>3. Handle(a, form, <<>>)
    BY <1>4, <2>1 DEF OpenBar
  <2>4. Overlays(a, "draw")
    BY <1>2, <2>2 DEF Overlays, Idle
  <2> QED
    BY <1>1, <1>2, <1>3, <2>2, <2>3, <2>4, HandleWay
<1>5. CASE ToggleBar
  <2>1. PICK draft : Handle([Pressed EXCEPT !.draft = draft], form, <<>>)
    BY <1>5 DEF ToggleBar
  <2>2. Kin([Pressed EXCEPT !.draft = draft], app)
    BY <1>1, KinField
  <2> QED
    BY <1>2, <1>3, <2>1, <2>2, KeyWay
<1>6. CASE CloseBar
  <2>1. PICK chosen, i :
          Handle([[Pressed EXCEPT !.bar = FALSE, !.draft = {}, !.filter = chosen] EXCEPT !.sel = i],
                 form, <<>>)
    BY <1>6 DEF CloseBar
  <2>2. PICK b : b = [Pressed EXCEPT !.bar = FALSE, !.draft = {}, !.filter = chosen]
    OBVIOUS
  <2>3. PICK a : a = [b EXCEPT !.sel = i]
    OBVIOUS
  <2>4. /\ IsApp(b) /\ b.view = app.view /\ b.rows = app.rows /\ b.cache = app.cache
        /\ b.bar = FALSE /\ b.error = app.error /\ b.confirm = app.confirm
    <3>1. Barred(b, app, FALSE)
      BY <1>1, <2>2, BarFields
    <3> QED
      BY <3>1 DEF Barred
  <2>5. Kin(a, b)
    <3>1. Kin(b, b)
      BY <2>4 DEF Kin
    <3> QED
      BY <2>3, <3>1, KinField
  <2>6. /\ a.view = app.view /\ a.rows = app.rows /\ a.cache = app.cache
        /\ a.bar = FALSE /\ a.error = app.error /\ a.confirm = app.confirm
    BY <2>4, <2>5 DEF Kin
  <2>7. Handle(a, form, <<>>)
    BY <2>1, <2>2, <2>3
  <2>8. Overlays(a, "draw")
    BY <1>2, <2>6 DEF Overlays, Idle
  <2> QED
    BY <1>1, <1>2, <1>3, <2>6, <2>7, <2>8, HandleWay
<1> QED
  BY <1>4, <1>5, <1>6

LEMMA DetailKeysWay ==
    ASSUME SessionInv, WayInv,
           MoveInTree \/ EnterNode \/ ClickNode \/ RereadKey \/ SelectKey \/ EditKey \/ MarkKey
    PROVE  WayInv'
<1>1. Kin(app, app) /\ Kin(Pressed, app)
  BY KinSelf
<1>2. /\ app.view.at \in {"thread", "node"} /\ ~app.error /\ backs' = 0 /\ saved' = saved
      /\ Overlays(app, loop) /\ Stands(app.view)
  BY DEF MoveInTree, EnterNode, ClickNode, RereadKey, SelectKey, EditKey, MarkKey, Key, Click,
         Ready, Calm, InThread, InNode, WayInv
<1>3. app.view.t \in Threads /\ ~app.bar
  BY <1>2 DEF Stands, Has, Overlays
<1>4. \A n : Plan(OpenThread(app.view.t, n)) /\ Plan(OpenNode(app.view.t, n))
  BY <1>3, PlansOpen
<1>5. CASE MoveInTree
  <2>1. PICK i : Handle([Pressed EXCEPT !.nodeSel = i], form, <<>>)
    BY <1>5 DEF MoveInTree
  <2>2. Kin([Pressed EXCEPT !.nodeSel = i], app)
    BY <1>1, KinField
  <2> QED
    BY <1>2, <2>1, <2>2, KeyWay, PlanNone
<1>6. CASE EnterNode \/ RereadKey
  <2>1. PICK n : Handle(Pressed, form, OpenThread(app.view.t, n))
                 \/ Handle(Pressed, form, OpenNode(app.view.t, n))
    BY <1>6 DEF EnterNode, RereadKey
  <2> QED
    BY <1>1, <1>2, <1>3, <1>4, <2>1, KeyWay
<1>7. CASE EditKey \/ MarkKey
  <2>1. PICK plan, n : /\ Handle(Pressed, form, plan)
                       /\ \/ plan = <<>>
                          \/ plan = <<Step("revise", app.view.t, n)>>
                          \/ plan = <<Step("resolve", app.view.t, n)>>
                          \/ plan = <<Step("reopen", app.view.t, n)>>
                          \/ plan = <<Step("retract", app.view.t, n)>>
    BY <1>7 DEF EditKey, MarkKey
  <2>2. Plan(plan)
    BY <1>3, <2>1, PlanNone, PlanOne
  <2> QED
    BY <1>1, <1>2, <1>3, <2>1, <2>2, KeyWay
<1>8. CASE ClickNode
  <2>1. PICK i, n : \/ Handle([app EXCEPT !.nodeSel = i], form, <<>>)
                    \/ Handle([app EXCEPT !.nodeSel = i], form, OpenNode(app.view.t, n))
    BY <1>8 DEF ClickNode
  <2>2. PICK a : a = [app EXCEPT !.nodeSel = i]
    OBVIOUS
  <2>3. Kin(a, app)
    BY <1>1, <2>2, KinField
  <2>4. Handle(a, form, <<>>) \/ Handle(a, form, OpenNode(app.view.t, n))
    BY <2>1, <2>2
  <2> QED
    BY <1>2, <1>3, <1>4, <2>3, <2>4, KeyWay, PlanNone
<1>9. CASE SelectKey
  <2>1. Handle([app EXCEPT !.select = TRUE], form, <<>>)
    BY <1>9 DEF SelectKey
  <2>2. Kin([app EXCEPT !.select = TRUE], app)
    BY <1>1, KinField
  <2> QED
    BY <1>2, <2>1, <2>2, KeyWay, PlanNone
<1> QED
  BY <1>5, <1>6, <1>7, <1>8, <1>9

(* A field of the session that decides, changed by itself.                 *)
LEMMA OverlayFields ==
    ASSUME NEW a, IsApp(a), NEW x
    PROVE  /\ Kin([a EXCEPT !.error = x], [a EXCEPT !.error = x])
           /\ [a EXCEPT !.error = x].view = a.view /\ [a EXCEPT !.error = x].bar = a.bar
           /\ [a EXCEPT !.error = x].error = x /\ [a EXCEPT !.error = x].confirm = a.confirm
           /\ [a EXCEPT !.error = x].rows = a.rows /\ [a EXCEPT !.error = x].cache = a.cache
           /\ [a EXCEPT !.confirm = x].view = a.view /\ [a EXCEPT !.confirm = x].bar = a.bar
           /\ [a EXCEPT !.confirm = x].error = a.error /\ [a EXCEPT !.confirm = x].confirm = x
           /\ [a EXCEPT !.confirm = x].rows = a.rows /\ [a EXCEPT !.confirm = x].cache = a.cache
<1>1. /\ Kin([a EXCEPT !.error = x], [a EXCEPT !.error = x])
      /\ [a EXCEPT !.error = x].view = a.view /\ [a EXCEPT !.error = x].bar = a.bar
      /\ [a EXCEPT !.error = x].error = x /\ [a EXCEPT !.error = x].confirm = a.confirm
      /\ [a EXCEPT !.error = x].rows = a.rows /\ [a EXCEPT !.error = x].cache = a.cache
  BY DEF Kin, IsApp
<1>2. /\ [a EXCEPT !.confirm = x].view = a.view /\ [a EXCEPT !.confirm = x].bar = a.bar
      /\ [a EXCEPT !.confirm = x].error = a.error /\ [a EXCEPT !.confirm = x].confirm = x
      /\ [a EXCEPT !.confirm = x].rows = a.rows /\ [a EXCEPT !.confirm = x].cache = a.cache
  BY DEF IsApp
<1> QED
  BY <1>1, <1>2

(* Another view over the same list.                                        *)
Shows(b, a, v) ==
    /\ IsApp(b) /\ b.view = v /\ b.rows = a.rows /\ b.cache = a.cache
    /\ b.bar = a.bar /\ b.error = a.error /\ b.confirm = a.confirm

LEMMA MovedFields ==
    ASSUME NEW a, NEW b, Kin(b, a), NEW v, IsView(v)
    PROVE  /\ Shows([b EXCEPT !.view = v], a, v)
           /\ \A x, y : Shows([b EXCEPT !.view = v, !.shown = x, !.pane = y], a, v)
<1>1. Shows([b EXCEPT !.view = v], a, v)
  BY DEF Kin, IsApp, Shows
<1>2. ASSUME NEW x, NEW y PROVE Shows([b EXCEPT !.view = v, !.shown = x, !.pane = y], a, v)
  <2>1. PICK c : c = [b EXCEPT !.view = v]
    OBVIOUS
  <2>2. Shows(c, a, v) /\ Kin(c, c)
    BY <1>1, <2>1 DEF Shows, Kin
  <2>3. PICK d : d = [[c EXCEPT !.shown = x] EXCEPT !.pane = y]
    OBVIOUS
  <2>4. Kin(d, c)
    BY <2>2, <2>3, KinField
  <2>5. d = [b EXCEPT !.view = v, !.shown = x, !.pane = y]
    BY <2>1, <2>3 DEF Kin, IsApp
  <2> QED
    BY <2>2, <2>4, <2>5 DEF Kin, Shows
<1> QED
  BY <1>1, <1>2

LEMMA AtIs ==
    \A at, t, n : /\ IsView(At(at, t, n)) /\ At(at, t, n).at = at /\ At(at, t, n).t = t
                  /\ At(at, t, n).n = n /\ At(at, t, n).from = "none"
  BY DEF IsView, At

(* A key of a form that stays in it.                                       *)
LEMMA StayWay ==
    ASSUME SessionInv, WayInv, NEW f, NEW plan, Handle(app, f, plan),
           backs' = 0, saved' = saved, PlanFrom(plan, app),
           plan = <<>> \/ (~app.bar /\ ~app.error)
    PROVE  WayInv'
  BY KinSelf, KeyWay

LEMMA FormKeysWay ==
    ASSUME SessionInv, WayInv, FocusField \/ Type \/ ChooseTarget \/ Submit
    PROVE  WayInv'
<1>1. backs' = 0 /\ saved' = saved
  BY DEF FocusField, Type, ChooseTarget, Submit, Calm
<1>2. \A a : PlanFrom(<<>>, a)
  BY PlanNone DEF PlanFrom
<1>3. CASE FocusField \/ ChooseTarget
  <2>1. PICK f : Handle(app, f, <<>>)
    BY <1>3 DEF FocusField, ChooseTarget
  <2> QED
    BY <1>1, <1>2, <2>1, StayWay
<1>4. CASE Type
  <2>1. PICK f : Handle(app, f, <<>>)
    BY <1>4 DEF Type
  <2> QED
    BY <1>1, <1>2, <2>1, StayWay
<1>5. CASE Submit
  <2>1. PICK f, plan : /\ Handle(app, f, plan)
                       /\ plan = <<>> \/ plan \in Writing
    BY <1>5 DEF Submit
  <2>2. app.view.at \in {"createThread", "createNode", "createLink"} /\ ~app.error
    BY <1>5 DEF Submit, Ready, InForm
  <2>3. ~app.bar /\ (app.view.at # "createThread" => app.view.t \in Threads)
    BY <2>2 DEF WayInv, Overlays, Stands, Has
  <2>4. ASSUME plan \in Writing PROVE PlanFrom(plan, app)
    <3>1. CASE app.view.at = "createThread"
      <4>1. PICK t \in Threads : plan = <<Step("create", t, 0)>>
        BY <2>4, <3>1 DEF Writing
      <4> QED
        BY <3>1, <4>1 DEF PlanFrom
    <3>2. CASE app.view.at = "createNode"
      <4>1. plan = <<Step("say", app.view.t, 0)>>
        BY <2>4, <3>2 DEF Writing
      <4> QED
        BY <2>3, <3>2, <4>1, PlanOne DEF PlanFrom
    <3>3. CASE app.view.at = "createLink"
      <4>1. PICK n : plan = <<Step("link", app.view.t, n)>>
        BY <2>4, <3>3 DEF Writing
      <4> QED
        BY <2>3, <3>3, <4>1 DEF PlanFrom
    <3> QED
      BY <2>2, <3>1, <3>2, <3>3
  <2> QED
    BY <1>1, <1>2, <2>1, <2>3, <2>2, <2>4, StayWay
<1> QED
  BY <1>3, <1>4, <1>5

(* A form, or the editor of its body, is opened.                           *)
LEMMA OpenFormWay ==
    ASSUME SessionInv, WayInv, NEW a, NEW f, NEW v, Handle(a, f, <<>>), Shows(a, app, v),
           ~app.confirm, ~app.bar, ~app.error, v.at \in Forms, Stands(v),
           backs' = 0, saved' = saved
    PROVE  WayInv'
<1>1. Overlays(a, "draw")
  BY DEF WayInv, Overlays, Shows, Views, Idle
<1>2. PlanFrom(<<>>, a) /\ SavedInv' /\ a.confirm \in BOOLEAN
  BY PlanNone DEF PlanFrom, WayInv, SavedInv, Shows, IsApp
<1> QED
  BY <1>1, <1>2, HandleWay DEF Shows

LEMMA BeginWay ==
    ASSUME SessionInv, WayInv, Begin
    PROVE  WayInv'
<1>1. /\ ~app.confirm /\ ~app.error /\ backs' = 0 /\ saved' = saved /\ Kin(Pressed, app)
      /\ Stands(app.view)
  BY KinSelf DEF Begin, Ready, WayInv
<1>2. PICK v :
        /\ Handle([Pressed EXCEPT !.view = v], EmptyForm, <<>>)
        /\ \/ v = At("createThread", 0, 0) /\ InList
           \/ v = At("createNode", app.view.t, 0) /\ (InThread \/ InNode)
           \/ v = [At("createLink", app.view.t, SelectedNode(app)) EXCEPT !.from = "thread"] /\ InThread
           \/ v = [At("createLink", app.view.t, app.view.n) EXCEPT !.from = "node"] /\ InNode
  BY DEF Begin
<1>3. ~app.bar
  BY <1>2 DEF InList, InThread, InNode, WayInv, Overlays
<1>4. IsView(v) /\ v.at \in Forms /\ Stands(v)
  <2>1. CASE v = At("createThread", 0, 0)
    BY <2>1, AtIs DEF Stands, Forms
  <2>2. CASE v = At("createNode", app.view.t, 0) /\ (InThread \/ InNode)
    BY <1>1, <2>2, AtIs DEF Stands, Forms, InThread, InNode
  <2>3. CASE v = [At("createLink", app.view.t, SelectedNode(app)) EXCEPT !.from = "thread"] /\ InThread
    <3>1. PICK w : w = At("createLink", app.view.t, SelectedNode(app))
      OBVIOUS
    <3>2. IsView(w) /\ w.at = "createLink" /\ w.t = app.view.t
      BY <3>1, AtIs
    <3>3. IsView(v) /\ v.at = "createLink" /\ v.t = app.view.t /\ v.from = "thread"
      BY <2>3, <3>1, <3>2 DEF IsView
    <3> QED
      BY <1>1, <2>3, <3>3 DEF Stands, Forms, InThread
  <2>4. CASE v = [At("createLink", app.view.t, app.view.n) EXCEPT !.from = "node"] /\ InNode
    <3>1. PICK w : w = At("createLink", app.view.t, app.view.n)
      OBVIOUS
    <3>2. IsView(w) /\ w.at = "createLink" /\ w.t = app.view.t /\ w.n = app.view.n
      BY <3>1, AtIs
    <3>3. IsView(v) /\ v.at = "createLink" /\ v.t = app.view.t /\ v.n = app.view.n
      BY <2>4, <3>1, <3>2 DEF IsView
    <3> QED
      BY <1>1, <2>4, <3>3 DEF Stands, Forms, InNode
  <2> QED
    BY <1>2, <2>1, <2>2, <2>3, <2>4
<1>5. PICK a : a = [Pressed EXCEPT !.view = v]
  OBVIOUS
<1>6. Shows(a, app, v)
  BY <1>1, <1>4, <1>5, MovedFields
<1>7. Handle(a, EmptyForm, <<>>)
  BY <1>2, <1>5
<1> QED
  BY <1>1, <1>3, <1>4, <1>6, <1>7, OpenFormWay

LEMMA EditBodyWay ==
    ASSUME SessionInv, WayInv, EditBody
    PROVE  WayInv'
<1>1. /\ ~app.confirm /\ ~app.error /\ backs' = 0 /\ saved' = saved /\ Kin(app, app)
      /\ Stands(app.view) /\ IsView(app.view)
      /\ app.view.at \in {"createThread", "createNode", "createLink"}
  BY KinSelf DEF EditBody, Ready, InForm, Calm, WayInv, SessionInv, IsApp
<1>2. ~app.bar
  BY <1>1 DEF WayInv, Overlays
<1> DEFINE at == IF app.view.at = "createThread" THEN "editThreadBody" ELSE "editNodeBody"
<1>3. PICK v : v = [app.view EXCEPT !.at = at]
  OBVIOUS
<1>4. PICK a : a = [app EXCEPT !.view = v]
  OBVIOUS
<1>5. Handle(a, form, <<>>)
  BY <1>3, <1>4 DEF EditBody
<1>6. IsView(v) /\ v.at = at /\ v.t = app.view.t
  BY <1>1, <1>3 DEF IsView
<1>7. v.at \in Forms /\ Stands(v)
  BY <1>1, <1>6 DEF Stands, Forms
<1>8. Shows(a, app, v)
  BY <1>1, <1>4, <1>6, MovedFields
<1> QED
  BY <1>1, <1>2, <1>5, <1>7, <1>8, OpenFormWay

(* A press of "back" brings the list a press nearer: the view that it      *)
(* shows, or the view that it is about to open.                            *)
LEMMA BackCounts ==
    ASSUME SessionInv, WayInv, MaxBacks >= 5, loop = "poll", CountBack
    PROVE  /\ Presses(app) \in 0 .. Farthest /\ backs \in Nat /\ backs' \in Nat
           /\ Presses(app) # 0 => backs' = backs + 1 /\ Presses(app) + backs' <= Farthest + 1
<1>1. Presses(app) \in 0 .. Farthest
  BY PressesBound DEF WayInv, SessionInv, IsApp
<1>2. backs \in Nat /\ (Presses(app) = 0 \/ Presses(app) + backs <= Farthest)
  BY DEF WayInv, Nearer
<1>3. MaxBacks \in Nat
  BY TuiAssumption
<1> QED
  BY <1>1, <1>2, <1>3 DEF CountBack, Farthest

LEMMA BackShows ==
    ASSUME SessionInv, WayInv, MaxBacks >= 5, loop = "poll", CountBack,
           NEW a, NEW f, Handle(a, f, <<>>), a.confirm \in BOOLEAN,
           a.rows = app.rows, a.cache = app.cache,
           Overlays(a, "draw"), Stands(a.view), SavedInv',
           Presses(a) = 0 \/ Presses(a) + 1 = Presses(app)
    PROVE  WayInv'
<1>1. PlanFrom(<<>>, a)
  BY PlanNone DEF PlanFrom
<1>2. Presses(a) \in 0 .. Farthest
  BY PressesBound
<1>3. Nearer(a, "draw", <<>>, backs')
  BY <1>2, BackCounts DEF Nearer, Farthest
<1> QED
  BY <1>1, <1>3, HandleWay

LEMMA BackOpens ==
    ASSUME SessionInv, WayInv, MaxBacks >= 5, loop = "poll", CountBack,
           NEW a, NEW f, NEW plan, Handle(a, f, plan),
           a.view = app.view, a.rows = app.rows, a.cache = app.cache,
           a.confirm = FALSE, ~app.bar, a.bar = app.bar, ~a.error, a.error \in BOOLEAN,
           saved' = saved, NEW t, NEW n,
           \/ plan = OpenThread(t, n) /\ Has(t) /\ Presses(app) >= 2
           \/ plan = OpenNode(t, n) /\ HasNode(t, n) /\ Presses(app) >= 3
    PROVE  WayInv'
<1>1. plan # <<>>
  BY OpenThreadTail
<1>2. Overlays(a, "event")
  BY DEF WayInv, Overlays, Idle
<1>3. Stands(a.view) /\ SavedInv'
  BY DEF WayInv, SavedInv
<1>4. t \in Threads
  BY DEF Has, HasNode
<1>5. PlanFrom(plan, a)
  BY <1>4, PlansOpen DEF PlanFrom
<1>6. /\ backs \in Nat /\ backs' = backs + 1 /\ Presses(app) + backs' <= Farthest + 1
      /\ Presses(app) \in 0 .. Farthest
  BY BackCounts DEF Farthest
<1>7. OnTheWay(plan, backs')
  <2>1. CASE plan = OpenThread(t, n) /\ Has(t) /\ Presses(app) >= 2
    <3>1. 1 + backs' <= Farthest
      BY <1>6, <2>1 DEF Farthest
    <3> QED
      BY <2>1, <3>1 DEF OnTheWay
  <2>2. CASE plan = OpenNode(t, n) /\ HasNode(t, n) /\ Presses(app) >= 3
    <3>1. 2 + backs' <= Farthest
      BY <1>6, <2>2 DEF Farthest
    <3> QED
      BY <2>2, <3>1 DEF OnTheWay
  <2> QED
    BY <2>1, <2>2
<1>8. Nearer(a, "event", plan, backs')
  BY <1>6, <1>7 DEF Nearer
<1> QED
  BY <1>1, <1>2, <1>3, <1>5, <1>8, HandleWay

LEMMA BackToThread ==
    ASSUME SessionInv, WayInv, MaxBacks >= 5, loop = "poll", CountBack,
           NEW a, NEW f, NEW t, NEW n, Handle(a, f, OpenThread(t, n)),
           a.view = app.view, a.rows = app.rows, a.cache = app.cache, a.bar = app.bar,
           a.confirm = FALSE, a.error = FALSE, ~app.bar, saved' = saved,
           Has(t), Presses(app) >= 2
    PROVE  WayInv'
<1>1. PICK plan : plan = OpenThread(t, n)
  OBVIOUS
<1>2. Handle(a, f, plan) /\ ~a.error /\ a.error \in BOOLEAN
  BY <1>1
<1> QED
  BY <1>1, <1>2, BackOpens

LEMMA BackToNode ==
    ASSUME SessionInv, WayInv, MaxBacks >= 5, loop = "poll", CountBack,
           NEW a, NEW f, NEW t, NEW n, Handle(a, f, OpenNode(t, n)),
           a.view = app.view, a.rows = app.rows, a.cache = app.cache, a.bar = app.bar,
           a.confirm = FALSE, a.error = FALSE, ~app.bar, saved' = saved,
           HasNode(t, n), Presses(app) >= 3
    PROVE  WayInv'
<1>1. PICK plan : plan = OpenNode(t, n)
  OBVIOUS
<1>2. Handle(a, f, plan) /\ ~a.error /\ a.error \in BOOLEAN
  BY <1>1
<1> QED
  BY <1>1, <1>2, BackOpens

(* From the list, its bar and the detail views.                            *)
LEMMA LevelsAre ==
    /\ \A v : v.at = "list" => Level(v) = 0
    /\ \A v : v.at = "thread" => Level(v) = 1
    /\ \A v : v.at \in {"node", "createThread"} => Level(v) = 2
    /\ \A v : v.at \in {"createNode", "editThreadBody"} => Level(v) = 3
    /\ \A v : v.at = "editNodeBody" => Level(v) = 4
    /\ \A v : v.at = "createLink" => Level(v) = IF v.from = "node" THEN 4 ELSE 3
  BY DEF Level

LEMMA EscWay ==
    ASSUME SessionInv, WayInv, MaxBacks >= 5, EscKey
    PROVE  WayInv'
<1>1. /\ loop = "poll" /\ app.confirm = FALSE /\ app.error = FALSE /\ CountBack
      /\ Kin(app, app) /\ Kin(Pressed, app) /\ IsApp(app) /\ IsView(app.view)
      /\ Overlays(app, "poll") /\ Stands(app.view) /\ SavedInv
  BY KinSelf DEF EscKey, Key, Ready, WayInv, Overlays, SessionInv, IsApp
<1>2. app.bar => app.view.at = "list"
  BY <1>1 DEF Overlays
<1>3. /\ app.bar = FALSE => Presses(app) = Level(app.view)
      /\ app.bar = TRUE => Presses(app) = Level(app.view) + 1
      /\ app.bar \in BOOLEAN /\ app.view.at \in Views
  <2>1. Level(app.view) \in 0 .. 4
    BY <1>1, LevelBound DEF Overlays
  <2> QED
    BY <1>1, <2>1 DEF Presses, Overlays
<1>4. CASE InList /\ Handle(Pressed, form, <<>>) /\ UNCHANGED saved
  <2>1. PICK a : a = Pressed
    OBVIOUS
  <2>2. Kin(a, app) /\ Handle(a, form, <<>>)
    BY <1>1, <1>4, <2>1
  <2>3. Overlays(a, "draw") /\ Stands(a.view) /\ SavedInv'
    BY <1>1, <1>4, <2>2 DEF Kin, Overlays, Idle, SavedInv
  <2>4. a.view.at = "list" /\ a.bar = FALSE /\ a.error = FALSE /\ a.confirm = FALSE
    BY <1>1, <1>3, <1>4, <2>2 DEF Kin, InList
  <2>5. Presses(a) = 0
    BY <2>4, LevelsAre DEF Presses
  <2>6. a.rows = app.rows /\ a.cache = app.cache
    BY <2>2 DEF Kin
  <2> QED
    BY <1>1, <2>2, <2>3, <2>4, <2>5, <2>6, BackShows
<1>5. CASE InBar /\ Handle([Pressed EXCEPT !.bar = FALSE, !.draft = {}], form, <<>>) /\ UNCHANGED saved
  <2>1. PICK a : a = [Pressed EXCEPT !.bar = FALSE, !.draft = {}]
    OBVIOUS
  <2>2. Barred(a, app, FALSE)
    BY <1>1, <2>1, BarFields
  <2>3. Handle(a, form, <<>>)
    BY <1>5, <2>1
  <2>4. /\ a.view = app.view /\ a.view.at = "list" /\ a.bar = FALSE /\ a.error = FALSE
        /\ a.confirm = FALSE /\ a.rows = app.rows /\ a.cache = app.cache
    BY <1>1, <1>5, <2>2 DEF Barred, InBar
  <2>5. Presses(a) = 0
    BY <2>4, LevelsAre DEF Presses
  <2>6. Overlays(a, "draw") /\ Stands(a.view) /\ SavedInv'
    BY <1>1, <1>5, <2>4 DEF Overlays, SavedInv, Views
  <2> QED
    BY <1>1, <2>3, <2>4, <2>5, <2>6, BackShows
<1>6. CASE /\ InThread
           /\ Handle([Pressed EXCEPT !.view = ListView, !.shown = 0, !.pane = 0], form, <<>>)
           /\ saved' = FromApp
  <2>1. PICK a : a = [Pressed EXCEPT !.view = ListView, !.shown = 0, !.pane = 0]
    OBVIOUS
  <2>2. Shows(a, app, ListView)
    BY <1>1, <2>1, ListIsView, MovedFields
  <2>3. Handle(a, form, <<>>)
    BY <1>6, <2>1
  <2>4. /\ a.view.at = "list" /\ a.bar = FALSE /\ a.error = FALSE
        /\ a.confirm = FALSE /\ a.rows = app.rows /\ a.cache = app.cache
    BY <1>1, <1>2, <1>3, <1>6, <2>2, ListIsView DEF Shows, InThread
  <2>5. Presses(a) = 0
    BY <2>4, LevelsAre DEF Presses
  <2>6. Overlays(a, "draw") /\ Stands(a.view)
    BY <2>4 DEF Overlays, Stands, Views
  <2>7. SavedInv'
    <3>1. saved'.view = app.view /\ app.view.t \in Threads
      BY <1>1, <1>6 DEF FromApp, InThread, Stands, Has
    <3> QED
      BY <3>1 DEF SavedInv
  <2> QED
    BY <1>1, <2>3, <2>4, <2>5, <2>6, <2>7, BackShows
<1>7. CASE InNode /\ Handle(Pressed, form, OpenThread(app.view.t, app.view.n)) /\ UNCHANGED saved
  <2>1. PICK a : a = Pressed
    OBVIOUS
  <2>2. Kin(a, app) /\ Handle(a, form, OpenThread(app.view.t, app.view.n))
    BY <1>1, <1>7, <2>1
  <2>3. Presses(app) = 2 /\ Has(app.view.t) /\ ~app.bar
    BY <1>1, <1>2, <1>3, <1>7, LevelsAre DEF InNode, Stands
  <2>5. Presses(app) >= 2
    BY <2>3
  <2>4. /\ a.view = app.view /\ a.rows = app.rows /\ a.cache = app.cache /\ a.bar = app.bar
        /\ a.error = FALSE /\ a.confirm = FALSE
    BY <1>1, <2>2 DEF Kin
  <2> QED
    BY <1>1, <1>7, <2>2, <2>3, <2>4, <2>5, BackToThread
<1>8. CASE /\ InEditor
           /\ LET at == IF app.view.at = "editThreadBody" THEN "createThread" ELSE "createNode" IN
              Handle([app EXCEPT !.view = [@ EXCEPT !.at = at]],
                     [form EXCEPT !.field = FieldNo(at, "body")], <<>>)
           /\ UNCHANGED saved
  <2> DEFINE at == IF app.view.at = "editThreadBody" THEN "createThread" ELSE "createNode"
  <2>1. PICK v : v = [app.view EXCEPT !.at = at]
    OBVIOUS
  <2>2. PICK a : a = [app EXCEPT !.view = v]
    OBVIOUS
  <2>3. PICK f : Handle(a, f, <<>>)
    BY <1>8, <2>1, <2>2
  <2>4. IsView(v) /\ v.at = at /\ v.t = app.view.t
    BY <1>1, <2>1 DEF IsView
  <2>5. Shows(a, app, v)
    BY <1>1, <2>2, <2>4, MovedFields
  <2>6. /\ a.view = v /\ a.bar = FALSE /\ a.error = FALSE
        /\ a.confirm = FALSE /\ a.rows = app.rows /\ a.cache = app.cache
    BY <1>1, <1>2, <1>3, <1>8, <2>5 DEF Shows, InEditor
  <2>7. Level(v) + 1 = Level(app.view)
    BY <1>8, <2>4, LevelsAre DEF InEditor
  <2>8. Presses(a) + 1 = Presses(app)
    <3>1. Level(v) \in Nat
      BY <2>4, LevelsAre
    <3> QED
      BY <1>2, <1>3, <1>8, <2>6, <2>7, <3>1 DEF Presses, InEditor
  <2>9. Overlays(a, "draw") /\ Stands(a.view) /\ SavedInv'
    BY <1>1, <1>8, <2>4, <2>6 DEF Overlays, Stands, SavedInv, Views, Forms, InEditor
  <2> QED
    BY <1>1, <2>3, <2>6, <2>8, <2>9, BackShows
<1>9. CASE InForm /\ HasUnsaved /\ Handle([app EXCEPT !.confirm = TRUE], form, <<>>) /\ UNCHANGED saved
  <2>1. PICK a : a = [app EXCEPT !.confirm = TRUE]
    OBVIOUS
  <2>2. Handle(a, form, <<>>)
    BY <1>9, <2>1
  <2>3. /\ a.view = app.view /\ a.bar = app.bar /\ a.error = FALSE /\ a.confirm = TRUE
        /\ a.rows = app.rows /\ a.cache = app.cache
    BY <1>1, <2>1, OverlayFields
  <2>4. Level(app.view) \in Nat
    BY <1>9, LevelsAre DEF InForm
  <2>5. Presses(a) + 1 = Presses(app)
    BY <1>2, <1>3, <1>9, <2>3, <2>4 DEF Presses, InForm
  <2>6. Overlays(a, "draw") /\ Stands(a.view) /\ SavedInv'
    BY <1>1, <1>9, <2>3 DEF Overlays, SavedInv, InForm, Idle
  <2> QED
    BY <1>1, <2>2, <2>3, <2>5, <2>6, BackShows
<1>10. CASE InForm /\ ~HasUnsaved /\ Leave(app) /\ UNCHANGED saved
  <2>1. ~app.bar /\ Presses(app) = Level(app.view) /\ app.bar = FALSE
    BY <1>2, <1>3, <1>10 DEF InForm
  <2>2. CASE app.view.at = "createThread"
    <3>1. PICK a : a = [app EXCEPT !.view = ListView]
      OBVIOUS
    <3>2. Handle(a, form, <<>>)
      BY <1>10, <2>2, <3>1 DEF Leave
    <3>3. Shows(a, app, ListView)
      BY <1>1, <3>1, ListIsView, MovedFields
    <3>4. /\ a.view.at = "list" /\ a.bar = FALSE /\ a.error = FALSE
          /\ a.confirm = FALSE /\ a.rows = app.rows /\ a.cache = app.cache
      BY <1>1, <2>1, <3>3, ListIsView DEF Shows
    <3>5. Presses(a) = 0
      BY <3>4, LevelsAre DEF Presses
    <3>6. Overlays(a, "draw") /\ Stands(a.view) /\ SavedInv'
      BY <1>1, <1>10, <3>4 DEF Overlays, Stands, SavedInv, Views
    <3> QED
      BY <1>1, <3>2, <3>4, <3>5, <3>6, BackShows
  <2>3. CASE app.view.at = "createNode"
    <3>1. Handle(app, form, OpenThread(app.view.t, 0))
      BY <1>10, <2>3 DEF Leave
    <3>2. Presses(app) = 3 /\ Has(app.view.t)
      BY <1>1, <2>1, <2>3, LevelsAre DEF Stands
    <3>3. Presses(app) >= 2
      BY <3>2
    <3> QED
      BY <1>1, <1>10, <2>1, <3>1, <3>2, <3>3, BackToThread
  <2>4. CASE app.view.at = "createLink"
    <3>1. Handle(app, form, ReturnFromLink(app.view))
      BY <1>10, <2>4 DEF Leave
    <3>2. /\ Presses(app) = (IF app.view.from = "node" THEN 4 ELSE 3)
          /\ Has(app.view.t) /\ (app.view.from = "node" => HasNode(app.view.t, app.view.n))
      BY <1>1, <2>1, <2>4, LevelsAre DEF Stands
    <3>3. \/ ReturnFromLink(app.view) = OpenNode(app.view.t, app.view.n) /\ app.view.from = "node"
          \/ ReturnFromLink(app.view) = OpenThread(app.view.t, app.view.n) /\ app.view.from # "node"
      BY DEF ReturnFromLink
    <3>4. CASE app.view.from = "node"
      <4>1. Presses(app) >= 3 /\ HasNode(app.view.t, app.view.n)
        BY <3>2, <3>4
      <4>2. Handle(app, form, OpenNode(app.view.t, app.view.n))
        BY <3>1, <3>3, <3>4
      <4> QED
        BY <1>1, <1>10, <2>1, <4>1, <4>2, BackToNode
    <3>5. CASE app.view.from # "node"
      <4>1. Presses(app) >= 2
        BY <3>2, <3>5
      <4>2. Handle(app, form, OpenThread(app.view.t, app.view.n))
        BY <3>1, <3>3, <3>5
      <4> QED
        BY <1>1, <1>10, <2>1, <3>2, <4>1, <4>2, BackToThread
    <3> QED
      BY <3>4, <3>5
  <2> QED
    BY <1>10, <2>2, <2>3, <2>4 DEF InForm
<1> QED
  BY <1>4, <1>5, <1>6, <1>7, <1>8, <1>9, <1>10 DEF EscKey

LEMMA ClickBackWay ==
    ASSUME SessionInv, WayInv, MaxBacks >= 5, ClickBack
    PROVE  WayInv'
<1>1. /\ loop = "poll" /\ app.confirm = FALSE /\ app.error = FALSE /\ CountBack
      /\ Overlays(app, "poll") /\ Stands(app.view) /\ saved' = saved
      /\ app.view.at = "node" /\ Handle(app, form, OpenThread(app.view.t, SelectedNode(app)))
  BY DEF ClickBack, Click, Ready, WayInv, Overlays, SessionInv, IsApp, InNode
<1>2. ~app.bar /\ Has(app.view.t) /\ Level(app.view) = 2
  BY <1>1, LevelsAre DEF Overlays, Stands
<1>3. Presses(app) >= 2
  BY <1>1, <1>2 DEF Presses
<1> QED
  BY <1>1, <1>2, <1>3, BackToThread

LEMMA DiscardWay ==
    ASSUME SessionInv, WayInv, MaxBacks >= 5, Discard
    PROVE  WayInv'
<1>1. /\ loop = "poll" /\ app.confirm /\ CountBack /\ IsApp(app) /\ saved' = saved /\ SavedInv'
      /\ Overlays(app, "poll") /\ Stands(app.view)
  BY DEF Discard, WayInv, SessionInv, SavedInv
<1>2. /\ app.view.at \in {"createThread", "createNode", "createLink"} /\ app.error = FALSE
      /\ app.bar = FALSE
  BY <1>1 DEF Overlays
<1>3. Presses(app) = Level(app.view) - 1
  BY <1>1 DEF Presses
<1>4. PICK b : b = [app EXCEPT !.confirm = FALSE]
  OBVIOUS
<1>5. /\ b.view = app.view /\ b.bar = app.bar /\ b.error = FALSE /\ b.confirm = FALSE
      /\ b.rows = app.rows /\ b.cache = app.cache
  BY <1>1, <1>2, <1>4, OverlayFields
<1>6. IsApp(b) /\ Kin(b, b)
  BY <1>1, <1>4 DEF IsApp, Kin
<1>7. CASE app.view.at = "createThread"
  <2>1. PICK f : Handle([b EXCEPT !.view = ListView], f, <<>>)
    BY <1>4, <1>7 DEF Discard
  <2>2. PICK a : a = [b EXCEPT !.view = ListView]
    OBVIOUS
  <2>3. Handle(a, f, <<>>)
    BY <2>1, <2>2
  <2>4. Shows(a, b, ListView)
    BY <1>6, <2>2, ListIsView, MovedFields
  <2>5. /\ a.view.at = "list" /\ a.bar = FALSE /\ a.error = FALSE
        /\ a.confirm = FALSE /\ a.rows = app.rows /\ a.cache = app.cache
    BY <1>2, <1>5, <2>4, ListIsView DEF Shows
  <2>6. Presses(a) = 0
    BY <2>5, LevelsAre DEF Presses
  <2>7. Overlays(a, "draw") /\ Stands(a.view)
    BY <2>5 DEF Overlays, Stands, Views
  <2> QED
    BY <1>1, <2>3, <2>5, <2>6, <2>7, BackShows
<1>8. CASE app.view.at = "createNode"
  <2>1. PICK f : Handle(b, f, OpenThread(app.view.t, 0))
    BY <1>4, <1>8 DEF Discard
  <2>2. Has(app.view.t) /\ Presses(app) = 2
    BY <1>1, <1>3, <1>8, LevelsAre DEF Stands
  <2>3. Presses(app) >= 2
    BY <2>2
  <2> QED
    BY <1>1, <1>2, <1>5, <2>1, <2>2, <2>3, BackToThread
<1>9. CASE app.view.at = "createLink"
  <2>1. PICK f : Handle(b, f, ReturnFromLink(app.view))
    BY <1>4, <1>9 DEF Discard
  <2>2. /\ Presses(app) = (IF app.view.from = "node" THEN 3 ELSE 2)
        /\ Has(app.view.t) /\ (app.view.from = "node" => HasNode(app.view.t, app.view.n))
    BY <1>1, <1>3, <1>9, LevelsAre DEF Stands
  <2>3. \/ ReturnFromLink(app.view) = OpenNode(app.view.t, app.view.n) /\ app.view.from = "node"
        \/ ReturnFromLink(app.view) = OpenThread(app.view.t, app.view.n) /\ app.view.from # "node"
    BY DEF ReturnFromLink
  <2>4. CASE app.view.from = "node"
    <3>1. Presses(app) >= 3 /\ HasNode(app.view.t, app.view.n)
      BY <2>2, <2>4
    <3>2. Handle(b, f, OpenNode(app.view.t, app.view.n))
      BY <2>1, <2>3, <2>4
    <3> QED
      BY <1>1, <1>2, <1>5, <3>1, <3>2, BackToNode
  <2>5. CASE app.view.from # "node"
    <3>1. Presses(app) >= 2
      BY <2>2, <2>5
    <3>2. Handle(b, f, OpenThread(app.view.t, app.view.n))
      BY <2>1, <2>3, <2>5
    <3> QED
      BY <1>1, <1>2, <1>5, <2>2, <3>1, <3>2, BackToThread
  <2> QED
    BY <2>4, <2>5
<1> QED
  BY <1>2, <1>7, <1>8, <1>9

LEMMA OverlayKeysWay ==
    ASSUME SessionInv, WayInv, MaxBacks >= 5, KeepForm \/ DismissError
    PROVE  WayInv'
<1>1. /\ loop = "poll" /\ IsApp(app) /\ saved' = saved /\ SavedInv' /\ Overlays(app, "poll")
      /\ Stands(app.view)
  BY DEF KeepForm, DismissError, Handle, Calm, WayInv, SessionInv, SavedInv
<1>2. CASE KeepForm
  <2>1. PICK a : a = [app EXCEPT !.confirm = FALSE]
    OBVIOUS
  <2>2. /\ a.view = app.view /\ a.bar = app.bar /\ a.error = app.error /\ a.confirm = FALSE
        /\ a.rows = app.rows /\ a.cache = app.cache
    BY <1>1, <2>1, OverlayFields
  <2>3. Handle(a, form, <<>>) /\ backs' = 0
    BY <1>2, <2>1 DEF KeepForm, Calm
  <2>4. Overlays(a, "draw")
    BY <1>1, <2>2 DEF Overlays, Idle
  <2>5. PlanFrom(<<>>, a)
    BY PlanNone DEF PlanFrom
  <2> QED
    BY <1>1, <2>2, <2>3, <2>4, <2>5, HandleWay
<1>3. CASE DismissError
  <2>1. PICK a : a = [app EXCEPT !.error = FALSE]
    OBVIOUS
  <2>2. /\ a.view = app.view /\ a.bar = app.bar /\ a.error = FALSE /\ a.confirm = app.confirm
        /\ a.rows = app.rows /\ a.cache = app.cache
    BY <1>1, <2>1, OverlayFields
  <2>3. Handle(a, form, <<>>) /\ CountBack /\ app.confirm = FALSE /\ app.error
    BY <1>1, <1>3, <2>1 DEF DismissError, IsApp
  <2>4. Overlays(a, "draw") /\ Level(app.view) \in 0 .. 4
    BY <1>1, <2>2, LevelBound DEF Overlays, Idle
  <2>5. Presses(a) + 1 = Presses(app)
    BY <2>2, <2>3, <2>4 DEF Presses
  <2> QED
    BY <1>1, <2>2, <2>3, <2>4, <2>5, BackShows
<1> QED
  BY <1>2, <1>3

(* A step of the loop that keeps the view and what is in memory.           *)
LEMMA IdleWay ==
    ASSUME WayInv, UNCHANGED <<repo, work, backs>>, Kin(app', app),
           loop \in Idle, loop' \in Idle, SavedInv', Plan(todo') \/ todo' = todo
    PROVE  WayInv'
<1>1. UNCHANGED <<commits, auth, pub, work, backs>>
  BY DEF repo
<1>2. DocsInv' /\ RefNamesInv'
  BY <1>1 DEF WayInv, DocsInv, IsDoc, RefNamesInv, Names
<1>3. ListNamesInv'
  BY <1>1 DEF WayInv, ListNamesInv, Names, IsWork, Kin
<1>4. Stands(app.view)'
  BY <1>1 DEF WayInv, Stands, Has, HasNode, Source, Kin
<1>5. Overlays(app, loop)'
  BY DEF WayInv, Overlays, Kin
<1>6. PlanFrom(todo, app)'
  BY DEF WayInv, PlanFrom, Plan, AboutThreads, Kin
<1>7. Nearer(app, loop, todo, backs)'
  <2>1. Presses(app)' = Presses(app)
    BY DEF Presses, Kin
  <2>2. loop # "event" /\ loop' # "event" /\ loop' \notin {"start", "restore"}
    BY DEF Idle
  <2> QED
    BY <1>1, <2>1, <2>2 DEF WayInv, Nearer
<1> QED
  BY <1>2, <1>3, <1>4, <1>5, <1>6, <1>7 DEF WayInv

LEMMA QuitWay ==
    ASSUME SessionInv, WayInv, Quit
    PROVE  WayInv'
<1>1. loop = "poll" /\ loop' = "off" /\ UNCHANGED <<repo, work, backs, app, todo>>
  BY DEF Quit, Key, Ready
<1>2. SavedInv'
  <2>1. saved' = FromApp
    BY DEF Quit
  <2>2. CASE app.view.at \in {"thread", "node"}
    <3>1. saved'.view = app.view /\ app.view.t \in Threads
      BY <2>1, <2>2 DEF FromApp, WayInv, Stands, Has
    <3> QED
      BY <3>1 DEF SavedInv
  <2>3. CASE app.view.at \notin {"thread", "node"}
    <3>1. saved'.view = ListView
      BY <2>1, <2>3 DEF FromApp
    <3> QED
      BY <3>1, ListIsView DEF SavedInv
  <2> QED
    BY <2>2, <2>3
<1>3. Kin(app', app)
  BY <1>1, KinSelf
<1>4. loop \in Idle /\ loop' \in Idle
  BY <1>1 DEF Idle
<1> QED
  BY <1>1, <1>2, <1>3, <1>4, IdleWay

LEMMA UserWay ==
    ASSUME SessionInv, WayInv, MaxBacks >= 5, User
    PROVE  WayInv'
  BY ListKeysWay, BarKeysWay, DetailKeysWay, BeginWay, FormKeysWay, EditBodyWay, EscWay,
     ClickBackWay, DiscardWay, OverlayKeysWay, QuitWay DEF User

(* A frame, a refresh that is due or not.                                  *)
LEMMA LoopWay ==
    ASSUME SessionInv, WayInv, Draw \/ TickNotDue \/ Tick \/ NothingTyped
    PROVE  WayInv'
<1>1. loop \in Idle /\ loop' \in Idle /\ UNCHANGED <<repo, work, backs, saved>>
  BY DEF Draw, TickNotDue, Tick, TickThread, TickNode, TickList, TickForm, NothingTyped, Idle
<1>2. SavedInv'
  BY <1>1 DEF WayInv, SavedInv
<1>3. Kin(app', app)
  <2>1. app' = app \/ \E x : app' = [app EXCEPT !.tip = x]
    BY DEF Draw, TickNotDue, Tick, TickThread, TickNode, TickList, TickForm, NothingTyped
  <2>2. CASE app' = app
    BY <2>2, KinSelf
  <2>3. CASE \E x : app' = [app EXCEPT !.tip = x]
    <3>1. PICK x : app' = [app EXCEPT !.tip = x]
      BY <2>3
    <3>2. Kin([app EXCEPT !.tip = x], app)
      BY KinSelf, KinField
    <3> QED
      BY <3>1, <3>2
  <2> QED
    BY <2>1, <2>2, <2>3
<1>4. Plan(todo') \/ todo' = todo
  <2>1. \/ todo' = todo
        \/ /\ app.view.at \in {"thread", "node"}
           /\ \E n : todo' = OpenThread(app.view.t, n) \/ todo' = OpenNode(app.view.t, n)
        \/ todo' = ReadTips \o <<Step("unlessSame", 0, 0)>> \o ReadList \o <<Step("showList", 0, 0)>>
    BY DEF Draw, TickNotDue, Tick, TickThread, TickNode, TickList, TickForm, NothingTyped
  <2>2. app.view.at \in {"thread", "node"} => app.view.t \in Threads
    BY DEF WayInv, Stands, Has
  <2> QED
    BY <2>1, <2>2, PlansOpen, PlansList
<1> QED
  BY <1>1, <1>2, <1>3, <1>4, IdleWay

(* A session starts at the list.                                           *)
LEMMA RunWay ==
    ASSUME SessionInv, WayInv, NEW t \in Threads \cup {0}, Run(t)
    PROVE  WayInv'
<1>1. /\ app' = NewApp([u \in Threads |-> NoRow]) /\ backs' = 0 /\ loop' = "start"
      /\ UNCHANGED <<commits, auth, pub, work, saved>>
      /\ todo' = ReadList \o <<Step("keepRows", 0, 0)>> \o ReadTips
                     \o <<Step("keepTips", 0, 0), Step("restore", t, 0)>>
  BY DEF Run, repo
<1>2. /\ app'.view = ListView /\ app'.rows = [u \in Threads |-> NoRow]
      /\ app'.cache = [u \in Threads |-> NoEntry]
      /\ app'.bar = FALSE /\ app'.error = FALSE /\ app'.confirm = FALSE
  BY <1>1 DEF NewApp
<1>3. DocsInv' /\ RefNamesInv' /\ SavedInv'
  BY <1>1 DEF WayInv, DocsInv, IsDoc, RefNamesInv, Names, SavedInv
<1>4. ListNamesInv'
  <2>1. \A u \in Threads : app'.rows[u].c = 0 /\ app'.cache[u].c = 0
    BY <1>2 DEF NoRow, NoEntry
  <2> QED
    BY <1>1, <2>1 DEF WayInv, ListNamesInv, Names, IsWork
<1>5. Stands(app.view)' /\ Overlays(app, loop)'
  BY <1>2, ListIsView DEF Stands, Overlays, Views
<1>6. PlanFrom(todo, app)'
  <2>1. Plan(<<Step("keepTips", 0, 0)>>) /\ Plan(<<Step("restore", t, 0)>>)
    BY PlanOne DEF ThreadDos
  <2>2. <<Step("keepTips", 0, 0), Step("restore", t, 0)>>
            = <<Step("keepTips", 0, 0)>> \o <<Step("restore", t, 0)>>
    OBVIOUS
  <2>3. Plan(<<Step("keepTips", 0, 0), Step("restore", t, 0)>>)
    BY <2>1, <2>2, PlanJoin
  <2>4. Plan(todo')
    BY <1>1, <2>3, PlansList, PlanJoin
  <2> QED
    BY <2>4 DEF PlanFrom, Plan, AboutThreads
<1>7. Nearer(app, loop, todo, backs)'
  <2>1. Presses(app)' = 0
    BY <1>2, ListIsView, LevelsAre DEF Presses
  <2> QED
    BY <1>1, <2>1 DEF Nearer
<1> QED
  BY <1>3, <1>4, <1>5, <1>6, <1>7 DEF WayInv

-----------------------------------------------------------------------------
(* Writes of anybody.                                                      *)

Kept ==
    /\ \A t : Has(t) => Has(t)'
    /\ \A t, n : HasNode(t, n) => HasNode(t, n)'

(* The mark of a node is changed.                                          *)
MarkedDoc(e, d, n, y) ==
    /\ IsDoc(e) /\ e.t = d.t /\ e.nodes[n] = y
    /\ \A m : m # n => e.nodes[m] = d.nodes[m]

LEMMA DocMarked ==
    ASSUME NEW d, IsDoc(d), NEW n \in Nodes, NEW y
    PROVE  MarkedDoc([d EXCEPT !.nodes[n] = y], d, n, y)
<1>1. PICK g : g = [d.nodes EXCEPT ![n] = y]
  OBVIOUS
<1>2. [d EXCEPT !.nodes[n] = y] = [d EXCEPT !.nodes = g]
  BY <1>1
<1>3. g = [m \in Nodes |-> g[m]] /\ g[n] = y /\ \A m : m # n => g[m] = d.nodes[m]
  BY <1>1 DEF IsDoc
<1>4. PICK e : e = [d EXCEPT !.nodes = g]
  OBVIOUS
<1>5. IsDoc(e) /\ e.t = d.t /\ e.nodes = g
  BY <1>3, <1>4 DEF IsDoc
<1> QED
  BY <1>2, <1>3, <1>4, <1>5 DEF MarkedDoc

LEMMA InstallKept ==
    ASSUME ShownInv, DocsInv, RefNamesInv, NEW t \in Threads, NEW d, Install(t, d),
           IsDoc(d), d.t = t
    PROVE  /\ Grown /\ DocsInv' /\ RefNamesInv'
           /\ \A u : Has(u) => Has(u)'
           /\ (\A n \in Nodes : HasNode(t, n) => d.nodes[n] # "none") => Kept
<1>1. PICK S : commits \in Seq(S)
  BY DEF ShownInv
<1>2. /\ commits' = Append(commits, d) /\ pub' = pub
      /\ auth' = [auth EXCEPT ![t] = Len(commits) + 1]
  BY DEF Install
<1>3. /\ Len(commits) \in Nat /\ DOMAIN commits = 1 .. Len(commits)
      /\ Len(commits') = Len(commits) + 1 /\ DOMAIN commits' = 1 .. Len(commits')
      /\ commits'[Len(commits) + 1] = d
      /\ \A c \in DOMAIN commits : c \in DOMAIN commits' /\ commits'[c] = commits[c]
  <2>1. commits \in Seq(S \cup {d})
    BY <1>1, SeqMonotonic
  <2>2. commits' \in Seq(S \cup {d})
    BY <1>2, <2>1
  <2> QED
    BY <1>2, <2>1, <2>2
<1>4. DOMAIN commits' = DOMAIN commits \cup {Len(commits) + 1}
  BY <1>3
<1>5. DocsInv'
  <2>1. \A c \in DOMAIN commits' : IsDoc(commits'[c])
    BY <1>3, <1>4 DEF DocsInv
  <2> QED
    BY <2>1 DEF DocsInv, IsDoc
<1>6. auth'[t] = Len(commits) + 1 /\ \A u \in Threads : u # t => auth'[u] = auth[u]
  BY <1>2 DEF RefNamesInv
<1> DEFINE Of(c, u) == c = 0 \/ (c \in DOMAIN commits' /\ commits'[c].t = u)
<1>7. \A c, u : Names(c, u) => Of(c, u)
  BY <1>3 DEF Names
<1>8. Of(auth'[t], t)
  BY <1>3, <1>4, <1>6
<1>9. RefNamesInv'
  <2>1. auth' = [u \in Threads |-> auth'[u]] /\ pub' = [u \in Threads |-> pub'[u]]
    BY <1>2 DEF RefNamesInv
  <2>2. \A u \in Threads : Of(auth'[u], u) /\ Of(pub'[u], u)
    <3> HIDE DEF Of
    <3> QED
      BY <1>2, <1>6, <1>7, <1>8 DEF RefNamesInv
  <2> QED
    BY <2>1, <2>2 DEF RefNamesInv, Names
<1>10. /\ Source(t)' = Len(commits) + 1 /\ Len(commits) + 1 # 0
       /\ \A u \in Threads : u # t => Source(u)' = Source(u)
  BY <1>2, <1>3, <1>6 DEF Source
<1>11. \A u : Has(u) => Has(u)'
  BY <1>10 DEF Has
<1>12. ASSUME \A n \in Nodes : HasNode(t, n) => d.nodes[n] # "none" PROVE Kept
  <2>1. \A u \in Threads : Source(u) # 0 => Source(u) \in DOMAIN commits
    BY DEF RefNamesInv, Names, Source
  <2>2. ASSUME NEW u, NEW n, HasNode(u, n) PROVE HasNode(u, n)'
    <3>1. CASE u = t
      BY <1>3, <1>10, <1>11, <1>12, <2>2, <3>1 DEF HasNode
    <3>2. CASE u # t
      BY <1>3, <1>10, <1>11, <2>1, <2>2, <3>2 DEF HasNode, Has
    <3> QED
      BY <3>1, <3>2
  <2> QED
    BY <1>11, <2>2 DEF Kept
<1> QED
  BY <1>2, <1>5, <1>9, <1>11, <1>12 DEF Grown

(* An edit of a document that the ref holds takes no node away.            *)
LEMMA EditKept ==
    ASSUME ShownInv, DocsInv, RefNamesInv, NEW t \in Threads, NEW d, Install(t, d),
           auth[t] # 0, IsDoc(d), d.t = commits[auth[t]].t,
           \A n \in Nodes : commits[auth[t]].nodes[n] # "none" => d.nodes[n] # "none"
    PROVE  Grown /\ DocsInv' /\ RefNamesInv' /\ Kept
<1>1. d.t = t
  BY DEF RefNamesInv, Names
<1>2. \A n \in Nodes : HasNode(t, n) => d.nodes[n] # "none"
  BY DEF HasNode, Source
<1> QED
  BY <1>1, <1>2, InstallKept

LEMMA DocumentIs ==
    ASSUME NEW t
    PROVE  IsDoc(Document(t, "open", NoNodes, {})) /\ Document(t, "open", NoNodes, {}).t = t
  BY DEF IsDoc, Document, NoNodes

LEMMA PublishKept ==
    ASSUME ShownInv, DocsInv, RefNamesInv, OtherPublishes
    PROVE  Grown /\ DocsInv' /\ RefNamesInv' /\ Kept
<1>1. PICK S : commits \in Seq(S)
  BY DEF ShownInv
<1>2. PICK t \in Threads :
          /\ commits' = Append(commits, IF Readable(Source(t)) THEN commits[Source(t)]
                                        ELSE Document(t, "open", NoNodes, {}))
          /\ pub' = [pub EXCEPT ![t] = Len(commits) + 1]
  BY DEF OtherPublishes
<1>3. auth' = auth
  BY DEF OtherPublishes
<1>4. PICK d : d = IF Readable(Source(t)) THEN commits[Source(t)] ELSE Document(t, "open", NoNodes, {})
  OBVIOUS
<1>5. /\ Len(commits) \in Nat /\ DOMAIN commits = 1 .. Len(commits)
      /\ Len(commits') = Len(commits) + 1 /\ DOMAIN commits' = 1 .. Len(commits')
      /\ commits'[Len(commits) + 1] = d
      /\ \A c \in DOMAIN commits : c \in DOMAIN commits' /\ commits'[c] = commits[c]
  <2>1. commits \in Seq(S \cup {d}) /\ commits' = Append(commits, d)
    BY <1>1, <1>2, <1>4, SeqMonotonic
  <2>2. commits' \in Seq(S \cup {d})
    BY <2>1
  <2> QED
    BY <2>1, <2>2
<1>6. \A u \in Threads : /\ Names(Source(u), u)
                         /\ Source(u) # 0 => Source(u) \in DOMAIN commits /\ Readable(Source(u))
  BY DEF RefNamesInv, Names, Source, DocsInv, IsDoc, Readable
<1>7. IsDoc(d) /\ d.t = t /\ (Source(t) # 0 => d = commits[Source(t)])
  <2>1. CASE Readable(Source(t))
    <3>1. Source(t) \in DOMAIN commits /\ Source(t) # 0
      BY <1>5, <2>1 DEF Readable
    <3> QED
      BY <1>4, <1>6, <2>1, <3>1 DEF Names, DocsInv
  <2>2. CASE ~Readable(Source(t))
    BY <1>4, <1>6, <2>2, DocumentIs
  <2> QED
    BY <2>1, <2>2
<1>8. DOMAIN commits' = DOMAIN commits \cup {Len(commits) + 1} /\ Len(commits) + 1 # 0
  BY <1>5
<1>9. DocsInv'
  <2>1. \A c \in DOMAIN commits' : IsDoc(commits'[c])
    BY <1>5, <1>7, <1>8 DEF DocsInv
  <2> QED
    BY <2>1 DEF DocsInv, IsDoc
<1>10. pub'[t] = Len(commits) + 1 /\ \A u \in Threads : u # t => pub'[u] = pub[u]
  BY <1>2 DEF RefNamesInv
<1> DEFINE Of(c, u) == c = 0 \/ (c \in DOMAIN commits' /\ commits'[c].t = u)
<1>11. RefNamesInv'
  <2>1. auth' = [u \in Threads |-> auth'[u]] /\ pub' = [u \in Threads |-> pub'[u]]
    BY <1>2, <1>3 DEF RefNamesInv
  <2>2. \A c, u : Names(c, u) => Of(c, u)
    BY <1>5 DEF Names
  <2>3. Of(pub'[t], t)
    BY <1>5, <1>7, <1>8, <1>10
  <2>4. \A u \in Threads : Of(auth'[u], u) /\ Of(pub'[u], u)
    <3> HIDE DEF Of
    <3> QED
      BY <1>3, <1>10, <2>2, <2>3 DEF RefNamesInv
  <2> QED
    BY <2>1, <2>4 DEF RefNamesInv, Names
<1>12. /\ \A u \in Threads : Source(u)' \in {Source(u), Len(commits) + 1}
       /\ Source(t)' # Source(t) => Source(t)' = Len(commits) + 1
       /\ \A u \in Threads : u # t => Source(u)' = Source(u)
  BY <1>3, <1>10 DEF Source
<1>13. \A u : Has(u) => Has(u)'
  BY <1>8, <1>12 DEF Has
<1>14. ASSUME NEW u, NEW n, HasNode(u, n) PROVE HasNode(u, n)'
  <2>1. u \in Threads /\ Source(u) # 0 /\ n \in Nodes /\ commits[Source(u)].nodes[n] # "none"
    BY <1>14 DEF HasNode, Has
  <2>2. Source(u) \in DOMAIN commits
    BY <1>6, <2>1
  <2>3. commits'[Source(u)'] = commits[Source(u)]
    BY <1>5, <1>7, <1>12, <2>1, <2>2
  <2> QED
    BY <1>13, <2>1, <2>3 DEF HasNode, Has
<1>15. Grown
  BY <1>2 DEF Grown
<1> QED
  BY <1>9, <1>11, <1>13, <1>14, <1>15 DEF Kept

LEMMA OthersKept ==
    ASSUME ShownInv, DocsInv, RefNamesInv, Others,
           Surroundings \cap {"delete", "diverge", "legacy", "withdraw"} = {}
    PROVE  Grown /\ DocsInv' /\ RefNamesInv' /\ Kept
<1>1. OtherEdits \/ OtherCreates \/ OtherPublishes
  BY DEF Others, OtherDeletes, OtherDiverges, OtherIsLegacy, OtherWithdraws, Elsewhere
<1>2. CASE OtherEdits
  <2>1. PICK t \in Threads : Writable(t) /\
             LET d == commits[auth[t]] IN
                 \/ \E x \in Statuses \ {d.status} : Install(t, [d EXCEPT !.status = x])
                 \/ \E n \in Unused(auth[t]) : Install(t, [d EXCEPT !.nodes[n] = "open"])
                 \/ \E m \in Nodes : Install(t, [d EXCEPT !.nodes[m] = "resolved"])
    BY <1>2 DEF OtherEdits
  <2>2. PICK d : d = commits[auth[t]]
    OBVIOUS
  <2>3. auth[t] # 0 /\ IsDoc(d)
    BY <2>1, <2>2 DEF Writable, Readable, DocsInv
  <2>4. \/ \E x : Install(t, [d EXCEPT !.status = x])
        \/ \E n \in Nodes : Install(t, [d EXCEPT !.nodes[n] = "open"])
        \/ \E m \in Nodes : Install(t, [d EXCEPT !.nodes[m] = "resolved"])
    BY <2>1, <2>2 DEF Unused
  <2>5. PICK e : /\ Install(t, e) /\ IsDoc(e) /\ e.t = d.t
                 /\ \A m \in Nodes : d.nodes[m] # "none" => e.nodes[m] # "none"
    <3>1. CASE \E x : Install(t, [d EXCEPT !.status = x])
      <4>1. PICK x, e : Install(t, e) /\ e = [d EXCEPT !.status = x]
        BY <3>1
      <4>2. IsDoc(e) /\ e.t = d.t /\ e.nodes = d.nodes
        BY <2>3, <4>1 DEF IsDoc
      <4> QED
        BY <4>1, <4>2
    <3>2. CASE \E n \in Nodes : \E y \in {"open", "resolved"} : Install(t, [d EXCEPT !.nodes[n] = y])
      <4>1. PICK n \in Nodes, y \in {"open", "resolved"} : Install(t, [d EXCEPT !.nodes[n] = y])
        BY <3>2
      <4>2. PICK e : Install(t, e) /\ e = [d EXCEPT !.nodes[n] = y]
        BY <4>1
      <4>3. MarkedDoc(e, d, n, y)
        BY <2>3, <4>2, DocMarked
      <4> QED
        BY <4>2, <4>3 DEF MarkedDoc
    <3> QED
      BY <2>4, <3>1, <3>2
  <2> QED
    BY <2>2, <2>3, <2>5, EditKept
<1>3. CASE OtherCreates
  <2>1. PICK t \in Threads \ UsedIds : Install(t, Document(t, "open", NoNodes, {}))
    BY <1>3 DEF OtherCreates
  <2>2. Source(t) = 0
    <3>1. PICK S : commits \in Seq(S)
      BY DEF ShownInv
    <3>2. DOMAIN commits = 1 .. Len(commits)
      BY <3>1
    <3> QED
      BY <2>1, <3>2 DEF UsedIds, RefNamesInv, Names, Source
  <2>3. \A n : ~HasNode(t, n)
    BY <2>2 DEF HasNode, Has
  <2> QED
    BY <2>1, <2>3, DocumentIs, InstallKept
<1> QED
  BY <1>1, <1>2, <1>3, PublishKept

(* Writes of others leave the session where it is.                         *)
LEMMA RepoWay ==
    ASSUME ShownInv, WayInv, Grown, DocsInv', RefNamesInv', Kept,
           UNCHANGED <<app, loop, todo, work, saved, backs>>
    PROVE  WayInv'
<1>1. \A c, u : Names(c, u) => (c = 0 \/ (c \in DOMAIN commits' /\ commits'[c].t = u))
  BY CommitsGrow DEF ShownInv, Names
<1>2. ListNamesInv'
  BY <1>1 DEF WayInv, ListNamesInv, Names, IsWork
<1>3. Stands(app.view)'
  BY DEF WayInv, Stands, Kept
<1>4. Overlays(app, loop)' /\ PlanFrom(todo, app)' /\ SavedInv'
  BY DEF WayInv, Overlays, PlanFrom, Plan, AboutThreads, SavedInv
<1>5. Nearer(app, loop, todo, backs)'
  BY DEF WayInv, Nearer, OnTheWay, Kept, Presses
<1> QED
  BY <1>2, <1>3, <1>4, <1>5 DEF WayInv

LEMMA OthersWay ==
    ASSUME SessionInv, WayInv, Others,
           Surroundings \cap {"delete", "diverge", "legacy", "withdraw"} = {}
    PROVE  WayInv'
<1>1. UNCHANGED <<app, loop, todo, work, saved, backs>>
  BY DEF Others, OtherEdits, OtherCreates, OtherDeletes, OtherDiverges, OtherIsLegacy,
         OtherPublishes, OtherWithdraws, Elsewhere
<1>2. Grown /\ DocsInv' /\ RefNamesInv' /\ Kept
  BY OthersKept DEF SessionInv, WayInv
<1> QED
  BY <1>1, <1>2, RepoWay DEF SessionInv

(* Presses that are counted while a handler runs are on their way, or were *)
(* before a refresh.                                                       *)
LEMMA OnTheWayHead ==
    ASSUME NEW p, NEW count, OnTheWay(p, count)
    PROVE  p # <<>> /\ Head(p).do \in {"openTip", "openRead", "openNode"}
<1>1. PICK t, n : \/ p = OpenThread(t, n)
                  \/ p = <<Step("openRead", t, n)>>
                  \/ p = OpenNode(t, n)
  BY DEF OnTheWay
<1>2. /\ Head(OpenThread(t, n)).do = "openTip" /\ OpenThread(t, n) # <<>>
      /\ Head(<<Step("openRead", t, n)>>).do = "openRead" /\ <<Step("openRead", t, n)>> # <<>>
      /\ Head(OpenNode(t, n)).do = "openNode" /\ OpenNode(t, n) # <<>>
  BY OpenThreadTail DEF Step
<1> QED
  BY <1>1, <1>2

LEMMA NotCounted ==
    ASSUME SessionInv, WayInv, todo # <<>>,
           \/ loop # "ticking" /\ Head(todo).do \notin {"openTip", "openRead", "openNode"}
           \/ Head(todo).do \notin ListDos \cup {"openTip", "openRead", "openNode"}
    PROVE  backs = 0
<1>1. loop \in {"start", "restore", "ticking", "event"}
  BY Busy
<1>2. loop # "ticking"
  BY RefreshHead
<1> QED
  BY <1>1, <1>2, OnTheWayHead DEF WayInv, Nearer

(* After a call of a handler the rest of it is still about threads.        *)
LEMMA PlanRest ==
    ASSUME NEW p, NEW a, PlanFrom(p, a), p # <<>>
    PROVE  Plan(Tail(p))
<1>1. CASE Plan(p)
  BY <1>1, PlanTail
<1>2. CASE ~Plan(p)
  <2>1. PICK step : p = <<step>>
    BY <1>2 DEF PlanFrom
  <2> QED
    BY <2>1, PlanNone
<1> QED
  BY <1>1, <1>2

LEMMA PlanHead ==
    ASSUME NEW p, NEW a, PlanFrom(p, a), p # <<>>
    PROVE  /\ Head(p).do \in ThreadDos => Head(p).t \in Threads
           /\ Head(p).do = "restore" => Head(p).t \in Threads \cup {0}
           /\ Head(p).do = "create" => Head(p).t \in Threads /\ a.view.at = "createThread"
           /\ Head(p).do = "link" => Head(p).t \in Threads /\ a.view.at = "createLink"
<1>1. CASE Plan(p)
  BY <1>1, PlanTail DEF AboutThreads
<1>2. CASE ~Plan(p)
  <2>1. PICK do, t, n :
            /\ t \in Threads /\ p = <<Step(do, t, n)>>
            /\ \/ do = "create" /\ a.view.at = "createThread"
               \/ do = "link" /\ a.view.at = "createLink"
    <3>1. CASE \E t \in Threads : \E n : p = <<Step("create", t, n)>> /\ a.view.at = "createThread"
      BY <3>1
    <3>2. CASE \E t \in Threads : \E n : p = <<Step("link", t, n)>> /\ a.view.at = "createLink"
      BY <3>2
    <3> QED
      BY <1>2, <3>1, <3>2 DEF PlanFrom
  <2>2. Head(p).do = do /\ Head(p).t = t
    BY <2>1 DEF Step
  <2> QED
    BY <2>1, <2>2 DEF ThreadDos
<1> QED
  BY <1>1, <1>2

(* A call that leaves the view alone.                                      *)
LEMMA CallWay ==
    ASSUME SessionInv, WayInv, todo # <<>>, UNCHANGED <<repo, saved, backs>>,
           NEW rest, Continue(rest), app'.view = app.view, app'.bar = app.bar,
           app'.error = app.error, app'.confirm = app.confirm, ListNamesInv',
           rest = Tail(todo) \/ (rest = <<>> /\ Head(todo).do = "unlessSame"),
           Head(todo).do \notin {"openRead", "openNode"}
    PROVE  WayInv'
<1>1. /\ todo' = rest /\ loop' = IF rest = <<>> THEN AfterHandler ELSE loop
      /\ loop \in {"start", "restore", "ticking", "event"} /\ app.confirm = FALSE
      /\ UNCHANGED <<commits, auth, pub>>
  BY Busy DEF Continue, repo
<1>2. loop' \in {loop, "draw", "poll"} /\ (loop = "ticking" => loop' \in {"ticking", "poll"})
  BY <1>1, AfterIs
<1>3. DocsInv' /\ RefNamesInv' /\ SavedInv'
  BY <1>1 DEF WayInv, DocsInv, IsDoc, RefNamesInv, Names, SavedInv
<1>4. Stands(app.view)'
  BY <1>1 DEF WayInv, Stands, Has, HasNode, Source
<1>5. Overlays(app', loop')
  BY <1>1, <1>2 DEF WayInv, Overlays, Idle
<1>6. PlanFrom(todo, app)'
  <2>1. Plan(rest)
    BY PlanRest, PlanNone DEF WayInv
  <2> QED
    BY <1>1, <2>1 DEF PlanFrom, Plan, AboutThreads
<1>7. Presses(app') = Presses(app)
  BY DEF Presses
<1>8. Nearer(app', loop', todo', backs')
  <2>1. CASE backs = 0
    BY <1>1, <1>5, <2>1, NoPresses
  <2>2. CASE backs # 0 /\ loop = "ticking"
    BY <1>2, <1>7, <2>2 DEF WayInv, Nearer
  <2>3. CASE backs # 0 /\ loop # "ticking"
    <3>1. loop = "event" /\ OnTheWay(todo, backs) /\ backs \in Nat
      BY <1>1, <2>3 DEF WayInv, Nearer
    <3>2. PICK t, n : /\ todo = OpenThread(t, n)
                      /\ Has(t) /\ 1 + backs <= Farthest
      <4>1. PICK t, n : \/ todo = OpenThread(t, n) /\ Has(t) /\ 1 + backs <= Farthest
                        \/ todo = <<Step("openRead", t, n)>>
                        \/ todo = OpenNode(t, n)
        BY <3>1 DEF OnTheWay
      <4>2. /\ Head(<<Step("openRead", t, n)>>).do = "openRead"
            /\ Head(OpenNode(t, n)).do = "openNode"
        BY OpenThreadTail DEF Step
      <4> QED
        BY <4>1, <4>2
    <3>3. Head(todo).do = "openTip" /\ Tail(todo) = <<Step("openRead", t, n)>>
      BY <3>2, OpenThreadTail DEF Step
    <3>4. rest = <<Step("openRead", t, n)>> /\ rest # <<>>
      BY <3>3, OpenThreadTail
    <3>5. OnTheWay(rest, backs)
      BY <3>2, <3>4 DEF OnTheWay
    <3>6. PICK p, count : p = todo' /\ count = backs'
      OBVIOUS
    <3>7. OnTheWay(p, count) /\ count \in Nat /\ count # 0 /\ loop' = "event"
      BY <1>1, <2>3, <3>1, <3>4, <3>5, <3>6
    <3>8. Nearer(app', "event", p, count)
      BY <3>7 DEF Nearer
    <3> QED
      BY <3>6, <3>7, <3>8
  <2> QED
    BY <2>1, <2>2, <2>3
<1>9. Nearer(app, loop, todo, backs)'
  BY <1>1, <1>8 DEF Nearer, OnTheWay, Has, HasNode, Source, Presses
<1>10. Overlays(app, loop)'
  BY <1>5 DEF Overlays
<1> QED
  BY <1>3, <1>4, <1>6, <1>9, <1>10 DEF WayInv

LEMMA FailWay ==
    ASSUME SessionInv, WayInv, todo # <<>>, Fail, UNCHANGED <<repo, saved, backs>>,
           loop = "event" => backs = 0
    PROVE  WayInv'
<1>1. /\ todo' = <<>> /\ work' = NoWork /\ UNCHANGED <<commits, auth, pub>>
      /\ loop \in {"start", "restore", "ticking", "event"} /\ app.confirm = FALSE /\ IsApp(app)
      /\ loop' \in {"off", "draw"}
  BY Busy DEF Fail, repo
<1>2. PICK e \in BOOLEAN : app' = [app EXCEPT !.error = e] /\ e = (loop = "event")
  BY DEF Fail
<1>3. /\ app'.view = app.view /\ app'.bar = app.bar /\ app'.error = e /\ app'.confirm = FALSE
      /\ app'.rows = app.rows /\ app'.cache = app.cache
  BY <1>1, <1>2, OverlayFields
<1>4. DocsInv' /\ RefNamesInv' /\ SavedInv'
  BY <1>1 DEF WayInv, DocsInv, IsDoc, RefNamesInv, Names, SavedInv
<1>5. ListNamesInv'
  <2>1. IsWork(work')
    BY <1>1, NoWorkIsWork
  <2>2. \A t \in Threads : work'.auth[t] = 0 /\ work'.rows[t].c = 0
    BY <1>1 DEF NoWork, NoRow
  <2> QED
    BY <1>1, <1>3, <2>1, <2>2 DEF WayInv, ListNamesInv, Names, IsWork
<1>6. Stands(app.view)'
  BY <1>1, <1>3 DEF WayInv, Stands, Has, HasNode, Source
<1>7. Overlays(app', loop')
  BY <1>1, <1>3 DEF WayInv, Overlays, Idle
<1>8. PlanFrom(todo, app)'
  BY <1>1, PlanNone DEF PlanFrom, Plan, AboutThreads
<1>9. Nearer(app', loop', todo', backs')
  <2>1. CASE backs = 0
    BY <1>3, <1>7, <2>1, NoPresses
  <2>2. CASE backs # 0
    <3>1. loop = "ticking" /\ e = FALSE
      BY <1>1, <1>2, <2>2 DEF WayInv, Nearer
    <3>2. backs \in Nat /\ (Presses(app) = 0 \/ Presses(app) + backs <= Farthest)
      BY <3>1 DEF WayInv, Nearer
    <3>3. Level(app.view) \in 0 .. 4
      BY LevelBound DEF WayInv, Overlays
    <3>4. Presses(app') = 0 \/ Presses(app') + backs <= Farthest
      BY <1>1, <1>3, <3>1, <3>2, <3>3 DEF Presses, Farthest
    <3> QED
      BY <1>1, <3>2, <3>4 DEF Nearer
  <2> QED
    BY <2>1, <2>2
<1>10. Nearer(app, loop, todo, backs)'
  BY <1>1, <1>9 DEF Nearer, OnTheWay, Has, HasNode, Source, Presses
<1>11. Overlays(app, loop)'
  BY <1>7 DEF Overlays
<1> QED
  BY <1>4, <1>5, <1>6, <1>8, <1>10, <1>11 DEF WayInv

(* What a refresh opens is what is shown.                                  *)
LEMMA RefreshOpens ==
    ASSUME SessionInv, loop = "ticking", todo # <<>>
    PROVE  /\ Head(todo).do = "openRead" => app.view.at = "thread"
           /\ Head(todo).do = "openNode" => app.view.at = "node"
<1>1. PICK t, n :
        \/ app.view.at = "thread" /\ todo = OpenThread(t, frame.lit)
        \/ app.view.at = "thread" /\ todo = <<Step("openRead", t, frame.lit)>>
        \/ app.view.at = "node" /\ todo = OpenNode(t, n)
        \/ app.view.at = "list" /\ Only(todo, ListDos)
  BY DEF SessionInv, RefreshInv
<1>2. /\ Head(OpenThread(t, frame.lit)).do = "openTip"
      /\ Head(<<Step("openRead", t, frame.lit)>>).do = "openRead"
      /\ Head(OpenNode(t, n)).do = "openNode"
  BY OpenThreadTail DEF Step
<1>3. Only(todo, ListDos) => Head(todo).do \in ListDos
  BY TailOnly
<1> QED
  BY <1>1, <1>2, <1>3 DEF ListDos

-----------------------------------------------------------------------------
(* Reads keep the list about commits of its threads.                       *)

LEMMA KeepNames ==
    ASSUME WayInv, UNCHANGED repo, NEW w, IsWork(w), NEW rest,
           work' = IF rest = <<>> THEN NoWork ELSE w,
           \A t \in Threads : /\ Names(app'.rows[t].c, t) /\ Names(app'.cache[t].c, t)
                              /\ Names(w.auth[t], t) /\ Names(w.rows[t].c, t)
    PROVE  ListNamesInv'
<1>1. UNCHANGED commits
  BY DEF repo
<1>2. CASE rest = <<>>
  <2>1. IsWork(work') /\ \A t \in Threads : work'.auth[t] = 0 /\ work'.rows[t].c = 0
    BY <1>2, NoWorkIsWork DEF NoWork, NoRow
  <2> QED
    BY <1>1, <2>1 DEF ListNamesInv, Names, IsWork
<1>3. CASE rest # <<>>
  BY <1>1, <1>3 DEF ListNamesInv, Names, IsWork
<1> QED
  BY <1>2, <1>3

LEMMA CacheNames ==
    ASSUME WayInv, NEW t \in Threads
    PROVE  Names(CacheAfter(app.cache, work.auth, pub)[t].c, t)
<1>1. Names(app.cache[t].c, t) /\ Names(work.auth[t], t) /\ Names(pub[t], t) /\ Names(0, t)
  BY DEF WayInv, ListNamesInv, RefNamesInv, Names
<1>2. \A tip, published : Names(tip, t) => Names(RowAt(app.cache, t, tip, published), t)
  BY <1>1 DEF RowAt
<1>3. PICK own, other :
          /\ own = IF work.auth[t] = 0 THEN 0 ELSE RowAt(app.cache, t, work.auth[t], FALSE)
          /\ other = IF pub[t] = 0 THEN 0 ELSE RowAt(app.cache, t, pub[t], TRUE)
  OBVIOUS
<1>4. Names(own, t) /\ Names(other, t)
  BY <1>1, <1>2, <1>3
<1>5. CacheAfter(app.cache, work.auth, pub)[t].c \in {own, other, 0}
  BY <1>3 DEF CacheAfter, NoEntry
<1> QED
  BY <1>1, <1>4, <1>5

(* A call that reads, and keeps the view.                                  *)
LEMMA KeepWay ==
    ASSUME SessionInv, WayInv, todo # <<>>, UNCHANGED <<repo, saved, backs>>,
           NEW a, NEW w, NEW rest, Keep(a, w, rest), IsWork(w),
           a.view = app.view, a.bar = app.bar, a.error = app.error, a.confirm = app.confirm,
           \A t \in Threads : /\ Names(a.rows[t].c, t) /\ Names(a.cache[t].c, t)
                              /\ Names(w.auth[t], t) /\ Names(w.rows[t].c, t),
           rest = Tail(todo) \/ (rest = <<>> /\ Head(todo).do = "unlessSame"),
           Head(todo).do \notin {"openRead", "openNode"}
    PROVE  WayInv'
<1>1. app' = a /\ work' = (IF rest = <<>> THEN NoWork ELSE w) /\ Continue(rest)
  BY DEF Keep
<1>2. ListNamesInv'
  BY <1>1, KeepNames
<1> QED
  BY <1>1, <1>2, CallWay

LEMMA ReadsWay ==
    ASSUME SessionInv, WayInv,
           RestoreNode \/ ListAuth \/ ListPub \/ TipsPub \/ KeepRows \/ KeepTips
           \/ UnlessSame \/ ShowList \/ SelectNew \/ OpenTip
    PROVE  WayInv'
<1>1. todo # <<>> /\ Head(todo).do \notin {"openRead", "openNode"} /\ UNCHANGED <<repo, saved, backs>>
  BY DEF RestoreNode, ListAuth, ListPub, TipsPub, KeepRows, KeepTips, UnlessSame, ShowList,
         SelectNew, OpenTip, Doing
<1>2. /\ IsWork(work) /\ IsApp(app) /\ Kin(app, app)
      /\ \A t \in Threads : /\ Names(app.rows[t].c, t) /\ Names(app.cache[t].c, t)
                            /\ Names(work.auth[t], t) /\ Names(work.rows[t].c, t)
                            /\ Names(auth[t], t)
  BY KinSelf DEF WayInv, ListNamesInv, RefNamesInv, SessionInv
<1>3. CASE RestoreNode
  <2>1. PICK i : app' = [app EXCEPT !.nodeSel = i] /\ Continue(Tail(todo)) /\ work' = work
    BY <1>3 DEF RestoreNode
  <2>2. Kin(app', app)
    BY <1>2, <2>1, KinField
  <2>3. ListNamesInv'
    BY <1>1, <1>2, <2>1, <2>2 DEF ListNamesInv, Names, Kin, IsWork, repo
  <2> QED
    BY <1>1, <2>1, <2>2, <2>3, CallWay DEF Kin
<1>4. CASE ListAuth
  <2>1. PICK w : w = [work EXCEPT !.auth = auth]
    OBVIOUS
  <2>2. Keep(app, w, Tail(todo))
    BY <1>4, <2>1 DEF ListAuth
  <2>3. IsWork(w) /\ w.auth = auth /\ w.rows = work.rows
    BY <1>2, <2>1 DEF IsWork
  <2> QED
    BY <1>1, <1>2, <2>2, <2>3, KeepWay
<1>5. CASE ListPub
  <2>1. PICK cache : cache = CacheAfter(app.cache, work.auth, pub)
    OBVIOUS
  <2>2. PICK a : a = [app EXCEPT !.cache = cache]
    OBVIOUS
  <2>3. PICK w : w = [work EXCEPT !.rows = RowsOf(cache), !.listed = TipsOf(work.auth, pub)]
    OBVIOUS
  <2>4. Keep(a, w, Tail(todo))
    BY <1>5, <2>1, <2>2, <2>3 DEF ListPub
  <2>5. /\ a.view = app.view /\ a.rows = app.rows /\ a.cache = cache
        /\ a.bar = app.bar /\ a.error = app.error /\ a.confirm = app.confirm
    BY <1>2, <2>2 DEF IsApp
  <2>6. IsWork(w) /\ w.auth = work.auth /\ w.rows = RowsOf(cache)
    BY <1>2, <2>3 DEF IsWork
  <2>7. \A t \in Threads : Names(cache[t].c, t) /\ RowsOf(cache)[t].c = cache[t].c
    BY <2>1, CacheNames DEF RowsOf
  <2>8. \A t \in Threads : /\ Names(a.rows[t].c, t) /\ Names(a.cache[t].c, t)
                           /\ Names(w.auth[t], t) /\ Names(w.rows[t].c, t)
    BY <1>2, <2>5, <2>6, <2>7
  <2> QED
    BY <1>1, <2>4, <2>5, <2>6, <2>8, KeepWay
<1>6. CASE TipsPub
  <2>1. PICK w : w = [work EXCEPT !.tips = TipsOf(work.auth, pub),
                                  !.own = {t \in Threads : work.auth[t] # 0}]
    OBVIOUS
  <2>2. Keep(app, w, Tail(todo))
    BY <1>6, <2>1 DEF TipsPub
  <2>3. IsWork(w) /\ w.auth = work.auth /\ w.rows = work.rows
    BY <1>2, <2>1 DEF IsWork
  <2> QED
    BY <1>1, <1>2, <2>2, <2>3, KeepWay
<1>7. CASE KeepRows
  <2>1. PICK a : a = [app EXCEPT !.rows = work.rows]
    OBVIOUS
  <2>2. Keep(a, work, Tail(todo))
    BY <1>7, <2>1 DEF KeepRows
  <2>3. /\ a.view = app.view /\ a.rows = work.rows /\ a.cache = app.cache
        /\ a.bar = app.bar /\ a.error = app.error /\ a.confirm = app.confirm
    BY <1>2, <2>1 DEF IsApp
  <2> QED
    BY <1>1, <1>2, <2>2, <2>3, KeepWay
<1>8. CASE KeepTips
  <2>1. PICK x : Keep([app EXCEPT !.tips = x], work, Tail(todo))
    BY <1>8 DEF KeepTips
  <2>2. PICK a : a = [app EXCEPT !.tips = x]
    OBVIOUS
  <2>3. Kin(a, app)
    BY <1>2, <2>2, KinField
  <2> QED
    BY <1>1, <1>2, <2>1, <2>2, <2>3, KeepWay DEF Kin
<1>9. CASE UnlessSame
  <2>1. PICK rest : Keep(app, work, rest) /\ rest \in {<<>>, Tail(todo)} /\ Head(todo).do = "unlessSame"
    BY <1>9 DEF UnlessSame, Doing
  <2> QED
    BY <1>1, <1>2, <2>1, KeepWay
<1>10. CASE ShowList
  <2>1. PICK b : b = [app EXCEPT !.rows = work.rows]
    OBVIOUS
  <2>2. PICK c : c = [b EXCEPT !.tips = work.tips]
    OBVIOUS
  <2>3. PICK a : a = [c EXCEPT !.sel = Clamped(c)]
    OBVIOUS
  <2>4. c = [app EXCEPT !.rows = work.rows, !.tips = work.tips]
    BY <2>1, <2>2
  <2>5. Keep(a, work, Tail(todo))
    BY <1>10, <2>3, <2>4 DEF ShowList
  <2>6. /\ IsApp(b) /\ b.view = app.view /\ b.rows = work.rows /\ b.cache = app.cache
        /\ b.bar = app.bar /\ b.error = app.error /\ b.confirm = app.confirm
    BY <1>2, <2>1 DEF IsApp
  <2>7. Kin(b, b)
    BY <2>6 DEF Kin
  <2>8. Kin(c, b)
    BY <2>2, <2>7, KinField
  <2>9. Kin(a, b)
    BY <2>3, <2>8, KinField
  <2> QED
    BY <1>1, <1>2, <2>5, <2>6, <2>9, KeepWay DEF Kin
<1>11. CASE SelectNew
  <2>1. PICK x : Keep([app EXCEPT !.sel = x], work, Tail(todo))
    BY <1>11 DEF SelectNew
  <2>2. PICK a : a = [app EXCEPT !.sel = x]
    OBVIOUS
  <2>3. Kin(a, app)
    BY <1>2, <2>2, KinField
  <2> QED
    BY <1>1, <1>2, <2>1, <2>2, <2>3, KeepWay DEF Kin
<1>12. CASE OpenTip
  <2>1. PICK x : Keep(app, [work EXCEPT !.tip = x], Tail(todo))
    BY <1>12 DEF OpenTip
  <2>2. PICK w : w = [work EXCEPT !.tip = x]
    OBVIOUS
  <2>3. IsWork(w) /\ w.auth = work.auth /\ w.rows = work.rows
    BY <1>2, <2>2 DEF IsWork
  <2> QED
    BY <1>1, <1>2, <2>1, <2>2, <2>3, KeepWay
<1> QED
  BY <1>3, <1>4, <1>5, <1>6, <1>7, <1>8, <1>9, <1>10, <1>11, <1>12

(* A view is opened.                                                       *)
LEMMA OpensWay ==
    ASSUME SessionInv, WayInv, todo # <<>>, Head(todo).do \in {"openRead", "openNode"},
           UNCHANGED <<repo, saved, backs>>, Continue(Tail(todo)), ListNamesInv',
           NEW v, Shows(app', app, v), v.at \in {"thread", "node"}, Stands(v),
           loop = "ticking" => app.view.at = v.at,
           loop = "event" /\ backs # 0 => Tail(todo) = <<>> /\ Level(v) + backs <= Farthest
    PROVE  WayInv'
<1>1. /\ todo' = Tail(todo) /\ loop' = IF Tail(todo) = <<>> THEN AfterHandler ELSE loop
      /\ loop \in {"start", "restore", "ticking", "event"} /\ app.confirm = FALSE
      /\ UNCHANGED <<commits, auth, pub>>
  BY Busy DEF Continue, repo
<1>2. /\ loop' \in {loop, "draw", "poll"} /\ (loop = "ticking" => loop' \in {"ticking", "poll"})
      /\ loop = "event" /\ Tail(todo) = <<>> => loop' = "draw"
  BY <1>1, AfterIs
<1>3. /\ app'.view = v /\ app'.bar = app.bar /\ app'.error = app.error /\ app'.confirm = FALSE
  BY <1>1 DEF Shows
<1>4. DocsInv' /\ RefNamesInv' /\ SavedInv'
  BY <1>1 DEF WayInv, DocsInv, IsDoc, RefNamesInv, Names, SavedInv
<1>5. Stands(app.view)'
  BY <1>1, <1>3 DEF Stands, Has, HasNode, Source
<1>6. app.bar = FALSE /\ app.error \in BOOLEAN /\ (loop # "ticking" => app.error = FALSE)
  BY <1>1 DEF WayInv, Overlays, Idle
<1>7. Overlays(app', loop')
  BY <1>1, <1>2, <1>3, <1>6 DEF Overlays, Idle, Views
<1>8. PlanFrom(todo, app)'
  <2>1. PICK p : p = Tail(todo)
    OBVIOUS
  <2>2. Plan(p)
    BY <2>1, PlanRest DEF WayInv
  <2> QED
    BY <1>1, <2>1, <2>2 DEF PlanFrom, Plan, AboutThreads
<1>9. Nearer(app', loop', todo', backs')
  <2>1. CASE backs = 0
    BY <1>3, <1>7, <2>1, NoPresses
  <2>2. CASE backs # 0 /\ loop = "ticking"
    <3>1. Level(v) = Level(app.view)
      BY <2>2, LevelsAre
    <3>2. Presses(app') = Presses(app)
      BY <1>1, <1>3, <3>1 DEF Presses
    <3> QED
      BY <1>2, <2>2, <3>2 DEF WayInv, Nearer
  <2>3. CASE backs # 0 /\ loop # "ticking"
    <3>1. loop = "event" /\ backs \in Nat
      BY <1>1, <2>3 DEF WayInv, Nearer
    <3>2. loop' = "draw" /\ Level(v) + backs <= Farthest
      BY <1>2, <2>3, <3>1
    <3>3. Level(v) \in Nat
      BY LevelsAre
    <3>4. Presses(app') = Level(v)
      BY <1>3, <1>6, <2>3, <3>3 DEF Presses
    <3>5. PICK a, p, count : a = app' /\ p = todo' /\ count = backs'
      OBVIOUS
    <3>6. count \in Nat /\ Presses(a) + count <= Farthest
      BY <3>1, <3>2, <3>4, <3>5
    <3>7. Nearer(a, "draw", p, count)
      BY <3>6 DEF Nearer
    <3> QED
      BY <3>2, <3>5, <3>7
  <2> QED
    BY <2>1, <2>2, <2>3
<1>10. Nearer(app, loop, todo, backs)'
  BY <1>1, <1>9 DEF Nearer, OnTheWay, Has, HasNode, Source, Presses
<1>11. Overlays(app, loop)'
  BY <1>7 DEF Overlays
<1> QED
  BY <1>4, <1>5, <1>8, <1>10, <1>11 DEF WayInv

(* What is on its way can be opened.                                       *)
LEMMA HasReadable ==
    ASSUME WayInv, NEW t, Has(t)
    PROVE  Readable(Source(t))
<1>1. Names(Source(t), t) /\ Source(t) # 0
  BY DEF WayInv, RefNamesInv, Has, Source
<1> QED
  BY <1>1 DEF WayInv, Names, DocsInv, IsDoc, Readable

LEMMA ReadableHas ==
    ASSUME SessionInv, NEW t \in Threads, Readable(Source(t))
    PROVE  /\ Has(t)
           /\ \A n : n \in Range(NodesOf(Source(t))) <=> HasNode(t, n)
<1>1. Source(t) # 0
  BY ZeroIsNone DEF SessionInv, Readable
<1>2. Has(t)
  BY <1>1 DEF Has
<1> QED
  BY <1>1, <1>2, NodesListed DEF HasNode

LEMMA OpenReadWay ==
    ASSUME SessionInv, WayInv, OpenRead
    PROVE  WayInv'
<1>1. PICK t, n : t = Head(todo).t /\ n = Head(todo).n
  OBVIOUS
<1>2. todo # <<>> /\ Head(todo).do = "openRead" /\ UNCHANGED <<repo, saved, backs>> /\ IsApp(app)
  BY DEF OpenRead, Doing, SessionInv
<1>3. t \in Threads
  BY <1>1, <1>2, PlanHead DEF WayInv, ThreadDos
<1>4. ASSUME loop = "event", backs # 0
      PROVE  Has(t) /\ Tail(todo) = <<>> /\ 1 + backs <= Farthest
  <2>1. OnTheWay(todo, backs)
    BY <1>4 DEF WayInv, Nearer
  <2>2. PICK u, m : \/ todo = OpenThread(u, m)
                    \/ todo = <<Step("openRead", u, m)>> /\ Has(u) /\ 1 + backs <= Farthest
                    \/ todo = OpenNode(u, m)
    BY <2>1 DEF OnTheWay
  <2>3. /\ Head(OpenThread(u, m)).do = "openTip" /\ Head(OpenNode(u, m)).do = "openNode"
        /\ Head(<<Step("openRead", u, m)>>).t = u /\ Tail(<<Step("openRead", u, m)>>) = <<>>
    BY OpenThreadTail DEF Step
  <2> QED
    BY <1>1, <1>2, <2>2, <2>3
<1>5. CASE Readable(Source(t))
  <2>1. PICK v : v = At("thread", t, 0)
    OBVIOUS
  <2>2. IsView(v) /\ v.at = "thread" /\ v.t = t
    BY <2>1, AtIs
  <2>3. PICK x, i, y : Keep([app EXCEPT !.view = v, !.shown = x, !.pane = 0, !.nodeSel = i, !.tip = y],
                            work, Tail(todo))
    BY <1>1, <1>5, <2>1 DEF OpenRead
  <2>4. PICK b : b = [app EXCEPT !.view = v]
    OBVIOUS
  <2>5. PICK c : c = [b EXCEPT !.shown = x]
    OBVIOUS
  <2>6. PICK d : d = [c EXCEPT !.pane = 0]
    OBVIOUS
  <2>7. PICK e : e = [d EXCEPT !.nodeSel = i]
    OBVIOUS
  <2>8. app' = [e EXCEPT !.tip = y]
    BY <2>3, <2>4, <2>5, <2>6, <2>7 DEF Keep
  <2>9. Shows(b, app, v) /\ Kin(b, b)
    <3>1. Shows(b, app, v)
      BY <1>2, <2>2, <2>4, KinSelf, MovedFields
    <3> QED
      BY <3>1 DEF Shows, Kin
  <2>10. Kin(c, b)
    BY <2>5, <2>9, KinField
  <2>11. Kin(d, b)
    BY <2>6, <2>10, KinField
  <2>12. Kin(e, b)
    BY <2>7, <2>11, KinField
  <2>13. Kin(app', b)
    BY <2>8, <2>12, KinField
  <2>14. Shows(app', app, v)
    BY <2>9, <2>13 DEF Kin, Shows
  <2>15. work' = (IF Tail(todo) = <<>> THEN NoWork ELSE work) /\ Continue(Tail(todo))
    BY <2>3 DEF Keep
  <2>16. ListNamesInv'
    <3>1. \A u \in Threads : /\ Names(app'.rows[u].c, u) /\ Names(app'.cache[u].c, u)
                             /\ Names(work.auth[u], u) /\ Names(work.rows[u].c, u)
      BY <2>14 DEF WayInv, ListNamesInv, Shows
    <3> QED
      BY <1>2, <2>15, <3>1, KeepNames DEF WayInv, ListNamesInv
  <2>17. Stands(v)
    BY <1>3, <1>5, <2>2, ReadableHas DEF Stands
  <2>18. Level(v) = 1
    BY <2>2, LevelsAre
  <2>19. loop = "ticking" => app.view.at = v.at
    BY <1>2, <2>2, RefreshOpens
  <2>20. loop = "event" /\ backs # 0 => Tail(todo) = <<>> /\ Level(v) + backs <= Farthest
    BY <1>4, <2>18
  <2> QED
    BY <1>2, <2>2, <2>14, <2>15, <2>16, <2>17, <2>19, <2>20, OpensWay
<1>6. CASE ~Readable(Source(t))
  <2>1. Fail
    BY <1>1, <1>6 DEF OpenRead
  <2>2. loop = "event" => backs = 0
    BY <1>4, <1>6, HasReadable
  <2> QED
    BY <1>2, <2>1, <2>2, FailWay
<1> QED
  BY <1>5, <1>6

LEMMA OpenTheNodeWay ==
    ASSUME SessionInv, WayInv, OpenTheNode
    PROVE  WayInv'
<1>1. PICK t, n : t = Head(todo).t /\ n = Head(todo).n
  OBVIOUS
<1>2. todo # <<>> /\ Head(todo).do = "openNode" /\ UNCHANGED <<repo, saved, backs>> /\ IsApp(app)
  BY DEF OpenTheNode, Doing, SessionInv
<1>3. t \in Threads
  BY <1>1, <1>2, PlanHead DEF WayInv, ThreadDos
<1>4. ASSUME loop = "event", backs # 0
      PROVE  HasNode(t, n) /\ Tail(todo) = <<>> /\ 2 + backs <= Farthest
  <2>1. OnTheWay(todo, backs)
    BY <1>4 DEF WayInv, Nearer
  <2>2. PICK u, m : \/ todo = OpenThread(u, m)
                    \/ todo = <<Step("openRead", u, m)>>
                    \/ todo = OpenNode(u, m) /\ HasNode(u, m) /\ 2 + backs <= Farthest
    BY <2>1 DEF OnTheWay
  <2>3. /\ Head(OpenThread(u, m)).do = "openTip" /\ Head(<<Step("openRead", u, m)>>).do = "openRead"
        /\ Head(OpenNode(u, m)).t = u /\ Head(OpenNode(u, m)).n = m /\ Tail(OpenNode(u, m)) = <<>>
    BY OpenThreadTail DEF Step
  <2> QED
    BY <1>1, <1>2, <2>2, <2>3
<1>5. CASE Readable(Source(t)) /\ n \in Range(NodesOf(Source(t)))
  <2>1. PICK v : v = At("node", t, n)
    OBVIOUS
  <2>2. IsView(v) /\ v.at = "node" /\ v.t = t /\ v.n = n
    BY <2>1, AtIs
  <2>3. PICK x : Keep([app EXCEPT !.view = v, !.pane = x], work, Tail(todo))
    BY <1>1, <1>5, <2>1 DEF OpenTheNode
  <2>4. PICK b : b = [app EXCEPT !.view = v]
    OBVIOUS
  <2>5. app' = [b EXCEPT !.pane = x]
    BY <2>3, <2>4 DEF Keep
  <2>6. Shows(b, app, v) /\ Kin(b, b)
    <3>1. Shows(b, app, v)
      BY <1>2, <2>2, <2>4, KinSelf, MovedFields
    <3> QED
      BY <3>1 DEF Shows, Kin
  <2>7. Kin(app', b)
    BY <2>5, <2>6, KinField
  <2>8. Shows(app', app, v)
    BY <2>6, <2>7 DEF Kin, Shows
  <2>9. work' = (IF Tail(todo) = <<>> THEN NoWork ELSE work) /\ Continue(Tail(todo))
    BY <2>3 DEF Keep
  <2>10. ListNamesInv'
    <3>1. \A u \in Threads : /\ Names(app'.rows[u].c, u) /\ Names(app'.cache[u].c, u)
                             /\ Names(work.auth[u], u) /\ Names(work.rows[u].c, u)
      BY <2>8 DEF WayInv, ListNamesInv, Shows
    <3> QED
      BY <1>2, <2>9, <3>1, KeepNames DEF WayInv, ListNamesInv
  <2>11. Stands(v)
    <3>1. Has(t) /\ HasNode(t, n)
      BY <1>3, <1>5, ReadableHas
    <3> QED
      BY <2>2, <3>1 DEF Stands
  <2>12. Level(v) = 2
    BY <2>2, LevelsAre
  <2>13. loop = "ticking" => app.view.at = v.at
    BY <1>2, <2>2, RefreshOpens
  <2>14. loop = "event" /\ backs # 0 => Tail(todo) = <<>> /\ Level(v) + backs <= Farthest
    BY <1>4, <2>12
  <2> QED
    BY <1>2, <2>2, <2>8, <2>9, <2>10, <2>11, <2>13, <2>14, OpensWay
<1>6. CASE ~(Readable(Source(t)) /\ n \in Range(NodesOf(Source(t))))
  <2>1. Fail
    BY <1>1, <1>6 DEF OpenTheNode
  <2>2. ASSUME loop = "event", backs # 0 PROVE FALSE
    <3>1. HasNode(t, n) /\ Has(t)
      BY <1>4, <2>2 DEF HasNode
    <3>2. Readable(Source(t))
      BY <3>1, HasReadable
    <3>3. n \in Range(NodesOf(Source(t)))
      BY <1>3, <3>1, <3>2, ReadableHas
    <3> QED
      BY <1>6, <3>2, <3>3
  <2> QED
    BY <1>2, <2>1, <2>2, FailWay
<1> QED
  BY <1>5, <1>6

-----------------------------------------------------------------------------
(* A handler that plans its further calls.                                 *)

LEMMA NothingCounted ==
    ASSUME SessionInv, WayInv, todo # <<>>,
           Head(todo).do \in {"restore", "create", "say", "link", "revise", "resolve", "reopen", "retract"}
    PROVE  /\ backs = 0 /\ loop \in {"start", "restore", "event"}
           /\ app.bar = FALSE /\ app.error = FALSE /\ app.confirm = FALSE
<1>1. Head(todo).do \notin ListDos \cup {"openTip", "openRead", "openNode"}
  BY DEF ListDos
<1>2. backs = 0
  BY <1>1, NotCounted
<1>3. loop \in {"start", "restore", "event"}
  BY <1>1, Busy, RefreshHead
<1> QED
  BY <1>2, <1>3, Busy DEF WayInv, Overlays, Idle

LEMMA PlanWay ==
    ASSUME WayInv, backs = 0, backs' = backs, saved' = saved,
           app.bar = FALSE, app.error = FALSE, app.confirm = FALSE,
           app'.view = app.view, app'.bar = app.bar, app'.error = app.error,
           app'.confirm = app.confirm, DocsInv', RefNamesInv', ListNamesInv',
           Stands(app.view)', Plan(todo')
    PROVE  WayInv'
<1>1. SavedInv'
  BY DEF WayInv, SavedInv
<1>2. Overlays(app', loop')
  BY DEF WayInv, Overlays
<1>3. PlanFrom(todo, app)'
  BY DEF PlanFrom, Plan, AboutThreads
<1>4. PICK a, at, p : a = app' /\ at = loop' /\ p = todo'
  OBVIOUS
<1>5. Overlays(a, at) /\ a.confirm \in BOOLEAN
  BY <1>2, <1>4
<1>6. Nearer(a, at, p, 0)
  BY <1>5, NoPresses
<1>7. Nearer(app', loop', todo', backs')
  BY <1>4, <1>6
<1>8. Nearer(app, loop, todo, backs)' /\ Overlays(app, loop)'
  BY <1>2, <1>7 DEF Nearer, Overlays, Presses
<1> QED
  BY <1>1, <1>3, <1>8 DEF WayInv

LEMMA RestoreWay ==
    ASSUME SessionInv, WayInv, Restore
    PROVE  WayInv'
<1>1. /\ todo # <<>> /\ Head(todo).do = "restore" /\ UNCHANGED <<repo, saved, backs>>
      /\ work' = NoWork /\ Kin(app, app)
  BY KinSelf DEF Restore
<1>2. PICK t, v : t = Head(todo).t /\ v = saved.view
  BY SMTT(30)
<1>3. t \in Threads \cup {0} /\ (v.at \in {"thread", "node"} => v.t \in Threads)
  BY SMTT(30), <1>1, <1>2, PlanHead DEF WayInv, SavedInv
<1>4. \/ todo' = OpenThread(t, 0) /\ t # 0
      \/ todo' = OpenThread(v.t, 0) \o <<Step("restoreNode", 0, 0)>> /\ v.at = "thread"
      \/ todo' = OpenNode(v.t, v.n) /\ v.at = "node"
      \/ todo' = <<>>
  <2>1. todo' = CASE t # 0 -> OpenThread(t, 0)
                  [] t = 0 /\ (saved.view.t # 0 /\ app.rows[saved.view.t].c # 0) /\ v.at = "thread" ->
                       OpenThread(v.t, 0) \o <<Step("restoreNode", 0, 0)>>
                  [] t = 0 /\ (saved.view.t # 0 /\ app.rows[saved.view.t].c # 0) /\ v.at = "node" ->
                       OpenNode(v.t, v.n)
                  [] OTHER -> <<>>
    BY <1>2 DEF Restore
  <2> QED
    BY <2>1
<1>5. Plan(todo')
  <2>1. Plan(<<Step("restoreNode", 0, 0)>>)
    BY PlanOne DEF ThreadDos
  <2>2. ASSUME NEW u \in Threads, NEW n
        PROVE  /\ Plan(OpenThread(u, n)) /\ Plan(OpenNode(u, n))
               /\ Plan(OpenThread(u, n) \o <<Step("restoreNode", 0, 0)>>)
    BY <2>1, PlansOpen, PlanJoin
  <2> QED
    BY <1>3, <1>4, <2>2, PlanNone
<1>6. PICK x, y, z, i : app' \in {[app EXCEPT !.sort = x, !.filter = y, !.sel = z],
                                 [[app EXCEPT !.sort = x, !.filter = y, !.sel = z] EXCEPT !.sel = i]}
  BY DEF Restore
<1>7. Kin(app', app)
  <2>1. PICK b : b = [app EXCEPT !.sort = x]
    OBVIOUS
  <2>2. PICK c : c = [b EXCEPT !.filter = y]
    OBVIOUS
  <2>3. PICK d : d = [c EXCEPT !.sel = z]
    OBVIOUS
  <2>4. Kin(b, app)
    BY <1>1, <2>1, KinField
  <2>5. Kin(c, app)
    BY <2>2, <2>4, KinField
  <2>6. Kin(d, app) /\ Kin([d EXCEPT !.sel = i], app)
    <3>1. Kin(d, app)
      BY <2>3, <2>5, KinField
    <3> QED
      BY <3>1, KinField
  <2>7. app' \in {d, [d EXCEPT !.sel = i]}
    BY <1>6, <2>1, <2>2, <2>3
  <2> QED
    BY <2>6, <2>7
<1>8. DocsInv' /\ RefNamesInv'
  BY <1>1 DEF WayInv, DocsInv, IsDoc, RefNamesInv, Names, repo
<1>9. ListNamesInv'
  <2>1. IsWork(work') /\ \A u \in Threads : work'.auth[u] = 0 /\ work'.rows[u].c = 0
    BY <1>1, NoWorkIsWork DEF NoWork, NoRow
  <2> QED
    BY <1>1, <1>7, <2>1 DEF WayInv, ListNamesInv, Names, IsWork, Kin, repo
<1>10. Stands(app.view)'
  BY <1>1, <1>7 DEF WayInv, Stands, Has, HasNode, Source, Kin, repo
<1>11. backs = 0 /\ app.bar = FALSE /\ app.error = FALSE /\ app.confirm = FALSE
  BY <1>1, NothingCounted
<1> QED
  BY <1>1, <1>5, <1>7, <1>8, <1>9, <1>10, <1>11, PlanWay DEF Kin

-----------------------------------------------------------------------------
(* The writes of the session.                                              *)

LEMMA WriteWay ==
    ASSUME SessionInv, WayInv, todo # <<>>,
           Head(todo).do \in {"create", "say", "link", "revise", "resolve", "reopen", "retract"},
           Grown, DocsInv', RefNamesInv', Stands(app.view)', Plan(todo'),
           UNCHANGED <<app, loop, work, saved, backs>>
    PROVE  WayInv'
<1>1. \A c, u : Names(c, u) => (c = 0 \/ (c \in DOMAIN commits' /\ commits'[c].t = u))
  BY CommitsGrow DEF SessionInv, ShownInv, Names
<1>2. ListNamesInv'
  BY <1>1 DEF WayInv, ListNamesInv, Names, IsWork
<1>3. backs = 0 /\ app.bar = FALSE /\ app.error = FALSE /\ app.confirm = FALSE
  BY NothingCounted
<1> QED
  BY <1>2, <1>3, PlanWay

LEMMA EditWay ==
    ASSUME SessionInv, WayInv, todo # <<>>,
           Head(todo).do \in {"say", "link", "revise", "resolve", "reopen", "retract"},
           NEW t \in Threads, NEW d, Install(t, d), auth[t] # 0, IsDoc(d),
           d.t = commits[auth[t]].t,
           \A n \in Nodes : commits[auth[t]].nodes[n] # "none" => d.nodes[n] # "none",
           Plan(todo'), UNCHANGED <<app, loop, work, saved, backs>>
    PROVE  WayInv'
<1>1. Grown /\ DocsInv' /\ RefNamesInv' /\ Kept
  BY EditKept DEF SessionInv, WayInv
<1>2. Stands(app.view)'
  BY <1>1 DEF WayInv, Stands, Kept
<1> QED
  BY <1>1, <1>2, WriteWay

LEMMA WritableDoc ==
    ASSUME WayInv, NEW t \in Threads, Writable(t)
    PROVE  auth[t] # 0 /\ IsDoc(commits[auth[t]]) /\ Source(t) = auth[t]
  BY DEF WayInv, DocsInv, Writable, Readable, Source

LEMMA CreateWay ==
    ASSUME SessionInv, WayInv, CreateThread
    PROVE  WayInv'
<1>1. todo # <<>> /\ Head(todo).do = "create" /\ UNCHANGED <<app, loop, work, saved, backs>>
  BY DEF CreateThread, Doing
<1>2. PICK t : t = Head(todo).t
  OBVIOUS
<1>3. t \in Threads /\ app.view.at = "createThread"
  BY <1>1, <1>2, PlanHead DEF WayInv
<1>4. /\ Install(t, Document(t, "open", NoNodes, {}))
      /\ todo' = RefreshList \o <<Step("selectNew", t, 0)>> \o OpenThread(t, 0)
  BY <1>2 DEF CreateThread
<1>5. Grown /\ DocsInv' /\ RefNamesInv'
  BY <1>3, <1>4, DocumentIs, InstallKept DEF SessionInv, WayInv
<1>6. Stands(app.view)'
  BY <1>1, <1>3 DEF Stands
<1>7. Plan(todo')
  <2>1. Plan(<<Step("selectNew", t, 0)>>)
    BY PlanOne DEF ThreadDos
  <2> QED
    BY <1>3, <1>4, <2>1, PlansList, PlansOpen, PlanJoin
<1> QED
  BY <1>1, <1>5, <1>6, <1>7, WriteWay

LEMMA SayWay ==
    ASSUME SessionInv, WayInv, Say
    PROVE  WayInv'
<1>1. todo # <<>> /\ Head(todo).do = "say" /\ UNCHANGED <<app, loop, work, saved, backs>>
  BY DEF Say, Doing
<1>2. PICK t : t = Head(todo).t
  OBVIOUS
<1>3. t \in Threads /\ Writable(t)
  BY <1>1, <1>2, PlanHead DEF WayInv, ThreadDos, Say
<1>4. PICK n \in Nodes : /\ Install(t, [commits[auth[t]] EXCEPT !.nodes[n] = "open"])
                         /\ todo' = RefreshList \o OpenThread(t, n)
  BY <1>2 DEF Say, Unused
<1>5. PICK d, e : d = commits[auth[t]] /\ e = [d EXCEPT !.nodes[n] = "open"]
  OBVIOUS
<1>6. auth[t] # 0 /\ IsDoc(d)
  BY <1>3, <1>5, WritableDoc
<1>7. MarkedDoc(e, d, n, "open")
  BY <1>5, <1>6, DocMarked
<1>8. Install(t, e) /\ IsDoc(e) /\ e.t = d.t /\ \A m \in Nodes : d.nodes[m] # "none" => e.nodes[m] # "none"
  BY <1>4, <1>5, <1>7 DEF MarkedDoc
<1>9. Plan(todo')
  BY <1>3, <1>4, PlansList, PlansOpen, PlanJoin
<1> QED
  BY <1>1, <1>3, <1>5, <1>6, <1>8, <1>9, EditWay

LEMMA AddLinkWay ==
    ASSUME SessionInv, WayInv, AddLink
    PROVE  WayInv'
<1>1. /\ todo # <<>> /\ Head(todo).do = "link" /\ UNCHANGED <<app, loop, work, saved, backs>>
      /\ todo' = ReturnFromLink(app.view)
  BY DEF AddLink, Doing
<1>2. PICK t : t = Head(todo).t
  OBVIOUS
<1>3. t \in Threads /\ app.view.at = "createLink" /\ Writable(t)
  BY <1>1, <1>2, PlanHead DEF WayInv, AddLink
<1>4. PICK x : Install(t, [commits[auth[t]] EXCEPT !.links = x])
  BY <1>2 DEF AddLink
<1>5. PICK d, e : d = commits[auth[t]] /\ e = [d EXCEPT !.links = x]
  OBVIOUS
<1>6. auth[t] # 0 /\ IsDoc(d)
  BY <1>3, <1>5, WritableDoc
<1>7. Install(t, e) /\ IsDoc(e) /\ e.t = d.t /\ e.nodes = d.nodes
  BY <1>4, <1>5, <1>6 DEF IsDoc
<1>8. app.view.t \in Threads
  BY <1>3 DEF WayInv, Stands, Has
<1>9. Plan(todo')
  BY <1>1, <1>8, PlansOpen DEF ReturnFromLink
<1> QED
  BY <1>1, <1>3, <1>5, <1>6, <1>7, <1>9, EditWay

LEMMA ReviseWay ==
    ASSUME SessionInv, WayInv, Revise
    PROVE  WayInv'
<1>1. todo # <<>> /\ Head(todo).do = "revise" /\ UNCHANGED <<app, loop, work, saved, backs>>
  BY DEF Revise, Doing
<1>2. PICK t : t = Head(todo).t
  OBVIOUS
<1>3. t \in Threads /\ Writable(t)
  BY <1>1, <1>2, PlanHead DEF WayInv, ThreadDos, Revise
<1>4. Install(t, commits[auth[t]]) /\ todo' = OpenThread(t, SelectedNode(app))
  BY <1>2 DEF Revise
<1>5. auth[t] # 0 /\ IsDoc(commits[auth[t]])
  BY <1>3, WritableDoc
<1>6. Plan(todo')
  BY <1>3, <1>4, PlansOpen
<1> QED
  BY <1>1, <1>3, <1>4, <1>5, <1>6, EditWay

LEMMA MarkWay ==
    ASSUME SessionInv, WayInv, Mark
    PROVE  WayInv'
<1>1. /\ todo # <<>> /\ Head(todo).do \in {"resolve", "reopen", "retract"}
      /\ UNCHANGED <<saved, backs>>
  BY DEF Mark
<1>2. PICK t, n, c : t = Head(todo).t /\ n = Head(todo).n /\ c = Source(t)
  OBVIOUS
<1>3. PICK new : new = MarkAfter(Head(todo).do, commits[c].nodes[n])
  OBVIOUS
<1>4. t \in Threads
  BY <1>1, <1>2, PlanHead DEF WayInv, ThreadDos
<1>5. \/ Fail /\ UNCHANGED repo
      \/ /\ UNCHANGED repo
         /\ todo' = OpenNode(t, n) /\ UNCHANGED <<app, work, loop>>
      \/ /\ Readable(c) /\ n \in Range(NodesOf(c)) /\ new # commits[c].nodes[n] /\ Writable(t)
         /\ Install(t, [commits[c] EXCEPT !.nodes[n] = new])
         /\ todo' = OpenNode(t, n) /\ UNCHANGED <<app, work, loop>>
  BY <1>2, <1>3 DEF Mark
<1>6. CASE Fail /\ UNCHANGED repo
  <2>1. backs = 0
    BY <1>1, NothingCounted
  <2> QED
    BY <1>1, <1>6, <2>1, FailWay
<1>7. Plan(OpenNode(t, n))
  BY <1>4, PlansOpen
<1>8. CASE UNCHANGED repo /\ todo' = OpenNode(t, n) /\ UNCHANGED <<app, work, loop>>
  <2>1. Grown /\ DocsInv' /\ RefNamesInv' /\ Stands(app.view)'
    BY <1>8 DEF WayInv, DocsInv, IsDoc, RefNamesInv, Names, repo, Grown, Stands, Has, HasNode, Source
  <2>2. Plan(todo')
    BY <1>7, <1>8
  <2> QED
    BY <1>1, <1>8, <2>1, <2>2, WriteWay
<1>9. CASE /\ Readable(c) /\ n \in Range(NodesOf(c)) /\ new # commits[c].nodes[n] /\ Writable(t)
           /\ Install(t, [commits[c] EXCEPT !.nodes[n] = new])
           /\ todo' = OpenNode(t, n) /\ UNCHANGED <<app, work, loop>>
  <2>1. PICK d, e : d = commits[c] /\ e = [d EXCEPT !.nodes[n] = new]
    OBVIOUS
  <2>2. auth[t] # 0 /\ IsDoc(d) /\ c = auth[t]
    BY <1>2, <1>4, <1>9, <2>1, WritableDoc
  <2>3. n \in Nodes
    BY <1>2, <1>4, <1>9, ReadableHas DEF HasNode
  <2>4. new # "none"
    BY <1>3, <1>9 DEF MarkAfter
  <2>5. MarkedDoc(e, d, n, new)
    BY <2>1, <2>2, <2>3, DocMarked
  <2>6. Install(t, e) /\ IsDoc(e) /\ e.t = d.t /\ \A m \in Nodes : d.nodes[m] # "none" => e.nodes[m] # "none"
    BY <1>9, <2>1, <2>4, <2>5 DEF MarkedDoc
  <2>7. Plan(todo') /\ UNCHANGED <<app, loop, work, saved, backs>>
    BY <1>1, <1>7, <1>9
  <2> QED
    BY <1>1, <1>4, <2>1, <2>2, <2>6, <2>7, EditWay
<1> QED
  BY <1>5, <1>6, <1>8, <1>9

LEMMA RefusedWay ==
    ASSUME SessionInv, WayInv, Refused
    PROVE  WayInv'
<1>1. /\ todo # <<>> /\ Head(todo).do \in {"say", "link", "revise"} /\ Fail
      /\ UNCHANGED <<repo, saved, backs>>
  BY DEF Refused
<1>2. backs = 0
  BY <1>1, NothingCounted
<1> QED
  BY <1>1, <1>2, FailWay

LEMMA GitWay ==
    ASSUME SessionInv, WayInv, GitStep
    PROVE  WayInv'
  BY ReadsWay, RestoreWay, OpenReadWay, OpenTheNodeWay, CreateWay, RefusedWay, SayWay,
     AddLinkWay, ReviseWay, MarkWay DEF GitStep

LEMMA InitWay == Init => WayInv
<1> SUFFICES ASSUME Init PROVE WayInv
  OBVIOUS
<1>1. PICK live \in {1, NThreads}, nodes \in {NoNodes, [n \in Nodes |-> IF n = 1 THEN "open" ELSE "none"]} :
          /\ commits = [t \in 1 .. live |-> Document(t, "open", nodes, {})]
          /\ auth = [t \in Threads |-> IF t <= live THEN t ELSE 0]
  BY DEF Init
<1>2. /\ pub = [t \in Threads |-> 0] /\ app = NewApp([t \in Threads |-> NoRow])
      /\ loop = "off" /\ todo = <<>> /\ work = NoWork /\ saved = NothingSaved /\ backs = 0
  BY DEF Init
<1>3. live \in Nat /\ live <= NThreads
  BY TuiAssumption
<1>4. \A t \in 1 .. live : IsDoc(commits[t]) /\ commits[t].t = t
  <2>1. nodes = [n \in Nodes |-> nodes[n]]
    BY DEF NoNodes
  <2> QED
    BY <1>1, <2>1 DEF IsDoc, Document
<1>5. DocsInv
  BY <1>1, <1>4 DEF DocsInv
<1>6. RefNamesInv
  <2>1. \A t \in Threads : t <= live => t \in 1 .. live
    BY <1>3 DEF Threads
  <2>2. \A t \in Threads : Names(auth[t], t) /\ Names(pub[t], t)
    BY <1>1, <1>2, <1>4, <2>1 DEF Names
  <2> QED
    BY <1>1, <1>2, <2>2 DEF RefNamesInv
<1>7. /\ app.view = ListView /\ app.rows = [t \in Threads |-> NoRow]
      /\ app.cache = [t \in Threads |-> NoEntry]
      /\ app.bar = FALSE /\ app.error = FALSE /\ app.confirm = FALSE
  BY <1>2 DEF NewApp
<1>8. ListNamesInv
  <2>1. IsWork(work)
    BY <1>2, NoWorkIsWork
  <2>2. \A t \in Threads : /\ app.rows[t].c = 0 /\ app.cache[t].c = 0
                           /\ work.auth[t] = 0 /\ work.rows[t].c = 0
    BY <1>2, <1>7 DEF NoRow, NoEntry, NoWork
  <2> QED
    BY <2>1, <2>2 DEF ListNamesInv, Names
<1>9. Overlays(app, loop) /\ Stands(app.view)
  BY <1>7, ListIsView DEF Overlays, Stands, Views
<1>10. PlanFrom(todo, app)
  BY <1>2, PlanNone DEF PlanFrom
<1>11. SavedInv
  BY <1>2, ListIsView DEF SavedInv, NothingSaved
<1>12. Nearer(app, loop, todo, backs)
  BY <1>2, <1>7, <1>9, NoPresses
<1> QED
  BY <1>5, <1>6, <1>8, <1>9, <1>10, <1>11, <1>12 DEF WayInv

LEMMA WayNext ==
    ASSUME "git" \notin Faults, Surroundings \cap {"delete", "diverge", "legacy", "withdraw"} = {},
           MaxBacks >= 5
    PROVE  SessionInv /\ WayInv /\ [Next]_vars => WayInv'
<1> SUFFICES ASSUME SessionInv, WayInv, [Next]_vars PROVE WayInv'
  OBVIOUS
<1>1. CASE Session
  <2>1. ~GitFails
    BY DEF GitFails
  <2>2. CASE Draw \/ TickNotDue \/ Tick \/ NothingTyped
    BY <2>2, LoopWay
  <2>3. CASE GitStep
    BY <2>3, GitWay
  <2>4. CASE User
    BY <2>4, UserWay
  <2> QED
    BY <1>1, <2>1, <2>2, <2>3, <2>4 DEF Session
<1>2. CASE Others
  BY <1>2, OthersWay
<1>3. ASSUME NEW t \in Threads \cup {0}, Run(t) PROVE WayInv'
  BY <1>3, RunWay
<1>4. CASE UNCHANGED vars
  <2>1. Grown /\ DocsInv' /\ RefNamesInv'
    BY <1>4 DEF vars, repo, WayInv, DocsInv, IsDoc, RefNamesInv, Names, Grown
  <2>2. Kept
    BY <1>4 DEF vars, repo, Kept, Has, HasNode, Source
  <2>3. UNCHANGED <<app, loop, todo, work, saved, backs>>
    BY <1>4 DEF vars
  <2> QED
    BY <2>1, <2>2, <2>3, RepoWay DEF SessionInv
<1> QED
  BY <1>1, <1>2, <1>3, <1>4 DEF Next

LEMMA WayHome == MaxBacks >= 5 /\ SessionInv /\ WayInv => BackReachesList
<1> SUFFICES ASSUME MaxBacks >= 5, SessionInv, WayInv, loop = "poll", backs = MaxBacks
             PROVE  Home
  BY DEF BackReachesList
<1>1. Presses(app) \in 0 .. Farthest
  BY PressesBound DEF WayInv, SessionInv, IsApp
<1>2. Presses(app) = 0 \/ Presses(app) + backs <= Farthest
  BY DEF WayInv, Nearer
<1>3. Presses(app) = 0
  BY <1>1, <1>2, TuiAssumption DEF Farthest
<1>4. /\ Level(app.view) \in 0 .. 4 /\ (Level(app.view) = 0 <=> app.view.at = "list")
      /\ (app.view.at \in {"createThread", "createNode", "createLink"} => Level(app.view) \in 2 .. 4)
      /\ app.confirm \in BOOLEAN /\ app.bar \in BOOLEAN /\ app.error \in BOOLEAN
      /\ app.confirm => app.view.at \in {"createThread", "createNode", "createLink"}
  BY LevelBound DEF WayInv, Overlays, SessionInv, IsApp
<1>5. ~app.confirm
  BY <1>3, <1>4 DEF Presses
<1>6. Level(app.view) = 0 /\ ~app.bar /\ ~app.error
  BY <1>3, <1>4, <1>5 DEF Presses
<1> QED
  BY <1>4, <1>5, <1>6 DEF Home

(* Going back leads to the list: wherever the user is, in a bar, a form, an *)
(* editor, under a confirmation or an error flash, five presses of "back"   *)
(* in a row, each handled before the next, end at the list without an       *)
(* overlay (INV-3 of tui/ux_invariants.rs), whatever others write and       *)
(* whatever the refreshes between the presses read.  No call fails, and no  *)
(* thread or node vanishes: a view on the way that cannot be opened leaves  *)
(* the user where he is, with a flash to dismiss.                           *)
THEOREM SessionBackReachesList ==
    ASSUME "git" \notin Faults, Surroundings \cap {"delete", "diverge", "legacy", "withdraw"} = {},
           MaxBacks >= 5
    PROVE  Spec => []BackReachesList
<1>1. Init => WayInv
  BY InitWay
<1>2. SessionInv /\ WayInv /\ [Next]_vars => WayInv'
  BY WayNext
<1>3. SessionInv /\ WayInv => BackReachesList
  BY WayHome
<1>4. Spec => []SessionInv
  BY SessionHolds
<1> QED
  BY <1>1, <1>2, <1>3, <1>4, PTL DEF Spec

=============================================================================
