--------------------------- MODULE References_proofs ---------------------------
(***************************************************************************)
(* Proofs about References, for any ids, questions and refs to begin with, *)
(* and any number of changes between two git calls of a lookup: no lookup  *)
(* guesses, and a reference keeps its meaning from one lookup to the next. *)
(***************************************************************************)
EXTENDS References, TLAPS

(* The fields of a lookup.                                                 *)
Shape(l) ==
    l = [ op |-> l.op, args |-> l.args, phase |-> l.phase, ids |-> l.ids,
          legacy |-> l.legacy, thread |-> l.thread, seen |-> l.seen, todo |-> l.todo,
          found |-> l.found, missing |-> l.missing, outcome |-> l.outcome,
          faulty |-> l.faulty, stayedThreads |-> l.stayedThreads,
          stayedNodes |-> l.stayedNodes ]

(* Ids are told from "nothing" and "several"; what stayed is there.        *)
RefsTrue ==
    /\ \A id \in DOMAIN threads \cup DOMAIN published : id \notin {None, Ambiguous}
    /\ look.stayedThreads \subseteq PresentThreads(threads, published)
    /\ look.stayedNodes \subseteq PresentNodes(threads)

AliasPhases == {"alias", "token", "aliases", "folded token"}

(* Which lookups pass through which phases, and what they have found there.*)
Phased(l) ==
    /\ l.phase \in {"threads", "published"} => l.op \in {"show", "mark", "commit-msg"}
    /\ l.phase \in AliasPhases => l.op \in {"show", "mark"}
    /\ l.phase \in {"token", "folded token"} => l.legacy # None
    /\ l.phase = "index" => l.op \in {"show", "mark", "node"}
    /\ l.phase = "nodes" => l.op \in {"mark", "open"}
    /\ l.phase = "open" => l.op = "open"
    /\ l.phase = "trailers" => l.op = "commit-msg"
    /\ l.phase \in AliasPhases \cup {"threads", "published", "index", "open", "trailers"} =>
           l.found = {}

(* The first listing has what stayed.                                      *)
ListsAuth ==
    look.phase = "published" /\ ~look.faulty =>
        \A t : <<"auth", t>> \in look.stayedThreads => t \in look.ids

(* The parts of NoGuess, in the phases in which they come to hold.         *)
BestThread ==
    look.phase = "done" /\ ~look.faulty /\ look.outcome = "thread" /\ look.legacy = None =>
        \A other \in look.stayedThreads :
            other[2] # look.thread => Rank(Ref, other[2]) > Rank(Ref, look.thread)

NodesMeant ==
    ~look.faulty =>
        \A pair \in look.found : \A other \in look.stayedNodes :
            /\ other[2] # pair[2]
            /\ look.op = "node" \/ other[1] = look.thread
            => ~IsPrefix(pair[1], other[2]) \/ pair[1] = pair[2]

Stayed(id) == \E ns \in {"auth", "pub"} : <<ns, id>> \in look.stayedThreads

WholeIdFound ==
    NamesThread /\ ~look.faulty /\ Stayed(Ref) =>
        \/ look.phase \in {"idle", "threads", "published"}
        \/ look.phase \in {"nodes", "done"} /\ look.thread = Ref

MissingGone ==
    ~look.faulty =>
        /\ \A id \in look.missing : ~Stayed(id)
        /\ look.phase = "ref published" => <<"auth", Head(look.todo)>> \notin look.stayedThreads
        /\ look.phase = "ref alias" => ~Stayed(Head(look.todo))

LookInv ==
    /\ Shape(look) /\ Phased(look) /\ RefsTrue
    /\ ListsAuth /\ BestThread /\ NodesMeant /\ WholeIdFound /\ MissingGone

-----------------------------------------------------------------------------
(* Resolution against a list.                                              *)

LEMMA OnlyFacts ==
    ASSUME NEW S, Resolved(Only(S))
    PROVE  S = {Only(S)}
  BY DEF Only, Resolved

LEMMA LeastOfFour ==
    ASSUME NEW S \in SUBSET (1..4), S # {}
    PROVE  Min(S) \in S /\ \A w \in S : Min(S) <= w
<1>1. \E v \in S : \A w \in S : v <= w
  <2>1. CASE 1 \in S
    BY <2>1
  <2>2. CASE 1 \notin S /\ 2 \in S
    BY <2>2
  <2>3. CASE 1 \notin S /\ 2 \notin S /\ 3 \in S
    BY <2>3
  <2>4. CASE 1 \notin S /\ 2 \notin S /\ 3 \notin S
    <3>1. \A w \in S : w = 4
      BY <2>4
    <3>2. 4 \in S
      BY <3>1
    <3> QED
      BY <3>1, <3>2
  <2> QED
    BY <2>1, <2>2, <2>3, <2>4
<1> QED
  BY <1>1 DEF Min

(* The answer is the only id that the reference means so well.             *)
LEMMA ResolveFacts ==
    ASSUME NEW ids, NEW input, Resolved(ResolveFromList(ids, input))
    PROVE  /\ ResolveFromList(ids, input) \in ids
           /\ Rank(StripThreadMarker(input), ResolveFromList(ids, input)) \in 1..4
           /\ \A other \in ids : other # ResolveFromList(ids, input) =>
                 Rank(StripThreadMarker(input), other)
                     > Rank(StripThreadMarker(input), ResolveFromList(ids, input))
<1> DEFINE ref == StripThreadMarker(input)
           answer == ResolveFromList(ids, input)
           ways == << { id \in ids : Exact(ref, id) }, { id \in ids : Begins(ref, id) },
                      { id \in ids : ExactFolded(ref, id) },
                      { id \in ids : BeginsFolded(ref, id) } >>
           fits == { way \in 1..4 : ways[way] # {} }
<1>1. answer = IF fits = {} THEN None ELSE Only(ways[Min(fits)])
  BY DEF ResolveFromList
<1>2. fits # {} /\ answer = Only(ways[Min(fits)])
  BY <1>1 DEF Resolved
<1>3. Min(fits) \in fits /\ \A w \in fits : Min(fits) <= w
  <2>1. fits \in SUBSET (1..4)
    OBVIOUS
  <2> HIDE DEF fits
  <2> QED
    BY <1>2, <2>1, LeastOfFour
<1>4. ways[Min(fits)] = {answer}
  BY <1>2, OnlyFacts
<1>5. \A id \in ids : Rank(ref, id) \in 1..5
      /\ \A w \in 1..4 : Rank(ref, id) = w => id \in ways[w]
  BY DEF Rank
<1>6. \A id : \A w \in 1..4 : id \in ways[w] => id \in ids /\ Rank(ref, id) <= w
  BY DEF Rank
<1>7. \A w \in 1..4 : ways[w] # {} => w \in fits
  OBVIOUS
<1>8. fits \subseteq 1..4
  OBVIOUS
<1> HIDE DEF ways, fits, ref, answer
<1>9. Min(fits) \in 1..4 /\ answer \in ids /\ Rank(ref, answer) <= Min(fits)
      /\ Rank(ref, answer) \in 1..5
  <2>1. Min(fits) \in 1..4
    BY <1>3, <1>8
  <2>2. answer \in ways[Min(fits)]
    BY <1>4
  <2>3. answer \in ids /\ Rank(ref, answer) <= Min(fits)
    BY <1>6, <2>1, <2>2
  <2> QED
    BY <1>5, <2>1, <2>3
<1>10. ASSUME NEW other \in ids, other # answer
       PROVE  Rank(ref, other) > Rank(ref, answer)
  <2>1. CASE Rank(ref, other) = 5
    BY <1>9, <2>1
  <2>2. CASE Rank(ref, other) # 5
    <3>1. Rank(ref, other) \in 1..4 /\ other \in ways[Rank(ref, other)]
      BY <1>5, <2>2
    <3>2. Min(fits) <= Rank(ref, other)
      BY <1>3, <1>7, <3>1
    <3>3. Rank(ref, other) # Min(fits)
      BY <1>4, <1>10, <3>1
    <3> QED
      BY <1>9, <3>1, <3>2, <3>3
  <2> QED
    BY <2>1, <2>2
<1>11. answer \in ids /\ Rank(ref, answer) \in 1..4
  BY <1>9
<1> QED
  BY <1>10, <1>11 DEF ref, answer

LEMMA ExactFound ==
    ASSUME NEW ids, NEW input, StripThreadMarker(input) \in ids
    PROVE  ResolveFromList(ids, input) = StripThreadMarker(input)
<1> DEFINE ref == StripThreadMarker(input)
           ways == << { id \in ids : Exact(ref, id) }, { id \in ids : Begins(ref, id) },
                      { id \in ids : ExactFolded(ref, id) },
                      { id \in ids : BeginsFolded(ref, id) } >>
           fits == { way \in 1..4 : ways[way] # {} }
<1>1. ways[1] = {ref}
  BY DEF Exact
<1>2. 1 \in fits /\ fits \in SUBSET (1..4)
  BY <1>1
<1>3. Min(fits) = 1
  <2> HIDE DEF fits, ways
  <2>1. Min(fits) \in fits /\ Min(fits) <= 1
    BY <1>2, LeastOfFour
  <2>2. Min(fits) \in 1..4
    BY <1>2, <2>1
  <2> QED
    BY <2>1, <2>2
<1>4. ResolveFromList(ids, input) = Only(ways[1])
  BY <1>2, <1>3 DEF ResolveFromList
<1>5. Only({ref}) = ref
  BY DEF Only
<1> QED
  BY <1>1, <1>4, <1>5

(* A node reference is a whole id, or the beginning of that node alone.    *)
LEMMA IndexResolveFacts ==
    ASSUME NEW index, NEW ref, Resolved(IndexResolve(index, ref))
    PROVE  \/ IndexResolve(index, ref)[2] = ref
           \/ \A pair \in index :
                 IsPrefix(ref, pair[2]) => pair = IndexResolve(index, ref)
<1> DEFINE exact == { <<t, ref>> : t \in OwnersOf(index, ref) }
           fits == { pair \in index : IsPrefix(ref, pair[2]) }
           answer == IndexResolve(index, ref)
<1>1. CASE exact # {}
  <2>1. answer = Only(exact)
    BY <1>1 DEF IndexResolve
  <2>2. answer \in exact
    BY <2>1, OnlyFacts
  <2> QED
    BY <2>2
<1>2. CASE exact = {}
  <2>1. answer = Only(fits)
    BY <1>2 DEF IndexResolve, Resolved
  <2>2. fits = {answer}
    BY <2>1, OnlyFacts
  <2> QED
    BY <2>2
<1> QED
  BY <1>1, <1>2

LEMMA ResolveNodeFacts ==
    ASSUME NEW nodes, NEW ref, Resolved(ResolveNode(nodes, ref))
    PROVE  /\ ResolveNode(nodes, ref) \in nodes
           /\ \/ ResolveNode(nodes, ref) = ref
              \/ \A n \in nodes : IsPrefix(ref, n) => n = ResolveNode(nodes, ref)
<1> DEFINE fits == { n \in nodes : IsPrefix(ref, n) }
           answer == ResolveNode(nodes, ref)
<1>1. CASE ref \notin nodes
  <2>1. answer = Only(fits)
    BY <1>1 DEF ResolveNode, Resolved
  <2>2. fits = {answer}
    BY <2>1, OnlyFacts
  <2> QED
    BY <2>2
<1>2. CASE ref \in nodes
  BY <1>2 DEF ResolveNode
<1> QED
  BY <1>1, <1>2

-----------------------------------------------------------------------------
(* The steps of a lookup.                                                  *)

(* What a step of the lookup leaves alone.                                 *)
SameRefs ==
    /\ UNCHANGED <<threads, published>>
    /\ look'.stayedThreads = look.stayedThreads /\ look'.stayedNodes = look.stayedNodes

SameQuestion == look'.op = look.op /\ look'.args = look.args

LEMMA FaultyStep ==
    ASSUME LookInv, SameRefs, Shape(look'), Phased(look'), look'.faulty = TRUE
    PROVE  LookInv'
<1>1. RefsTrue'
  BY DEF LookInv, RefsTrue, SameRefs
<1>2. ListsAuth' /\ BestThread' /\ NodesMeant' /\ WholeIdFound' /\ MissingGone'
  BY DEF ListsAuth, BestThread, NodesMeant, WholeIdFound, MissingGone
<1> QED
  BY <1>1, <1>2 DEF LookInv

LEMMA GoFailingFacts ==
    ASSUME NEW step, Shape(step), Phased(step), GoFailing(step),
           step.stayedThreads = look.stayedThreads, step.stayedNodes = look.stayedNodes
    PROVE  SameRefs /\ Shape(look') /\ Phased(look') /\ look'.faulty = TRUE
<1>1. look' = [step EXCEPT !.faulty = TRUE] /\ UNCHANGED <<threads, published>>
  BY DEF GoFailing
<1>2. /\ Shape(look') /\ look'.faulty = TRUE
      /\ look'.op = step.op /\ look'.phase = step.phase /\ look'.legacy = step.legacy
      /\ look'.found = step.found
      /\ look'.stayedThreads = step.stayedThreads /\ look'.stayedNodes = step.stayedNodes
  BY <1>1 DEF Shape
<1>3. Phased(look')
  BY <1>2 DEF Phased
<1> QED
  BY <1>1, <1>2, <1>3 DEF SameRefs

(* What others keep of the question keeps the reference.                   *)
LEMMA SameRef ==
    ASSUME SameQuestion
    PROVE  Ref' = Ref /\ NamesThread' = NamesThread
  BY DEF SameQuestion, Ref, NamesThread

LEMMA AskInv ==
    ASSUME LookInv, Ask
    PROVE  LookInv'
<1>1. PICK q \in Questions :
          look' = [Idle EXCEPT
                 !.op = q.op, !.args = q.args, !.phase = FirstPhase(q.op),
                 !.thread = IF q.op = "open" THEN q.args[1] ELSE None,
                 !.todo = IF q.op = "open" THEN Tail(q.args) ELSE <<>>,
                 !.stayedThreads = PresentThreads(threads, published),
                 !.stayedNodes = PresentNodes(threads)]
  BY DEF Ask
<1>2. q.op \in Ops
  BY ReferencesAssumption
<1>3. \/ FirstPhase(q.op) = "threads" /\ q.op \in {"show", "mark"}
      \/ FirstPhase(q.op) = "index" /\ q.op = "node"
      \/ FirstPhase(q.op) = "open" /\ q.op = "open"
      \/ FirstPhase(q.op) = "trailers" /\ q.op = "commit-msg"
  BY <1>2 DEF FirstPhase, Ops
<1>4. /\ look'.op = q.op /\ look'.phase = FirstPhase(q.op) /\ look'.found = {}
      /\ look'.missing = {} /\ look'.stayedThreads = PresentThreads(threads, published)
      /\ look'.stayedNodes = PresentNodes(threads)
      /\ Shape(look')
  BY <1>1 DEF Idle, Shape
<1>5. UNCHANGED <<threads, published>>
  BY DEF Ask
<1>6. Phased(look')
  BY <1>3, <1>4 DEF Phased, AliasPhases
<1>7. RefsTrue'
  BY <1>4, <1>5 DEF LookInv, RefsTrue
<1>8. ListsAuth' /\ BestThread' /\ NodesMeant' /\ MissingGone'
  BY <1>3, <1>4 DEF ListsAuth, BestThread, NodesMeant, MissingGone
<1>9. WholeIdFound'
  BY <1>3, <1>4 DEF WholeIdFound, NamesThread
<1> QED
  BY <1>4, <1>6, <1>7, <1>8, <1>9 DEF LookInv

LEMMA ListThreadsInv ==
    ASSUME LookInv, ListThreads
    PROVE  LookInv'
<1> USE DEF LookInv
<1>1. look.phase = "threads" /\ look.op \in {"show", "mark", "commit-msg"} /\ look.found = {}
  BY DEF ListThreads, Phased
<1>2. CASE Go([look EXCEPT !.ids = DOMAIN threads, !.phase = "published"])
  <2>1. /\ SameRefs /\ SameQuestion /\ Shape(look')
        /\ look'.phase = "published" /\ look'.ids = DOMAIN threads
        /\ look'.found = {} /\ look'.missing = look.missing /\ look'.faulty = look.faulty
    BY <1>1, <1>2 DEF Go, Shape, SameRefs, SameQuestion
  <2>2. Phased(look')
    BY <1>1, <2>1 DEF Phased, AliasPhases, SameQuestion
  <2>3. RefsTrue'
    BY <2>1 DEF RefsTrue, SameRefs
  <2>4. ListsAuth'
    BY <2>1 DEF ListsAuth, RefsTrue, SameRefs, PresentThreads
  <2>5. BestThread' /\ NodesMeant' /\ WholeIdFound'
    BY <2>1 DEF BestThread, NodesMeant, WholeIdFound
  <2>6. MissingGone'
    BY <2>1 DEF MissingGone, Stayed, SameRefs
  <2> QED
    BY <2>1, <2>2, <2>3, <2>4, <2>5, <2>6
<1>3. CASE GoFailing([look EXCEPT !.phase = "published"])
  <2> DEFINE step == [look EXCEPT !.phase = "published"]
  <2>1. /\ Shape(step) /\ step.phase = "published" /\ step.op = look.op /\ step.found = {}
        /\ step.stayedThreads = look.stayedThreads /\ step.stayedNodes = look.stayedNodes
    BY <1>1 DEF Shape
  <2>2. Phased(step)
    BY <1>1, <2>1 DEF Phased, AliasPhases
  <2> HIDE DEF step
  <2> QED
    BY <1>3, <2>1, <2>2, GoFailingFacts, FaultyStep DEF step
<1> QED
  BY <1>2, <1>3 DEF ListThreads

(* Once both namespaces are listed: the thread that a whole id names, or    *)
(* else the one thread that the reference means so well.                   *)
LEMMA GotThreadFacts ==
    ASSUME Shape(look), look.op \in {"show", "mark"}, NEW t, NEW step,
           step = GotThread(t)
    PROVE  /\ Shape(step)
           /\ step.op = look.op /\ step.args = look.args /\ step.thread = t
           /\ \/ step.phase = "nodes" /\ step.op = "mark" /\ Len(step.args) > 1
              \/ /\ step.phase = "done" /\ step.outcome = "thread" /\ step.todo = look.todo
                 /\ ~(step.op = "mark" /\ Len(step.args) > 1)
           /\ step.legacy = look.legacy /\ step.found = look.found /\ step.ids = look.ids
           /\ step.missing = look.missing /\ step.faulty = look.faulty
           /\ step.stayedThreads = look.stayedThreads
           /\ step.stayedNodes = look.stayedNodes
<1>1. CASE look.op = "mark" /\ Len(look.args) > 1
  <2>1. step = [look EXCEPT !.thread = t, !.todo = Tail(look.args), !.phase = "nodes"]
    BY <1>1 DEF GotThread
  <2> QED
    BY <1>1, <2>1 DEF Shape
<1>2. CASE ~(look.op = "mark" /\ Len(look.args) > 1)
  <2>1. step = [[look EXCEPT !.phase = "done", !.outcome = "thread"] EXCEPT !.thread = t]
    BY <1>2 DEF GotThread, Finish
  <2> QED
    BY <1>2, <2>1 DEF Shape
<1> QED
  BY <1>1, <1>2

LEMMA AfterListingFacts ==
    ASSUME Shape(look), Phased(look), look.phase = "published", NEW pub, NEW step,
           step = AfterListing(pub)
    PROVE  /\ Shape(step) /\ Phased(step)
           /\ step.op = look.op /\ step.args = look.args
           /\ step.missing = look.missing /\ step.faulty = look.faulty
           /\ step.stayedThreads = look.stayedThreads
           /\ step.stayedNodes = look.stayedNodes
           /\ \A pair \in step.found : pair[1] = pair[2]
           /\ \/ step.op = "commit-msg" /\ step.phase = "done" /\ step.outcome = "warned"
              \/ /\ Resolved(ResolveFromList(look.ids \cup pub, look.args[1]))
                 /\ step.thread = ResolveFromList(look.ids \cup pub, look.args[1])
                 /\ \/ step.phase = "nodes"
                    \/ step.phase = "done" /\ step.outcome = "thread"
              \/ /\ ~Resolved(ResolveFromList(look.ids \cup pub, look.args[1]))
                 /\ step.phase = "alias"
<1> DEFINE ids == look.ids \cup pub
           answer == ResolveFromList(ids, look.args[1])
<1>1. look.op \in {"show", "mark", "commit-msg"} /\ look.found = {}
  BY DEF Phased
<1>2. CASE look.op = "commit-msg"
  <2> DEFINE words == { word \in ToSet(look.args[2]) :
                           word \in (IF Has(word, "-") THEN Aliases ELSE ids) }
             pairs == { <<word, word>> : word \in words }
  <2>1. step = [[look EXCEPT !.phase = "done", !.outcome = "warned"] EXCEPT !.found = pairs]
    BY <1>2 DEF AfterListing, Suggest, Finish
  <2>2. \A pair \in pairs : pair[1] = pair[2]
    OBVIOUS
  <2> HIDE DEF pairs
  <2>3. /\ Shape(step) /\ step.phase = "done" /\ step.outcome = "warned"
        /\ step.op = look.op /\ step.args = look.args /\ step.found = pairs
        /\ step.missing = look.missing /\ step.faulty = look.faulty
        /\ step.stayedThreads = look.stayedThreads /\ step.stayedNodes = look.stayedNodes
    BY <2>1 DEF Shape
  <2>4. Phased(step)
    BY <2>3 DEF Phased, AliasPhases
  <2> QED
    BY <1>2, <2>2, <2>3, <2>4
<1>3. CASE look.op # "commit-msg" /\ Resolved(answer)
  <2>1. step = [GotThread(answer) EXCEPT !.ids = ids]
    BY <1>3 DEF AfterListing
  <2>2. PICK got : got = GotThread(answer)
    OBVIOUS
  <2>3. step = [got EXCEPT !.ids = ids]
    BY <2>1, <2>2
  <2> HIDE DEF ids, answer
  <2>4. /\ Shape(got)
        /\ got.op = look.op /\ got.args = look.args /\ got.thread = answer
        /\ \/ got.phase = "nodes" /\ got.op = "mark"
           \/ got.phase = "done" /\ got.outcome = "thread"
        /\ got.legacy = look.legacy /\ got.found = look.found
        /\ got.missing = look.missing /\ got.faulty = look.faulty
        /\ got.stayedThreads = look.stayedThreads /\ got.stayedNodes = look.stayedNodes
    BY <1>1, <1>3, <2>2, GotThreadFacts
  <2>5. /\ Shape(step)
        /\ step.op = got.op /\ step.args = got.args /\ step.thread = got.thread
        /\ step.phase = got.phase /\ step.outcome = got.outcome
        /\ step.legacy = got.legacy /\ step.found = got.found
        /\ step.missing = got.missing /\ step.faulty = got.faulty
        /\ step.stayedThreads = got.stayedThreads /\ step.stayedNodes = got.stayedNodes
    BY <2>3, <2>4 DEF Shape
  <2>6. Phased(step)
    BY <1>1, <2>4, <2>5 DEF Phased, AliasPhases
  <2> QED
    BY <1>1, <1>3, <2>4, <2>5, <2>6 DEF answer, ids
<1>4. CASE look.op # "commit-msg" /\ ~Resolved(answer)
  <2>1. step = [look EXCEPT !.ids = ids, !.phase = "alias"]
    BY <1>4 DEF AfterListing
  <2> HIDE DEF ids
  <2>2. /\ Shape(step) /\ step.phase = "alias"
        /\ step.op = look.op /\ step.args = look.args /\ step.found = look.found
        /\ step.missing = look.missing /\ step.faulty = look.faulty
        /\ step.stayedThreads = look.stayedThreads /\ step.stayedNodes = look.stayedNodes
    BY <2>1 DEF Shape
  <2>3. Phased(step)
    BY <1>1, <1>4, <2>2 DEF Phased, AliasPhases
  <2> QED
    BY <1>1, <1>4, <2>2, <2>3 DEF ids
<1> QED
  BY <1>2, <1>3, <1>4

LEMMA ListPublishedInv ==
    ASSUME LookInv, ListPublished
    PROVE  LookInv'
<1> USE DEF LookInv
<1>1. look.phase = "published"
  BY DEF ListPublished
<1>2. CASE GoFailing(AfterListing({}))
  <2>1. PICK step : step = AfterListing({})
    OBVIOUS
  <2>2. GoFailing(step)
    BY <1>2, <2>1
  <2> QED
    BY <1>1, <2>1, <2>2, AfterListingFacts, GoFailingFacts, FaultyStep
<1>3. CASE Go(AfterListing(DOMAIN published))
  <2> DEFINE ids == look.ids \cup DOMAIN published
             answer == ResolveFromList(ids, look.args[1])
  <2>1. look' = AfterListing(DOMAIN published) /\ UNCHANGED <<threads, published>>
    BY <1>3 DEF Go
  <2>2. /\ Shape(look') /\ Phased(look')
        /\ look'.op = look.op /\ look'.args = look.args
        /\ look'.missing = look.missing /\ look'.faulty = look.faulty
        /\ look'.stayedThreads = look.stayedThreads /\ look'.stayedNodes = look.stayedNodes
        /\ \A pair \in look'.found : pair[1] = pair[2]
        /\ \/ look'.op = "commit-msg" /\ look'.phase = "done" /\ look'.outcome = "warned"
           \/ /\ Resolved(answer) /\ look'.thread = answer
              /\ \/ look'.phase = "nodes"
                 \/ look'.phase = "done" /\ look'.outcome = "thread"
           \/ ~Resolved(answer) /\ look'.phase = "alias"
    BY ZenonT(30), <1>1, <2>1, AfterListingFacts
  <2> HIDE DEF answer
  <2>3. RefsTrue'
    BY <2>1, <2>2 DEF RefsTrue
  <2>4. ~look.faulty => \A other \in look.stayedThreads : other[2] \in ids
    BY <1>1 DEF ListsAuth, RefsTrue, PresentThreads
  <2> HIDE DEF ids
  <2>5. ListsAuth'
    BY <2>2 DEF ListsAuth
  <2>6. Ref' = Ref /\ NamesThread' = NamesThread
    BY <2>2, SameRef DEF SameQuestion
  <2>7. BestThread'
    <3> SUFFICES ASSUME look'.phase = "done", ~look.faulty, look'.outcome = "thread",
                        NEW other \in look.stayedThreads, other[2] # look'.thread
                 PROVE  Rank(Ref, other[2]) > Rank(Ref, look'.thread)
      BY <2>2, <2>6 DEF BestThread
    <3>1. Resolved(answer) /\ look'.thread = answer
      BY <2>2
    <3>2. other[2] \in ids /\ other[2] # answer
      BY <2>4, <3>1
    <3> QED
      BY <3>1, <3>2, ResolveFacts DEF Ref, answer
  <2>8. NodesMeant'
    BY <2>2 DEF NodesMeant
  <2>9. WholeIdFound'
    <3> SUFFICES ASSUME look.op \in {"show", "mark"}, ~look.faulty, Stayed(Ref)
                 PROVE  look'.phase \in {"nodes", "done"} /\ look'.thread = Ref
      BY <2>2, <2>6 DEF WholeIdFound, NamesThread, Stayed
    <3>1. Ref \in ids
      BY <2>4 DEF Stayed
    <3>2. Ref \in DOMAIN threads \cup DOMAIN published
      BY DEF Stayed, RefsTrue, PresentThreads
    <3>3. Ref \notin {None, Ambiguous}
      BY <3>2 DEF RefsTrue
    <3>4. answer = Ref
      BY <3>1, ExactFound DEF answer, Ref
    <3>5. Resolved(answer)
      BY <3>3, <3>4 DEF Resolved
    <3> QED
      BY <2>2, <3>4, <3>5
  <2>10. MissingGone'
    BY <2>2 DEF MissingGone, Stayed
  <2> QED
    BY <2>2, <2>3, <2>5, <2>7, <2>8, <2>9, <2>10
<1> QED
  BY <1>2, <1>3 DEF ListPublished

(* The aliases are asked only for what is no whole id of a thread.         *)
LEMMA AliasStep ==
    ASSUME LookInv, look.phase \in AliasPhases, SameRefs, SameQuestion,
           Shape(look'), Phased(look'),
           look'.found = look.found, look'.missing = look.missing,
           look'.faulty = look.faulty,
           \/ look'.phase \in AliasPhases \cup {"index", "nodes"}
           \/ look'.phase = "done" /\ look'.legacy # None
    PROVE  LookInv'
<1> USE DEF LookInv
<1>1. RefsTrue'
  BY DEF RefsTrue, SameRefs
<1>2. ListsAuth' /\ BestThread'
  BY DEF ListsAuth, BestThread, AliasPhases
<1>3. look.found = {}
  BY DEF Phased
<1>4. NodesMeant'
  BY <1>3 DEF NodesMeant
<1>5. ~(NamesThread /\ ~look.faulty /\ Stayed(Ref))
  BY DEF WholeIdFound, AliasPhases
<1>6. WholeIdFound'
  BY <1>5, SameRef DEF WholeIdFound, Stayed, SameRefs
<1>7. MissingGone'
  BY DEF MissingGone, Stayed, SameRefs, AliasPhases
<1> QED
  BY <1>1, <1>2, <1>4, <1>6, <1>7

LEMMA AliasRefInv ==
    ASSUME LookInv, AliasRef
    PROVE  LookInv'
<1>1. look.phase = "alias" /\ look.op \in {"show", "mark"} /\ look.found = {}
      /\ Shape(look)
  BY DEF LookInv, AliasRef, Phased, AliasPhases
<1>2. CASE Ref \in Aliases
  <2>1. Go([look EXCEPT !.legacy = Ref, !.phase = "token"]) /\ Ref # None
    BY <1>2, ReferencesAssumption DEF AliasRef
  <2>2. /\ SameRefs /\ SameQuestion /\ Shape(look')
        /\ look'.phase = "token" /\ look'.legacy = Ref
        /\ look'.found = look.found /\ look'.missing = look.missing
        /\ look'.faulty = look.faulty
    BY <1>1, <2>1 DEF Go, Shape, SameRefs, SameQuestion
  <2>3. Phased(look')
    BY <1>1, <2>1, <2>2 DEF Phased, AliasPhases, SameQuestion
  <2> QED
    BY <1>1, <2>2, <2>3, AliasStep DEF AliasPhases
<1>3. CASE Ref \notin Aliases
  <2>1. Go([look EXCEPT !.phase = "aliases"])
    BY <1>3 DEF AliasRef
  <2>2. /\ SameRefs /\ SameQuestion /\ Shape(look')
        /\ look'.phase = "aliases"
        /\ look'.found = look.found /\ look'.missing = look.missing
        /\ look'.faulty = look.faulty
    BY <1>1, <2>1 DEF Go, Shape, SameRefs, SameQuestion
  <2>3. Phased(look')
    BY <1>1, <2>2 DEF Phased, AliasPhases, SameQuestion
  <2> QED
    BY <1>1, <2>2, <2>3, AliasStep DEF AliasPhases
<1> QED
  BY <1>2, <1>3

(* A lookup that goes on without a thread.                                 *)
LEMMA OnwardFacts ==
    ASSUME Shape(look), Phased(look), look.phase \in AliasPhases,
           NEW phase \in {"aliases", "index"}, NEW step, step = [look EXCEPT !.phase = phase]
    PROVE  /\ Shape(step) /\ Phased(step) /\ step.phase = phase
           /\ step.op = look.op /\ step.args = look.args /\ step.legacy = look.legacy
           /\ step.found = look.found /\ step.missing = look.missing
           /\ step.faulty = look.faulty
           /\ step.stayedThreads = look.stayedThreads
           /\ step.stayedNodes = look.stayedNodes
<1>1. /\ Shape(step) /\ step.phase = phase
      /\ step.op = look.op /\ step.args = look.args /\ step.legacy = look.legacy
      /\ step.found = look.found /\ step.missing = look.missing
      /\ step.faulty = look.faulty
      /\ step.stayedThreads = look.stayedThreads /\ step.stayedNodes = look.stayedNodes
  BY DEF Shape
<1>2. Phased(step)
  BY <1>1 DEF Phased, AliasPhases
<1> QED
  BY <1>1, <1>2

LEMMA CanonicaliseInv ==
    ASSUME LookInv, Canonicalise
    PROVE  LookInv'
<1> DEFINE token == BareTokenFor(look.legacy)
<1>1. /\ look.phase \in {"token", "folded token"} /\ look.op \in {"show", "mark"}
      /\ look.legacy # None /\ look.found = {}
      /\ Shape(look) /\ Phased(look)
  BY DEF LookInv, Canonicalise, Phased, AliasPhases
<1>2. look.phase \in AliasPhases
  BY <1>1 DEF AliasPhases
<1>3. PICK absent : absent = (IF look.phase = "token" THEN [look EXCEPT !.phase = "aliases"]
                              ELSE NoThread)
  OBVIOUS
<1>4. /\ Shape(absent) /\ Phased(absent) /\ absent.phase \in {"aliases", "index"}
      /\ absent.op = look.op /\ absent.args = look.args
      /\ absent.found = look.found /\ absent.missing = look.missing
      /\ absent.faulty = look.faulty
      /\ absent.stayedThreads = look.stayedThreads
      /\ absent.stayedNodes = look.stayedNodes
  <2>1. PICK phase \in {"aliases", "index"} : absent = [look EXCEPT !.phase = phase]
    BY <1>3 DEF NoThread
  <2> QED
    BY <1>1, <1>2, <2>1, OnwardFacts
<1>5. Canonicalise =>
          Go(IF token \in DOMAIN threads THEN GotThread(token) ELSE absent)
          \/ GoFailing(absent)
  BY <1>3 DEF Canonicalise
<1>6. CASE GoFailing(absent)
  BY <1>4, <1>6, GoFailingFacts, FaultyStep
<1>7. CASE Go(absent)
  <2>1. SameRefs /\ SameQuestion /\ look' = absent
    BY <1>4, <1>7 DEF Go, SameRefs, SameQuestion
  <2> QED
    BY <1>2, <1>4, <2>1, AliasStep DEF AliasPhases
<1>8. CASE Go(GotThread(token))
  <2>1. look' = GotThread(token) /\ UNCHANGED <<threads, published>>
    BY <1>8 DEF Go
  <2>2. PICK step : step = GotThread(token)
    OBVIOUS
  <2>3. Shape(look) /\ look.op \in {"show", "mark"}
    BY <1>1
  <2> HIDE DEF token
  <2>4. /\ Shape(step)
        /\ step.op = look.op /\ step.args = look.args
        /\ \/ step.phase = "nodes" /\ step.op = "mark"
           \/ step.phase = "done" /\ step.outcome = "thread"
        /\ step.legacy = look.legacy /\ step.found = look.found
        /\ step.missing = look.missing /\ step.faulty = look.faulty
        /\ step.stayedThreads = look.stayedThreads
        /\ step.stayedNodes = look.stayedNodes
    BY <2>2, <2>3, GotThreadFacts
  <2>5. Phased(step)
    BY <2>4 DEF Phased, AliasPhases
  <2>6. look' = step
    BY <2>1, <2>2
  <2> QED
    BY <1>1, <1>2, <2>1, <2>4, <2>5, <2>6, AliasStep DEF SameRefs, SameQuestion
<1> QED
  BY <1>5, <1>6, <1>7, <1>8

LEMMA AliasListInv ==
    ASSUME LookInv, AliasList
    PROVE  LookInv'
<1> DEFINE hits == { a \in Aliases : ExactFolded(Ref, a) }
<1>1. /\ look.phase = "aliases" /\ look.op \in {"show", "mark"} /\ look.found = {}
      /\ Shape(look) /\ Phased(look) /\ look.phase \in AliasPhases
  BY DEF LookInv, AliasList, Phased, AliasPhases
<1>2. PICK absent : absent = NoThread
  OBVIOUS
<1>3. /\ Shape(absent) /\ Phased(absent) /\ absent.phase = "index"
      /\ absent.op = look.op /\ absent.args = look.args
      /\ absent.found = look.found /\ absent.missing = look.missing
      /\ absent.faulty = look.faulty
      /\ absent.stayedThreads = look.stayedThreads
      /\ absent.stayedNodes = look.stayedNodes
  BY <1>1, <1>2, OnwardFacts DEF NoThread
<1>4. CASE GoFailing(absent)
  BY <1>3, <1>4, GoFailingFacts, FaultyStep
<1>5. CASE Go(absent)
  <2>1. SameRefs /\ SameQuestion /\ look' = absent
    BY <1>3, <1>5 DEF Go, SameRefs, SameQuestion
  <2> QED
    BY <1>1, <1>3, <2>1, AliasStep
<1>6. CASE Resolved(Only(hits))
           /\ Go([look EXCEPT !.legacy = Only(hits), !.phase = "folded token"])
  <2>1. Only(hits) # None
    BY <1>6 DEF Resolved
  <2> HIDE DEF hits
  <2>2. /\ SameRefs /\ SameQuestion /\ Shape(look')
        /\ look'.phase = "folded token" /\ look'.legacy = Only(hits)
        /\ look'.found = look.found /\ look'.missing = look.missing
        /\ look'.faulty = look.faulty
    BY <1>1, <1>6 DEF Go, Shape, SameRefs, SameQuestion
  <2>3. Phased(look')
    BY <1>1, <2>1, <2>2 DEF Phased, AliasPhases, SameQuestion
  <2> QED
    BY <1>1, <2>2, <2>3, AliasStep DEF AliasPhases
<1> QED
  BY <1>2, <1>4, <1>5, <1>6 DEF AliasList

(* A lookup that ends without having named a thread.                       *)
LEMMA EndStep ==
    ASSUME LookInv, SameRefs, NEW outcome, outcome # "thread",
           look' = [look EXCEPT !.phase = "done", !.outcome = outcome],
           look.phase \in {"nodes", "done"} \/ ~(NamesThread /\ ~look.faulty /\ Stayed(Ref))
    PROVE  LookInv'
<1> USE DEF LookInv
<1>1. /\ Shape(look') /\ look'.phase = "done" /\ look'.outcome = outcome
      /\ SameQuestion /\ look'.thread = look.thread
      /\ look'.found = look.found /\ look'.missing = look.missing
      /\ look'.faulty = look.faulty
  BY DEF Shape, SameQuestion
<1>2. RefsTrue' /\ Phased(look')
  BY <1>1 DEF RefsTrue, SameRefs, Phased, AliasPhases
<1>3. ListsAuth' /\ BestThread'
  BY <1>1 DEF ListsAuth, BestThread
<1>4. NodesMeant'
  BY <1>1 DEF NodesMeant, SameRefs, SameQuestion
<1>5. WholeIdFound'
  BY <1>1, SameRef DEF WholeIdFound, Stayed, SameRefs
<1>6. MissingGone'
  BY <1>1 DEF MissingGone, Stayed, SameRefs
<1> QED
  BY <1>1, <1>2, <1>3, <1>4, <1>5, <1>6

(* What the index of all nodes makes of a question.                        *)
LEMMA AfterIndexFacts ==
    ASSUME Shape(look), Phased(look), look.phase = "index", NEW index, NEW step,
           step = AfterIndex(index)
    PROVE  /\ Shape(step) /\ Phased(step)
           /\ step.op = look.op /\ step.args = look.args
           /\ step.missing = look.missing /\ step.faulty = look.faulty
           /\ step.stayedThreads = look.stayedThreads
           /\ step.stayedNodes = look.stayedNodes
           /\ \/ step.phase \in {"nodes", "replay"}
              \/ step.phase = "done" /\ step.outcome # "thread"
           /\ \A pair \in step.found :
                 \/ pair[1] = pair[2]
                 \/ \A other \in index : IsPrefix(pair[1], other[2]) => other[2] = pair[2]
<1>1. look.found = {}
  BY DEF Phased
<1>2. CASE step = [look EXCEPT !.phase = "done", !.outcome = "error"]
  <2>1. /\ Shape(step) /\ step.phase = "done" /\ step.outcome = "error"
        /\ step.op = look.op /\ step.args = look.args /\ step.found = {}
        /\ step.missing = look.missing /\ step.faulty = look.faulty
        /\ step.stayedThreads = look.stayedThreads /\ step.stayedNodes = look.stayedNodes
    BY <1>1, <1>2 DEF Shape
  <2> QED
    BY <2>1 DEF Phased, AliasPhases
<1>3. CASE look.op = "show"
  <2> DEFINE owners == OwnersOf(index, Ref)
             outcome == IF Resolved(Only(owners)) THEN "redirect" ELSE "error"
  <2>1. CASE Resolved(Only(owners))
    <3>1. step = [[look EXCEPT !.phase = "done", !.outcome = "redirect"]
                     EXCEPT !.thread = Only(owners), !.found = {<<Ref, Ref>>}]
      BY <1>3, <2>1 DEF AfterIndex, Redirect, Finish
    <3> HIDE DEF owners
    <3>2. /\ Shape(step) /\ step.phase = "done" /\ step.outcome = "redirect"
          /\ step.op = look.op /\ step.args = look.args /\ step.found = {<<Ref, Ref>>}
          /\ step.missing = look.missing /\ step.faulty = look.faulty
          /\ step.stayedThreads = look.stayedThreads
          /\ step.stayedNodes = look.stayedNodes
      BY <3>1 DEF Shape
    <3>3. Phased(step)
      BY <3>2 DEF Phased, AliasPhases
    <3> QED
      BY <3>2, <3>3
  <2>2. CASE ~Resolved(Only(owners))
    BY <1>2, <1>3, <2>2 DEF AfterIndex, Redirect, Finish
  <2> QED
    BY <2>1, <2>2
<1>4. CASE look.op = "mark"
  <2> DEFINE answers == { IndexResolve(index, look.args[i]) : i \in DOMAIN look.args }
             owners == { a[1] : a \in answers }
             good == (\A a \in answers : Resolved(a)) /\ Resolved(Only(owners))
  <2>1. CASE good
    <3>1. step = [look EXCEPT !.thread = Only(owners), !.todo = look.args, !.phase = "nodes"]
      BY <1>4, <2>1 DEF AfterIndex, Targets
    <3> HIDE DEF owners, good
    <3>2. /\ Shape(step) /\ step.phase = "nodes"
          /\ step.op = look.op /\ step.args = look.args /\ step.found = {}
          /\ step.missing = look.missing /\ step.faulty = look.faulty
          /\ step.stayedThreads = look.stayedThreads
          /\ step.stayedNodes = look.stayedNodes
      BY <1>1, <3>1 DEF Shape
    <3>3. Phased(step)
      BY <1>4, <3>2 DEF Phased, AliasPhases
    <3> QED
      BY <3>2, <3>3
  <2>2. CASE ~good
    BY <1>2, <1>4, <2>2 DEF AfterIndex, Targets, Finish
  <2> QED
    BY <2>1, <2>2
<1>5. CASE look.op = "node"
  <2> DEFINE ref == look.args[1]
             answer == IndexResolve(index, ref)
  <2>1. CASE Resolved(answer)
    <3>1. step = [look EXCEPT !.thread = answer[1], !.found = {<<ref, answer[2]>>},
                              !.phase = "replay"]
      BY <1>5, <2>1 DEF AfterIndex, Node
    <3>2. \/ answer[2] = ref
          \/ \A other \in index : IsPrefix(ref, other[2]) => other = answer
      BY <2>1, IndexResolveFacts
    <3> HIDE DEF answer
    <3>3. /\ Shape(step) /\ step.phase = "replay"
          /\ step.op = look.op /\ step.args = look.args
          /\ step.found = {<<ref, answer[2]>>}
          /\ step.missing = look.missing /\ step.faulty = look.faulty
          /\ step.stayedThreads = look.stayedThreads
          /\ step.stayedNodes = look.stayedNodes
      BY <3>1 DEF Shape
    <3>4. Phased(step)
      BY <3>3 DEF Phased, AliasPhases
    <3> QED
      BY <3>2, <3>3, <3>4
  <2>2. CASE ~Resolved(answer)
    BY <1>2, <1>5, <2>2 DEF AfterIndex, Node, Finish
  <2> QED
    BY <2>1, <2>2
<1>6. look.op \in {"show", "mark", "node"}
  BY DEF Phased
<1> QED
  BY <1>3, <1>4, <1>5, <1>6

LEMMA BuildIndexInv ==
    ASSUME LookInv, BuildIndex
    PROVE  LookInv'
<1> USE DEF LookInv
<1>1. look.phase = "index"
  BY DEF BuildIndex
<1>2. ASSUME NEW index, GoFailing(AfterIndex(index))
      PROVE  LookInv'
  <2>1. PICK step : step = AfterIndex(index)
    OBVIOUS
  <2>2. GoFailing(step)
    BY <1>2, <2>1
  <2> QED
    BY <1>1, <2>1, <2>2, AfterIndexFacts, GoFailingFacts, FaultyStep
<1>3. CASE Go(AfterIndex(PresentNodes(threads)))
  <2>1. look' = AfterIndex(PresentNodes(threads)) /\ UNCHANGED <<threads, published>>
    BY <1>3 DEF Go
  <2> DEFINE index == PresentNodes(threads)
  <2> HIDE DEF index
  <2>2. look' = AfterIndex(index)
    BY <2>1 DEF index
  <2>3. /\ Shape(look') /\ Phased(look')
        /\ look'.op = look.op /\ look'.args = look.args
        /\ look'.missing = look.missing /\ look'.faulty = look.faulty
        /\ look'.stayedThreads = look.stayedThreads /\ look'.stayedNodes = look.stayedNodes
        /\ \/ look'.phase \in {"nodes", "replay"}
           \/ look'.phase = "done" /\ look'.outcome # "thread"
        /\ \A pair \in look'.found :
              \/ pair[1] = pair[2]
              \/ \A other \in index : IsPrefix(pair[1], other[2]) => other[2] = pair[2]
    BY <1>1, <2>2, AfterIndexFacts
  <2>4. RefsTrue'
    BY <2>1, <2>3 DEF RefsTrue
  <2>5. ListsAuth' /\ BestThread'
    BY <2>3 DEF ListsAuth, BestThread
  <2>6. look.stayedNodes \subseteq index
    BY DEF RefsTrue, index
  <2>7. NodesMeant'
    BY <2>3, <2>6 DEF NodesMeant
  <2>8. ~(NamesThread /\ ~look.faulty /\ Stayed(Ref))
    BY <1>1 DEF WholeIdFound
  <2>9. Ref' = Ref /\ NamesThread' = NamesThread
    BY <2>3, SameRef DEF SameQuestion
  <2>10. WholeIdFound'
    BY <2>3, <2>8, <2>9 DEF WholeIdFound, Stayed
  <2>11. MissingGone'
    BY <2>3 DEF MissingGone, Stayed
  <2> QED
    BY <2>3, <2>4, <2>5, <2>7, <2>10, <2>11
<1> QED
  BY <1>2, <1>3 DEF BuildIndex

LEMMA ReplayThreadInv ==
    ASSUME LookInv, ReplayThread
    PROVE  LookInv'
<1>1. look.phase = "replay"
  BY DEF ReplayThread
<1>2. ~(NamesThread /\ ~look.faulty /\ Stayed(Ref))
  BY <1>1 DEF LookInv, WholeIdFound
<1>3. SameRefs
  <2>1. UNCHANGED <<threads, published>>
    BY DEF ReplayThread, Go
  <2>2. \/ look' = [look EXCEPT !.phase = "done", !.outcome = "nodes"]
        \/ look' = [[look EXCEPT !.phase = "done", !.outcome = "error"] EXCEPT !.found = {}]
    BY DEF ReplayThread, Go, Finish
  <2> QED
    BY <2>1, <2>2 DEF SameRefs, LookInv, Shape
<1>4. CASE look' = [look EXCEPT !.phase = "done", !.outcome = "nodes"]
  BY <1>2, <1>3, <1>4, EndStep
<1>5. CASE look' = [[look EXCEPT !.phase = "done", !.outcome = "error"] EXCEPT !.found = {}]
  <2>1. /\ Shape(look') /\ look'.phase = "done" /\ look'.outcome = "error"
        /\ SameQuestion /\ look'.found = {} /\ look'.missing = look.missing
        /\ look'.faulty = look.faulty
    BY <1>5 DEF LookInv, Shape, SameQuestion
  <2>2. RefsTrue' /\ Phased(look')
    BY <1>3, <2>1 DEF LookInv, RefsTrue, SameRefs, Phased, AliasPhases
  <2>3. ListsAuth' /\ BestThread' /\ NodesMeant'
    BY <2>1 DEF ListsAuth, BestThread, NodesMeant
  <2>4. WholeIdFound'
    BY <1>2, <1>3, <2>1, SameRef DEF WholeIdFound, Stayed, SameRefs
  <2>5. MissingGone'
    BY <1>3, <2>1 DEF LookInv, MissingGone, Stayed, SameRefs
  <2> QED
    BY <2>1, <2>2, <2>3, <2>4, <2>5 DEF LookInv
<1> QED
  BY <1>4, <1>5 DEF ReplayThread, Go, Finish

LEMMA OpenThreadInv ==
    ASSUME LookInv, OpenThread
    PROVE  LookInv'
<1>1. look.phase = "open" /\ look.op = "open" /\ look.found = {}
  BY DEF OpenThread, LookInv, Phased
<1>2. ~(NamesThread /\ ~look.faulty /\ Stayed(Ref))
  BY <1>1 DEF NamesThread
<1>3. UNCHANGED <<threads, published>>
  BY DEF OpenThread, Go
<1>4. CASE look' = [look EXCEPT !.phase = "done", !.outcome = "error"]
  <2>1. SameRefs
    BY <1>3, <1>4 DEF SameRefs, LookInv, Shape
  <2> QED
    BY <1>2, <1>4, <2>1, EndStep
<1>5. CASE look' = [look EXCEPT !.seen = NodesOf(look.thread), !.phase = "nodes"]
  <2>1. /\ Shape(look') /\ look'.phase = "nodes" /\ SameRefs
        /\ SameQuestion /\ look'.found = {} /\ look'.missing = look.missing
        /\ look'.faulty = look.faulty
    BY <1>1, <1>3, <1>5 DEF LookInv, Shape, SameRefs, SameQuestion
  <2>2. RefsTrue' /\ Phased(look')
    BY <1>1, <2>1 DEF LookInv, RefsTrue, SameRefs, SameQuestion, Phased, AliasPhases
  <2>3. ListsAuth' /\ BestThread' /\ NodesMeant'
    BY <2>1 DEF ListsAuth, BestThread, NodesMeant
  <2>4. WholeIdFound'
    BY <1>2, <2>1, SameRef DEF WholeIdFound, Stayed, SameRefs
  <2>5. MissingGone'
    BY <2>1 DEF LookInv, MissingGone, Stayed, SameRefs
  <2> QED
    BY <2>1, <2>2, <2>3, <2>4, <2>5 DEF LookInv
<1> QED
  BY <1>4, <1>5 DEF OpenThread, Go, Finish

(* Each reference is resolved in a read of its own.                        *)
LEMMA ResolveNextInv ==
    ASSUME LookInv, ResolveNext
    PROVE  LookInv'
<1> DEFINE ref == Head(look.todo)
           answer == IF CanRead(look.thread) THEN ResolveNode(NodesOf(look.thread), ref)
                     ELSE None
           kept == Resolved(answer) /\ (look.op = "open" => answer \in look.seen)
           found == IF kept THEN look.found \cup {<<ref, answer>>} ELSE look.found
<1>1. look.phase = "nodes" /\ look.op \in {"mark", "open"}
  BY DEF ResolveNext, LookInv, Phased
<1>2. /\ look' = [look EXCEPT !.todo = Tail(@), !.found = found]
      /\ UNCHANGED <<threads, published>>
  BY DEF ResolveNext, Go
<1> HIDE DEF found
<1>3. /\ Shape(look') /\ look'.phase = "nodes" /\ SameRefs
      /\ SameQuestion /\ look'.found = found /\ look'.missing = look.missing
      /\ look'.faulty = look.faulty /\ look'.thread = look.thread
  BY <1>1, <1>2 DEF LookInv, Shape, SameRefs, SameQuestion
<1>4. RefsTrue' /\ Phased(look')
  BY <1>1, <1>3 DEF LookInv, RefsTrue, SameRefs, SameQuestion, Phased, AliasPhases
<1>5. ListsAuth' /\ BestThread'
  BY <1>3 DEF ListsAuth, BestThread
<1>6. ASSUME Resolved(answer), NEW other \in look.stayedNodes,
             other[2] # answer, other[1] = look.thread
      PROVE  ~IsPrefix(ref, other[2]) \/ ref = answer
  <2>1. answer = ResolveNode(NodesOf(look.thread), ref)
    BY <1>6 DEF Resolved
  <2>2. \/ answer = ref
        \/ \A n \in NodesOf(look.thread) : IsPrefix(ref, n) => n = answer
    BY <1>6, <2>1, ResolveNodeFacts
  <2>3. look.thread \in DOMAIN threads /\ other[2] \in threads[look.thread]
    BY <1>6 DEF LookInv, RefsTrue, PresentNodes
  <2>4. other[2] \in NodesOf(look.thread)
    BY <2>3 DEF NodesOf
  <2> QED
    BY <1>6, <2>2, <2>4
<1> HIDE DEF answer, ref
<1>7. \A pair \in found : pair \in look.found \/ (Resolved(answer) /\ pair = <<ref, answer>>)
  BY DEF found
<1>8. NodesMeant'
  <2> SUFFICES ASSUME ~look.faulty, NEW pair \in found, NEW other \in look.stayedNodes,
                      other[2] # pair[2], other[1] = look.thread
               PROVE  ~IsPrefix(pair[1], other[2]) \/ pair[1] = pair[2]
    BY <1>1, <1>3 DEF NodesMeant, SameRefs, SameQuestion
  <2>1. CASE pair \in look.found
    BY <2>1 DEF LookInv, NodesMeant
  <2>2. CASE Resolved(answer) /\ pair = <<ref, answer>>
    BY <1>6, <2>2
  <2> QED
    BY <1>7, <2>1, <2>2
<1>9. WholeIdFound'
  BY <1>1, <1>3, SameRef DEF LookInv, WholeIdFound, Stayed, SameRefs
<1>10. MissingGone'
  BY <1>1, <1>3 DEF LookInv, MissingGone, Stayed, SameRefs
<1> QED
  BY <1>3, <1>4, <1>5, <1>8, <1>9, <1>10 DEF LookInv

LEMMA AllResolvedInv ==
    ASSUME LookInv, AllResolved
    PROVE  LookInv'
<1>1. PICK outcome \in {"error", "nodes"} :
          look' = [look EXCEPT !.phase = "done", !.outcome = outcome]
  BY DEF AllResolved, Go, Finish
<1>2. look.phase = "nodes" /\ UNCHANGED <<threads, published>>
  BY DEF AllResolved, Go
<1>3. SameRefs
  BY <1>1, <1>2 DEF SameRefs, LookInv, Shape
<1> QED
  BY <1>1, <1>2, <1>3, EndStep

-----------------------------------------------------------------------------
(* The commit-msg hook.                                                    *)

HookPhases == {"trailers", "ref threads", "ref published", "ref alias"}

(* A step of the check of trailers, which names no thread.                 *)
LEMMA HookStep ==
    ASSUME LookInv, look.phase \in HookPhases, SameRefs, SameQuestion,
           Shape(look'), Phased(look'), look'.faulty = look.faulty,
           look'.phase \in {"threads", "ref threads", "ref published", "ref alias"},
           \A pair \in look'.found : pair \in look.found \/ pair[1] = pair[2],
           look'.found # {} => look'.thread = look.thread,
           MissingGone'
    PROVE  LookInv'
<1>1. RefsTrue'
  BY DEF LookInv, RefsTrue, SameRefs
<1>2. ListsAuth' /\ BestThread'
  BY DEF ListsAuth, BestThread
<1>3. NodesMeant'
  BY DEF LookInv, NodesMeant, SameRefs, SameQuestion
<1>4. ~(NamesThread /\ ~look.faulty /\ Stayed(Ref))
  BY DEF LookInv, WholeIdFound, HookPhases
<1>5. WholeIdFound'
  BY <1>4, SameRef DEF WholeIdFound, Stayed, SameRefs
<1> QED
  BY <1>1, <1>2, <1>3, <1>5 DEF LookInv

LEMMA ReadTrailersInv ==
    ASSUME LookInv, ReadTrailers
    PROVE  LookInv'
<1> DEFINE tokens == [i \in DOMAIN look.args[1] |-> StripThreadMarker(look.args[1][i])]
           ids == SelectSeq(tokens, IsValidThreadId)
<1>1. look.phase = "trailers" /\ look.op = "commit-msg" /\ look.found = {}
  BY DEF ReadTrailers, LookInv, Phased
<1>2. /\ \/ look' = [look EXCEPT !.phase = "threads"]
         \/ look' = [look EXCEPT !.todo = ids, !.phase = "ref threads"]
      /\ UNCHANGED <<threads, published>>
  BY DEF ReadTrailers, Go
<1> HIDE DEF ids
<1>3. /\ Shape(look') /\ look'.phase \in {"threads", "ref threads"} /\ SameRefs
      /\ SameQuestion /\ look'.found = {} /\ look'.missing = look.missing
      /\ look'.faulty = look.faulty
  BY <1>1, <1>2 DEF LookInv, Shape, SameRefs, SameQuestion
<1>4. Phased(look')
  BY <1>1, <1>3 DEF Phased, AliasPhases, SameQuestion
<1>5. MissingGone'
  BY <1>3 DEF LookInv, MissingGone, Stayed, SameRefs
<1> QED
  BY <1>1, <1>3, <1>4, <1>5, HookStep DEF HookPhases

(* A ref that stayed is found when it is asked for.                        *)
LEMMA CheckThreadRefInv ==
    ASSUME LookInv, CheckThreadRef
    PROVE  LookInv'
<1> DEFINE id == Head(look.todo)
           rest == [look EXCEPT !.todo = Tail(@), !.phase = "ref threads"]
           there == id \in CASE look.phase = "ref threads" -> DOMAIN threads
                             [] look.phase = "ref published" -> DOMAIN published
                             [] look.phase = "ref alias" -> Aliases
           Absent == CASE look.phase = "ref threads" -> [look EXCEPT !.phase = "ref published"]
                       [] look.phase = "ref published" -> [look EXCEPT !.phase = "ref alias"]
                       [] look.phase = "ref alias" -> [rest EXCEPT !.missing = @ \cup {id}]
<1>1. look.phase \in {"ref threads", "ref published", "ref alias"} /\ Shape(look)
  BY DEF CheckThreadRef, LookInv
<1>2. PICK absent : absent = Absent
  OBVIOUS
<1>3. /\ Shape(absent) /\ absent.op = look.op /\ absent.args = look.args
      /\ absent.thread = look.thread /\ absent.found = look.found
      /\ absent.faulty = look.faulty
      /\ absent.stayedThreads = look.stayedThreads
      /\ absent.stayedNodes = look.stayedNodes
      /\ \/ /\ look.phase = "ref threads" /\ absent.phase = "ref published"
            /\ absent.missing = look.missing /\ absent.todo = look.todo
         \/ /\ look.phase = "ref published" /\ absent.phase = "ref alias"
            /\ absent.missing = look.missing /\ absent.todo = look.todo
         \/ /\ look.phase = "ref alias" /\ absent.phase = "ref threads"
            /\ absent.missing = look.missing \cup {id}
  <2>1. CASE look.phase = "ref threads"
    <3>1. absent = [look EXCEPT !.phase = "ref published"]
      BY <1>2, <2>1
    <3> QED
      BY <1>1, <2>1, <3>1 DEF Shape
  <2>2. CASE look.phase = "ref published"
    <3>1. absent = [look EXCEPT !.phase = "ref alias"]
      BY <1>2, <2>2
    <3> QED
      BY <1>1, <2>2, <3>1 DEF Shape
  <2>3. CASE look.phase = "ref alias"
    <3>1. absent = [rest EXCEPT !.missing = @ \cup {id}]
      BY <1>2, <2>3
    <3>2. PICK next : next = rest
      OBVIOUS
    <3>3. absent = [next EXCEPT !.missing = @ \cup {id}]
      BY <3>1, <3>2
    <3> HIDE DEF id
    <3>4. /\ Shape(next) /\ next.op = look.op /\ next.args = look.args
          /\ next.thread = look.thread /\ next.found = look.found
          /\ next.faulty = look.faulty /\ next.missing = look.missing
          /\ next.stayedThreads = look.stayedThreads
          /\ next.stayedNodes = look.stayedNodes /\ next.phase = "ref threads"
      BY <1>1, <3>2 DEF Shape
    <3>5. /\ Shape(absent) /\ absent.op = next.op /\ absent.args = next.args
          /\ absent.thread = next.thread /\ absent.found = next.found
          /\ absent.faulty = next.faulty /\ absent.missing = next.missing \cup {id}
          /\ absent.stayedThreads = next.stayedThreads
          /\ absent.stayedNodes = next.stayedNodes /\ absent.phase = next.phase
      BY <3>3, <3>4 DEF Shape
    <3> QED
      BY <2>3, <3>4, <3>5
  <2> QED
    BY <1>1, <2>1, <2>2, <2>3
<1>4. Phased(absent)
  BY <1>3 DEF Phased, AliasPhases
<1>5. \/ there /\ Go([rest EXCEPT !.found = @ \cup {<<id, id>>}])
      \/ ~there /\ Go(absent)
      \/ GoFailing(absent)
  BY <1>2 DEF CheckThreadRef
<1>6. CASE GoFailing(absent)
  BY <1>3, <1>4, <1>6, GoFailingFacts, FaultyStep
<1>7. CASE ~there /\ Go(absent)
  <2>1. SameRefs /\ SameQuestion /\ look' = absent
    BY <1>3, <1>7 DEF Go, SameRefs, SameQuestion
  <2>2. MissingGone'
    <3>1. CASE look.phase = "ref threads"
      <4>1. id \notin DOMAIN threads
        BY <1>7, <3>1
      <4>2. <<"auth", id>> \notin look.stayedThreads
        BY <4>1 DEF LookInv, RefsTrue, PresentThreads
      <4> QED
        BY <1>3, <2>1, <3>1, <4>2 DEF LookInv, MissingGone, Stayed
    <3>2. CASE look.phase = "ref published"
      <4>1. id \notin DOMAIN published
        BY <1>7, <3>2
      <4>2. <<"pub", id>> \notin look.stayedThreads
        BY <4>1 DEF LookInv, RefsTrue, PresentThreads
      <4> QED
        BY <1>3, <2>1, <3>2, <4>2 DEF LookInv, MissingGone, Stayed
    <3>3. CASE look.phase = "ref alias"
      BY <1>3, <2>1, <3>3 DEF LookInv, MissingGone, Stayed
    <3> QED
      BY <1>1, <3>1, <3>2, <3>3
  <2> QED
    BY <1>1, <1>3, <1>4, <2>1, <2>2, HookStep DEF HookPhases
<1>8. CASE Go([rest EXCEPT !.found = @ \cup {<<id, id>>}])
  <2>1. PICK next : next = rest
    OBVIOUS
  <2>2. look' = [next EXCEPT !.found = @ \cup {<<id, id>>}] /\ UNCHANGED <<threads, published>>
    BY <1>8, <2>1 DEF Go
  <2> HIDE DEF there, Absent
  <2>3. /\ Shape(next) /\ next.op = look.op /\ next.args = look.args
        /\ next.thread = look.thread /\ next.found = look.found
        /\ next.faulty = look.faulty /\ next.missing = look.missing
        /\ next.stayedThreads = look.stayedThreads
        /\ next.stayedNodes = look.stayedNodes /\ next.phase = "ref threads"
    BY <1>1, <2>1 DEF Shape
  <2> HIDE DEF id, rest
  <2>4. /\ Shape(look') /\ look'.op = next.op /\ look'.args = next.args
        /\ look'.thread = next.thread /\ look'.found = next.found \cup {<<id, id>>}
        /\ look'.faulty = next.faulty /\ look'.missing = next.missing
        /\ look'.stayedThreads = next.stayedThreads
        /\ look'.stayedNodes = next.stayedNodes /\ look'.phase = next.phase
    BY <2>2, <2>3 DEF Shape
  <2>5. SameRefs /\ SameQuestion /\ look'.phase = "ref threads"
    BY <2>2, <2>3, <2>4 DEF SameRefs, SameQuestion
  <2>6. Phased(look')
    BY <2>5 DEF Phased, AliasPhases
  <2>7. MissingGone'
    BY <2>3, <2>4 DEF LookInv, MissingGone, Stayed
  <2>8. \A pair \in look'.found : pair \in look.found \/ pair[1] = pair[2]
    <3>1. \A pair \in look'.found : pair \in look.found \/ pair = <<id, id>>
      BY <2>3, <2>4
    <3>2. \A pair : pair = <<id, id>> => pair[1] = pair[2]
      OBVIOUS
    <3> QED
      BY <3>1, <3>2
  <2> QED
    BY <1>1, <2>3, <2>4, <2>5, <2>6, <2>7, <2>8, HookStep DEF HookPhases
<1> QED
  BY <1>5, <1>6, <1>7, <1>8

LEMMA EndCheckInv ==
    ASSUME LookInv, EndCheck
    PROVE  LookInv'
<1>1. PICK outcome \in {"accepted", "refused"} :
          look' = [look EXCEPT !.phase = "done", !.outcome = outcome]
  BY DEF EndCheck, Go, Finish
<1>2. look.phase = "ref threads" /\ UNCHANGED <<threads, published>>
  BY DEF EndCheck, Go
<1>3. SameRefs
  BY <1>1, <1>2 DEF SameRefs, LookInv, Shape
<1>4. ~(NamesThread /\ ~look.faulty /\ Stayed(Ref))
  BY <1>2 DEF LookInv, WholeIdFound
<1> QED
  BY <1>1, <1>2, <1>3, <1>4, EndStep

-----------------------------------------------------------------------------
(* Other processes take away from what stayed, and never add to it.        *)
LEMMA BecomeInv ==
    ASSUME LookInv, NEW auth, NEW pub, Become(auth, pub),
           DOMAIN auth \subseteq DOMAIN threads \cup NewIds,
           DOMAIN pub \subseteq DOMAIN published \cup NewIds
    PROVE  LookInv'
<1>1. /\ threads' = auth /\ published' = pub
      /\ look' = [look EXCEPT !.stayedThreads = @ \cap PresentThreads(auth, pub),
                              !.stayedNodes = @ \cap PresentNodes(auth)]
  BY DEF Become
<1>2. /\ Shape(look') /\ SameQuestion /\ look'.phase = look.phase /\ look'.ids = look.ids
      /\ look'.legacy = look.legacy /\ look'.thread = look.thread /\ look'.todo = look.todo
      /\ look'.found = look.found /\ look'.missing = look.missing
      /\ look'.outcome = look.outcome /\ look'.faulty = look.faulty
      /\ look'.stayedThreads = look.stayedThreads \cap PresentThreads(auth, pub)
      /\ look'.stayedNodes = look.stayedNodes \cap PresentNodes(auth)
  BY <1>1 DEF LookInv, Shape, SameQuestion
<1>3. RefsTrue'
  <2>1. \A id \in DOMAIN auth \cup DOMAIN pub : id \notin {None, Ambiguous}
    BY ReferencesAssumption DEF LookInv, RefsTrue
  <2> QED
    BY <1>1, <1>2, <2>1 DEF RefsTrue
<1>4. Phased(look')
  BY <1>2 DEF LookInv, Phased, SameQuestion
<1>5. Ref' = Ref /\ NamesThread' = NamesThread
  BY <1>2, SameRef
<1>6. ListsAuth' /\ BestThread' /\ NodesMeant'
  BY <1>2, <1>5 DEF LookInv, ListsAuth, BestThread, NodesMeant, SameQuestion
<1>7. WholeIdFound' /\ MissingGone'
  BY <1>2, <1>5 DEF LookInv, WholeIdFound, MissingGone, Stayed
<1> QED
  BY <1>2, <1>3, <1>4, <1>6, <1>7 DEF LookInv

LEMMA OthersInv ==
    ASSUME LookInv, OthersNext
    PROVE  LookInv'
<1>1. \A x : /\ DOMAIN Without(threads, x) \subseteq DOMAIN threads
             /\ DOMAIN Without(published, x) \subseteq DOMAIN published
  BY DEF Without
<1>2. CASE AddThread
  <2>1. PICK t \in NewIds : Become(Set(threads, t, {}), published)
    BY <1>2 DEF AddThread
  <2>2. PICK auth : auth = Set(threads, t, {})
    OBVIOUS
  <2>3. DOMAIN auth \subseteq DOMAIN threads \cup NewIds
    BY <2>1, <2>2 DEF Set
  <2> QED
    BY <2>1, <2>2, <2>3, BecomeInv
<1>3. CASE AddPublished
  <2>1. PICK t, nodes : t \in NewIds /\ Become(threads, Set(published, t, nodes))
    BY <1>3 DEF AddPublished
  <2>2. PICK pub : pub = Set(published, t, nodes)
    OBVIOUS
  <2>3. DOMAIN pub \subseteq DOMAIN published \cup NewIds
    BY <2>1, <2>2 DEF Set
  <2> QED
    BY <2>1, <2>2, <2>3, BecomeInv
<1>4. CASE NodeAppears \/ LoseNode
  <2>1. PICK t, nodes : t \in DOMAIN threads /\ Become(Set(threads, t, nodes), published)
    BY <1>4 DEF NodeAppears, LoseNode
  <2>2. PICK auth : auth = Set(threads, t, nodes)
    OBVIOUS
  <2>3. DOMAIN auth \subseteq DOMAIN threads \cup NewIds
    BY <2>1, <2>2 DEF Set
  <2> QED
    BY <2>1, <2>2, <2>3, BecomeInv
<1>6. CASE DeleteThread
  BY <1>1, <1>6, BecomeInv DEF DeleteThread
<1>7. CASE Withdraw
  BY <1>1, <1>7, BecomeInv DEF Withdraw
<1> QED
  BY <1>2, <1>3, <1>4, <1>6, <1>7 DEF OthersNext

LEMMA RefInitInv == RefInit => LookInv
<1> SUFFICES ASSUME RefInit PROVE LookInv
  OBVIOUS
<1>1. PICK s \in Starts : threads = s.threads /\ published = s.published
  BY DEF RefInit
<1>2. look = Idle
  BY DEF RefInit
<1>3. /\ Shape(look) /\ look.phase = "idle" /\ look.found = {} /\ look.missing = {}
      /\ look.stayedThreads = {} /\ look.stayedNodes = {}
  BY <1>2 DEF Idle, Shape
<1>4. RefsTrue
  BY <1>1, <1>3, ReferencesAssumption DEF RefsTrue
<1> QED
  BY <1>3, <1>4 DEF LookInv, Phased, AliasPhases, ListsAuth, BestThread, NodesMeant,
                    WholeIdFound, MissingGone, Stayed

LEMMA RefNextInv == LookInv /\ [RefNext]_refVars => LookInv'
<1> SUFFICES ASSUME LookInv, [RefNext]_refVars PROVE LookInv'
  OBVIOUS
<1>1. CASE LookNext
  BY <1>1, AskInv, ListThreadsInv, ListPublishedInv, AliasRefInv, CanonicaliseInv,
     AliasListInv, BuildIndexInv, ReplayThreadInv, OpenThreadInv, ResolveNextInv,
     AllResolvedInv, ReadTrailersInv, CheckThreadRefInv, EndCheckInv DEF LookNext
<1>2. CASE OthersNext
  BY <1>2, OthersInv
<1>3. CASE UNCHANGED refVars
  BY ZenonT(30), <1>3 DEF refVars, LookInv, Shape, Phased, RefsTrue, ListsAuth, BestThread, NodesMeant,
              WholeIdFound, MissingGone, Stayed, Ref, NamesThread
<1> QED
  BY <1>1, <1>2, <1>3 DEF RefNext

(* No lookup guesses (resolve_from_list, NodeIdIndex, resolve_node_targets, *)
(* check_thread_refs): whatever other processes create, delete, publish or *)
(* rewrite between the git calls of a lookup, a thread or node that was    *)
(* there all the time and that the reference means as well as the answer   *)
(* makes the lookup fail, a whole id is found, and the commit-msg hook     *)
(* refuses no id that is there.                                            *)
THEOREM LookupsDoNotGuess == RefSpec => []NoGuess
<1>1. LookInv => NoGuess
  <2> SUFFICES ASSUME LookInv, look.phase = "done", ~look.faulty
               PROVE
        /\ look.outcome = "thread" /\ ~ByAlias =>
               \A other \in look.stayedThreads :
                   other[2] # look.thread =>
                       Rank(Ref, other[2]) > Rank(Ref, look.thread)
        /\ look.outcome \in {"nodes", "redirect"} =>
               \A pair \in look.found : \A other \in look.stayedNodes :
                   /\ other[2] # pair[2]
                   /\ look.op = "node" \/ other[1] = look.thread
                   => ~IsPrefix(pair[1], other[2]) \/ pair[1] = pair[2]
        /\ NamesThread /\ (\E ns \in {"auth", "pub"} : <<ns, Ref>> \in look.stayedThreads) =>
               look.thread = Ref
        /\ \A id \in look.missing : \A other \in look.stayedThreads : other[2] # id
    BY DEF NoGuess
  <2>1. look.outcome = "thread" /\ ~ByAlias =>
            \A other \in look.stayedThreads :
                other[2] # look.thread =>
                    Rank(Ref, other[2]) > Rank(Ref, look.thread)
    BY DEF LookInv, BestThread, ByAlias
  <2>2. \A pair \in look.found : \A other \in look.stayedNodes :
            /\ other[2] # pair[2]
            /\ look.op = "node" \/ other[1] = look.thread
            => ~IsPrefix(pair[1], other[2]) \/ pair[1] = pair[2]
    BY DEF LookInv, NodesMeant
  <2>3. NamesThread /\ (\E ns \in {"auth", "pub"} : <<ns, Ref>> \in look.stayedThreads) =>
            look.thread = Ref
    BY DEF LookInv, WholeIdFound, Stayed
  <2>4. \A id \in look.missing : \A other \in look.stayedThreads : other[2] # id
    <3>1. \A other \in look.stayedThreads : \E ns \in {"auth", "pub"} : \E id : other = <<ns, id>>
      BY DEF LookInv, RefsTrue, PresentThreads
    <3>2. \A id \in look.missing : ~Stayed(id)
      BY DEF LookInv, MissingGone
    <3> SUFFICES ASSUME NEW id \in look.missing, NEW other \in look.stayedThreads,
                        other[2] = id
                 PROVE  FALSE
      OBVIOUS
    <3>3. PICK ns \in {"auth", "pub"} : \E t : other = <<ns, t>>
      BY <3>1
    <3>4. <<ns, id>> \in look.stayedThreads
      BY <3>3
    <3> QED
      BY <3>2, <3>4 DEF Stayed
  <2> QED
    BY <2>1, <2>2, <2>3, <2>4
<1> QED
  BY <1>1, RefInitInv, RefNextInv, PTL DEF RefSpec

-----------------------------------------------------------------------------
(* Prefixes and case.                                                      *)

(* Characters, those of folded text among them.                            *)
Chars == STRING \cup {"A", "B", "K", "-"}

LEMMA PrefixChars ==
    ASSUME NEW s \in Seq(Chars), NEW t \in Seq(Chars)
    PROVE  IsPrefix(s, t) <=> Len(s) <= Len(t) /\ \A i \in 1..Len(s) : s[i] = t[i]
<1> DEFINE n == Len(s)
<1>1. CASE ~(n <= Len(t))
  BY <1>1 DEF IsPrefix
<1>2. CASE n <= Len(t)
  <2>1. SubSeq(s, 1, n) = s
    OBVIOUS
  <2>2. SubSeq(t, 1, n) = [i \in 1..n |-> t[i]]
    BY <1>2
  <2>3. s = [i \in 1..n |-> s[i]]
    OBVIOUS
  <2> QED
    BY <1>2, <2>1, <2>2, <2>3 DEF IsPrefix
<1> QED
  BY <1>1, <1>2

LEMMA UpperFacts ==
    /\ \A c \in Chars : Upper(c) \in Chars
    /\ \A c : Upper(c) = "-" <=> c = "-"
  BY DEF Upper, UpperOf, Chars

LEMMA FoldFacts ==
    ASSUME NEW s \in Seq(Chars)
    PROVE  /\ FoldCase(s) \in Seq(Chars) /\ Len(FoldCase(s)) = Len(s)
           /\ \A i \in 1..Len(s) : FoldCase(s)[i] = Upper(s[i])
           /\ Has(FoldCase(s), "-") <=> Has(s, "-")
<1>1. DOMAIN s = 1..Len(s) /\ \A i \in 1..Len(s) : s[i] \in Chars
  OBVIOUS
<1>2. FoldCase(s) = [i \in 1..Len(s) |-> Upper(s[i])]
  BY <1>1 DEF FoldCase
<1>3. FoldCase(s) \in Seq(Chars) /\ Len(FoldCase(s)) = Len(s)
  BY <1>1, <1>2, UpperFacts
<1>4. \A i \in 1..Len(s) : FoldCase(s)[i] = Upper(s[i])
  BY <1>2
<1>5. Has(FoldCase(s), "-") <=> Has(s, "-")
  BY <1>1, <1>2, <1>4, UpperFacts DEF Has
<1> QED
  BY <1>3, <1>4, <1>5

(* Where the first dash stands, and what stands after it.                  *)
FirstDash(s, d) == d \in 1..Len(s) /\ s[d] = "-" /\ \A j \in 1..(d - 1) : s[j] # "-"

LEMMA AfterDashFacts ==
    ASSUME NEW s \in Seq(Chars), NEW d, FirstDash(s, d)
    PROVE  /\ Has(s, "-") /\ AfterDash(s) = SubSeq(s, d + 1, Len(s))
           /\ AfterDash(s) \in Seq(Chars) /\ Len(AfterDash(s)) = Len(s) - d
           /\ \A i \in 1..(Len(s) - d) : AfterDash(s)[i] = s[d + i]
<1>1. DOMAIN s = 1..Len(s) /\ Len(s) \in Nat /\ d \in Int
  BY DEF FirstDash
<1>2. Has(s, "-")
  BY <1>1 DEF Has, FirstDash
<1> DEFINE P(i) == s[i] = "-" /\ \A j \in 1..i - 1 : s[j] # "-"
           e == CHOOSE i \in DOMAIN s : P(i)
<1>3. P(d) /\ d \in DOMAIN s
  BY <1>1 DEF FirstDash
<1>4. P(e) /\ e \in DOMAIN s
  BY <1>3
<1>5. e = d
  BY <1>1, <1>3, <1>4
<1>6. AfterDash(s) = SubSeq(s, e + 1, Len(s))
  BY <1>2 DEF AfterDash
<1> HIDE DEF e
<1>7. AfterDash(s) = SubSeq(s, d + 1, Len(s))
  BY <1>5, <1>6
<1>8. d + 1 \in 1..(Len(s) + 1) /\ Len(s) \in 0..Len(s)
  BY <1>1, <1>3
<1>9. PICK after : after = SubSeq(s, d + 1, Len(s))
  OBVIOUS
<1>10. after = [i \in 1..(Len(s) - d) |-> s[d + i]]
  BY <1>1, <1>8, <1>9
<1>11. \A i \in 1..(Len(s) - d) : d + i \in 1..Len(s) /\ s[d + i] \in Chars
  BY <1>1, <1>8
<1>12. after \in Seq(Chars) /\ Len(after) = Len(s) - d
       /\ \A i \in 1..(Len(s) - d) : after[i] = s[d + i]
  <2>1. Len(s) - d \in Nat
    BY <1>1, <1>8
  <2> QED
    BY <1>10, <1>11, <2>1
<1> QED
  BY <1>2, <1>7, <1>9, <1>12

LEMMA JoinFacts ==
    ASSUME NEW C, NEW s \in Seq(C), NEW t \in Seq(C)
    PROVE  /\ s \o t \in Seq(C) /\ Len(s \o t) = Len(s) + Len(t)
           /\ \A i \in 1..Len(s) : (s \o t)[i] = s[i]
           /\ \A i \in 1..Len(t) : (s \o t)[Len(s) + i] = t[i]
<1>1. s \o t \in Seq(C)
  OBVIOUS
<1>2. Len(s \o t) = Len(s) + Len(t)
  OBVIOUS
<1>3. \A i \in 1..Len(s) : (s \o t)[i] = s[i]
  OBVIOUS
<1>4. \A i \in 1..Len(t) : (s \o t)[Len(s) + i] = t[i]
  OBVIOUS
<1> QED
  BY <1>1, <1>2, <1>3, <1>4

(* An id that the code has made: a token, or a kind, a dash and a token or *)
(* number.                                                                 *)
Plain(s) == Spelt(s, Lower \cup Digits)
Kinded(s, d) ==
    /\ FirstDash(s, d)
    /\ \A j \in 1..(d - 1) : Upper(s[j]) = s[j]
    /\ Plain(AfterDash(s))

LEMMA PlainFacts ==
    ASSUME IdsInPractice, NEW s \in Seq(Chars), Plain(s)
    PROVE  ~Has(s, "-") /\ AfterDash(s) = s
<1>1. \A i \in DOMAIN s : s[i] # "-"
  BY DEF Plain, Spelt, IdsInPractice
<1> QED
  BY <1>1 DEF Has, AfterDash

LEMMA PrefixedFacts ==
    ASSUME IdsInPractice, NEW s \in Seq(Chars), Prefixed(s), Plain(AfterDash(s))
    PROVE  \E d : Kinded(s, d)
<1>1. PICK p \in KindPrefixes : IsPrefix(p \o <<"-">>, s)
  BY DEF Prefixed
<1>2. p \in Seq(Chars) /\ FoldCase(p) = p /\ ~Has(p, "-")
  BY DEF IdsInPractice, Chars
<1> DEFINE d == Len(p) + 1
<1>3. \A i \in 1..Len(p) : p[i] # "-" /\ Upper(p[i]) = p[i]
  BY <1>2, FoldFacts DEF Has
<1>4. PICK q : q = p \o <<"-">>
  OBVIOUS
<1>5. q \in Seq(Chars) /\ Len(q) = d /\ q[d] = "-" /\ \A i \in 1..Len(p) : q[i] = p[i]
  <2>1. PICK dash : dash = <<"-">>
    OBVIOUS
  <2>2. dash \in Seq(Chars) /\ Len(dash) = 1 /\ dash[1] = "-"
    BY <2>1 DEF Chars
  <2>3. q = p \o dash
    BY <1>4, <2>1
  <2>4. p \in Seq(Chars) /\ Len(p) \in Nat
    BY <1>2
  <2> HIDE DEF Chars
  <2>5. dash \in Seq(Chars)
    BY <2>2
  <2>6. /\ p \o dash \in Seq(Chars) /\ Len(p \o dash) = Len(p) + Len(dash)
        /\ \A i \in 1..Len(p) : (p \o dash)[i] = p[i]
        /\ \A i \in 1..Len(dash) : (p \o dash)[Len(p) + i] = dash[i]
    BY <2>4, <2>5, JoinFacts
  <2>7. /\ q \in Seq(Chars) /\ Len(q) = Len(p) + Len(dash)
        /\ \A i \in 1..Len(p) : q[i] = p[i]
        /\ \A i \in 1..Len(dash) : q[Len(p) + i] = dash[i]
    BY ONLY <2>3, <2>6
  <2> QED
    BY <2>2, <2>4, <2>7
<1>6. Len(q) <= Len(s) /\ \A i \in 1..Len(q) : q[i] = s[i]
  BY <1>1, <1>4, <1>5, PrefixChars
<1>7. FirstDash(s, d)
  BY <1>2, <1>3, <1>5, <1>6 DEF FirstDash
<1>8. \A j \in 1..(d - 1) : Upper(s[j]) = s[j]
  BY <1>2, <1>3, <1>5, <1>6
<1> HIDE DEF d
<1> QED
  BY <1>7, <1>8 DEF Kinded

(* What an id in use looks like.                                           *)
LEMMA IdForms ==
    ASSUME IdsInPractice, NEW id \in IdsInUse \cup Aliases
    PROVE  /\ id \in Seq(Chars)
           /\ \/ Plain(id) /\ Len(id) = TokenLen
              \/ (\E d : Kinded(id, d)) /\ IsToken(AfterDash(id))
                 /\ Len(AfterDash(id)) = TokenLen /\ IsOpaque(id)
              \/ (\E d : Kinded(id, d)) /\ Len(AfterDash(id)) = SequentialLen
                 /\ IsSequential(id)
<1>1. id \in Seq(Chars)
  BY DEF IdsInPractice, Chars
<1>2. Allocated(id) \/ IsOpaque(id) \/ IsSequential(id)
  BY DEF IdsInPractice, IsValidThreadId, IsBareToken, IsToken, Allocated
<1>3. CASE Allocated(id)
  BY <1>1, <1>3 DEF Allocated, Plain
<1>4. CASE IsOpaque(id)
  <2>1. Prefixed(id) /\ IsToken(AfterDash(id)) /\ Plain(AfterDash(id))
        /\ Len(AfterDash(id)) = TokenLen
    BY <1>4 DEF IsOpaque, IsToken, Plain
  <2> QED
    BY <1>1, <1>4, <2>1, PrefixedFacts
<1>5. CASE IsSequential(id)
  <2>1. Prefixed(id) /\ Plain(AfterDash(id)) /\ Len(AfterDash(id)) = SequentialLen
    BY <1>5 DEF IsSequential, Plain, Spelt
  <2> QED
    BY <1>1, <1>5, <2>1, PrefixedFacts
<1> QED
  BY <1>2, <1>3, <1>4, <1>5

(* Two tokens that are alike but for case are the same; so are two ids with *)
(* a kind.                                                                 *)
LEMMA SameCasePlain ==
    ASSUME IdsInPractice, NEW s \in Seq(Chars), NEW t \in Seq(Chars), Plain(s), Plain(t),
           NEW i \in 1..Len(s), i \in 1..Len(t), Upper(s[i]) = Upper(t[i])
    PROVE  s[i] = t[i]
<1>1. s[i] \in Lower \cup Digits /\ t[i] \in Lower \cup Digits
  BY DEF Plain, Spelt
<1> QED
  BY <1>1 DEF IdsInPractice

LEMMA SameCaseKinded ==
    ASSUME IdsInPractice, NEW s \in Seq(Chars), NEW t \in Seq(Chars),
           NEW d, NEW e, Kinded(s, d), Kinded(t, e),
           NEW n \in Nat, n <= Len(s), n <= Len(t),
           \A j \in 1..n : Upper(s[j]) = Upper(t[j])
    PROVE  /\ \A j \in 1..n : s[j] = t[j]
           /\ d <= n \/ e <= n => d = e
<1>1. /\ d \in 1..Len(s) /\ s[d] = "-" /\ \A j \in 1..(d - 1) : s[j] # "-"
      /\ e \in 1..Len(t) /\ t[e] = "-" /\ \A j \in 1..(e - 1) : t[j] # "-"
  BY DEF Kinded, FirstDash
<1>2. /\ \A j \in (d + 1)..Len(s) : s[j] = AfterDash(s)[j - d]
                                   /\ j - d \in 1..Len(AfterDash(s))
      /\ \A j \in (e + 1)..Len(t) : t[j] = AfterDash(t)[j - e]
                                   /\ j - e \in 1..Len(AfterDash(t))
      /\ AfterDash(s) \in Seq(Chars) /\ AfterDash(t) \in Seq(Chars)
  <2>1. /\ AfterDash(s) \in Seq(Chars) /\ Len(AfterDash(s)) = Len(s) - d
        /\ \A i \in 1..(Len(s) - d) : AfterDash(s)[i] = s[d + i]
    BY AfterDashFacts DEF Kinded
  <2>2. /\ AfterDash(t) \in Seq(Chars) /\ Len(AfterDash(t)) = Len(t) - e
        /\ \A i \in 1..(Len(t) - e) : AfterDash(t)[i] = t[e + i]
    BY AfterDashFacts DEF Kinded
  <2>3. \A j \in (d + 1)..Len(s) : j - d \in 1..(Len(s) - d) /\ d + (j - d) = j
    BY <1>1
  <2>4. \A j \in (e + 1)..Len(t) : j - e \in 1..(Len(t) - e) /\ e + (j - e) = j
    BY <1>1
  <2> QED
    BY <2>1, <2>2, <2>3, <2>4
<1>3. \A j \in (d + 1)..Len(s) : s[j] \in Lower \cup Digits
  BY <1>2 DEF Kinded, Plain, Spelt
<1>4. \A j \in (e + 1)..Len(t) : t[j] \in Lower \cup Digits
  BY <1>2 DEF Kinded, Plain, Spelt
<1>5. "-" \notin Lower \cup Digits
  BY DEF IdsInPractice
<1>6. \A j \in 1..n : s[j] = "-" <=> t[j] = "-"
  BY UpperFacts
<1>7. d <= n => d = e
  <2> SUFFICES ASSUME d <= n PROVE d = e
    OBVIOUS
  <2>1. t[d] = "-" /\ d \in 1..Len(t)
    BY <1>1, <1>6
  <2>2. d \notin 1..(e - 1) /\ d \notin (e + 1)..Len(t)
    BY <1>1, <1>4, <1>5, <2>1
  <2> QED
    BY <1>1, <2>1, <2>2
<1>8. e <= n => d = e
  <2> SUFFICES ASSUME e <= n PROVE d = e
    OBVIOUS
  <2>1. s[e] = "-" /\ e \in 1..Len(s)
    BY <1>1, <1>6
  <2>2. e \notin 1..(d - 1) /\ e \notin (d + 1)..Len(s)
    BY <1>1, <1>3, <1>5, <2>1
  <2> QED
    BY <1>1, <2>1, <2>2
<1>9. ASSUME NEW j \in 1..n PROVE s[j] = t[j]
  <2>1. CASE j < d /\ j < e
    <3>1. Upper(s[j]) = s[j] /\ Upper(t[j]) = t[j]
      BY <1>1, <2>1 DEF Kinded
    <3> QED
      BY <3>1
  <2>2. CASE ~(j < d /\ j < e)
    <3>1. d = e
      BY <1>1, <1>7, <1>8, <2>2
    <3>2. CASE j = d
      BY <1>1, <3>1, <3>2
    <3>3. CASE j # d
      <4>1. j \in (d + 1)..Len(s) /\ j \in (e + 1)..Len(t)
        BY <1>1, <2>2, <3>1, <3>3
      <4>2. s[j] \in Lower \cup Digits /\ t[j] \in Lower \cup Digits
        BY <1>3, <1>4, <4>1
      <4> QED
        BY <4>2 DEF IdsInPractice
    <3> QED
      BY <3>2, <3>3
  <2> QED
    BY <2>1, <2>2
<1> QED
  BY <1>7, <1>8, <1>9

-----------------------------------------------------------------------------
(* What a reference means but for case.                                    *)

LEMMA FoldedDash ==
    ASSUME NEW s \in Seq(Chars), NEW d, FirstDash(s, d)
    PROVE  /\ FoldCase(s) \in Seq(Chars) /\ FirstDash(FoldCase(s), d)
           /\ AfterDash(FoldCase(s)) \in Seq(Chars)
           /\ Len(AfterDash(FoldCase(s))) = Len(AfterDash(s))
           /\ \A i \in 1..Len(AfterDash(s)) :
                 AfterDash(FoldCase(s))[i] = Upper(AfterDash(s)[i])
<1>1. d \in 1..Len(s) /\ s[d] = "-" /\ \A j \in 1..(d - 1) : s[j] # "-"
  BY DEF FirstDash
<1>2. /\ FoldCase(s) \in Seq(Chars) /\ Len(FoldCase(s)) = Len(s)
      /\ \A i \in 1..Len(s) : FoldCase(s)[i] = Upper(s[i])
  BY FoldFacts
<1>3. FirstDash(FoldCase(s), d)
  BY <1>1, <1>2, UpperFacts DEF FirstDash
<1>4. /\ AfterDash(s) \in Seq(Chars) /\ Len(AfterDash(s)) = Len(s) - d
      /\ \A i \in 1..(Len(s) - d) : AfterDash(s)[i] = s[d + i]
  BY AfterDashFacts
<1>5. PICK f : f = FoldCase(s)
  OBVIOUS
<1>6. /\ AfterDash(f) \in Seq(Chars) /\ Len(AfterDash(f)) = Len(f) - d
      /\ \A i \in 1..(Len(f) - d) : AfterDash(f)[i] = f[d + i]
  BY <1>2, <1>3, <1>5, AfterDashFacts
<1>7. \A i \in 1..(Len(s) - d) : d + i \in 1..Len(s)
  BY <1>1
<1> QED
  BY <1>2, <1>3, <1>4, <1>5, <1>6, <1>7

(* The text of an id that a reference is compared with.                    *)
LEMMA BeginsMeans ==
    ASSUME IdsInPractice, NEW ref \in Seq(Chars), NEW id \in IdsInUse \cup Aliases
    PROVE  /\ AfterDash(id) \in Seq(Chars)
           /\ Has(ref, "-") =>
                 /\ Begins(ref, id) <=>
                       Len(ref) <= Len(id) /\ \A i \in 1..Len(ref) : ref[i] = id[i]
                 /\ BeginsFolded(ref, id) <=>
                       Len(ref) <= Len(id) /\ \A i \in 1..Len(ref) : Upper(ref[i]) = Upper(id[i])
           /\ ~Has(ref, "-") =>
                 /\ Begins(ref, id) <=>
                       Len(ref) <= Len(AfterDash(id))
                       /\ \A i \in 1..Len(ref) : ref[i] = AfterDash(id)[i]
                 /\ BeginsFolded(ref, id) <=>
                       Len(ref) <= Len(AfterDash(id))
                       /\ \A i \in 1..Len(ref) : Upper(ref[i]) = Upper(AfterDash(id)[i])
<1>1. id \in Seq(Chars) /\ (Plain(id) \/ \E d : Kinded(id, d))
  BY IdForms
<1>2. /\ FoldCase(ref) \in Seq(Chars) /\ Len(FoldCase(ref)) = Len(ref)
      /\ \A i \in 1..Len(ref) : FoldCase(ref)[i] = Upper(ref[i])
      /\ Has(FoldCase(ref), "-") <=> Has(ref, "-")
  BY FoldFacts
<1>3. /\ FoldCase(id) \in Seq(Chars) /\ Len(FoldCase(id)) = Len(id)
      /\ \A i \in 1..Len(id) : FoldCase(id)[i] = Upper(id[i])
      /\ Has(FoldCase(id), "-") <=> Has(id, "-")
  BY <1>1, FoldFacts
<1>4. /\ AfterDash(id) \in Seq(Chars)
      /\ AfterDash(FoldCase(id)) \in Seq(Chars)
      /\ Len(AfterDash(FoldCase(id))) = Len(AfterDash(id))
      /\ \A i \in 1..Len(AfterDash(id)) :
            AfterDash(FoldCase(id))[i] = Upper(AfterDash(id)[i])
  <2>1. CASE Plain(id)
    <3>1. ~Has(id, "-") /\ AfterDash(id) = id
      BY <1>1, <2>1, PlainFacts
    <3>2. AfterDash(FoldCase(id)) = FoldCase(id)
      BY <1>3, <3>1 DEF AfterDash
    <3> QED
      BY <1>1, <1>3, <3>1, <3>2
  <2>2. CASE \E d : Kinded(id, d)
    <3>1. PICK d : FirstDash(id, d)
      BY <2>2 DEF Kinded
    <3> QED
      BY <1>1, <3>1, AfterDashFacts, FoldedDash
  <2> QED
    BY <1>1, <2>1, <2>2
<1>5. CASE Has(ref, "-")
  <2>1. Begins(ref, id) <=> IsPrefix(ref, id)
    BY <1>5 DEF Begins
  <2>2. BeginsFolded(ref, id) <=> IsPrefix(FoldCase(ref), FoldCase(id))
    BY <1>2, <1>5 DEF BeginsFolded, Begins
  <2>3. IsPrefix(ref, id) <=> Len(ref) <= Len(id) /\ \A i \in 1..Len(ref) : ref[i] = id[i]
    BY <1>1, PrefixChars
  <2>4. IsPrefix(FoldCase(ref), FoldCase(id)) <=>
            Len(FoldCase(ref)) <= Len(FoldCase(id))
            /\ \A i \in 1..Len(FoldCase(ref)) : FoldCase(ref)[i] = FoldCase(id)[i]
    BY <1>2, <1>3, PrefixChars
  <2>5. Len(ref) <= Len(id) => \A i \in 1..Len(ref) : i \in 1..Len(id)
    BY <1>1
  <2> QED
    BY <1>2, <1>3, <1>4, <1>5, <2>1, <2>2, <2>3, <2>4, <2>5
<1>6. CASE ~Has(ref, "-")
  <2>1. Begins(ref, id) <=> IsPrefix(ref, AfterDash(id))
    BY <1>6 DEF Begins
  <2>2. BeginsFolded(ref, id) <=> IsPrefix(FoldCase(ref), AfterDash(FoldCase(id)))
    BY <1>2, <1>6 DEF BeginsFolded, Begins
  <2>3. IsPrefix(ref, AfterDash(id)) <=>
            Len(ref) <= Len(AfterDash(id)) /\ \A i \in 1..Len(ref) : ref[i] = AfterDash(id)[i]
    BY <1>4, PrefixChars
  <2>4. IsPrefix(FoldCase(ref), AfterDash(FoldCase(id))) <=>
            Len(FoldCase(ref)) <= Len(AfterDash(FoldCase(id)))
            /\ \A i \in 1..Len(FoldCase(ref)) : FoldCase(ref)[i] = AfterDash(FoldCase(id))[i]
    BY <1>2, <1>4, PrefixChars
  <2>5. Len(ref) <= Len(AfterDash(id)) => \A i \in 1..Len(ref) : i \in 1..Len(AfterDash(id))
    BY <1>4
  <2> QED
    BY <1>2, <1>4, <1>6, <2>1, <2>2, <2>3, <2>4, <2>5
<1> QED
  BY <1>5, <1>6

(* Better ways to mean an id are also worse ways.                          *)
LEMMA WaysFold ==
    ASSUME IdsInPractice, NEW ref \in Seq(Chars), NEW id \in IdsInUse \cup Aliases
    PROVE  /\ Exact(ref, id) => ExactFolded(ref, id)
           /\ ExactFolded(ref, id) => BeginsFolded(ref, id)
           /\ Begins(ref, id) => BeginsFolded(ref, id)
<1>1. Exact(ref, id) => ExactFolded(ref, id)
  BY DEF Exact, ExactFolded
<1>2. Begins(ref, id) => BeginsFolded(ref, id)
  BY BeginsMeans
<1>3. ExactFolded(ref, id) => BeginsFolded(ref, id)
  <2> SUFFICES ASSUME FoldCase(id) = FoldCase(ref) PROVE BeginsFolded(ref, id)
    BY DEF ExactFolded, Exact
  <2>1. id \in Seq(Chars)
    BY IdForms
  <2>2. /\ Len(ref) = Len(id) /\ \A i \in 1..Len(ref) : Upper(ref[i]) = Upper(id[i])
        /\ Has(ref, "-") <=> Has(id, "-")
    BY <2>1, FoldFacts
  <2>3. ~Has(id, "-") => AfterDash(id) = id
    BY DEF AfterDash
  <2>4. Len(id) <= Len(id)
    BY <2>1
  <2> QED
    BY <2>2, <2>3, <2>4, BeginsMeans
<1> QED
  BY <1>1, <1>2, <1>3

LEMMA RankFacts ==
    ASSUME IdsInPractice, NEW ref \in Seq(Chars), NEW id \in IdsInUse
    PROVE  /\ Rank(ref, id) \in 1..5
           /\ Rank(ref, id) < 5 <=> BeginsFolded(ref, id)
           /\ Rank(ref, id) = 2 => Begins(ref, id)
           /\ Begins(ref, id) => Rank(ref, id) <= 2
           /\ Rank(ref, id) \in {1, 3} => ExactFolded(ref, id)
  BY WaysFold DEF Rank

(* What begins one id as typed begins no other but for case.               *)
LEMMA BeginsAlike ==
    ASSUME IdsInPractice, NEW ref \in Seq(Chars), NEW x \in IdsInUse, NEW y \in IdsInUse,
           Begins(ref, x), BeginsFolded(ref, y)
    PROVE  Begins(ref, y)
<1>1. /\ x \in Seq(Chars) /\ (Plain(x) \/ \E d : Kinded(x, d))
      /\ y \in Seq(Chars) /\ (Plain(y) \/ \E d : Kinded(y, d))
  BY IdForms
<1>2. CASE Has(ref, "-")
  <2>1. /\ Len(ref) <= Len(x) /\ \A i \in 1..Len(ref) : ref[i] = x[i]
        /\ Len(ref) <= Len(y) /\ \A i \in 1..Len(ref) : Upper(ref[i]) = Upper(y[i])
    BY <1>2, BeginsMeans
  <2>2. PICK i \in 1..Len(ref) : ref[i] = "-"
    BY <1>2 DEF Has
  <2>3. x[i] = "-" /\ y[i] = "-" /\ i \in 1..Len(x) /\ i \in 1..Len(y)
    BY <1>1, <2>1, <2>2, UpperFacts
  <2>4. ~Plain(x) /\ ~Plain(y)
    BY <1>1, <2>3 DEF Plain, Spelt, IdsInPractice
  <2>5. PICK d, e : Kinded(x, d) /\ Kinded(y, e)
    BY <1>1, <2>4
  <2>6. Len(ref) \in Nat /\ \A j \in 1..Len(ref) : Upper(x[j]) = Upper(y[j])
    BY <2>1
  <2>7. \A j \in 1..Len(ref) : x[j] = y[j]
    BY <1>1, <2>1, <2>5, <2>6, SameCaseKinded
  <2> QED
    BY <1>2, <2>1, <2>7, BeginsMeans
<1>3. CASE ~Has(ref, "-")
  <2> DEFINE a == AfterDash(x)
             b == AfterDash(y)
  <2>1. /\ Len(ref) <= Len(a) /\ \A i \in 1..Len(ref) : ref[i] = a[i]
        /\ Len(ref) <= Len(b) /\ \A i \in 1..Len(ref) : Upper(ref[i]) = Upper(b[i])
        /\ a \in Seq(Chars) /\ b \in Seq(Chars)
    BY <1>3, BeginsMeans
  <2>2. Plain(a) /\ Plain(b)
    BY <1>1, PlainFacts DEF Kinded
  <2> HIDE DEF a, b
  <2>3. \A i \in 1..Len(ref) : i \in 1..Len(a) /\ i \in 1..Len(b) /\ Upper(a[i]) = Upper(b[i])
    BY <2>1
  <2>4. \A i \in 1..Len(ref) : a[i] = b[i]
    BY <2>1, <2>2, <2>3, SameCasePlain
  <2>5. \A i \in 1..Len(ref) : ref[i] = b[i]
    BY <2>1, <2>4
  <2> QED
    BY <1>3, <2>1, <2>5, BeginsMeans DEF b
<1> QED
  BY <1>2, <1>3

(* The only id that a reference means in any way is the answer.            *)
LEMMA OnlyMeantFound ==
    ASSUME IdsInPractice, NEW ids \in SUBSET IdsInUse, NEW input,
           StripThreadMarker(input) \in Seq(Chars), NEW id \in ids,
           BeginsFolded(StripThreadMarker(input), id),
           \A other \in ids : BeginsFolded(StripThreadMarker(input), other) => other = id
    PROVE  ResolveFromList(ids, input) = id
<1> DEFINE ref == StripThreadMarker(input)
           ways == << { x \in ids : Exact(ref, x) }, { x \in ids : Begins(ref, x) },
                      { x \in ids : ExactFolded(ref, x) },
                      { x \in ids : BeginsFolded(ref, x) } >>
           fits == { way \in 1..4 : ways[way] # {} }
<1>1. ResolveFromList(ids, input) = IF fits = {} THEN None ELSE Only(ways[Min(fits)])
  BY DEF ResolveFromList
<1>2. \A w \in 1..4 : \A x \in ways[w] : x \in ids /\ BeginsFolded(ref, x)
  <2>1. \A x \in ids : Exact(ref, x) \/ Begins(ref, x) \/ ExactFolded(ref, x)
                       => BeginsFolded(ref, x)
    BY WaysFold
  <2> QED
    BY <2>1
<1>3. \A w \in 1..4 : ways[w] \subseteq {id}
  BY <1>2
<1>4. ways[4] # {} /\ \A w \in 1..4 : w \in fits <=> ways[w] # {}
  OBVIOUS
<1>8. fits \in SUBSET (1..4)
  OBVIOUS
<1> HIDE DEF fits, ways
<1>9. 4 \in fits /\ \A w \in fits : w \in 1..4 /\ ways[w] # {}
  BY <1>4, <1>8
<1>5. Min(fits) \in fits
  BY <1>8, <1>9, LeastOfFour
<1>6. ways[Min(fits)] = {id}
  BY <1>3, <1>5, <1>9
<1>7. Only({id}) = id
  BY DEF Only
<1> QED
  BY <1>1, <1>6, <1>7, <1>9

(* A dashed alias begins no id but itself.                                 *)
LEMMA AliasBeginsItself ==
    ASSUME IdsInPractice, NEW a \in Aliases, ~IsBareToken(a), NEW ref \in Seq(Chars),
           ExactFolded(ref, a), NEW id \in IdsInUse, BeginsFolded(ref, id)
    PROVE  Has(ref, "-") /\ id = a
<1>1. PICK d : /\ a \in Seq(Chars) /\ Kinded(a, d)
               /\ \/ Len(AfterDash(a)) = TokenLen /\ IsOpaque(a)
                  \/ Len(AfterDash(a)) = SequentialLen /\ IsSequential(a)
  <2>1. IsOpaque(a) \/ IsSequential(a)
    BY DEF IdsInPractice, IsValidThreadId
  <2>2. a \in Seq(Chars)
    BY IdForms
  <2>3. CASE IsOpaque(a)
    <3>1. Prefixed(a) /\ Plain(AfterDash(a)) /\ Len(AfterDash(a)) = TokenLen
      BY <2>3 DEF IsOpaque, IsToken, Plain
    <3> QED
      BY <2>2, <2>3, <3>1, PrefixedFacts
  <2>4. CASE IsSequential(a)
    <3>1. Prefixed(a) /\ Plain(AfterDash(a)) /\ Len(AfterDash(a)) = SequentialLen
      BY <2>4 DEF IsSequential, Plain, Spelt
    <3> QED
      BY <2>2, <2>4, <3>1, PrefixedFacts
  <2> QED
    BY <2>1, <2>3, <2>4, <2>2
<1>2. /\ Len(ref) = Len(a) /\ \A i \in 1..Len(ref) : Upper(ref[i]) = Upper(a[i])
      /\ Has(ref, "-") <=> Has(a, "-")
  BY <1>1, FoldFacts DEF ExactFolded, Exact
<1>3. d \in 1..Len(a) /\ a[d] = "-" /\ Len(AfterDash(a)) = Len(a) - d
  BY <1>1, AfterDashFacts DEF Kinded, FirstDash
<1>4. Has(ref, "-")
  BY <1>1, <1>2, <1>3 DEF Has
<1>5. Len(ref) <= Len(id) /\ \A i \in 1..Len(ref) : Upper(ref[i]) = Upper(id[i])
  BY <1>4, BeginsMeans
<1>6. /\ id \in Seq(Chars)
      /\ \/ Plain(id) /\ Len(id) = TokenLen
         \/ (\E e : Kinded(id, e)) /\ Len(AfterDash(id)) = TokenLen /\ IsOpaque(id)
         \/ (\E e : Kinded(id, e)) /\ Len(AfterDash(id)) = SequentialLen
  BY IdForms
<1>7. id[d] = "-" /\ d \in 1..Len(id)
  BY <1>1, <1>2, <1>3, <1>5, <1>6, UpperFacts
<1>8. ~Plain(id)
  BY <1>6, <1>7 DEF Plain, Spelt, IdsInPractice
<1>9. PICK e : Kinded(id, e)
  BY <1>6, <1>8
<1>10. /\ \A j \in 1..Len(a) : a[j] = id[j]
       /\ d = e
  <2>1. PICK n \in Nat : n = Len(a)
    BY <1>1
  <2>2. n <= Len(a) /\ n <= Len(id) /\ \A j \in 1..n : Upper(a[j]) = Upper(id[j])
    BY <1>1, <1>2, <1>5, <2>1
  <2>3. Kinded(a, d) /\ Kinded(id, e) /\ a \in Seq(Chars) /\ id \in Seq(Chars)
    BY <1>1, <1>6, <1>9
  <2>4. /\ \A j \in 1..n : a[j] = id[j]
        /\ d <= n \/ e <= n => d = e
    BY <2>2, <2>3, SameCaseKinded
  <2> QED
    BY <1>3, <2>1, <2>4
<1>11. IsPrefix(a, id)
  BY <1>1, <1>2, <1>5, <1>6, <1>10, PrefixChars
<1>12. ~(IsSequential(a) /\ IsOpaque(id))
  BY <1>11 DEF IdsInPractice
<1>13. Len(AfterDash(id)) = Len(id) - d
  BY <1>6, <1>9, <1>10, AfterDashFacts DEF Kinded
<1>14. SequentialLen \in Nat /\ TokenLen \in Nat /\ SequentialLen < TokenLen
  BY DEF IdsInPractice
<1>15. Len(id) = Len(a)
  BY <1>1, <1>2, <1>3, <1>5, <1>6, <1>8, <1>12, <1>13, <1>14
<1> QED
  BY <1>1, <1>4, <1>6, <1>10, <1>15

-----------------------------------------------------------------------------
(* Two answers to one question.                                            *)

RefOf(l) == StripThreadMarker(l.args[1])
Listed(l) == ResolveFromList(l.ids, l.args[1])
ByWords(l) == l.op \in {"show", "mark"}

(* Where a lookup has its thread from, or its nodes.                       *)
NamedThread(l) ==
    l.phase = "done" /\ l.outcome = "thread" =>
        /\ ByWords(l) /\ ~(l.op = "mark" /\ Len(l.args) > 1)
        /\ \/ l.legacy = None /\ Resolved(Listed(l)) /\ l.thread = Listed(l)
           \/ /\ l.legacy \in Aliases /\ ~Resolved(Listed(l))
              /\ ExactFolded(RefOf(l), l.legacy) /\ l.thread = BareTokenFor(l.legacy)

NamedNode(l) ==
    /\ l.phase = "done" /\ l.outcome = "nodes" => l.op # "show"
    /\ l.op = "mark" /\ ~(Len(l.args) > 1) /\ l.phase \in {"nodes", "done"} =>
           /\ l.todo \in {<<>>, l.args}
           /\ \A pair \in l.found : pair[1] = l.args[1] /\ pair[2] \in NodesInUse

(* What is known on the way.                                               *)
OnTheWay(l) ==
    /\ l.ids \subseteq IdsInUse
    /\ l.phase \in {"trailers", "threads", "published"} => l.legacy = None
    /\ l.phase \in AliasPhases \cup {"trailers", "threads", "published", "index"} =>
           l.todo = <<>>
    /\ l.phase = "replay" => l.op = "node"
    /\ l.phase \in HookPhases => l.op = "commit-msg"
    /\ l.phase \in AliasPhases => ~Resolved(Listed(l))
    /\ l.phase \in {"token", "folded token"} =>
           l.legacy \in Aliases /\ ExactFolded(RefOf(l), l.legacy)
    /\ ByWords(l) /\ l.phase # "idle" => l.args \in Seq(Seq(STRING)) /\ l.args # <<>>

Told(l) == NamedThread(l) /\ NamedNode(l) /\ OnTheWay(l)

LEMMA RefOfTyped ==
    ASSUME NEW l, ByWords(l), OnTheWay(l), l.phase # "idle"
    PROVE  RefOf(l) \in Seq(Chars) /\ l.args[1] \in Seq(Chars)
<1>1. PICK s : s = l.args[1]
  OBVIOUS
<1>2. l.args \in Seq(Seq(STRING)) /\ l.args # <<>>
  BY DEF OnTheWay
<1>3. s \in Seq(STRING)
  BY <1>1, <1>2
<1>4. s \in Seq(Chars)
  BY <1>3 DEF Chars
<1>5. s # <<>> => Tail(s) \in Seq(Chars)
  BY <1>4
<1> QED
  BY <1>1, <1>4, <1>5 DEF RefOf, StripThreadMarker

(* A second thread by the list, while the first is listed.                 *)
LEMMA ListKeepsThread ==
    ASSUME IdsInPractice, NEW now, NEW was, ByWords(now), now.phase = "done",
           OnTheWay(now), OnTheWay(was),
           now.args = was.args, Resolved(Listed(now)), Resolved(Listed(was)),
           Listed(now) # Listed(was), Listed(was) \in now.ids
    PROVE  ExactFolded(RefOf(now), Listed(now))
<1> DEFINE ref == RefOf(now)
           x == Listed(now)
           y == Listed(was)
<1>1. ref \in Seq(Chars) /\ ref = StripThreadMarker(now.args[1])
      /\ ref = StripThreadMarker(was.args[1])
  BY RefOfTyped DEF RefOf
<1>2. x \in now.ids /\ Rank(ref, x) \in 1..4 /\ Rank(ref, y) > Rank(ref, x)
  BY <1>1, ResolveFacts DEF Listed
<1>3. Rank(ref, y) \in 1..4
  BY <1>1, ResolveFacts DEF Listed
<1>4. x \in IdsInUse /\ y \in IdsInUse
  BY <1>2 DEF OnTheWay
<1> HIDE DEF ref, x, y
<1>5. Rank(ref, x) \in {1, 2, 3}
  BY <1>2, <1>3
<1>6. CASE Rank(ref, x) = 2
  <2>1. Begins(ref, x) /\ BeginsFolded(ref, y)
    BY <1>1, <1>3, <1>4, <1>6, RankFacts
  <2>2. Rank(ref, y) <= 2
    BY <1>1, <1>4, <2>1, BeginsAlike, RankFacts
  <2> QED
    BY <1>2, <1>3, <1>6, <2>2
<1>7. CASE Rank(ref, x) \in {1, 3}
  <2>1. ExactFolded(ref, x)
    BY <1>1, <1>4, <1>7, RankFacts
  <2> QED
    BY <2>1 DEF ref, x
<1> QED
  BY <1>5, <1>6, <1>7

(* A thread by an alias, while a thread that the reference meant is listed. *)
LEMMA AliasKeepsThread ==
    ASSUME IdsInPractice, NEW now, NEW was, ByWords(now), now.phase = "done",
           OnTheWay(now), OnTheWay(was),
           now.args = was.args, ~Resolved(Listed(now)), Resolved(Listed(was)),
           Listed(was) \in now.ids, NEW a \in Aliases, ExactFolded(RefOf(now), a)
    PROVE  ExactFolded(RefOf(now), BareTokenFor(a))
<1> DEFINE ref == RefOf(now)
           y == Listed(was)
<1>1. ref \in Seq(Chars) /\ ref = StripThreadMarker(now.args[1])
      /\ ref = StripThreadMarker(was.args[1])
  BY RefOfTyped DEF RefOf
<1>2. Rank(ref, y) \in 1..4
  BY <1>1, ResolveFacts DEF Listed
<1>3. now.ids \in SUBSET IdsInUse /\ y \in IdsInUse
  BY DEF OnTheWay
<1>4. BeginsFolded(ref, y)
  <2> HIDE DEF ref, y
  <2> QED
    BY <1>1, <1>2, <1>3, RankFacts
<1>5. CASE IsBareToken(a)
  BY <1>5 DEF BareTokenFor
<1>6. CASE ~IsBareToken(a)
  <2>1. \A id \in now.ids : BeginsFolded(ref, id) => id = a
    BY <1>1, <1>3, <1>6, AliasBeginsItself
  <2>2. y = a
    BY <1>4, <2>1
  <2>3. Listed(now) = y
    <3>1. PICK input : input = now.args[1]
      OBVIOUS
    <3>2. ref = StripThreadMarker(input)
      BY <3>1 DEF RefOf
    <3> HIDE DEF ref, y
    <3>3. ResolveFromList(now.ids, input) = y
      BY <1>1, <1>3, <1>4, <2>1, <2>2, <3>2, OnlyMeantFound DEF y
    <3> QED
      BY <3>1, <3>3 DEF Listed
  <2> QED
    BY <2>3
<1> QED
  BY <1>5, <1>6

(* A thread where a whole node id was typed.                               *)
LEMMA NodeKeepsMeaning ==
    ASSUME IdsInPractice, NEW now, ByWords(now), OnTheWay(now), NEW n \in NodesInUse,
           now.args[1] = n, NamedThread(now), now.phase = "done", now.outcome = "thread"
    PROVE  ExactFolded(RefOf(now), now.thread)
<1>1. n \in Seq(Chars) /\ Plain(n) /\ Len(n) = TokenLen
  <2>1. n \in Seq(STRING) /\ Allocated(n)
    BY DEF IdsInPractice
  <2>2. n \in Seq(Chars)
    BY <2>1 DEF Chars
  <2> QED
    BY <2>1, <2>2 DEF Allocated, Plain
<1>2. RefOf(now) = n
  <2>1. \A i \in DOMAIN n : n[i] # "@"
    BY <1>1 DEF Plain, Spelt, IdsInPractice
  <2>2. n # <<>> => Head(n) # "@"
    BY <1>1, <2>1
  <2> QED
    BY <2>2 DEF RefOf, StripThreadMarker
<1>3. ~Has(n, "-")
  BY <1>1, PlainFacts
<1>4. CASE Resolved(Listed(now)) /\ now.thread = Listed(now)
  <2>1. PICK x : x = now.thread
    OBVIOUS
  <2>2. x \in now.ids /\ Rank(n, x) \in 1..4
    BY <1>2, <1>4, <2>1, ResolveFacts DEF RefOf, Listed
  <2>3. x \in IdsInUse
    BY <2>2 DEF OnTheWay
  <2>4. BeginsFolded(n, x)
    BY <1>1, <2>2, <2>3, RankFacts
  <2>5. PICK b : b = AfterDash(x)
    OBVIOUS
  <2>6. /\ b \in Seq(Chars) /\ Len(n) <= Len(b)
        /\ \A i \in 1..Len(n) : Upper(n[i]) = Upper(b[i])
    BY <1>1, <1>3, <2>3, <2>4, <2>5, BeginsMeans
  <2>7. /\ x \in Seq(Chars)
        /\ \/ Plain(x) /\ Len(x) = TokenLen
           \/ (\E d : Kinded(x, d)) /\ Len(b) = TokenLen /\ IsOpaque(x)
           \/ Len(b) = SequentialLen
    BY <2>3, <2>5, IdForms
  <2>8. SequentialLen \in Nat /\ TokenLen \in Nat /\ SequentialLen < TokenLen
    BY DEF IdsInPractice
  <2>9. \/ Plain(x) /\ Len(x) = TokenLen /\ b = x
        \/ Plain(b) /\ Len(b) = TokenLen /\ IsOpaque(x)
    BY <1>1, <2>5, <2>6, <2>7, <2>8, PlainFacts DEF Kinded
  <2>10. Plain(b) /\ Len(b) = Len(n)
    BY <1>1, <2>9
  <2>11. \A i \in 1..Len(n) : n[i] = b[i]
    BY <1>1, <2>6, <2>10, SameCasePlain
  <2>12. n = b
    BY <1>1, <2>6, <2>10, <2>11
  <2>13. ~IsOpaque(x)
    BY <2>3, <2>5, <2>12 DEF IdsInPractice
  <2>14. x = n
    BY <2>9, <2>12, <2>13
  <2> QED
    BY <1>2, <2>1, <2>14 DEF ExactFolded, Exact
<1>5. CASE /\ now.legacy \in Aliases
           /\ ExactFolded(RefOf(now), now.legacy) /\ now.thread = BareTokenFor(now.legacy)
  <2>1. PICK a \in Aliases : a = now.legacy
    BY <1>5
  <2>2. a \in Seq(Chars) /\ ExactFolded(n, a)
    BY <1>2, <1>5, <2>1, IdForms
  <2>3. CASE IsBareToken(a)
    BY <1>5, <2>1, <2>3 DEF BareTokenFor
  <2>4. CASE ~IsBareToken(a)
    <3>1. IsOpaque(a) \/ IsSequential(a)
      BY <2>4 DEF IdsInPractice, IsValidThreadId
    <3>2. Prefixed(a) /\ Plain(AfterDash(a))
      BY <3>1 DEF IsOpaque, IsSequential, IsToken, Plain, Spelt
    <3>3. PICK d : Kinded(a, d)
      BY <2>2, <3>2, PrefixedFacts
    <3>4. Has(a, "-")
      BY <2>2, <3>3, AfterDashFacts DEF Kinded
    <3>5. Has(FoldCase(a), "-") /\ ~Has(FoldCase(n), "-")
      BY <1>1, <1>3, <2>2, <3>4, FoldFacts
    <3> QED
      BY <2>2, <3>5 DEF ExactFolded, Exact
  <2> QED
    BY <2>3, <2>4
<1> QED
  BY <1>4, <1>5 DEF NamedThread

-----------------------------------------------------------------------------
(* The steps keep what is known.                                           *)

RefsInUse ==
    /\ DOMAIN threads \cup DOMAIN published \subseteq IdsInUse
    /\ \A t \in DOMAIN threads : threads[t] \subseteq NodesInUse
    /\ \A t \in DOMAIN published : published[t] \subseteq NodesInUse

SameAsked ==
    earlier.phase = "done" =>
        earlier.op = look.op /\ earlier.args = look.args /\ Told(earlier)

MeaningInv == RefsInUse /\ Told(look) /\ SameAsked

LEMMA ToldSame ==
    ASSUME NEW l, NEW m, Told(l), m.op = l.op, m.args = l.args, m.phase = l.phase,
           m.ids = l.ids, m.legacy = l.legacy, m.thread = l.thread, m.todo = l.todo,
           m.found = l.found, m.outcome = l.outcome
    PROVE  Told(m)
  BY DEF Told, NamedThread, NamedNode, OnTheWay, ByWords, Listed, RefOf

LEMMA FailingTold ==
    ASSUME NEW step, Shape(step), Told(step), GoFailing(step), step.op = look.op,
           step.args = look.args
    PROVE  Told(look') /\ SameQuestion
<1>1. look' = [step EXCEPT !.faulty = TRUE]
  BY DEF GoFailing
<1>2. /\ look'.op = step.op /\ look'.args = step.args /\ look'.phase = step.phase
      /\ look'.ids = step.ids /\ look'.legacy = step.legacy /\ look'.thread = step.thread
      /\ look'.todo = step.todo /\ look'.found = step.found
      /\ look'.outcome = step.outcome
  BY <1>1 DEF Shape
<1> QED
  BY <1>2, ToldSame DEF SameQuestion

LEMMA AskTold ==
    ASSUME IdsInPractice, Ask
    PROVE  Told(look') /\ \E q \in Questions : look'.op = q.op /\ look'.args = q.args
<1>1. PICK q \in Questions :
          look' = [Idle EXCEPT
                 !.op = q.op, !.args = q.args, !.phase = FirstPhase(q.op),
                 !.thread = IF q.op = "open" THEN q.args[1] ELSE None,
                 !.todo = IF q.op = "open" THEN Tail(q.args) ELSE <<>>,
                 !.stayedThreads = PresentThreads(threads, published),
                 !.stayedNodes = PresentNodes(threads)]
  BY DEF Ask
<1>2. /\ q.op \in Ops /\ q.args # <<>>
      /\ q.op \in {"show", "mark"} => q.args \in Seq(Seq(STRING))
  BY ReferencesAssumption DEF IdsInPractice
<1>3. \/ FirstPhase(q.op) = "threads" /\ q.op \in {"show", "mark"}
      \/ FirstPhase(q.op) = "index" /\ q.op = "node"
      \/ FirstPhase(q.op) = "open" /\ q.op = "open"
      \/ FirstPhase(q.op) = "trailers" /\ q.op = "commit-msg"
  BY <1>2 DEF FirstPhase, Ops
<1>4. PICK todo : todo = IF q.op = "open" THEN Tail(q.args) ELSE <<>>
  OBVIOUS
<1>5. /\ look'.op = q.op /\ look'.args = q.args /\ look'.phase = FirstPhase(q.op)
      /\ look'.ids = {} /\ look'.legacy = None /\ look'.todo = todo
  BY <1>1, <1>4 DEF Idle
<1>6. q.op # "open" => todo = <<>>
  BY <1>4
<1>7. NamedThread(look') /\ NamedNode(look')
  BY <1>3, <1>5 DEF NamedThread, NamedNode
<1>8. OnTheWay(look')
  BY <1>2, <1>3, <1>5, <1>6 DEF OnTheWay, AliasPhases, HookPhases, ByWords
<1> QED
  BY <1>5, <1>7, <1>8 DEF Told

LEMMA ListThreadsTold ==
    ASSUME LookInv, MeaningInv, ListThreads
    PROVE  Told(look') /\ SameQuestion
<1>1. look.phase = "threads" /\ Shape(look) /\ OnTheWay(look) /\ RefsInUse
  BY DEF ListThreads, LookInv, MeaningInv, Told
<1>2. PICK ids \in {look.ids, DOMAIN threads} :
         \/ Go([look EXCEPT !.ids = ids, !.phase = "published"])
         \/ GoFailing([look EXCEPT !.phase = "published"]) /\ ids = look.ids
  BY DEF ListThreads
<1>3. PICK step : step = [look EXCEPT !.ids = ids, !.phase = "published"]
  OBVIOUS
<1>4. /\ Shape(step) /\ step.op = look.op /\ step.args = look.args
      /\ step.phase = "published" /\ step.ids = ids /\ step.legacy = look.legacy
      /\ step.todo = look.todo
  BY <1>1, <1>3 DEF Shape
<1>5. ids \subseteq IdsInUse
  BY <1>1 DEF RefsInUse, OnTheWay
<1>6. Told(step)
  BY <1>1, <1>4, <1>5 DEF Told, NamedThread, NamedNode, OnTheWay, AliasPhases, HookPhases, ByWords
<1>7. CASE Go(step)
  BY <1>4, <1>6, <1>7 DEF Go, SameQuestion
<1>8. CASE GoFailing([look EXCEPT !.phase = "published"]) /\ ids = look.ids
  <2>1. step = [look EXCEPT !.phase = "published"]
    BY <1>1, <1>3, <1>8 DEF Shape
  <2> QED
    BY <1>4, <1>6, <1>8, <2>1, FailingTold
<1> QED
  BY <1>2, <1>3, <1>7, <1>8

(* The thread, by the list or by an alias.                                 *)
LEMMA GotThreadTold ==
    ASSUME Shape(look), Told(look), ByWords(look), look.phase # "idle",
           look.todo = <<>>, NEW t, NEW step,
           step = GotThread(t),
           \/ look.legacy = None /\ Resolved(Listed(look)) /\ t = Listed(look)
           \/ /\ look.legacy \in Aliases /\ ~Resolved(Listed(look))
              /\ ExactFolded(RefOf(look), look.legacy) /\ t = BareTokenFor(look.legacy),
           look.found = {}
    PROVE  Told(step) /\ step.op = look.op /\ step.args = look.args
<1>1. /\ step.op = look.op /\ step.args = look.args /\ step.thread = t
      /\ step.legacy = look.legacy /\ step.ids = look.ids /\ step.found = look.found
      /\ \/ step.phase = "nodes" /\ step.op = "mark" /\ Len(step.args) > 1
         \/ /\ step.phase = "done" /\ step.outcome = "thread" /\ step.todo = look.todo
            /\ ~(step.op = "mark" /\ Len(step.args) > 1)
  BY GotThreadFacts DEF ByWords
<1>2. NamedThread(step)
  BY <1>1 DEF NamedThread, ByWords, Listed, RefOf
<1>3. NamedNode(step)
  BY <1>1 DEF NamedNode
<1>4. OnTheWay(step)
  BY <1>1 DEF Told, OnTheWay, AliasPhases, HookPhases, ByWords
<1> QED
  BY <1>1, <1>2, <1>3, <1>4 DEF Told

LEMMA AfterListingTold ==
    ASSUME LookInv, MeaningInv, look.phase = "published", NEW pub \in SUBSET IdsInUse,
           NEW step, step = AfterListing(pub)
    PROVE  Told(step) /\ Shape(step) /\ step.op = look.op /\ step.args = look.args
<1>1. /\ Shape(look) /\ Phased(look) /\ Told(look) /\ OnTheWay(look)
      /\ look.op \in {"show", "mark", "commit-msg"} /\ look.found = {}
      /\ look.todo = <<>> /\ look.legacy = None
  BY DEF LookInv, MeaningInv, Told, OnTheWay, Phased
<1>2. Shape(step) /\ step.op = look.op /\ step.args = look.args
  BY <1>1, AfterListingFacts
<1> DEFINE ids == look.ids \cup pub
           answer == ResolveFromList(ids, look.args[1])
<1>3. ids \subseteq IdsInUse
  BY <1>1 DEF OnTheWay
<1>4. CASE look.op = "commit-msg"
  <2>1. PICK pairs : step = [[look EXCEPT !.phase = "done", !.outcome = "warned"]
                                EXCEPT !.found = pairs]
    BY <1>4 DEF AfterListing, Suggest, Finish
  <2>2. step.phase = "done" /\ step.outcome = "warned" /\ step.ids = look.ids
    BY <1>1, <2>1 DEF Shape
  <2> QED
    BY <1>1, <1>2, <1>4, <2>2
       DEF Told, NamedThread, NamedNode, OnTheWay, AliasPhases, HookPhases, ByWords
<1>5. CASE look.op # "commit-msg" /\ Resolved(answer)
  <2>1. step = [GotThread(answer) EXCEPT !.ids = ids]
    BY <1>5 DEF AfterListing
  <2>2. PICK got : got = GotThread(answer)
    OBVIOUS
  <2>3. step = [got EXCEPT !.ids = ids]
    BY <2>1, <2>2
  <2>4. answer = ResolveFromList(ids, look.args[1])
    OBVIOUS
  <2> HIDE DEF ids, answer
  <2>5. /\ Shape(got)
        /\ got.op = look.op /\ got.args = look.args /\ got.thread = answer
        /\ got.legacy = look.legacy /\ got.found = look.found
        /\ \/ got.phase = "nodes" /\ got.op = "mark" /\ Len(got.args) > 1
           \/ /\ got.phase = "done" /\ got.outcome = "thread" /\ got.todo = look.todo
              /\ ~(got.op = "mark" /\ Len(got.args) > 1)
    BY <1>1, <1>5, <2>2, GotThreadFacts
  <2>6. /\ step.phase = got.phase /\ step.outcome = got.outcome /\ step.todo = got.todo
        /\ step.thread = got.thread /\ step.legacy = got.legacy /\ step.ids = ids
        /\ step.found = got.found
    BY <2>3, <2>5 DEF Shape
  <2>7. Listed(step) = answer
    BY <1>2, <2>4, <2>6 DEF Listed
  <2>8. NamedThread(step) /\ NamedNode(step)
    BY <1>1, <1>2, <1>5, <2>5, <2>6, <2>7 DEF NamedThread, NamedNode, ByWords
  <2>9. OnTheWay(step)
    BY <1>1, <1>2, <1>3, <2>5, <2>6 DEF OnTheWay, AliasPhases, HookPhases, ByWords
  <2> QED
    BY <1>2, <2>8, <2>9 DEF Told
<1>6. CASE look.op # "commit-msg" /\ ~Resolved(answer)
  <2>1. step = [look EXCEPT !.ids = ids, !.phase = "alias"]
    BY <1>6 DEF AfterListing
  <2>2. answer = ResolveFromList(ids, look.args[1])
    OBVIOUS
  <2> HIDE DEF ids, answer
  <2>3. step.phase = "alias" /\ step.ids = ids /\ step.todo = look.todo
    BY <1>1, <2>1 DEF Shape
  <2>4. Listed(step) = answer
    BY <1>2, <2>2, <2>3 DEF Listed
  <2> QED
    BY <1>1, <1>2, <1>3, <1>6, <2>3, <2>4
       DEF Told, NamedThread, NamedNode, OnTheWay, AliasPhases, HookPhases, ByWords
<1> QED
  BY <1>4, <1>5, <1>6

LEMMA ListPublishedTold ==
    ASSUME LookInv, MeaningInv, ListPublished
    PROVE  Told(look') /\ SameQuestion
<1>1. look.phase = "published" /\ DOMAIN published \in SUBSET IdsInUse
  BY DEF ListPublished, MeaningInv, RefsInUse
<1>2. CASE Go(AfterListing(DOMAIN published))
  BY <1>1, <1>2, AfterListingTold DEF Go, SameQuestion
<1>3. CASE GoFailing(AfterListing({}))
  <2>1. PICK step : step = AfterListing({})
    OBVIOUS
  <2>2. Told(step) /\ Shape(step) /\ step.op = look.op /\ step.args = look.args
    BY <1>1, <2>1, AfterListingTold
  <2> QED
    BY <1>3, <2>1, <2>2, FailingTold
<1> QED
  BY <1>2, <1>3 DEF ListPublished

(* A lookup that goes on with an alias, or to the next way.                *)
LEMMA OnwardTold ==
    ASSUME Shape(look), Told(look), look.phase \in AliasPhases, ByWords(look),
           NEW phase \in {"token", "aliases", "folded token", "index"}, NEW legacy,
           phase \in {"token", "folded token"} =>
               legacy \in Aliases /\ ExactFolded(RefOf(look), legacy),
           NEW step, step = [look EXCEPT !.legacy = legacy, !.phase = phase]
    PROVE  Told(step) /\ Shape(step) /\ step.op = look.op /\ step.args = look.args
<1>1. /\ Shape(step) /\ step.op = look.op /\ step.args = look.args
      /\ step.phase = phase /\ step.ids = look.ids /\ step.legacy = legacy
      /\ step.todo = look.todo
  BY DEF Shape
<1> QED
  BY <1>1 DEF Told, NamedThread, NamedNode, OnTheWay, AliasPhases, HookPhases, ByWords,
              Listed, RefOf

LEMMA AliasRefTold ==
    ASSUME LookInv, MeaningInv, AliasRef
    PROVE  Told(look') /\ SameQuestion
<1>1. /\ look.phase = "alias" /\ look.phase \in AliasPhases /\ ByWords(look)
      /\ Shape(look) /\ Told(look)
  BY DEF AliasRef, LookInv, MeaningInv, Phased, AliasPhases, ByWords
<1>2. PICK legacy, phase :
         /\ look' = [look EXCEPT !.legacy = legacy, !.phase = phase]
         /\ \/ legacy = Ref /\ phase = "token" /\ Ref \in Aliases
            \/ legacy = look.legacy /\ phase = "aliases"
  <2>1. CASE Ref \in Aliases
    BY <2>1 DEF AliasRef, Go
  <2>2. CASE Ref \notin Aliases
    <3>1. [look EXCEPT !.phase = "aliases"]
              = [look EXCEPT !.legacy = look.legacy, !.phase = "aliases"]
      BY <1>1 DEF Shape
    <3> QED
      BY <2>2, <3>1 DEF AliasRef, Go
  <2> QED
    BY <2>1, <2>2
<1>3. legacy = Ref => ExactFolded(RefOf(look), legacy)
  BY DEF Ref, RefOf, ExactFolded, Exact
<1> QED
  BY <1>1, <1>2, <1>3, OnwardTold DEF SameQuestion

LEMMA CanonicaliseTold ==
    ASSUME LookInv, MeaningInv, Canonicalise
    PROVE  Told(look') /\ SameQuestion
<1>1. /\ look.phase \in {"token", "folded token"} /\ look.phase \in AliasPhases
      /\ ByWords(look) /\ Shape(look) /\ Told(look) /\ look.found = {} /\ look.todo = <<>>
      /\ look.legacy \in Aliases /\ ExactFolded(RefOf(look), look.legacy)
      /\ ~Resolved(Listed(look))
  BY DEF Canonicalise, LookInv, MeaningInv, Phased, AliasPhases, ByWords, Told, OnTheWay
<1>2. PICK absent : absent = (IF look.phase = "token" THEN [look EXCEPT !.phase = "aliases"]
                              ELSE NoThread)
  OBVIOUS
<1>3. PICK phase \in {"aliases", "index"} : absent = [look EXCEPT !.phase = phase]
  BY <1>2 DEF NoThread
<1>4. absent = [look EXCEPT !.legacy = look.legacy, !.phase = phase]
  BY <1>1, <1>3 DEF Shape
<1>5. Told(absent) /\ Shape(absent) /\ absent.op = look.op /\ absent.args = look.args
  BY <1>1, <1>4, OnwardTold
<1>6. PICK t : t = BareTokenFor(look.legacy)
  OBVIOUS
<1>7. Go(GotThread(t)) \/ Go(absent) \/ GoFailing(absent)
  BY <1>2, <1>6 DEF Canonicalise
<1>8. CASE Go(GotThread(t))
  <2>1. PICK step : step = GotThread(t)
    OBVIOUS
  <2>2. Told(step) /\ step.op = look.op /\ step.args = look.args
    BY <1>1, <1>6, <2>1, GotThreadTold
  <2> QED
    BY <1>8, <2>1, <2>2 DEF Go, SameQuestion
<1>9. CASE Go(absent)
  BY <1>5, <1>9 DEF Go, SameQuestion
<1>10. CASE GoFailing(absent)
  BY <1>5, <1>10, FailingTold
<1> QED
  BY <1>7, <1>8, <1>9, <1>10

LEMMA AliasListTold ==
    ASSUME LookInv, MeaningInv, AliasList
    PROVE  Told(look') /\ SameQuestion
<1> DEFINE hits == { a \in Aliases : ExactFolded(Ref, a) }
<1>1. /\ look.phase = "aliases" /\ look.phase \in AliasPhases /\ ByWords(look)
      /\ Shape(look) /\ Told(look)
  BY DEF AliasList, LookInv, MeaningInv, Phased, AliasPhases, ByWords
<1>2. PICK absent : absent = NoThread
  OBVIOUS
<1>3. absent = [look EXCEPT !.legacy = look.legacy, !.phase = "index"]
  BY <1>1, <1>2 DEF NoThread, Shape
<1>4. Told(absent) /\ Shape(absent) /\ absent.op = look.op /\ absent.args = look.args
  BY <1>1, <1>3, OnwardTold
<1>5. CASE Resolved(Only(hits))
           /\ Go([look EXCEPT !.legacy = Only(hits), !.phase = "folded token"])
  <2>1. Only(hits) \in hits
    BY <1>5, OnlyFacts
  <2>2. PICK legacy : legacy = Only(hits)
    OBVIOUS
  <2>3. legacy \in Aliases /\ ExactFolded(RefOf(look), legacy)
    BY <2>1, <2>2 DEF Ref, RefOf
  <2>4. look' = [look EXCEPT !.legacy = legacy, !.phase = "folded token"]
    BY <1>5, <2>2 DEF Go
  <2> QED
    BY <1>1, <2>3, <2>4, OnwardTold DEF SameQuestion
<1>6. CASE Go(absent)
  BY <1>4, <1>6 DEF Go, SameQuestion
<1>7. CASE GoFailing(absent)
  BY <1>4, <1>7, FailingTold
<1> QED
  BY <1>2, <1>5, <1>6, <1>7 DEF AliasList

(* A lookup that ends, or replays a node it has found, without a thread.   *)
LEMMA EndTold ==
    ASSUME NEW step, Told(look), look.phase # "idle", step.op = look.op,
           step.args = look.args, step.ids = look.ids, step.phase = "done", step.outcome # "thread",
           step.outcome = "nodes" => look.op # "show",
           look.op = "mark" =>
               /\ step.todo \in {<<>>, look.args}
               /\ \/ step.found = {}
                  \/ step.found = look.found /\ look.phase \in {"nodes", "done"}
    PROVE  Told(step)
<1>1. NamedThread(step)
  BY DEF NamedThread
<1>2. NamedNode(step)
  BY DEF Told, NamedNode
<1>3. OnTheWay(step)
  BY DEF Told, OnTheWay, AliasPhases, HookPhases, ByWords
<1> QED
  BY <1>1, <1>2, <1>3 DEF Told

LEMMA AfterIndexTold ==
    ASSUME LookInv, MeaningInv, look.phase = "index", NEW index, NEW step,
           step = AfterIndex(index)
    PROVE  Told(step) /\ Shape(step) /\ step.op = look.op /\ step.args = look.args
<1>1. /\ Shape(look) /\ Phased(look) /\ Told(look) /\ look.found = {} /\ look.todo = <<>>
      /\ look.op \in {"show", "mark", "node"}
  BY DEF LookInv, MeaningInv, Phased, Told, OnTheWay
<1>2. Shape(step) /\ step.op = look.op /\ step.args = look.args
  BY <1>1, AfterIndexFacts
<1>3. CASE step = [look EXCEPT !.phase = "done", !.outcome = "error"]
  <2>1. /\ step.phase = "done" /\ step.outcome = "error" /\ step.ids = look.ids
        /\ step.found = {} /\ step.todo = <<>>
    BY <1>1, <1>3 DEF Shape
  <2>2. NamedThread(step) /\ NamedNode(step)
    BY <2>1 DEF NamedThread, NamedNode
  <2>3. OnTheWay(step)
    BY <1>1, <1>2, <2>1 DEF Told, OnTheWay, AliasPhases, HookPhases, ByWords
  <2> QED
    BY <1>2, <2>2, <2>3 DEF Told
<1>4. CASE look.op = "show"
  <2> DEFINE owners == OwnersOf(index, Ref)
  <2>1. CASE Resolved(Only(owners))
    <3>1. step = [[look EXCEPT !.phase = "done", !.outcome = "redirect"]
                     EXCEPT !.thread = Only(owners), !.found = {<<Ref, Ref>>}]
      BY <1>4, <2>1 DEF AfterIndex, Redirect, Finish
    <3> HIDE DEF owners
    <3>2. step.phase = "done" /\ step.outcome = "redirect" /\ step.ids = look.ids
      BY <1>1, <3>1 DEF Shape
    <3> QED
      BY <1>1, <1>2, <1>4, <3>2, EndTold
  <2>2. CASE ~Resolved(Only(owners))
    BY <1>3, <1>4, <2>2 DEF AfterIndex, Redirect, Finish
  <2> QED
    BY <2>1, <2>2
<1>5. CASE look.op = "mark"
  <2> DEFINE answers == { IndexResolve(index, look.args[i]) : i \in DOMAIN look.args }
             owners == { a[1] : a \in answers }
             good == (\A a \in answers : Resolved(a)) /\ Resolved(Only(owners))
  <2>1. CASE good
    <3>1. step = [look EXCEPT !.thread = Only(owners), !.todo = look.args, !.phase = "nodes"]
      BY <1>5, <2>1 DEF AfterIndex, Targets
    <3> HIDE DEF owners, good
    <3>2. /\ step.phase = "nodes" /\ step.ids = look.ids /\ step.found = {}
          /\ step.todo = look.args
      BY <1>1, <3>1 DEF Shape
    <3> QED
      BY <1>1, <1>2, <1>5, <3>2
         DEF Told, NamedThread, NamedNode, OnTheWay, AliasPhases, HookPhases, ByWords
  <2>2. CASE ~good
    BY <1>3, <1>5, <2>2 DEF AfterIndex, Targets, Finish
  <2> QED
    BY <2>1, <2>2
<1>6. CASE look.op = "node"
  <2> DEFINE ref == look.args[1]
             answer == IndexResolve(index, ref)
  <2>1. CASE Resolved(answer)
    <3>1. step = [look EXCEPT !.thread = answer[1], !.found = {<<ref, answer[2]>>},
                              !.phase = "replay"]
      BY <1>6, <2>1 DEF AfterIndex, Node
    <3> HIDE DEF answer
    <3>2. step.phase = "replay" /\ step.ids = look.ids
      BY <1>1, <3>1 DEF Shape
    <3> QED
      BY <1>1, <1>2, <1>6, <3>2
         DEF Told, NamedThread, NamedNode, OnTheWay, AliasPhases, HookPhases, ByWords
  <2>2. CASE ~Resolved(answer)
    BY <1>3, <1>6, <2>2 DEF AfterIndex, Node, Finish
  <2> QED
    BY <2>1, <2>2
<1> QED
  BY <1>1, <1>4, <1>5, <1>6

LEMMA BuildIndexTold ==
    ASSUME LookInv, MeaningInv, BuildIndex
    PROVE  Told(look') /\ SameQuestion
<1>1. look.phase = "index"
  BY DEF BuildIndex
<1>2. PICK index : Go(AfterIndex(index)) \/ GoFailing(AfterIndex(index))
  BY DEF BuildIndex
<1>3. PICK step : step = AfterIndex(index)
  OBVIOUS
<1>4. Told(step) /\ Shape(step) /\ step.op = look.op /\ step.args = look.args
  BY <1>1, <1>3, AfterIndexTold
<1>5. CASE Go(step)
  BY <1>4, <1>5 DEF Go, SameQuestion
<1>6. CASE GoFailing(step)
  BY <1>4, <1>6, FailingTold
<1> QED
  BY <1>2, <1>3, <1>5, <1>6

LEMMA ReplayThreadTold ==
    ASSUME LookInv, MeaningInv, ReplayThread
    PROVE  Told(look') /\ SameQuestion
<1>1. look.phase = "replay" /\ look.op = "node" /\ Shape(look) /\ Told(look)
  BY DEF ReplayThread, LookInv, MeaningInv, Told, OnTheWay
<1>2. \/ look' = [look EXCEPT !.phase = "done", !.outcome = "nodes"]
      \/ look' = [[look EXCEPT !.phase = "done", !.outcome = "error"] EXCEPT !.found = {}]
  BY DEF ReplayThread, Go, Finish
<1>3. /\ look'.op = look.op /\ look'.args = look.args /\ look'.ids = look.ids
      /\ look'.phase = "done" /\ look'.outcome # "thread"
  BY <1>1, <1>2 DEF Shape
<1> QED
  BY <1>1, <1>3, EndTold DEF SameQuestion

LEMMA OpenThreadTold ==
    ASSUME LookInv, MeaningInv, OpenThread
    PROVE  Told(look') /\ SameQuestion
<1>1. look.phase = "open" /\ look.op = "open" /\ Shape(look) /\ Told(look)
  BY DEF OpenThread, LookInv, MeaningInv, Phased
<1>2. CASE look' = [look EXCEPT !.phase = "done", !.outcome = "error"]
  <2>1. /\ look'.op = look.op /\ look'.args = look.args /\ look'.ids = look.ids
        /\ look'.phase = "done" /\ look'.outcome = "error"
    BY <1>1, <1>2 DEF Shape
  <2> QED
    BY <1>1, <2>1, EndTold DEF SameQuestion
<1>3. CASE look' = [look EXCEPT !.seen = NodesOf(look.thread), !.phase = "nodes"]
  <2>1. /\ look'.op = look.op /\ look'.args = look.args /\ look'.ids = look.ids
        /\ look'.phase = "nodes"
    BY <1>1, <1>3 DEF Shape
  <2> QED
    BY <1>1, <2>1 DEF SameQuestion, Told, NamedThread, NamedNode, OnTheWay, AliasPhases,
                      HookPhases, ByWords
<1> QED
  BY <1>2, <1>3 DEF OpenThread, Go, Finish

LEMMA OneArgument ==
    ASSUME NEW C, NEW s \in Seq(C), s # <<>>, ~(Len(s) > 1)
    PROVE  Tail(s) = <<>> /\ Head(s) = s[1]
<1>1. Len(s) = 1
  <2>1. Len(s) \in Nat /\ (Len(s) = 0 => s = <<>>)
    OBVIOUS
  <2>2. Len(s) <= 1
    BY <2>1
  <2> QED
    BY <2>1, <2>2
<1>2. Len(Tail(s)) = 0 /\ Tail(s) \in Seq(C)
  BY <1>1
<1> QED
  BY <1>2

LEMMA ResolveNextTold ==
    ASSUME LookInv, MeaningInv, ResolveNext
    PROVE  Told(look') /\ SameQuestion
<1> DEFINE ref == Head(look.todo)
           answer == IF CanRead(look.thread) THEN ResolveNode(NodesOf(look.thread), ref)
                     ELSE None
           kept == Resolved(answer) /\ (look.op = "open" => answer \in look.seen)
           found == IF kept THEN look.found \cup {<<ref, answer>>} ELSE look.found
<1>1. /\ look.phase = "nodes" /\ look.todo # <<>> /\ Shape(look) /\ Told(look)
      /\ look.op \in {"mark", "open"}
  BY DEF ResolveNext, LookInv, MeaningInv, Phased
<1>2. look' = [look EXCEPT !.todo = Tail(@), !.found = found]
  BY DEF ResolveNext, Go
<1>3. Resolved(answer) => answer \in NodesInUse
  <2> SUFFICES ASSUME Resolved(answer) PROVE answer \in NodesInUse
    OBVIOUS
  <2>1. CanRead(look.thread) /\ answer = ResolveNode(NodesOf(look.thread), ref)
    BY DEF Resolved
  <2>2. answer \in NodesOf(look.thread)
    BY <2>1, ResolveNodeFacts
  <2>3. NodesOf(look.thread) \subseteq NodesInUse
    BY <2>1 DEF MeaningInv, RefsInUse, CanRead, NodesOf
  <2> QED
    BY <2>2, <2>3
<1> HIDE DEF answer, ref
<1>4. \A pair \in found : pair \in look.found \/ (Resolved(answer) /\ pair = <<ref, answer>>)
  OBVIOUS
<1> HIDE DEF found
<1>5. /\ look'.op = look.op /\ look'.args = look.args /\ look'.ids = look.ids
      /\ look'.phase = "nodes" /\ look'.todo = Tail(look.todo) /\ look'.found = found
  BY <1>1, <1>2 DEF Shape
<1>6. ASSUME look.op = "mark", ~(Len(look.args) > 1)
      PROVE  Tail(look.todo) = <<>> /\ ref = look.args[1]
  <2>1. look.todo = look.args /\ look.args \in Seq(Seq(STRING)) /\ look.args # <<>>
    BY <1>1, <1>6 DEF Told, NamedNode, OnTheWay, ByWords
  <2>2. Tail(look.args) = <<>> /\ Head(look.args) = look.args[1]
    BY <1>6, <2>1, OneArgument
  <2> QED
    BY <2>1, <2>2 DEF ref
<1>7. NamedNode(look')
  <2> SUFFICES ASSUME look.op = "mark", ~(Len(look.args) > 1), NEW pair \in found
               PROVE  pair[1] = look.args[1] /\ pair[2] \in NodesInUse
    BY <1>5, <1>6 DEF NamedNode
  <2>1. CASE pair \in look.found
    BY <1>1, <2>1 DEF Told, NamedNode
  <2>2. CASE Resolved(answer) /\ pair = <<ref, answer>>
    BY <1>3, <1>6, <2>2
  <2> QED
    BY <1>4, <2>1, <2>2
<1> QED
  BY <1>1, <1>5, <1>7
     DEF SameQuestion, Told, NamedThread, OnTheWay, AliasPhases, HookPhases, ByWords

LEMMA AllResolvedTold ==
    ASSUME LookInv, MeaningInv, AllResolved
    PROVE  Told(look') /\ SameQuestion
<1>1. /\ look.phase = "nodes" /\ look.todo = <<>> /\ Shape(look) /\ Told(look)
      /\ look.op # "show"
  BY DEF AllResolved, LookInv, MeaningInv, Phased
<1>2. PICK outcome \in {"error", "nodes"} :
          look' = [look EXCEPT !.phase = "done", !.outcome = outcome]
  BY DEF AllResolved, Go, Finish
<1>3. /\ look'.op = look.op /\ look'.args = look.args /\ look'.ids = look.ids
      /\ look'.phase = "done" /\ look'.outcome # "thread"
      /\ look'.todo = <<>> /\ look'.found = look.found
  BY <1>1, <1>2 DEF Shape
<1> QED
  BY <1>1, <1>3, EndTold DEF SameQuestion

(* The hook names neither a thread nor a node.                             *)
LEMMA HookStepTold ==
    ASSUME Told(look), look.op = "commit-msg", NEW step, step.op = look.op,
           step.args = look.args, step.ids = look.ids,
           \/ step.phase \in {"ref threads", "ref published", "ref alias"}
           \/ step.phase = "done" /\ step.outcome # "thread"
    PROVE  Told(step)
  BY DEF Told, NamedThread, NamedNode, OnTheWay, AliasPhases, HookPhases, ByWords

LEMMA HookTold ==
    ASSUME LookInv, MeaningInv, ReadTrailers \/ CheckThreadRef \/ EndCheck
    PROVE  Told(look') /\ SameQuestion
<1>1. /\ look.op = "commit-msg" /\ look.phase \in HookPhases /\ Shape(look) /\ Told(look)
  BY DEF ReadTrailers, CheckThreadRef, EndCheck, LookInv, MeaningInv, Told, OnTheWay,
         HookPhases
<1>3. CASE ReadTrailers
  <2>1. PICK ids : \/ look' = [look EXCEPT !.phase = "threads"]
                   \/ look' = [look EXCEPT !.todo = ids, !.phase = "ref threads"]
    BY <1>3 DEF ReadTrailers, Go
  <2>2. CASE look' = [look EXCEPT !.phase = "threads"]
    <3>1. /\ look'.op = look.op /\ look'.args = look.args /\ look'.ids = look.ids
          /\ look'.phase = "threads" /\ look'.todo = look.todo /\ look'.legacy = look.legacy
      BY <1>1, <2>2 DEF Shape
    <3>2. look.todo = <<>> /\ look.legacy = None
      BY <1>1, <1>3 DEF ReadTrailers, Told, OnTheWay
    <3> QED
      BY <1>1, <3>1, <3>2 DEF SameQuestion, Told, NamedThread, NamedNode, OnTheWay,
                              AliasPhases, HookPhases, ByWords
  <2>3. CASE look' = [look EXCEPT !.todo = ids, !.phase = "ref threads"]
    <3>1. /\ look'.op = look.op /\ look'.args = look.args /\ look'.ids = look.ids
          /\ look'.phase = "ref threads"
      BY <1>1, <2>3 DEF Shape
    <3> QED
      BY <1>1, <3>1, HookStepTold DEF SameQuestion
  <2> QED
    BY <2>1, <2>2, <2>3
<1>4. CASE CheckThreadRef
  <2> DEFINE id == Head(look.todo)
             rest == [look EXCEPT !.todo = Tail(@), !.phase = "ref threads"]
  <2>1. PICK next : next = rest
    OBVIOUS
  <2>2. /\ Shape(next) /\ next.op = look.op /\ next.args = look.args
        /\ next.ids = look.ids /\ next.phase = "ref threads"
    BY <1>1, <2>1 DEF Shape
  <2>3. PICK absent : absent =
            CASE look.phase = "ref threads" -> [look EXCEPT !.phase = "ref published"]
              [] look.phase = "ref published" -> [look EXCEPT !.phase = "ref alias"]
              [] look.phase = "ref alias" -> [next EXCEPT !.missing = @ \cup {id}]
    OBVIOUS
  <2>4. \/ look' = [next EXCEPT !.found = @ \cup {<<id, id>>}]
        \/ look' = absent
        \/ GoFailing(absent)
    BY <1>4, <2>1, <2>3 DEF CheckThreadRef, Go
  <2>5. look.phase \in {"ref threads", "ref published", "ref alias"}
    BY <1>4 DEF CheckThreadRef
  <2> HIDE DEF id, rest
  <2>6. /\ Shape(absent) /\ absent.op = look.op /\ absent.args = look.args
        /\ absent.ids = look.ids
        /\ absent.phase \in {"ref threads", "ref published", "ref alias"}
    <3>1. \/ absent = [look EXCEPT !.phase = "ref published"]
          \/ absent = [look EXCEPT !.phase = "ref alias"]
          \/ absent = [next EXCEPT !.missing = @ \cup {id}]
      BY <2>3, <2>5
    <3> QED
      BY <1>1, <2>2, <3>1 DEF Shape
  <2>7. CASE look' = [next EXCEPT !.found = @ \cup {<<id, id>>}]
    <3>1. /\ look'.op = look.op /\ look'.args = look.args /\ look'.ids = look.ids
          /\ look'.phase = "ref threads"
      BY <2>2, <2>7 DEF Shape
    <3> QED
      BY <1>1, <3>1, HookStepTold DEF SameQuestion
  <2>8. CASE look' = absent
    BY <1>1, <2>6, <2>8, HookStepTold DEF SameQuestion
  <2>9. CASE GoFailing(absent)
    BY <1>1, <2>6, <2>9, HookStepTold, FailingTold
  <2> QED
    BY <2>4, <2>7, <2>8, <2>9
<1>5. CASE EndCheck
  <2>1. PICK outcome \in {"accepted", "refused"} :
            look' = [look EXCEPT !.phase = "done", !.outcome = outcome]
    BY <1>5 DEF EndCheck, Go, Finish
  <2>2. /\ look'.op = look.op /\ look'.args = look.args /\ look'.ids = look.ids
        /\ look'.phase = "done" /\ look'.outcome # "thread"
    BY <1>1, <2>1 DEF Shape
  <2> QED
    BY <1>1, <2>2, HookStepTold DEF SameQuestion
<1> QED
  BY <1>3, <1>4, <1>5

-----------------------------------------------------------------------------
LEMMA LookMeaning ==
    ASSUME IdsInPractice, LookInv, MeaningInv, LookNext
    PROVE  MeaningInv'
<1>1. CASE Ask
  <2>1. UNCHANGED <<threads, published>> /\ earlier.phase = "idle"
    BY <1>1 DEF Ask
  <2>2. Told(look')
    BY <1>1, AskTold
  <2>3. SameAsked'
    <3>1. CASE look.phase = "done"
      <4>1. PICK q \in Questions :
              /\ q.op = look.op /\ q.args = look.args
              /\ look' = [Idle EXCEPT
                   !.op = q.op, !.args = q.args, !.phase = FirstPhase(q.op),
                   !.thread = IF q.op = "open" THEN q.args[1] ELSE None,
                   !.todo = IF q.op = "open" THEN Tail(q.args) ELSE <<>>,
                   !.stayedThreads = PresentThreads(threads, published),
                   !.stayedNodes = PresentNodes(threads)]
        BY <1>1, <3>1 DEF Ask
      <4>2. look'.op = q.op /\ look'.args = q.args
        BY <4>1 DEF Idle
      <4>3. earlier' = look
        BY <1>1, <3>1 DEF Ask
      <4> QED
        BY <4>1, <4>2, <4>3 DEF SameAsked, MeaningInv
    <3>2. CASE look.phase # "done"
      <4>1. earlier' = earlier
        BY <1>1, <3>2 DEF Ask
      <4> QED
        BY <2>1, <4>1 DEF SameAsked
    <3> QED
      BY <3>1, <3>2
  <2> QED
    BY <2>1, <2>2, <2>3 DEF MeaningInv, RefsInUse
<1>2. CASE ~Ask
  <2>1. Told(look') /\ SameQuestion
    BY <1>2, ListThreadsTold, ListPublishedTold, AliasRefTold, CanonicaliseTold, AliasListTold,
       BuildIndexTold, ReplayThreadTold, OpenThreadTold, ResolveNextTold, AllResolvedTold,
       HookTold DEF LookNext
  <2>2. UNCHANGED <<threads, published, earlier>>
    BY <1>2 DEF LookNext, ListThreads, ListPublished, AliasRef, Canonicalise, AliasList,
       BuildIndex, ReplayThread, OpenThread, ResolveNext, AllResolved, ReadTrailers,
       CheckThreadRef, EndCheck, Go, GoFailing
  <2> QED
    BY <2>1, <2>2 DEF MeaningInv, RefsInUse, SameAsked, SameQuestion
<1> QED
  BY <1>1, <1>2

(* What others bring is in use.                                            *)
LEMMA BecomeMeaning ==
    ASSUME LookInv, MeaningInv, NEW auth, NEW pub, Become(auth, pub),
           DOMAIN auth \cup DOMAIN pub \subseteq IdsInUse,
           \A t \in DOMAIN auth : auth[t] \subseteq NodesInUse,
           \A t \in DOMAIN pub : pub[t] \subseteq NodesInUse
    PROVE  MeaningInv'
<1>1. /\ threads' = auth /\ published' = pub /\ earlier' = earlier
      /\ look' = [look EXCEPT !.stayedThreads = @ \cap PresentThreads(auth, pub),
                              !.stayedNodes = @ \cap PresentNodes(auth)]
  BY DEF Become
<1>2. /\ look'.op = look.op /\ look'.args = look.args /\ look'.phase = look.phase
      /\ look'.ids = look.ids /\ look'.legacy = look.legacy /\ look'.thread = look.thread
      /\ look'.todo = look.todo /\ look'.found = look.found
      /\ look'.outcome = look.outcome
  BY <1>1 DEF LookInv, Shape
<1>3. Told(look')
  BY <1>2, ToldSame DEF MeaningInv
<1>4. SameAsked'
  BY <1>1, <1>2 DEF MeaningInv, SameAsked
<1>5. RefsInUse'
  BY <1>1 DEF RefsInUse
<1> QED
  BY <1>3, <1>4, <1>5 DEF MeaningInv

LEMMA OthersMeaning ==
    ASSUME LookInv, MeaningInv, OthersNext
    PROVE  MeaningInv'
<1>1. RefsInUse /\ NewIds \subseteq IdsInUse /\ NodeIds \subseteq NodesInUse
  BY DEF MeaningInv, IdsInUse, NodesInUse
<1>2. ASSUME NEW f, NEW x, DOMAIN f \subseteq IdsInUse,
             \A t \in DOMAIN f : f[t] \subseteq NodesInUse,
             NEW g, g = Without(f, x)
      PROVE  DOMAIN g \subseteq IdsInUse /\ \A t \in DOMAIN g : g[t] \subseteq NodesInUse
  BY <1>2 DEF Without
<1>3. ASSUME NEW f, NEW x \in IdsInUse, NEW v \in SUBSET NodesInUse,
             DOMAIN f \subseteq IdsInUse, \A t \in DOMAIN f : f[t] \subseteq NodesInUse,
             NEW g, g = Set(f, x, v)
      PROVE  DOMAIN g \subseteq IdsInUse /\ \A t \in DOMAIN g : g[t] \subseteq NodesInUse
  BY <1>3 DEF Set
<1>4. CASE AddThread
  <2>1. PICK t \in NewIds : Become(Set(threads, t, {}), published)
    BY <1>4 DEF AddThread
  <2>2. PICK auth : auth = Set(threads, t, {})
    OBVIOUS
  <2>3. DOMAIN auth \subseteq IdsInUse /\ \A u \in DOMAIN auth : auth[u] \subseteq NodesInUse
    BY <1>1, <1>3, <2>1, <2>2 DEF RefsInUse
  <2> QED
    BY <1>1, <2>1, <2>2, <2>3, BecomeMeaning DEF RefsInUse
<1>5. CASE AddPublished
  <2>1. PICK t \in NewIds :
            Become(threads, Set(published, t, IF t \in DOMAIN threads THEN threads[t] ELSE {}))
    BY <1>5 DEF AddPublished
  <2>2. PICK v \in SUBSET NodesInUse : v = IF t \in DOMAIN threads THEN threads[t] ELSE {}
    BY <1>1 DEF RefsInUse
  <2>3. PICK pub : pub = Set(published, t, v)
    OBVIOUS
  <2>4. DOMAIN pub \subseteq IdsInUse /\ \A u \in DOMAIN pub : pub[u] \subseteq NodesInUse
    BY <1>1, <1>3, <2>1, <2>3 DEF RefsInUse
  <2> QED
    BY <1>1, <2>1, <2>2, <2>3, <2>4, BecomeMeaning DEF RefsInUse
<1>6. CASE NodeAppears \/ LoseNode
  <2>1. PICK t \in DOMAIN threads, v \in SUBSET NodesInUse :
            Become(Set(threads, t, v), published)
    BY <1>1, <1>6 DEF NodeAppears, LoseNode, RefsInUse
  <2>2. PICK auth : auth = Set(threads, t, v)
    OBVIOUS
  <2>3. DOMAIN auth \subseteq IdsInUse /\ \A u \in DOMAIN auth : auth[u] \subseteq NodesInUse
    BY <1>1, <1>3, <2>1, <2>2 DEF RefsInUse
  <2> QED
    BY <1>1, <2>1, <2>2, <2>3, BecomeMeaning DEF RefsInUse
<1>7. CASE DeleteThread
  <2>1. PICK t : Become(Without(threads, t), published)
    BY <1>7 DEF DeleteThread
  <2>2. PICK auth : auth = Without(threads, t)
    OBVIOUS
  <2>3. DOMAIN auth \subseteq IdsInUse /\ \A u \in DOMAIN auth : auth[u] \subseteq NodesInUse
    BY <1>1, <1>2, <2>2 DEF RefsInUse
  <2> QED
    BY <1>1, <2>1, <2>2, <2>3, BecomeMeaning DEF RefsInUse
<1>8. CASE Withdraw
  <2>1. PICK t : Become(threads, Without(published, t))
    BY <1>8 DEF Withdraw
  <2>2. PICK pub : pub = Without(published, t)
    OBVIOUS
  <2>3. DOMAIN pub \subseteq IdsInUse /\ \A u \in DOMAIN pub : pub[u] \subseteq NodesInUse
    BY <1>1, <1>2, <2>2 DEF RefsInUse
  <2> QED
    BY <1>1, <2>1, <2>2, <2>3, BecomeMeaning DEF RefsInUse
<1> QED
  BY <1>4, <1>5, <1>6, <1>7, <1>8 DEF OthersNext

LEMMA MeaningInit == RefInit => MeaningInv
<1> SUFFICES ASSUME RefInit PROVE MeaningInv
  OBVIOUS
<1>1. PICK s \in Starts : threads = s.threads /\ published = s.published
  BY DEF RefInit
<1>2. RefsInUse
  <2>1. DOMAIN s.threads \cup DOMAIN s.published \subseteq IdsInUse
    BY DEF IdsInUse
  <2> DEFINE Nodes(z) == (UNION { z.threads[t] : t \in DOMAIN z.threads })
                         \cup (UNION { z.published[t] : t \in DOMAIN z.published })
  <2>2. NodesInUse = NodeIds \cup UNION { Nodes(z) : z \in Starts }
    BY DEF NodesInUse
  <2>3. /\ \A t \in DOMAIN s.threads : s.threads[t] \subseteq Nodes(s)
        /\ \A t \in DOMAIN s.published : s.published[t] \subseteq Nodes(s)
    <3>1. ASSUME NEW t \in DOMAIN s.threads PROVE s.threads[t] \subseteq Nodes(s)
      OBVIOUS
    <3>2. ASSUME NEW t \in DOMAIN s.published PROVE s.published[t] \subseteq Nodes(s)
      OBVIOUS
    <3> HIDE DEF Nodes
    <3> QED
      BY <3>1, <3>2
  <2> HIDE DEF Nodes
  <2>4. Nodes(s) \subseteq NodesInUse
    BY <2>2
  <2> QED
    BY <1>1, <2>1, <2>3, <2>4 DEF RefsInUse
<1>3. /\ look.phase = "idle" /\ look.ids = {} /\ earlier.phase = "idle"
  BY DEF RefInit, Idle
<1>4. Told(look)
  BY <1>3 DEF Told, NamedThread, NamedNode, OnTheWay, AliasPhases, HookPhases
<1> QED
  BY <1>2, <1>3, <1>4 DEF MeaningInv, SameAsked

LEMMA MeaningNext ==
    ASSUME IdsInPractice
    PROVE  LookInv /\ MeaningInv /\ [RefNext]_refVars => MeaningInv'
<1> SUFFICES ASSUME LookInv, MeaningInv, [RefNext]_refVars PROVE MeaningInv'
  OBVIOUS
<1>1. CASE UNCHANGED refVars
  BY <1>1 DEF refVars, MeaningInv, RefsInUse, SameAsked
<1> QED
  BY <1>1, LookMeaning, OthersMeaning DEF RefNext

(* A whole id keeps its meaning for as long as what it names stays, and a   *)
(* prefix never quietly means another thread, nor a whole node id a thread  *)
(* (resolve_from_list, resolve_alias, resolve_node_targets), for any ids as *)
(* they are in practice, whatever other processes do between two lookups    *)
(* and between their git calls.                                             *)
THEOREM ReferencesKeepMeaning == ASSUME IdsInPractice PROVE RefSpec => []KeepsMeaning
<1>1. MeaningInv => KeepsMeaning
  <2> DEFINE was == earlier
             now == look
  <2> SUFFICES ASSUME MeaningInv, was.phase = "done", now.phase = "done"
               PROVE
        /\ /\ was.outcome = "thread" /\ now.outcome = "thread"
           /\ was.thread # now.thread
           => { id \in {was.thread} : id \notin now.ids } # {}
              \/ ExactFolded(Ref, now.thread) \/ was.legacy # None
        /\ /\ was.outcome = "nodes" /\ now.outcome = "thread"
           => \/ \A pair \in was.found : pair[1] # pair[2]
              \/ ExactFolded(Ref, now.thread)
    BY DEF KeepsMeaning
  <2>1. /\ was.op = now.op /\ was.args = now.args /\ Told(was) /\ Told(now)
        /\ OnTheWay(now) /\ OnTheWay(was) /\ NamedThread(now) /\ NamedThread(was)
        /\ NamedNode(was) /\ Ref = RefOf(now)
    BY DEF MeaningInv, SameAsked, Told, Ref, RefOf
  <2> HIDE DEF was, now
  <2>2. ASSUME was.outcome = "thread", now.outcome = "thread", was.thread # now.thread,
               was.thread \in now.ids, was.legacy = None
        PROVE  ExactFolded(RefOf(now), now.thread)
    <3>1. ByWords(now) /\ Resolved(Listed(was)) /\ was.thread = Listed(was)
      BY <2>1, <2>2, ReferencesAssumption DEF NamedThread
    <3>2. CASE Resolved(Listed(now)) /\ now.thread = Listed(now)
      BY <2>1, <2>2, <3>1, <3>2, ListKeepsThread
    <3>3. CASE /\ now.legacy \in Aliases /\ ~Resolved(Listed(now))
               /\ ExactFolded(RefOf(now), now.legacy)
               /\ now.thread = BareTokenFor(now.legacy)
      BY <2>1, <2>2, <3>1, <3>3, AliasKeepsThread
    <3> QED
      BY <2>1, <2>2, <3>2, <3>3 DEF NamedThread
  <2>3. ASSUME was.outcome = "nodes", now.outcome = "thread",
               NEW pair \in was.found, pair[1] = pair[2]
        PROVE  ExactFolded(RefOf(now), now.thread)
    <3>1. ByWords(now) /\ ~(now.op = "mark" /\ Len(now.args) > 1)
      BY <2>1, <2>3 DEF NamedThread
    <3>2. CASE now.op = "mark"
      <4>1. pair[1] = now.args[1] /\ pair[2] \in NodesInUse
        BY <2>1, <2>3, <3>1, <3>2 DEF NamedNode
      <4> QED
        BY <2>1, <2>3, <3>1, <4>1, NodeKeepsMeaning
    <3>3. now.op # "show"
      BY <2>1, <2>3 DEF NamedNode
    <3> QED
      BY <3>1, <3>2, <3>3 DEF ByWords
  <2> QED
    BY <2>1, <2>2, <2>3 DEF was, now
<1> QED
  BY <1>1, RefInitInv, RefNextInv, MeaningInit, MeaningNext, PTL DEF RefSpec
=============================================================================
