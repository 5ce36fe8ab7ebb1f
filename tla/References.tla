------------------------------ MODULE References ------------------------------
(***************************************************************************)
(* How a user's words become a thread or a node: thread.rs (resolution),   *)
(* id.rs, id_alloc.rs, refs.rs, commands/shared.rs (resolve_node_targets), *)
(* show.rs (the redirect to node show), node.rs and node_bulk.rs.          *)
(*                                                                         *)
(* An id and a reference are sequences of characters: whether a reference  *)
(* is a prefix, has a dash or differs in case decides everything here. A   *)
(* lookup is a series of git calls, between which other processes create,  *)
(* delete, publish and rewrite threads; a failing listing reads as empty.  *)
(* One lookup runs at a time, since lookups write nothing; the one before  *)
(* it is remembered to compare the two answers.                            *)
(***************************************************************************)
EXTENDS Naturals, Sequences, SequencesExt, FiniteSets, Option

CONSTANTS
    Ambiguous,
    Lower, Digits,  \* characters of tokens
    TokenLen,       \* 8 in the code
    SequentialLen,  \* 4 in the code
    MinPrefix,      \* MIN_NODE_ID_PREFIX_LEN, 4 in the code
    KindPrefixes,   \* KNOWN_THREAD_PREFIXES
    NewIds,         \* ids that creation or a fetch may bring
    NodeIds,
    Aliases,        \* legacy ids in refs/forum/aliases/*
    Derived,        \* derive_token_from_seed, by legacy id
    Questions,      \* what users ask: [op, args]
    Starts,         \* states of the refs to begin with: [threads, published]
    MaxChanges,     \* bound on the steps of other processes
    MaxFailures     \* bound on failing git calls

VARIABLES
    threads,    \* refs/forum/threads/*: the node ids of each tip
    published,  \* refs/forum/published/*: the same
    look,       \* the lookup in progress
    earlier,    \* the lookup before it
    changes,
    failures

refVars == <<threads, published, look, earlier, changes, failures>>

-----------------------------------------------------------------------------
(* Ids.                                                                     *)

(* str::to_ascii_uppercase                                                 *)
UpperOf == [a |-> "A", b |-> "B", k |-> "K"]
Upper(c) == IF c \in DOMAIN UpperOf THEN UpperOf[c] ELSE c
FoldCase(s) == [i \in DOMAIN s |-> Upper(s[i])]

Has(s, c) == \E i \in DOMAIN s : s[i] = c
Spelt(s, chars) == \A i \in DOMAIN s : s[i] \in chars

StripThreadMarker(s) == IF s # <<>> /\ Head(s) = "@" THEN Tail(s) ELSE s

(* split_once('-'): what stands after the first dash, or the whole.         *)
AfterDash(s) ==
    IF ~Has(s, "-") THEN s
    ELSE LET d == CHOOSE i \in DOMAIN s : s[i] = "-" /\ \A j \in 1..i - 1 : s[j] # "-"
         IN  SubSeq(s, d + 1, Len(s))

IsToken(s) == Len(s) = TokenLen /\ Spelt(s, Lower \cup Digits) /\ ~Spelt(s, Digits)
IsBareToken(id) == IsToken(id)
Prefixed(id) == \E p \in KindPrefixes : IsPrefix(p \o <<"-">>, id)
IsOpaque(id) == Prefixed(id) /\ IsToken(AfterDash(id))
IsSequential(id) ==
    Prefixed(id) /\ Len(AfterDash(id)) = SequentialLen /\ Spelt(AfterDash(id), Digits)

IsValidThreadId(id) == IsBareToken(id) \/ IsOpaque(id) \/ IsSequential(id)

(* alloc_bare_thread_id: eight characters of a hash, all digits included.   *)
Allocated(id) == Len(id) = TokenLen /\ Spelt(id, Lower \cup Digits)

Ops == {"show", "mark", "node", "open", "commit-msg"}

(* Ids are allocated by the code, or were; every question has an argument;  *)
(* and "nothing" and "several" are no ids, so that an answer shows which.   *)
ASSUME ReferencesAssumption ==
    /\ \A id \in NewIds : Allocated(id) \/ IsOpaque(id) \/ IsSequential(id)
    /\ \A id \in NodeIds : Allocated(id)
    /\ \A q \in Questions : q.op \in Ops /\ q.args # <<>>
    /\ \A s \in Starts : \A id \in DOMAIN s.threads \cup DOMAIN s.published :
           id \notin {None, Ambiguous}
    /\ {None, Ambiguous} \cap (NewIds \cup Aliases) = {}
    /\ None # Ambiguous

(* bare_token_for                                                          *)
BareTokenFor(legacy) ==
    IF IsBareToken(legacy) THEN legacy
    ELSE IF Has(legacy, "-") /\ IsToken(AfterDash(legacy)) THEN AfterDash(legacy)
    ELSE Derived[legacy]

-----------------------------------------------------------------------------
(* Resolution against a list.                                               *)

(* Mutant of Only: the first of several candidates will do.                 *)
Only_First(S) == IF S = {} THEN Ambiguous ELSE CHOOSE x \in S : TRUE

Only(S) == IF \E x \in S : S = {x} THEN CHOOSE x \in S : TRUE ELSE Ambiguous

(* The ways in which a reference may mean an id, best first.                *)
Exact(ref, id) == id = ref
Begins(ref, id) == IsPrefix(ref, IF Has(ref, "-") THEN id ELSE AfterDash(id))
ExactFolded(ref, id) == Exact(FoldCase(ref), FoldCase(id))
BeginsFolded(ref, id) == Begins(FoldCase(ref), FoldCase(id))

(* resolve_from_list: the first way that fits any id decides.               *)
ResolveFromList(ids, input) ==
    LET ref == StripThreadMarker(input)
        ways == << { id \in ids : Exact(ref, id) }, { id \in ids : Begins(ref, id) },
                   { id \in ids : ExactFolded(ref, id) },
                   { id \in ids : BeginsFolded(ref, id) } >>
        fits == { way \in 1..4 : ways[way] # {} }
    IN  IF fits = {} THEN None ELSE Only(ways[Min(fits)])

(* resolve_node_id_in_thread, and NodeIdIndex::resolve over pairs.          *)
ResolveNode(nodes, ref) ==
    IF ref \in nodes THEN ref
    ELSE IF Len(ref) < MinPrefix THEN None
    ELSE LET fits == { n \in nodes : IsPrefix(ref, n) }
         IN  IF fits = {} THEN None ELSE Only(fits)

OwnersOf(index, node) == { t \in { pair[1] : pair \in index } : <<t, node>> \in index }

IndexResolve(index, ref) ==
    LET exact == { <<t, ref>> : t \in OwnersOf(index, ref) }
        fits == { pair \in index : IsPrefix(ref, pair[2]) }
    IN  IF exact # {} THEN Only(exact)
        ELSE IF Len(ref) < MinPrefix \/ fits = {} THEN None
        ELSE Only(fits)

Resolved(answer) == answer \notin {None, Ambiguous}

-----------------------------------------------------------------------------
(* A lookup. stayedThreads and stayedNodes are what was there when it began *)
(* and has been since.                                                      *)

PresentThreads(auth, pub) ==
    { <<"auth", t>> : t \in DOMAIN auth } \cup { <<"pub", t>> : t \in DOMAIN pub }
PresentNodes(auth) == UNION { { <<t, n>> : n \in auth[t] } : t \in DOMAIN auth }

Idle == [ op |-> None, args |-> <<>>, phase |-> "idle", ids |-> {}, legacy |-> None,
          thread |-> None, seen |-> {}, todo |-> <<>>, found |-> {}, missing |-> {},
          outcome |-> None, faulty |-> FALSE, stayedThreads |-> {}, stayedNodes |-> {} ]

Ref == StripThreadMarker(look.args[1])

FirstPhase(op) ==
    CASE op \in {"show", "mark"} -> "threads" [] op = "node" -> "index"
      [] op = "open" -> "open" [] op = "commit-msg" -> "trailers"

(* The same question may be asked again.                                    *)
Ask ==
    /\ look.phase \in {"idle", "done"}
    /\ earlier.phase = "idle"
    /\ \E q \in Questions :
          /\ look.phase = "done" => q.op = look.op /\ q.args = look.args
          /\ look' = [Idle EXCEPT
                 !.op = q.op, !.args = q.args, !.phase = FirstPhase(q.op),
                 !.thread = IF q.op = "open" THEN q.args[1] ELSE None,
                 !.todo = IF q.op = "open" THEN Tail(q.args) ELSE <<>>,
                 !.stayedThreads = PresentThreads(threads, published),
                 !.stayedNodes = PresentNodes(threads)]
    /\ earlier' = IF look.phase = "done" THEN look ELSE earlier
    /\ UNCHANGED <<threads, published, changes, failures>>

Go(step) ==
    /\ look' = step
    /\ UNCHANGED <<threads, published, earlier, changes, failures>>

(* A git call that fails where its failure is taken for an answer.          *)
GoFailing(step) ==
    /\ failures < MaxFailures
    /\ failures' = failures + 1
    /\ look' = [step EXCEPT !.faulty = TRUE]
    /\ UNCHANGED <<threads, published, earlier, changes>>

Finish(outcome) == [look EXCEPT !.phase = "done", !.outcome = outcome]

(* resolve_node_targets keeps the other arguments as nodes of the thread.   *)
GotThread(t) ==
    IF look.op = "mark" /\ Len(look.args) > 1
    THEN [look EXCEPT !.thread = t, !.todo = Tail(look.args), !.phase = "nodes"]
    ELSE [Finish("thread") EXCEPT !.thread = t]

(* show and resolve_node_targets go on to the node index.                   *)
NoThread == [look EXCEPT !.phase = "index"]

(* list_thread_ids: one namespace, then the other.                          *)
ListThreads ==
    /\ look.phase = "threads"
    /\ \/ Go([look EXCEPT !.ids = DOMAIN threads, !.phase = "published"])
       \/ GoFailing([look EXCEPT !.phase = "published"])

(* suggest_refs: what a message without a trailer might have meant.         *)
Suggest(ids) ==
    LET words == { word \in ToSet(look.args[2]) :
                      word \in (IF Has(word, "-") THEN Aliases ELSE ids) }
    IN  [Finish("warned") EXCEPT !.found = { <<word, word>> : word \in words }]

AfterListing(pub) ==
    LET ids == look.ids \cup pub
        answer == ResolveFromList(ids, look.args[1])
    IN  IF look.op = "commit-msg" THEN Suggest(ids)
        ELSE IF Resolved(answer) THEN [GotThread(answer) EXCEPT !.ids = ids]
        ELSE [look EXCEPT !.ids = ids, !.phase = "alias"]

ListPublished ==
    /\ look.phase = "published"
    /\ Go(AfterListing(DOMAIN published)) \/ GoFailing(AfterListing({}))

(* resolve_alias: the alias as typed, then in any case.                     *)
AliasRef ==
    /\ look.phase = "alias"
    /\ IF Ref \in Aliases THEN Go([look EXCEPT !.legacy = Ref, !.phase = "token"])
       ELSE Go([look EXCEPT !.phase = "aliases"])

(* canonical_for_legacy_id                                                 *)
Canonicalise ==
    /\ look.phase \in {"token", "folded token"}
    /\ LET token == BareTokenFor(look.legacy)
           absent == IF look.phase = "token" THEN [look EXCEPT !.phase = "aliases"]
                     ELSE NoThread
       IN  \/ Go(IF token \in DOMAIN threads THEN GotThread(token) ELSE absent)
           \/ GoFailing(absent)

AliasList ==
    /\ look.phase = "aliases"
    /\ LET hits == { a \in Aliases : ExactFolded(Ref, a) }
       IN  \/ Go(IF Resolved(Only(hits))
                 THEN [look EXCEPT !.legacy = Only(hits), !.phase = "folded token"]
                 ELSE NoThread)
           \/ GoFailing(NoThread)

(* node_redirect_target: an exact node id of a single thread.               *)
Redirect(index) ==
    LET owners == OwnersOf(index, Ref)
    IN  IF Resolved(Only(owners))
        THEN [Finish("redirect") EXCEPT !.thread = Only(owners), !.found = {<<Ref, Ref>>}]
        ELSE Finish("error")

(* resolve_node_targets: every argument is a node of one thread.            *)
Targets(index) ==
    LET answers == { IndexResolve(index, look.args[i]) : i \in DOMAIN look.args }
        owners == { a[1] : a \in answers }
    IN  IF (\A a \in answers : Resolved(a)) /\ Resolved(Only(owners))
        THEN [look EXCEPT !.thread = Only(owners), !.todo = look.args, !.phase = "nodes"]
        ELSE Finish("error")

(* find_node_with_index                                                    *)
Node(index) ==
    LET answer == IndexResolve(index, look.args[1])
    IN  IF Resolved(answer)
        THEN [look EXCEPT !.thread = answer[1], !.found = {<<look.args[1], answer[2]>>},
                          !.phase = "replay"]
        ELSE Finish("error")

AfterIndex(index) ==
    CASE look.op = "show" -> Redirect(index) [] look.op = "mark" -> Targets(index)
      [] look.op = "node" -> Node(index)

(* NodeIdIndex::build pins the tips of refs/forum/threads/* in one listing; *)
(* a tip whose tree cannot be listed has no nodes.                          *)
BuildIndex ==
    /\ look.phase = "index"
    /\ LET index == PresentNodes(threads)
       IN  \/ Go(AfterIndex(index))
           \/ \E t \in DOMAIN threads :
                 GoFailing(AfterIndex({ pair \in index : pair[1] # t }))

(* read_snapshot, with its fallback.                                        *)
CanRead(t) == t \in DOMAIN threads \cup DOMAIN published
NodesOf(t) == IF t \in DOMAIN threads THEN threads[t] ELSE published[t]

ReplayThread ==
    /\ look.phase = "replay"
    /\ Go(IF CanRead(look.thread) /\ \A pair \in look.found : pair[2] \in NodesOf(look.thread)
          THEN Finish("nodes") ELSE [Finish("error") EXCEPT !.found = {}])

(* find_node_in_thread reads the thread, resolves in another read and looks *)
(* the node up in the first.                                                *)
OpenThread ==
    /\ look.phase = "open"
    /\ Go(IF CanRead(look.thread)
          THEN [look EXCEPT !.seen = NodesOf(look.thread), !.phase = "nodes"]
          ELSE Finish("error"))

(* run_node_lifecycle resolves one reference after the other, each in a     *)
(* read of its own, and goes on when one fails.                             *)
ResolveNext ==
    /\ look.phase = "nodes"
    /\ look.todo # <<>>
    /\ LET ref == Head(look.todo)
           answer == IF CanRead(look.thread) THEN ResolveNode(NodesOf(look.thread), ref)
                     ELSE None
           kept == Resolved(answer) /\ (look.op = "open" => answer \in look.seen)
       IN  Go([look EXCEPT !.todo = Tail(@),
                           !.found = IF kept THEN @ \cup {<<ref, answer>>} ELSE @])

AllResolved ==
    /\ look.phase = "nodes"
    /\ look.todo = <<>>
    /\ Go(Finish(IF look.found = {} THEN "error" ELSE "nodes"))

(* The commit-msg hook: the ids in the Refs trailers, and only without any, *)
(* the words of the message.                                                *)
ReadTrailers ==
    /\ look.phase = "trailers"
    /\ LET tokens == [i \in DOMAIN look.args[1] |-> StripThreadMarker(look.args[1][i])]
           ids == SelectSeq(tokens, IsValidThreadId)
       IN  Go(IF ids = <<>> THEN [look EXCEPT !.phase = "threads"]
              ELSE [look EXCEPT !.todo = ids, !.phase = "ref threads"])

(* check_thread_refs: three refs in turn; one that cannot be read is absent.*)
CheckThreadRef ==
    /\ look.phase \in {"ref threads", "ref published", "ref alias"}
    /\ look.todo # <<>>
    /\ LET id == Head(look.todo)
           rest == [look EXCEPT !.todo = Tail(@), !.phase = "ref threads"]
           there == id \in CASE look.phase = "ref threads" -> DOMAIN threads
                             [] look.phase = "ref published" -> DOMAIN published
                             [] look.phase = "ref alias" -> Aliases
           absent == CASE look.phase = "ref threads" -> [look EXCEPT !.phase = "ref published"]
                       [] look.phase = "ref published" -> [look EXCEPT !.phase = "ref alias"]
                       [] look.phase = "ref alias" -> [rest EXCEPT !.missing = @ \cup {id}]
       IN  \/ Go(IF there THEN [rest EXCEPT !.found = @ \cup {<<id, id>>}] ELSE absent)
           \/ GoFailing(absent)

EndCheck ==
    /\ look.phase = "ref threads"
    /\ look.todo = <<>>
    /\ Go(Finish(IF look.missing = {} THEN "accepted" ELSE "refused"))

LookNext ==
    \/ Ask \/ ListThreads \/ ListPublished \/ AliasRef \/ Canonicalise \/ AliasList
    \/ BuildIndex \/ ReplayThread \/ OpenThread \/ ResolveNext \/ AllResolved
    \/ ReadTrailers \/ CheckThreadRef \/ EndCheck

-----------------------------------------------------------------------------
(* Other processes.                                                         *)

Without(f, x) == [y \in DOMAIN f \ {x} |-> f[y]]
Set(f, x, v) == [y \in DOMAIN f \cup {x} |-> IF y = x THEN v ELSE f[y]]

Become(auth, pub) ==
    /\ changes < MaxChanges
    /\ changes' = changes + 1
    /\ threads' = auth
    /\ published' = pub
    /\ look' = [look EXCEPT !.stayedThreads = @ \cap PresentThreads(auth, pub),
                            !.stayedNodes = @ \cap PresentNodes(auth)]
    /\ UNCHANGED <<earlier, failures>>

(* A new thread, or one that a fetch brings, published perhaps.             *)
AddThread ==
    \E t \in NewIds \ DOMAIN threads : Become(Set(threads, t, {}), published)
AddPublished ==
    \E t \in NewIds \ DOMAIN published :
        Become(threads, Set(published, t, IF t \in DOMAIN threads THEN threads[t] ELSE {}))
NodeAppears ==
    \E t \in DOMAIN threads, n \in NodeIds :
        /\ n \notin threads[t]
        /\ Become(Set(threads, t, threads[t] \cup {n}), published)
(* A forced fetch to a commit without the node.                             *)
LoseNode ==
    \E t \in DOMAIN threads : \E n \in threads[t] :
        Become(Set(threads, t, threads[t] \ {n}), published)
DeleteThread ==
    \E t \in DOMAIN threads : Become(Without(threads, t), published)
Withdraw ==
    \E t \in DOMAIN published : Become(threads, Without(published, t))

OthersNext ==
    AddThread \/ AddPublished \/ NodeAppears \/ LoseNode \/ DeleteThread \/ Withdraw

RefInit ==
    /\ \E s \in Starts : threads = s.threads /\ published = s.published
    /\ look = Idle
    /\ earlier = Idle
    /\ changes = 0
    /\ failures = 0

RefNext == LookNext \/ OthersNext

RefSpec == RefInit /\ [][RefNext]_refVars

-----------------------------------------------------------------------------
(* Properties.                                                              *)

(* How well a reference means a thread; more is worse.                      *)
Rank(ref, id) ==
    IF Exact(ref, id) THEN 1 ELSE IF Begins(ref, id) THEN 2
    ELSE IF ExactFolded(ref, id) THEN 3 ELSE IF BeginsFolded(ref, id) THEN 4 ELSE 5

ByAlias == look.legacy # None
NamesThread == look.op \in {"show", "mark"}

(* No lookup guesses: whatever others do between its calls, a thread that   *)
(* was there all the time and that the reference means at least as well as  *)
(* the thread in the answer would have made the lookup fail; the same holds *)
(* of nodes, which only a whole id may shorten the search for; and a thread *)
(* whose whole id was typed is found. Nor does the commit-msg hook refuse a *)
(* commit that refers to a thread which was there in either namespace. A    *)
(* failed listing is the exception (resolve_from_list, NodeIdIndex,         *)
(* resolve_node_targets, check_thread_refs).                                *)
NoGuess ==
    look.phase = "done" /\ ~look.faulty =>
        /\ look.outcome = "thread" /\ ~ByAlias =>
               \A other \in look.stayedThreads :
                   other[2] # look.thread =>
                       Rank(Ref, other[2]) > Rank(Ref, look.thread)
        /\ look.outcome \in {"nodes", "redirect"} =>
               \A pair \in look.found : \A other \in look.stayedNodes :
                   /\ other[2] # pair[2]
                   /\ look.op = "node" \/ other[1] = look.thread
                   => ~IsPrefix(pair[1], other[2]) \/ pair[1] = pair[2]
        /\ NamesThread /\ (\E ns \in {"auth", "pub"} : <<ns, Ref>> \in look.stayedThreads) =>
               look.thread = Ref
        /\ \A id \in look.missing : \A other \in look.stayedThreads : other[2] # id

IdsInUse == NewIds \cup UNION { DOMAIN s.threads \cup DOMAIN s.published : s \in Starts }
NodesInUse ==
    NodeIds \cup UNION { (UNION { s.threads[t] : t \in DOMAIN s.threads })
                          \cup (UNION { s.published[t] : t \in DOMAIN s.published }) :
                          s \in Starts }

(* Ids as they are in practice. Kind prefixes are in upper case and tokens  *)
(* in lower case, and what has an alias was migrated from an id of an older *)
(* form. Two coincidences, which nothing in the code rules out, are left    *)
(* aside: an opaque id that begins with a legacy id, since a second such    *)
(* thread makes the reference ambiguous and resolve_thread_id then asks the *)
(* aliases; and an opaque id with the token of a node, since the thread is  *)
(* asked for first.                                                         *)
IdsInPractice ==
    /\ SequentialLen \in Nat /\ TokenLen \in Nat /\ SequentialLen < TokenLen
    /\ "-" \notin Lower \cup Digits /\ "@" \notin Lower \cup Digits
    /\ \A c, d \in Lower \cup Digits : Upper(c) = Upper(d) => c = d
    /\ \A p \in KindPrefixes : p \in Seq(STRING) /\ FoldCase(p) = p /\ ~Has(p, "-")
    /\ \A id \in IdsInUse \cup Aliases : id \in Seq(STRING)
    /\ \A id \in IdsInUse : Allocated(id) \/ IsOpaque(id) \/ IsSequential(id)
    /\ \A id \in Aliases : IsValidThreadId(id)
    /\ \A n \in NodesInUse : n \in Seq(STRING) /\ Allocated(n)
    /\ \A q \in Questions : q.op \in {"show", "mark"} => q.args \in Seq(Seq(STRING))
    /\ \A id \in IdsInUse : IsOpaque(id) =>
           /\ \A a \in Aliases : IsSequential(a) => ~IsPrefix(a, id)
           /\ AfterDash(id) \notin NodesInUse

(* A whole id keeps its meaning for as long as what it names stays, and a   *)
(* prefix that meant a thread never quietly means another: the second       *)
(* answer is the first, a failure, or a thread whose id is what was typed.  *)
(* References of the node commands may turn from a node into a thread, but  *)
(* only those that are not a whole node id (resolve_node_targets asks for a *)
(* thread first). This supposes IdsInPractice.                              *)
KeepsMeaning ==
    LET was == earlier now == look
        gone == { id \in {was.thread} : id \notin now.ids }
    IN  /\ was.phase = "done" /\ now.phase = "done" /\ ~now.faulty /\ ~was.faulty
        => /\ /\ was.outcome = "thread" /\ now.outcome = "thread"
              /\ was.thread # now.thread
              => gone # {} \/ ExactFolded(Ref, now.thread) \/ was.legacy # None
           /\ /\ was.outcome = "nodes" /\ now.outcome = "thread"
              => \/ \A pair \in was.found : pair[1] # pair[2]
                 \/ ExactFolded(Ref, now.thread)
===============================================================================
