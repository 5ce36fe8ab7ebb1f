------------------------------ MODULE PolicyFile ------------------------------
(***************************************************************************)
(* .forum/policy.toml: how it is loaded and validated (policy.rs), which   *)
(* transitions, guards and checks the commands then take from it (state.rs,*)
(* bulk.rs, operation_check.rs, thread_new.rs, shorthand_say.rs,           *)
(* evidence.rs, revise.rs) and what git forum verify foretells (verify.rs).*)
(*                                                                         *)
(* The file is edited by hand between commands. One thread; its document   *)
(* is what guards and checks ask of it. A transition is written as a       *)
(* string: "exact" stands for from->to, "spaced" for one with blanks around*)
(* the arrow, which validation trims, and "malformed" for any other text.  *)
(* The form of a file is "missing", "unreadable" for the TOML parser,      *)
(* "legacy" (of 2.x) or "policy".                                          *)
(***************************************************************************)
EXTENDS Naturals, Sequences, FiniteSets, Categories, Option

CONSTANTS
    Files,      \* what the file may hold
    Bodies,     \* bodies of new threads: sequences of lines, or None
    Words       \* verbs and statuses that users type

Outcomes == {"done", "already", "error", "check", "transition", "guard"}

ASSUME NoneAssumption == None \notin CanonicalStatuses \cup Outcomes

VARIABLES
    file,
    thread,     \* the document, or None
    report,     \* what verify said of this thread under this file, or None
    last        \* the last command and what came of it

policyVars == <<file, thread, report, last>>

-----------------------------------------------------------------------------
(* Categories.                                                              *)

Exactly(edges) == { [from |-> e[1], to |-> e[2], form |-> "exact"] : e \in edges }
StatusesIn(edges) == UNION { {e[1], e[2]} : e \in edges }

BuiltIn(cat) ==
    [ initial |-> BuiltInInitial(cat), statuses |-> StatusesIn(BuiltInEdges(cat)),
      transitions |-> Exactly(BuiltInEdges(cat)) ]

(* CategoryPolicy: def is None or a definition, partial when one of its     *)
(* fields is missing; a rule left out is None.                              *)
NoRules == [ def |-> None, partial |-> FALSE, guards |-> {}, creation |-> None, allowed |-> <<>>,
             body |-> None, node |-> None, evidence |-> None ]
EmptyPolicy == [form |-> "policy", strict |-> FALSE, categories |-> <<>>]

RulesFor(policy, cat) ==
    IF cat \in DOMAIN policy.categories THEN policy.categories[cat] ELSE NoRules

Definition(policy, cat) ==
    LET own == RulesFor(policy, cat).def IN IF own = None THEN BuiltIn(cat) ELSE own

AllowsTransition(def, from, to) ==
    [from |-> from, to |-> to, form |-> "exact"] \in def.transitions

(* find_path trims what it reads: there is a path when no set of statuses   *)
(* that holds the start and every end of an edge from within leaves out the *)
(* goal.                                                                   *)
Edges(def) == { t \in def.transitions : t.form # "malformed" }

HasPath(def, from, to) ==
    \A closed \in SUBSET ({from} \cup { e.to : e \in Edges(def) }) :
        from \in closed /\ (\A e \in Edges(def) : e.from \in closed => e.to \in closed)
        => to \in closed

(* Its breadth-first search, which leaves open here which of several        *)
(* shortest paths it takes: what n hops reach.                             *)
Within(def, from) ==
    LET reach[n \in 0..Cardinality(def.statuses)] ==
            IF n = 0 THEN {from}
            ELSE LET nearer == reach[n - 1]
                 IN  nearer \cup { t.to : t \in { e \in Edges(def) : e.from \in nearer } }
    IN  reach

(* The last but one status of a path of two hops or more.                   *)
Penultimates(def, from, to) ==
    LET reach == Within(def, from)
        hops == CHOOSE n \in DOMAIN reach :
                    to \in reach[n] /\ \A m \in 0..n - 1 : to \notin reach[m]
    IN  IF ~HasPath(def, from, to) \/ hops < 2 THEN {}
        ELSE { t.from : t \in { e \in def.transitions :
                   e.to = to /\ e.form # "malformed" /\ e.from \in reach[hops - 1] } }

-----------------------------------------------------------------------------
(* Policy::load.                                                            *)

Names(statuses, t) == t.form # "malformed" /\ t.from \in statuses /\ t.to \in statuses

(* validate_definition_consistency; a transition written twice in the same  *)
(* way, which is refused too, is not in a set.                             *)
Consistent(def) ==
    /\ def.initial \in def.statuses
    /\ \A t \in def.transitions : Names(def.statuses, t)

(* validate_against_registry. Only rfc and task are built in.               *)
Valid(cat, rules) ==
    /\ ~rules.partial
    /\ rules.def = None => cat \in BuiltInFlavors
    /\ rules.def # None => Consistent(rules.def)
    /\ LET def == IF rules.def = None THEN BuiltIn(cat) ELSE rules.def
       IN  /\ \A g \in rules.guards :
                 Names(def.statuses, g.key) /\ AllowsTransition(def, g.key.from, g.key.to)
           /\ DOMAIN rules.allowed \subseteq def.statuses
           /\ \A list \in {rules.body, rules.node, rules.evidence} \ {None} :
                 list \subseteq def.statuses

Loads(f) ==
    /\ f.form = "policy"
    /\ \A cat \in DOMAIN f.categories : Valid(cat, f.categories[cat])

(* Commands that create, say, revise or add evidence take an unloadable     *)
(* file for an empty one.                                                  *)
PolicyOrDefault == IF Loads(file) THEN file ELSE EmptyPolicy

-----------------------------------------------------------------------------
(* Guards.                                                                  *)

Satisfied(doc, rule) ==
    CASE rule = "no_open_objections" -> "objection" \notin doc.open
      [] rule = "no_open_actions" -> "action" \notin doc.open
      [] rule = "one_approval" -> doc.approved
      [] rule = "has_commit_evidence" -> doc.commit

(* Mutant of CheckGuards: the guards of the edge back.                      *)
CheckGuards_Back(policy, doc, from, to) ==
    { rule \in UNION { g.rules : g \in { h \in RulesFor(policy, doc.category).guards :
                  h.key = [from |-> to, to |-> from, form |-> "exact"] } } :
        ~Satisfied(doc, rule) }

(* check_guards looks the folded statuses up as an exact key.               *)
CheckGuards(policy, doc, from, to) ==
    LET key == [from |-> Canonical(from), to |-> Canonical(to), form |-> "exact"]
    IN  { rule \in UNION { g.rules : g \in { h \in RulesFor(policy, doc.category).guards :
                  h.key = key } } : ~Satisfied(doc, rule) }

-----------------------------------------------------------------------------
(* Operation checks: sets of violations, "error" or "warning".              *)

(* Mutant of InAllowList: an empty list is no list.                         *)
InAllowList_Empty(list, status) ==
    list \in {None, {}} \/ Canonical(status) \in { Canonical(s) : s \in list }

InAllowList(list, status) ==
    list = None \/ Canonical(status) \in { Canonical(s) : s \in list }

(* extract_heading_texts: a heading is empty when nothing but blank lines   *)
(* stands before the next heading of its level or above.                   *)
HeadingsOf(lines) == { i \in DOMAIN lines : lines[i].level > 0 }
SectionEnd(lines, i) ==
    LET ends == { j \in HeadingsOf(lines) : j > i /\ lines[j].level <= lines[i].level }
    IN  IF ends = {} THEN Len(lines) + 1
        ELSE CHOOSE j \in ends : \A k \in ends : j <= k
EmptySection(lines, i) ==
    \A k \in i + 1..SectionEnd(lines, i) - 1 : lines[k].text = "blank"

CheckCreate(policy, cat, lines) ==
    LET rules == RulesFor(policy, cat).creation
        absent == lines = None \/ \A i \in DOMAIN lines : lines[i].text = "blank"
    IN  IF rules = None THEN {}
        ELSE IF rules.body /\ absent THEN {"error"}
        ELSE IF lines # None /\ \E s \in rules.sections :
                    LET found == { i \in HeadingsOf(lines) : lines[i].text = s }
                    IN  found = {} \/ \E i \in found : EmptySection(lines, i)
             THEN {"warning"} ELSE {}

(* The entry for the status; of several keys that fold to it a hash map     *)
(* yields any.                                                             *)
SayEntries(policy, doc) ==
    LET allowed == RulesFor(policy, doc.category).allowed
    IN  { allowed[s] : s \in { k \in DOMAIN allowed : Canonical(k) = Canonical(doc.status) } }

(* evaluate_violations, apply_operation_checks: strict makes an error of a  *)
(* warning unless --force was given; an error stays one.                    *)
Passes(violations, force, strict) ==
    /\ "error" \notin violations
    /\ "warning" \in violations => ~strict \/ force

-----------------------------------------------------------------------------
(* Commands.                                                                *)

Nothing == [ op |-> "none", word |-> None, flags |-> {}, outcome |-> None,
             from |-> None, foretold |-> None ]
Said(op, word, flags, outcome) ==
    [ op |-> op, word |-> word, flags |-> flags, outcome |-> outcome,
      from |-> IF thread = None THEN None ELSE thread.status,
      foretold |-> IF op = "bulk" THEN report ELSE None ]

Becomes(doc, said) ==
    /\ thread' = doc
    /\ last' = said
    /\ report' = IF doc = thread THEN report ELSE None
    /\ UNCHANGED file

Refused(op, word, flags, why) == Becomes(thread, Said(op, word, flags, why))

Edit(f) ==
    /\ f # file
    /\ file' = f
    /\ report' = None
    /\ last' = Nothing
    /\ UNCHANGED thread

(* What git forum new <preset> and thread new --lifecycle create: category  *)
(* and tag.                                                                *)
Presets == { <<"rfc", "cross-cutting">>, <<"task", "decision">>, <<"task", "task">>,
             <<"task", "bug">> }
LifecycleWords == { <<"rfc", "none">>, <<"task", "none">>, <<"task", "decision">> }

(* git forum new, with inline nodes. flags may hold "force".                *)
NewThread(cat, decision, lines, open, flags) ==
    LET policy == PolicyOrDefault
        doc == [ category |-> cat, decision |-> decision,
                 status |-> Definition(policy, cat).initial, open |-> open,
                 approved |-> FALSE, commit |-> FALSE ]
    IN  /\ thread = None
        /\ IF Passes(CheckCreate(policy, cat, lines), "force" \in flags, policy.strict)
           THEN Becomes(doc, Said("new", lines, flags, "done"))
           ELSE Refused("new", lines, flags, "check")

Flavor(doc) == IF doc.decision THEN "decision" ELSE doc.category

(* resolve_target_state                                                     *)
Target(word, doc) ==
    IF NotApplicable(word, Flavor(doc)) \/ Canonical(word) \notin CanonicalStatuses
    THEN None ELSE Canonical(word)

Flagged(doc, flags) ==
    [doc EXCEPT !.open = IF "resolve" \in flags THEN @ \ {"action"} ELSE @,
                !.approved = @ \/ "approve" \in flags]

(* run_state_shorthand: no guard is asked.                                  *)
State(word, flags) ==
    LET to == Target(word, thread)
        def == Definition(file, thread.category)
    IN  IF ~Loads(file) \/ to = None THEN Refused("state", word, flags, "error")
        ELSE IF to = thread.status THEN Refused("state", word, flags, "already")
        ELSE IF IF "fast" \in flags THEN HasPath(def, thread.status, to)
                ELSE AllowsTransition(def, thread.status, to)
        THEN Becomes([Flagged(thread, flags) EXCEPT !.status = to],
                     Said("state", word, flags, "done"))
        ELSE Refused("state", word, flags, "transition")

(* run_bulk_state_change with one id, then apply_state_change_snapshot.     *)
Bulk(word, flags) ==
    LET to == Target(word, thread)
    IN  IF ~Loads(file) THEN Refused("bulk", word, flags, "error")
        ELSE IF Canonical(word) = Canonical(thread.status)
        THEN Refused("bulk", word, flags, "already")
        ELSE IF to = None THEN Refused("bulk", word, flags, "error")
        ELSE IF to = thread.status THEN Refused("bulk", word, flags, "already")
        ELSE IF ~AllowsTransition(Definition(file, thread.category), thread.status, to)
        THEN Refused("bulk", word, flags, "transition")
        ELSE IF CheckGuards(file, Flagged(thread, flags), thread.status, to) # {}
        THEN Refused("bulk", word, flags, "guard")
        ELSE Becomes([Flagged(thread, flags) EXCEPT !.status = to],
                     Said("bulk", word, flags, "done"))

Say(kind) ==
    LET entries == SayEntries(PolicyOrDefault, thread)
        added == IF kind = "approval" THEN [thread EXCEPT !.approved = TRUE]
                 ELSE [thread EXCEPT !.open = @ \cup ({kind} \ {"comment"})]
    IN  \/ /\ entries = {} \/ \E kinds \in entries : kind \in kinds
           /\ Becomes(added, Said("say", kind, {}, "done"))
        \/ /\ \E kinds \in entries : kind \notin kinds
           /\ Refused("say", kind, {}, "check")

(* git forum revise (body or node) and evidence add.                        *)
Revise(what) ==
    LET rules == RulesFor(PolicyOrDefault, thread.category)
    IN  IF InAllowList(IF what = "body" THEN rules.body ELSE rules.node, thread.status)
        THEN Becomes(thread, Said("revise", what, {}, "done"))
        ELSE Refused("revise", what, {}, "check")

AddEvidence(kind) ==
    IF InAllowList(RulesFor(PolicyOrDefault, thread.category).evidence, thread.status)
    THEN Becomes([thread EXCEPT !.commit = @ \/ kind = "commit"],
                 Said("evidence", kind, {}, "done"))
    ELSE Refused("evidence", kind, {}, "check")

(* resolve and retract ask no policy.                                       *)
Settle(kind) ==
    /\ kind \in thread.open \cup (IF thread.approved THEN {"approval"} ELSE {})
    /\ Becomes([thread EXCEPT !.open = @ \ {kind}, !.approved = @ /\ kind # "approval"],
               Said("settle", kind, {}, "done"))

(* Mutant of ForwardTarget: done may be further away.                       *)
ForwardTarget_Far(doc) ==
    HasPath(Definition(file, doc.category), Canonical(doc.status), "done")

ForwardTarget(doc) ==
    AllowsTransition(Definition(file, doc.category), Canonical(doc.status), "done")

(* verify_thread: the guards of a direct edge to done, or of the last hop   *)
(* of a longer path.                                                       *)
Verify ==
    /\ Loads(file)
    /\ LET def == Definition(file, thread.category)
           direct == ForwardTarget(thread)
           hops == Penultimates(def, thread.status, "done")
       IN  \E hop \in IF direct \/ hops = {} THEN {None} ELSE hops :
              report' = [ next |-> direct, hop |-> hop,
                          blocked |-> IF direct THEN CheckGuards(file, thread, thread.status, "done")
                                      ELSE {},
                          ahead |-> IF hop = None THEN {}
                                    ELSE CheckGuards(file, thread, hop, "done") ]
    /\ last' = Nothing
    /\ UNCHANGED <<file, thread>>

PolicyNext ==
    \/ \E f \in Files : Edit(f)
    \/ \E made \in Presets \cup LifecycleWords, lines \in Bodies,
          open \in {{}, {"objection", "action"}}, flags \in {{}, {"force"}} :
          NewThread(made[1], made[2] = "decision", lines, open, flags)
    \/ /\ thread # None
       /\ \/ \E word \in Words, flags \in {{}, {"fast"}, {"resolve", "approve"}} :
                State(word, flags)
          \/ \E word \in Words, flags \in {{}, {"resolve", "approve"}} : Bulk(word, flags)
          \/ \E kind \in {"comment", "approval", "objection", "action"} : Say(kind)
          \/ \E what \in {"body", "node"} : Revise(what)
          \/ \E kind \in {"commit", "test"} : AddEvidence(kind)
          \/ \E kind \in {"approval", "objection", "action"} : Settle(kind)
          \/ Verify

PolicyInit ==
    /\ file \in Files
    /\ thread = None
    /\ report = None
    /\ last = Nothing

PolicySpec == PolicyInit /\ [][PolicyNext]_policyVars

-----------------------------------------------------------------------------
(* Properties.                                                              *)

Own == RulesFor(file, thread.category)
AliasIn(names) == \E s \in names : s # thread.status /\ Canonical(s) = Canonical(thread.status)
Settled == last.outcome = "done" /\ Loads(file)

(* Every status that a command gives a thread is one that the policy in     *)
(* force gives its category, and a bulk move across a transition the file   *)
(* guards leaves a thread that satisfies the guard, though validation trims *)
(* names, guards look the folded names up exactly and fast-track follows    *)
(* trimmed transitions. Guards whose key is spaced or names a 1.x status    *)
(* are accepted and never asked, and are not claimed here                   *)
(* (validate_against_registry, check_guards).                               *)
MovesObeyPolicy ==
    Settled =>
        /\ last.op \in {"new", "state", "bulk"} =>
               thread.status \in Definition(file, thread.category).statuses
        /\ last.op = "bulk" =>
               \A g \in Own.guards :
                   g.key = [from |-> last.from, to |-> thread.status, form |-> "exact"]
                   /\ Canonical(last.from) = last.from
                   => \A rule \in g.rules : Satisfied(thread, rule)

(* What the file says of a status and an operation is what happens: an      *)
(* operation that goes through is in no list that leaves the status out, an *)
(* empty list included, and a strict policy creates no thread without its   *)
(* sections unless forced (operation_check.rs). Of a category with a 1.x    *)
(* name and its new name as keys either may decide.                         *)
(* The first two clauses do not ask whether the file is strict: what is in  *)
(* no list is an Error (operation_check.rs:207, 283, 324), and an empty list *)
(* denies all (:257, :304, test :619).  The comments of the policy that     *)
(* init writes say otherwise: under strict = false "violations are          *)
(* WARNINGS; use --force to bypass" (init.rs:49), and of node types per     *)
(* status "Empty/missing = no restriction" (init.rs:64).                    *)
ChecksObeyPolicy ==
    Settled =>
        /\ last.op \in {"revise", "evidence"} =>
               LET list == IF last.op = "evidence" THEN Own.evidence
                           ELSE IF last.word = "body" THEN Own.body ELSE Own.node
               IN  list # None => thread.status \in list \/ AliasIn(list)
        /\ last.op = "say" /\ thread.status \in DOMAIN Own.allowed =>
               last.word \in Own.allowed[thread.status] \/ AliasIn(DOMAIN Own.allowed)
        /\ /\ last.op = "new" /\ file.strict /\ last.flags = {}
           /\ Own.creation # None /\ last.word # None
           => \A s \in Own.creation.sections :
                  \E i \in HeadingsOf(last.word) : last.word[i].text = s

(* verify foretells: while neither the thread nor the file changes, a bulk  *)
(* move to done is stopped by a guard exactly when verify said so, and one  *)
(* that verify named as the next step is not stopped by the transitions;    *)
(* of a 1.x status, which verify folds and bulk does not, nothing is said   *)
(* (verify_thread, apply_state_change_snapshot).                            *)
VerifyForetells ==
    /\ last.op = "bulk" /\ last.word = "done" /\ last.flags = {}
    /\ last.foretold # None
    /\ Canonical(last.from) = last.from
    => CASE last.outcome = "done" -> last.foretold.next /\ last.foretold.blocked = {}
         [] last.outcome = "guard" -> last.foretold.next /\ last.foretold.blocked # {}
         [] last.outcome = "transition" -> ~last.foretold.next
         [] OTHER -> last.outcome = "already" /\ last.from = "done"
===============================================================================
