------------------------- MODULE Surroundings_proofs -------------------------
(***************************************************************************)
(* Proofs about the two parts whose state others change under their hands. *)
(*                                                                         *)
(* PolicyFile, for any policy files, bodies and typed words. A command asks *)
(* the file that is in force when it runs, an edit of the file forgets the *)
(* last command, and a report of verify is kept only while it speaks of    *)
(* this document under this file. So PolicyInv says of the last command    *)
(* and of the report what each step has just established.                  *)
(*                                                                         *)
(* Clones, for any remotes, worktrees, threads and branches, and any number *)
(* of faults and hand edits. An init that gives no warning has made every  *)
(* write it found to make, so that no remote it saw has an authoritative   *)
(* refspec left; a remote added later has no forum refspec at all, and     *)
(* whoever adds one - a hand edit, the hook of a new worktree - is         *)
(* remembered.                                                             *)
(***************************************************************************)
EXTENDS PolicyFile, Clones, TLAPS

-----------------------------------------------------------------------------
(* PolicyFile.                                                             *)

(* A document has the fields that the commands read.                       *)
IsDocument(doc) ==
    /\ doc = [ category |-> doc.category, decision |-> doc.decision,
               status |-> doc.status, open |-> doc.open,
               approved |-> doc.approved, commit |-> doc.commit ]
    /\ doc.approved \in BOOLEAN

(* A report says what verify would say now.                                *)
ReportCurrent ==
    report # None =>
        /\ Loads(file)
        /\ report.next = ForwardTarget(thread)
        /\ report.next => report.blocked = CheckGuards(file, thread, thread.status, "done")

PolicyInv ==
    /\ thread # None => IsDocument(thread)
    /\ ReportCurrent
    /\ MovesObeyPolicy
    /\ ChecksObeyPolicy
    /\ VerifyForetells

-----------------------------------------------------------------------------
(* Names and definitions.                                                  *)

LEMMA CanonicalTwice == \A s : Canonical(Canonical(s)) = Canonical(s)
BY DEF Canonical

LEMMA BuiltInConsistent ==
    ASSUME NEW cat
    PROVE  /\ BuiltIn(cat).initial \in BuiltIn(cat).statuses
           /\ \A t \in BuiltIn(cat).transitions : t.to \in BuiltIn(cat).statuses
<1> DEFINE edges == BuiltInEdges(cat)
<1>1. BuiltIn(cat).statuses = StatusesIn(edges) /\ BuiltIn(cat).transitions = Exactly(edges)
  BY DEF BuiltIn
<1>2. ASSUME NEW t \in Exactly(edges) PROVE t.to \in StatusesIn(edges)
  <2>1. PICK e \in edges : t = [from |-> e[1], to |-> e[2], form |-> "exact"]
    BY DEF Exactly
  <2> QED BY <2>1 DEF StatusesIn
<1>3. BuiltInInitial(cat) \in StatusesIn(edges)
  <2>1. CASE cat = "rfc"
    <3>1. <<"draft", "open">> \in edges
      BY <2>1 DEF BuiltInEdges, RfcEdges
    <3>2. <<"draft", "open">>[1] = "draft"
      OBVIOUS
    <3> HIDE DEF edges
    <3> QED BY <2>1, <3>1, <3>2 DEF StatusesIn, BuiltInInitial
  <2>2. CASE cat # "rfc"
    <3>1. <<"open", "working">> \in edges
      BY <2>2 DEF BuiltInEdges, TaskEdges
    <3>2. <<"open", "working">>[1] = "open"
      OBVIOUS
    <3> HIDE DEF edges
    <3> QED BY <2>2, <3>1, <3>2 DEF StatusesIn, BuiltInInitial
  <2> QED BY <2>1, <2>2
<1>4. BuiltIn(cat).initial = BuiltInInitial(cat)
  BY DEF BuiltIn
<1> QED BY <1>1, <1>2, <1>3, <1>4

(* A file that loads defines consistent categories, its own and built-in    *)
(* ones alike.                                                             *)
LEMMA DefinitionConsistent ==
    ASSUME NEW policy, NEW cat, Loads(policy)
    PROVE  LET def == Definition(policy, cat)
           IN  /\ def.initial \in def.statuses
               /\ \A t \in def.transitions : t.to \in def.statuses
<1> DEFINE own == RulesFor(policy, cat).def
<1>1. CASE own = None
  BY <1>1, BuiltInConsistent DEF Definition
<1>2. CASE own # None
  <2>1. cat \in DOMAIN policy.categories
    BY <1>2 DEF RulesFor, NoRules
  <2>2. Valid(cat, policy.categories[cat]) /\ own = policy.categories[cat].def
    BY <2>1 DEF Loads, RulesFor
  <2>3. Consistent(own)
    BY <1>2, <2>2 DEF Valid
  <2> QED BY <1>2, <2>3 DEF Definition, Consistent, Names
<1> QED BY <1>1, <1>2

(* A path that leads anywhere ends in a status that the definition names.   *)
LEMMA PathEnds ==
    ASSUME NEW def, NEW from, NEW to, to # from, HasPath(def, from, to),
           \A t \in def.transitions : t.to \in def.statuses
    PROVE  to \in def.statuses
<1> DEFINE all == {from} \cup { e.to : e \in Edges(def) }
<1>1. to \in all
  BY DEF HasPath
<1>2. \A e \in Edges(def) : e.to \in def.statuses
  BY DEF Edges
<1> QED BY <1>1, <1>2

LEMMA EdgeEnds ==
    ASSUME NEW def, NEW from, NEW to, AllowsTransition(def, from, to),
           \A t \in def.transitions : t.to \in def.statuses
    PROVE  to \in def.statuses
BY DEF AllowsTransition

(* What an edit of one field leaves alone.                                 *)
LEMMA OpenDocument ==
    ASSUME NEW doc, NEW o, IsDocument(doc)
    PROVE  LET new == [doc EXCEPT !.open = o]
           IN  /\ IsDocument(new)
               /\ new.open = o /\ new.category = doc.category /\ new.decision = doc.decision
               /\ new.status = doc.status /\ new.approved = doc.approved /\ new.commit = doc.commit
BY DEF IsDocument

LEMMA ApprovedDocument ==
    ASSUME NEW doc, NEW a \in BOOLEAN, IsDocument(doc)
    PROVE  LET new == [doc EXCEPT !.approved = a]
           IN  /\ IsDocument(new)
               /\ new.approved = a /\ new.category = doc.category /\ new.decision = doc.decision
               /\ new.status = doc.status /\ new.open = doc.open /\ new.commit = doc.commit
BY DEF IsDocument

LEMMA StatusDocument ==
    ASSUME NEW doc, NEW s, IsDocument(doc)
    PROVE  LET new == [doc EXCEPT !.status = s]
           IN  /\ IsDocument(new)
               /\ new.status = s /\ new.category = doc.category /\ new.decision = doc.decision
               /\ new.open = doc.open /\ new.approved = doc.approved /\ new.commit = doc.commit
BY DEF IsDocument

LEMMA CommitDocument ==
    ASSUME NEW doc, NEW m, IsDocument(doc)
    PROVE  LET new == [doc EXCEPT !.commit = m]
           IN  /\ IsDocument(new)
               /\ new.commit = m /\ new.category = doc.category /\ new.decision = doc.decision
               /\ new.status = doc.status /\ new.open = doc.open /\ new.approved = doc.approved
BY DEF IsDocument

LEMMA OpenApproved ==
    ASSUME NEW doc, NEW o, NEW a
    PROVE  [doc EXCEPT !.open = o, !.approved = a] =
               [[doc EXCEPT !.open = o] EXCEPT !.approved = a]
OBVIOUS

(* Flags change no more of a document than what they say.                  *)
LEMMA FlaggedDocument ==
    ASSUME NEW doc, NEW flags, IsDocument(doc)
    PROVE  LET new == Flagged(doc, flags)
           IN  /\ IsDocument(new)
               /\ new.category = doc.category /\ new.status = doc.status
               /\ flags = {} =>
                      new.open = doc.open /\ new.commit = doc.commit /\ new.approved = doc.approved
<1> DEFINE open == IF "resolve" \in flags THEN doc.open \ {"action"} ELSE doc.open
           approved == doc.approved \/ "approve" \in flags
           opened == [doc EXCEPT !.open = open]
           new == [opened EXCEPT !.approved = approved]
<1>1. Flagged(doc, flags) = [doc EXCEPT !.open = open, !.approved = approved]
  BY Zenon DEF Flagged
<1>2. approved \in BOOLEAN
  OBVIOUS
<1>3. flags = {} => open = doc.open /\ approved = doc.approved
  <2>1. doc.approved \in BOOLEAN
    BY DEF IsDocument
  <2> QED BY <2>1
<1> HIDE DEF open, approved
<1>4. Flagged(doc, flags) = new
  BY <1>1, OpenApproved
<1>5. IsDocument(opened) /\ opened.open = open /\ opened.category = doc.category
      /\ opened.status = doc.status /\ opened.commit = doc.commit
  BY OpenDocument
<1> HIDE DEF opened
<1>6. /\ IsDocument(new) /\ new.approved = approved /\ new.open = opened.open
      /\ new.category = opened.category /\ new.status = opened.status
      /\ new.commit = opened.commit
  BY <1>2, <1>5, ApprovedDocument
<1> HIDE DEF new
<1> QED BY <1>3, <1>4, <1>5, <1>6

-----------------------------------------------------------------------------
(* The commands.                                                           *)

LEMMA ReportKept ==
    ASSUME PolicyInv, NEW doc, NEW said, Becomes(doc, said)
    PROVE  ReportCurrent'
BY DEF PolicyInv, ReportCurrent, Becomes, ForwardTarget

(* A command other than a bulk move that is refused leaves nothing to show. *)
LEMMA RefusedInv ==
    ASSUME PolicyInv, NEW op, NEW word, NEW flags, NEW why,
           Refused(op, word, flags, why), op # "bulk", why # "done"
    PROVE  PolicyInv'
<1>1. ReportCurrent' /\ thread' = thread
  BY ReportKept DEF Refused, Becomes
<1>2. last'.op = op /\ last'.outcome = why
  BY DEF Refused, Becomes, Said
<1>3. MovesObeyPolicy' /\ ChecksObeyPolicy' /\ VerifyForetells'
  BY <1>2 DEF MovesObeyPolicy, ChecksObeyPolicy, VerifyForetells, Settled
<1> QED BY <1>1, <1>3 DEF PolicyInv

LEMMA NewInv ==
    ASSUME PolicyInv, NEW cat, NEW decision, NEW lines, NEW open, NEW flags,
           NewThread(cat, decision, lines, open, flags)
    PROVE  PolicyInv'
<1> DEFINE policy == PolicyOrDefault
           doc == [ category |-> cat, decision |-> decision,
                    status |-> Definition(policy, cat).initial, open |-> open,
                    approved |-> FALSE, commit |-> FALSE ]
           passes == Passes(CheckCreate(policy, cat, lines), "force" \in flags, policy.strict)
<1>1. CASE ~passes
  <2>1. Refused("new", lines, flags, "check")
    BY <1>1, Zenon DEF NewThread
  <2> QED BY <2>1, RefusedInv
<1>2. CASE passes
  <2>1. Becomes(doc, Said("new", lines, flags, "done"))
    BY <1>2, Zenon DEF NewThread
  <2>2. doc.category = cat /\ doc.status = Definition(policy, cat).initial /\ IsDocument(doc)
    BY DEF IsDocument
  <2> HIDE DEF doc, passes
  <2>3. /\ thread' = doc /\ file' = file /\ ReportCurrent'
        /\ last'.op = "new" /\ last'.outcome = "done"
        /\ last'.word = lines /\ last'.flags = flags
    BY <2>1, ReportKept DEF Becomes, Said
  <2>4. ASSUME Loads(file) PROVE policy = file
    BY <2>4 DEF PolicyOrDefault
  <2> HIDE DEF policy
  <2>5. MovesObeyPolicy'
    BY <2>2, <2>3, <2>4, DefinitionConsistent DEF MovesObeyPolicy, Settled
  <2>6. ASSUME Loads(file), file.strict, flags = {}, lines # None,
               RulesFor(file, cat).creation # None,
               NEW s \in RulesFor(file, cat).creation.sections
        PROVE  \E i \in HeadingsOf(lines) : lines[i].text = s
    <3>1. CheckCreate(file, cat, lines) \cap {"error", "warning"} = {}
      BY <1>2, <2>4, <2>6 DEF Passes, passes
    <3>2. "warning" \notin CheckCreate(file, cat, lines) /\ "error" \notin CheckCreate(file, cat, lines)
      BY <3>1
    <3> QED BY <2>6, <3>2 DEF CheckCreate
  <2>7. ChecksObeyPolicy'
    BY <2>2, <2>3, <2>6 DEF ChecksObeyPolicy, Settled, Own
  <2>8. VerifyForetells'
    BY <2>3 DEF VerifyForetells
  <2> QED BY <2>2, <2>3, <2>5, <2>7, <2>8 DEF PolicyInv
<1> QED BY <1>1, <1>2

LEMMA StateInv ==
    ASSUME PolicyInv, thread # None, NEW word, NEW flags, State(word, flags)
    PROVE  PolicyInv'
<1> DEFINE to == Target(word, thread)
           def == Definition(file, thread.category)
           flagged == Flagged(thread, flags)
           doc == [flagged EXCEPT !.status = to]
<1>1. CASE \E why \in {"error", "already", "transition"} : Refused("state", word, flags, why)
  BY <1>1, RefusedInv
<1>2. CASE /\ Loads(file) /\ to # thread.status
           /\ HasPath(def, thread.status, to) \/ AllowsTransition(def, thread.status, to)
           /\ Becomes(doc, Said("state", word, flags, "done"))
  <2>1. IsDocument(flagged) /\ flagged.category = thread.category
    BY FlaggedDocument DEF PolicyInv
  <2> HIDE DEF flagged
  <2>2. IsDocument(doc) /\ doc.status = to /\ doc.category = thread.category
    BY <2>1, StatusDocument
  <2> HIDE DEF doc
  <2>3. /\ thread' = doc /\ file' = file /\ ReportCurrent'
        /\ last'.op = "state" /\ last'.outcome = "done"
    BY <1>2, ReportKept DEF Becomes, Said
  <2>4. to \in def.statuses
    BY <1>2, DefinitionConsistent, PathEnds, EdgeEnds
  <2>5. MovesObeyPolicy' /\ ChecksObeyPolicy' /\ VerifyForetells'
    BY <2>2, <2>3, <2>4 DEF MovesObeyPolicy, ChecksObeyPolicy, VerifyForetells
  <2> QED BY <2>2, <2>3, <2>5 DEF PolicyInv
<1> QED BY <1>1, <1>2, Zenon DEF State

(* Guards ask nothing but their rules and the category.                    *)
LEMMA SameGuards ==
    ASSUME NEW policy, NEW doc, NEW new, NEW from, NEW to,
           new.category = doc.category,
           \A rule : Satisfied(new, rule) <=> Satisfied(doc, rule)
    PROVE  CheckGuards(policy, new, from, to) = CheckGuards(policy, doc, from, to)
BY DEF CheckGuards

LEMMA BulkInv ==
    ASSUME PolicyInv, thread # None, NEW word, NEW flags, Bulk(word, flags)
    PROVE  PolicyInv'
<1> DEFINE to == Target(word, thread)
           from == thread.status
           def == Definition(file, thread.category)
           flagged == Flagged(thread, flags)
           doc == [flagged EXCEPT !.status = to]
           allowed == AllowsTransition(def, from, to)
           blocked == CheckGuards(file, flagged, from, to)
<1>1. \/ ~Loads(file) /\ Refused("bulk", word, flags, "error")
      \/ /\ Loads(file) /\ Canonical(word) = Canonical(from)
         /\ Refused("bulk", word, flags, "already")
      \/ to = None /\ Refused("bulk", word, flags, "error")
      \/ to # None /\ to = from /\ Refused("bulk", word, flags, "already")
      \/ /\ to # None /\ ~allowed
         /\ Refused("bulk", word, flags, "transition")
      \/ /\ to # None /\ allowed /\ blocked # {}
         /\ Refused("bulk", word, flags, "guard")
      \/ /\ Loads(file) /\ to # None /\ allowed /\ blocked = {}
         /\ Becomes(doc, Said("bulk", word, flags, "done"))
  BY Zenon DEF Bulk
<1>2. /\ IsDocument(thread)
      /\ IsDocument(flagged) /\ flagged.category = thread.category
      /\ flags = {} => /\ flagged.open = thread.open /\ flagged.commit = thread.commit
                       /\ flagged.approved = thread.approved
  BY FlaggedDocument DEF PolicyInv
<1> HIDE DEF flagged
<1>3. flags = {} => blocked = CheckGuards(file, thread, from, to)
  <2> SUFFICES ASSUME flags = {} PROVE blocked = CheckGuards(file, thread, from, to)
    OBVIOUS
  <2>1. \A rule : Satisfied(flagged, rule) <=> Satisfied(thread, rule)
    BY <1>2 DEF Satisfied
  <2> QED BY <1>2, <2>1, SameGuards
<1>4. /\ "done" # None
      /\ to # None => to = Canonical(word)
      /\ word = "done" => to = "done"
  <2>1. "done" # None
    BY NoneAssumption DEF Outcomes
  <2>2. to # None => to = Canonical(word)
    BY DEF Target
  <2>3. ASSUME word = "done" PROVE to = "done"
    <3>1. Canonical(word) = "done" /\ "done" \in CanonicalStatuses
      BY <2>3 DEF Canonical, CanonicalStatuses
    <3>2. ~NotApplicable(word, Flavor(thread))
      BY <2>3 DEF NotApplicable
    <3> QED BY <3>1, <3>2 DEF Target
  <2> QED BY <2>1, <2>2, <2>3
<1>5. Canonical("done") = "done"
  BY DEF Canonical
<1>6. ASSUME Canonical(from) = from, report # None, word = "done"
      PROVE  /\ Loads(file)
             /\ report.next <=> allowed
             /\ allowed /\ flags = {} => report.blocked = blocked
  <2>1. ForwardTarget(thread) <=> allowed
    BY <1>4, <1>6 DEF ForwardTarget
  <2> HIDE DEF allowed, blocked
  <2> QED BY <1>3, <1>4, <1>6, <2>1 DEF PolicyInv, ReportCurrent
<1> HIDE DEF allowed, blocked, to
<1>7. ASSUME NEW why \in {"error", "already", "transition", "guard"},
             Refused("bulk", word, flags, why)
      PROVE  /\ thread' = thread /\ ReportCurrent' /\ MovesObeyPolicy' /\ ChecksObeyPolicy'
             /\ last' = [ op |-> "bulk", word |-> word, flags |-> flags, outcome |-> why,
                          from |-> from, foretold |-> report ]
  <2>1. /\ thread' = thread /\ ReportCurrent'
        /\ last' = [ op |-> "bulk", word |-> word, flags |-> flags, outcome |-> why,
                     from |-> from, foretold |-> report ]
    BY <1>7, ReportKept DEF Refused, Becomes, Said
  <2> QED BY <2>1 DEF MovesObeyPolicy, ChecksObeyPolicy, Settled
<1>8. CASE ~Loads(file) /\ Refused("bulk", word, flags, "error")
  BY <1>6, <1>7, <1>8 DEF VerifyForetells, PolicyInv
<1>9. CASE Canonical(word) = Canonical(from) /\ Refused("bulk", word, flags, "already")
  BY <1>5, <1>7, <1>9 DEF VerifyForetells, PolicyInv
<1>10. CASE to = None /\ Refused("bulk", word, flags, "error")
  BY <1>4, <1>7, <1>10 DEF VerifyForetells, PolicyInv
<1>11. CASE to # None /\ to = from /\ Refused("bulk", word, flags, "already")
  BY <1>4, <1>7, <1>11 DEF VerifyForetells, PolicyInv
<1>12. CASE to # None /\ ~allowed /\ Refused("bulk", word, flags, "transition")
  BY <1>6, <1>7, <1>12 DEF VerifyForetells, PolicyInv
<1>13. CASE to # None /\ allowed /\ blocked # {} /\ Refused("bulk", word, flags, "guard")
  BY <1>6, <1>7, <1>13 DEF VerifyForetells, PolicyInv
<1>14. CASE /\ Loads(file) /\ to # None /\ allowed /\ blocked = {}
            /\ Becomes(doc, Said("bulk", word, flags, "done"))
  <2>1. /\ IsDocument(doc) /\ doc.status = to /\ doc.category = thread.category
        /\ doc.open = flagged.open /\ doc.approved = flagged.approved
        /\ doc.commit = flagged.commit
    BY <1>2, StatusDocument
  <2> HIDE DEF doc
  <2>2. /\ thread' = doc /\ file' = file /\ ReportCurrent'
        /\ last' = [ op |-> "bulk", word |-> word, flags |-> flags, outcome |-> "done",
                     from |-> from, foretold |-> report ]
    BY <1>14, ReportKept DEF Becomes, Said
  <2>3. to \in def.statuses
    BY <1>14, DefinitionConsistent, EdgeEnds DEF allowed
  <2>4. ASSUME NEW g \in RulesFor(file, thread.category).guards,
               g.key = [from |-> from, to |-> to, form |-> "exact"],
               Canonical(from) = from, NEW rule \in g.rules
        PROVE  Satisfied(doc, rule)
    <3>1. Canonical(to) = to
      BY <1>4, <1>14, CanonicalTwice
    <3>2. Satisfied(flagged, rule)
      BY <1>2, <1>14, <2>4, <3>1 DEF blocked, CheckGuards
    <3> QED BY <2>1, <3>2 DEF Satisfied
  <2>5. MovesObeyPolicy'
    BY <2>1, <2>2, <2>3, <2>4 DEF MovesObeyPolicy, Own
  <2>6. ChecksObeyPolicy'
    BY <2>2 DEF ChecksObeyPolicy
  <2>7. VerifyForetells'
    BY <1>6, <1>14, <2>2 DEF VerifyForetells
  <2> QED BY <2>1, <2>2, <2>5, <2>6, <2>7 DEF PolicyInv
<1> QED BY <1>1, <1>8, <1>9, <1>10, <1>11, <1>12, <1>13, <1>14

(* A command that goes through and is not a move: what is left to show is   *)
(* that the document keeps its shape and the checks were asked.            *)
LEMMA DoneInv ==
    ASSUME PolicyInv, NEW doc, NEW op \in {"say", "revise", "evidence", "settle"},
           NEW word, NEW flags, IsDocument(doc),
           Becomes(doc, Said(op, word, flags, "done")), ChecksObeyPolicy'
    PROVE  PolicyInv'
<1>1. ReportCurrent' /\ thread' = doc /\ last'.op = op
  BY ReportKept DEF Becomes, Said
<1>2. MovesObeyPolicy' /\ VerifyForetells'
  BY <1>1 DEF MovesObeyPolicy, VerifyForetells
<1> QED BY <1>1, <1>2 DEF PolicyInv

LEMMA SayInv ==
    ASSUME PolicyInv, thread # None, NEW kind, Say(kind)
    PROVE  PolicyInv'
<1> DEFINE entries == SayEntries(PolicyOrDefault, thread)
           added == IF kind = "approval" THEN [thread EXCEPT !.approved = TRUE]
                    ELSE [thread EXCEPT !.open = @ \cup ({kind} \ {"comment"})]
<1>1. CASE Refused("say", kind, {}, "check")
  BY <1>1, RefusedInv
<1>2. CASE /\ entries = {} \/ \E kinds \in entries : kind \in kinds
           /\ Becomes(added, Said("say", kind, {}, "done"))
  <2>1. IsDocument(thread)
    BY DEF PolicyInv
  <2>2. IsDocument(added) /\ added.status = thread.status /\ added.category = thread.category
    <3>1. CASE kind = "approval"
      <4>1. added = [thread EXCEPT !.approved = TRUE]
        BY <3>1
      <4> HIDE DEF added
      <4> QED BY <2>1, <4>1, ApprovedDocument
    <3>2. CASE kind # "approval"
      <4>1. added = [thread EXCEPT !.open = @ \cup ({kind} \ {"comment"})]
        BY <3>2
      <4> HIDE DEF added
      <4> QED BY <2>1, <4>1, OpenDocument
    <3> QED BY <3>1, <3>2
  <2> HIDE DEF added
  <2>3. /\ thread' = added /\ file' = file
        /\ last'.op = "say" /\ last'.outcome = "done" /\ last'.word = kind
    BY <1>2 DEF Becomes, Said
  <2>4. ASSUME Loads(file), thread.status \in DOMAIN RulesFor(file, thread.category).allowed
        PROVE  LET allowed == RulesFor(file, thread.category).allowed
               IN  \/ kind \in allowed[thread.status]
                   \/ \E s \in DOMAIN allowed :
                          s # thread.status /\ Canonical(s) = Canonical(thread.status)
    <3> DEFINE allowed == RulesFor(file, thread.category).allowed
    <3>1. PolicyOrDefault = file
      BY <2>4 DEF PolicyOrDefault
    <3>2. entries = { allowed[s] : s \in { k \in DOMAIN allowed :
                                            Canonical(k) = Canonical(thread.status) } }
      BY <3>1 DEF SayEntries
    <3>3. allowed[thread.status] \in entries
      BY <2>4, <3>2
    <3>4. PICK kinds \in entries : kind \in kinds
      BY <1>2, <3>3
    <3>5. PICK s \in DOMAIN allowed :
              kinds = allowed[s] /\ Canonical(s) = Canonical(thread.status)
      BY <3>2, <3>4
    <3> QED BY <3>4, <3>5
  <2>5. ChecksObeyPolicy'
    BY <2>2, <2>3, <2>4 DEF ChecksObeyPolicy, Settled, Own, AliasIn
  <2> QED BY <1>2, <2>2, <2>5, DoneInv
<1> QED BY <1>1, <1>2 DEF Say

(* An allow list that lets a status through names it, or an alias of it.    *)
LEMMA AllowListAsked ==
    ASSUME NEW list, InAllowList(list, thread.status), list # None
    PROVE  thread.status \in list \/ AliasIn(list)
BY DEF InAllowList, AliasIn

LEMMA ReviseInv ==
    ASSUME PolicyInv, thread # None, NEW what, Revise(what)
    PROVE  PolicyInv'
<1> DEFINE rules == RulesFor(PolicyOrDefault, thread.category)
           list == IF what = "body" THEN rules.body ELSE rules.node
<1>1. CASE Refused("revise", what, {}, "check")
  BY <1>1, RefusedInv
<1>2. CASE InAllowList(list, thread.status) /\ Becomes(thread, Said("revise", what, {}, "done"))
  <2>1. /\ thread' = thread /\ file' = file
        /\ last'.op = "revise" /\ last'.outcome = "done" /\ last'.word = what
    BY <1>2 DEF Becomes, Said
  <2>2. list # None => thread.status \in list \/ AliasIn(list)
    BY <1>2, AllowListAsked
  <2>3. Loads(file) => rules = Own
    BY DEF PolicyOrDefault, Own
  <2>4. ChecksObeyPolicy'
    BY <2>1, <2>2, <2>3 DEF ChecksObeyPolicy, Settled, Own, AliasIn
  <2>5. IsDocument(thread)
    BY DEF PolicyInv
  <2> QED BY <1>2, <2>4, <2>5, DoneInv
<1> QED BY <1>1, <1>2 DEF Revise

LEMMA EvidenceInv ==
    ASSUME PolicyInv, thread # None, NEW kind, AddEvidence(kind)
    PROVE  PolicyInv'
<1> DEFINE rules == RulesFor(PolicyOrDefault, thread.category)
           commit == thread.commit \/ kind = "commit"
           doc == [thread EXCEPT !.commit = commit]
<1>1. CASE Refused("evidence", kind, {}, "check")
  BY <1>1, RefusedInv
<1>2. CASE /\ InAllowList(rules.evidence, thread.status)
           /\ Becomes(doc, Said("evidence", kind, {}, "done"))
  <2> HIDE DEF commit
  <2>1. IsDocument(doc) /\ doc.status = thread.status /\ doc.category = thread.category
    BY CommitDocument DEF PolicyInv
  <2> HIDE DEF doc
  <2>2. /\ thread' = doc /\ file' = file
        /\ last'.op = "evidence" /\ last'.outcome = "done"
    BY <1>2 DEF Becomes, Said
  <2>3. rules.evidence # None => thread.status \in rules.evidence \/ AliasIn(rules.evidence)
    BY <1>2, AllowListAsked
  <2>4. Loads(file) => rules = Own
    BY DEF PolicyOrDefault, Own
  <2> HIDE DEF rules
  <2>5. Own' = Own /\ thread'.status = thread.status
    BY <2>1, <2>2 DEF Own
  <2>6. ChecksObeyPolicy'
    <3> SUFFICES ASSUME Loads(file), Own.evidence # None
                 PROVE  thread.status \in Own.evidence \/ AliasIn(Own.evidence)'
      BY <2>2, <2>5 DEF ChecksObeyPolicy, Settled
    <3>1. thread.status \in Own.evidence \/ AliasIn(Own.evidence)
      BY <2>3, <2>4
    <3> QED BY <2>5, <3>1 DEF AliasIn
  <2> QED BY <1>2, <2>1, <2>6, DoneInv
<1> QED BY <1>1, <1>2, Zenon DEF AddEvidence

LEMMA SettleInv ==
    ASSUME PolicyInv, thread # None, NEW kind, Settle(kind)
    PROVE  PolicyInv'
<1> DEFINE open == thread.open \ {kind}
           approved == thread.approved /\ kind # "approval"
           opened == [thread EXCEPT !.open = open]
           doc == [opened EXCEPT !.approved = approved]
<1>1. Becomes([thread EXCEPT !.open = open, !.approved = approved],
              Said("settle", kind, {}, "done"))
  BY Zenon DEF Settle
<1>2. approved \in BOOLEAN
  OBVIOUS
<1> HIDE DEF open, approved
<1>3. Becomes(doc, Said("settle", kind, {}, "done"))
  BY <1>1, OpenApproved
<1>4. IsDocument(opened)
  BY OpenDocument DEF PolicyInv
<1> HIDE DEF opened
<1>5. IsDocument(doc)
  BY <1>2, <1>4, ApprovedDocument
<1>6. last'.op = "settle"
  BY <1>3 DEF Becomes, Said
<1>7. ChecksObeyPolicy'
  BY <1>6 DEF ChecksObeyPolicy
<1> QED BY <1>3, <1>5, <1>7, DoneInv

(* verify and an edit of the file leave no last command.                   *)
LEMMA NothingLast ==
    ASSUME last' = Nothing
    PROVE  MovesObeyPolicy' /\ ChecksObeyPolicy' /\ VerifyForetells'
<1>1. last'.outcome # "done" /\ last'.op # "bulk"
  BY NoneAssumption DEF Nothing, Outcomes
<1> QED BY <1>1 DEF MovesObeyPolicy, ChecksObeyPolicy, VerifyForetells, Settled

LEMMA VerifyInv ==
    ASSUME PolicyInv, thread # None, Verify
    PROVE  PolicyInv'
<1>1. /\ Loads(file) /\ last' = Nothing /\ UNCHANGED <<file, thread>>
      /\ report'.next = ForwardTarget(thread)
      /\ report'.blocked = IF ForwardTarget(thread)
                           THEN CheckGuards(file, thread, thread.status, "done") ELSE {}
  BY DEF Verify
<1>2. ReportCurrent'
  BY <1>1 DEF ReportCurrent, ForwardTarget
<1>3. MovesObeyPolicy' /\ ChecksObeyPolicy' /\ VerifyForetells'
  BY <1>1, NothingLast
<1> QED BY <1>1, <1>2, <1>3 DEF PolicyInv

LEMMA EditInv ==
    ASSUME PolicyInv, NEW f, Edit(f)
    PROVE  PolicyInv'
<1>1. thread' = thread /\ report' = None /\ last' = Nothing
  BY DEF Edit
<1>2. MovesObeyPolicy' /\ ChecksObeyPolicy' /\ VerifyForetells'
  BY <1>1, NothingLast
<1> QED BY <1>1, <1>2 DEF PolicyInv, ReportCurrent

-----------------------------------------------------------------------------
(* The theorems.                                                           *)

LEMMA PolicyInitInv == PolicyInit => PolicyInv
<1> SUFFICES ASSUME PolicyInit PROVE PolicyInv
  OBVIOUS
<1>1. thread = None /\ report = None /\ last.outcome # "done" /\ last.op # "bulk"
  BY NoneAssumption DEF PolicyInit, Nothing, Outcomes
<1> QED BY <1>1 DEF PolicyInv, ReportCurrent, MovesObeyPolicy, ChecksObeyPolicy,
                    VerifyForetells, Settled

LEMMA PolicyNextInv == PolicyInv /\ [PolicyNext]_policyVars => PolicyInv'
<1> SUFFICES ASSUME PolicyInv, [PolicyNext]_policyVars PROVE PolicyInv'
  OBVIOUS
<1>1. ASSUME NEW f \in Files, Edit(f) PROVE PolicyInv'
  BY <1>1, EditInv
<1>2. ASSUME NEW cat, NEW decision, NEW lines, NEW open, NEW flags,
             NewThread(cat, decision, lines, open, flags)
      PROVE  PolicyInv'
  BY <1>2, NewInv
<1>3. ASSUME thread # None, NEW word, NEW flags, State(word, flags) \/ Bulk(word, flags)
      PROVE  PolicyInv'
  BY <1>3, StateInv, BulkInv
<1>4. ASSUME thread # None, NEW kind,
             Say(kind) \/ Revise(kind) \/ AddEvidence(kind) \/ Settle(kind) \/ Verify
      PROVE  PolicyInv'
  BY <1>4, SayInv, ReviseInv, EvidenceInv, SettleInv, VerifyInv
<1>5. CASE UNCHANGED policyVars
  BY <1>5 DEF policyVars, PolicyInv, ReportCurrent, MovesObeyPolicy, ChecksObeyPolicy,
              VerifyForetells, Settled, Own, AliasIn, ForwardTarget
<1> QED BY <1>1, <1>2, <1>3, <1>4, <1>5 DEF PolicyNext

THEOREM PolicyInvariant == PolicySpec => []PolicyInv
BY PolicyInitInv, PolicyNextInv, PTL DEF PolicySpec

(* Whatever policy.toml holds and however it is edited between commands,    *)
(* a status that a command gives a thread is one of its category, and a     *)
(* bulk move across a guarded transition leaves a thread that satisfies     *)
(* the guard (validate_against_registry, find_path, check_guards).         *)
THEOREM PolicyMoves == PolicySpec => []MovesObeyPolicy
BY PolicyInvariant, PTL DEF PolicyInv

(* An operation that goes through is in no list that leaves the status out, *)
(* and a strict policy creates no thread without its sections unless forced *)
(* (operation_check.rs).                                                   *)
THEOREM PolicyChecks == PolicySpec => []ChecksObeyPolicy
BY PolicyInvariant, PTL DEF PolicyInv

(* While neither the thread nor the file changes, a bulk move to done is    *)
(* stopped by a guard exactly when verify said so (verify_thread,          *)
(* apply_state_change_snapshot).                                           *)
THEOREM PolicyForetold == PolicySpec => []VerifyForetells
BY PolicyInvariant, PTL DEF PolicyInv

-----------------------------------------------------------------------------
(* Clones.                                                                 *)

RemoteNames == ToSet(Remotes)

(* What the state of a clone looks like.                                   *)
CloneTypes ==
    /\ fetch \in [RemoteNames -> [Specs -> Nat]]
    /\ known \subseteq RemoteNames
    /\ dotForum \in [Worktrees -> [ForumFiles -> {"absent", "good", "bad"}]]
    /\ local = [auth |-> local.auth, pub |-> local.pub]
    /\ hooked \in BOOLEAN

(* A remote that is not configured has no refspecs, and nothing comes from *)
(* no remote.                                                              *)
OnlyKnown ==
    /\ \A r \in RemoteNames \ known : fetch[r] = Bare
    /\ local.pub # {} => known # {}

(* Where the last init without a warning was a public one and no hook came *)
(* after it, no remote can bring authoritative refs, nor has any since, and*)
(* one that init saw brings the published refs.                            *)
PublicOnly ==
    asked = "public" /\ ~hooked =>
        /\ imported = {}
        /\ \A r \in known : fetch[r]["forum"] = 0 /\ fetch[r]["threads"] = 0
        /\ local.pub # {} => \E r \in known : fetch[r]["published"] > 0

Wired == wired \subseteq known /\ \A r \in wired : HasForumRefspec(r)

Ready == ready \subseteq logs \cap Worktrees
         /\ \A w \in ready : \A f \in ForumFiles : dotForum[w][f] # "absent"

CloneInv == CloneTypes /\ OnlyKnown /\ PublicOnly /\ Wired /\ Ready

-----------------------------------------------------------------------------
(* What ensure_forum_refspecs writes.                                      *)

LEMMA NamesOfRemotes ==
    /\ \A i \in DOMAIN Remotes : Remotes[i] \in RemoteNames
    /\ \A r \in RemoteNames : \E i \in DOMAIN Remotes : Remotes[i] = r
  BY DEF RemoteNames, ToSet

LEMMA WritesAre ==
    ASSUME NEW mode \in Modes, NEW w \in Writes(mode)
    PROVE  /\ w.at \in DOMAIN Remotes /\ Remotes[w.at] \in known
           /\ w.spec \in Specs
           /\ w.op = "unset" => mode = "public" /\ w.spec \in Unwanted
           /\ w.op = "add" => mode = "trusted" \/ w.spec = "published"
           /\ w.op \in {"unset", "add"}
<1>1. PICK i \in KnownRemotes : w \in Reconcile(i, mode)
  BY DEF Writes
<1>2. i \in DOMAIN Remotes /\ Remotes[i] \in known
  BY DEF KnownRemotes
<1>3. CASE mode = "trusted"
  BY <1>1, <1>2, <1>3 DEF Reconcile, Specs
<1>4. CASE mode # "trusted"
  BY <1>1, <1>2, <1>4 DEF Reconcile, Specs, Unwanted, Modes
<1> QED
  BY <1>3, <1>4

(* Every write of an init that gives no warning is made.                   *)
LEMMA EnsureOk ==
    ASSUME NEW mode, NEW locked, Ensure(mode, locked).ok,
           NEW r \in DOMAIN fetch, NEW spec \in Specs
    PROVE  Ensure(mode, locked).fetch[r][spec] = Written(Writes(mode), r, spec)
<1> DEFINE bad == { w \in Writes(mode) : Unsettable(w) \/ w = locked }
           done == { w \in Writes(mode) : \A v \in bad : Before(w, v) }
<1>1. bad = {}
  BY DEF Ensure
<1>2. done = Writes(mode)
  BY <1>1
<1>3. Ensure(mode, locked).fetch[r][spec] = Written(done, r, spec)
  BY DEF Ensure
<1> QED
  BY <1>2, <1>3

LEMMA EnsureShape ==
    ASSUME NEW mode \in Modes, NEW locked, CloneTypes
    PROVE  /\ Ensure(mode, locked).fetch \in [RemoteNames -> [Specs -> Nat]]
           /\ \A r \in RemoteNames \ known : Ensure(mode, locked).fetch[r] = fetch[r]
           /\ mode = "trusted" => \A r \in RemoteNames : \A spec \in Specs :
                 fetch[r][spec] > 0 => Ensure(mode, locked).fetch[r][spec] > 0
<1> DEFINE bad == { w \in Writes(mode) : Unsettable(w) \/ w = locked }
           done == { w \in Writes(mode) : \A v \in bad : Before(w, v) }
           after == [r \in DOMAIN fetch |-> [spec \in Specs |-> Written(done, r, spec)]]
<1>1. Ensure(mode, locked).fetch = after
  BY DEF Ensure
<1>2. done \subseteq Writes(mode)
  OBVIOUS
<1> HIDE DEF bad, done
<1>3. DOMAIN fetch = RemoteNames
  BY DEF CloneTypes
<1>4. ASSUME NEW r \in RemoteNames, NEW spec \in Specs
      PROVE  /\ Written(done, r, spec) \in Nat
             /\ r \notin known => Written(done, r, spec) = fetch[r][spec]
             /\ mode = "trusted" /\ fetch[r][spec] > 0 => Written(done, r, spec) > 0
  <2>1. fetch[r][spec] \in Nat
    BY DEF CloneTypes
  <2>2. r \notin known => \A w \in done : Remotes[w.at] # r
    BY <1>2, WritesAre
  <2>3. mode = "trusted" => \A w \in done : w.op # "unset"
    BY <1>2, WritesAre
  <2> QED
    BY <2>1, <2>2, <2>3 DEF Written
<1>5. ASSUME NEW r \in RemoteNames \ known
      PROVE  [spec \in Specs |-> Written(done, r, spec)] = fetch[r]
  <2>1. fetch[r] = [spec \in Specs |-> fetch[r][spec]]
    BY DEF CloneTypes
  <2> QED
    BY <1>4, <2>1
<1> QED
  BY <1>1, <1>3, <1>4, <1>5

(* What init --public-only leaves behind.                                  *)
LEMMA EnsurePublic ==
    ASSUME NEW locked, CloneTypes, Ensure("public", locked).ok, NEW r \in known
    PROVE  /\ Ensure("public", locked).fetch[r]["forum"] = 0
           /\ Ensure("public", locked).fetch[r]["threads"] = 0
           /\ Ensure("public", locked).fetch[r]["published"] > 0
<1> DEFINE after(spec) == Ensure("public", locked).fetch[r][spec]
           W == Writes("public")
<1>1. r \in DOMAIN fetch /\ r \in RemoteNames
  BY DEF CloneTypes
<1>2. PICK i \in DOMAIN Remotes : Remotes[i] = r
  BY <1>1, NamesOfRemotes
<1>3. Reconcile(i, "public") \subseteq W
  BY <1>2 DEF Writes, KnownRemotes
<1>4. ASSUME NEW spec \in Specs PROVE after(spec) = Written(W, r, spec) /\ fetch[r][spec] \in Nat
  BY <1>1, EnsureOk DEF CloneTypes
<1>5. ASSUME NEW spec \in Unwanted PROVE Written(W, r, spec) = 0
  <2>1. spec \in Specs
    BY DEF Unwanted, Specs
  <2>2. CASE fetch[r][spec] > 0
    <3> DEFINE w == [op |-> "unset", at |-> i, spec |-> spec]
    <3>1. w \in Reconcile(i, "public")
      BY <1>2, <2>2 DEF Reconcile
    <3>2. w \in W /\ w.op = "unset" /\ Remotes[w.at] = r /\ w.spec = spec
      BY <1>2, <1>3, <3>1
    <3> QED
      BY <3>2 DEF Written
  <2>3. CASE fetch[r][spec] = 0
    <3>1. \A w \in W : w.op = "add" => w.spec # spec
      BY WritesAre DEF Modes, Unwanted
    <3> QED
      BY <2>3, <3>1 DEF Written
  <2> QED
    BY <1>4, <2>1, <2>2, <2>3
<1>6. Written(W, r, "published") > 0
  <2>1. \A w \in W : w.op = "unset" => w.spec # "published"
    BY WritesAre DEF Modes, Unwanted
  <2>2. "published" \in Specs /\ fetch[r]["published"] \in Nat
    BY <1>4 DEF Specs
  <2>3. CASE fetch[r]["published"] > 0
    BY <2>1, <2>2, <2>3 DEF Written
  <2>4. CASE fetch[r]["published"] = 0
    <3> DEFINE w == [op |-> "add", at |-> i, spec |-> "published"]
    <3>1. w \in Reconcile(i, "public")
      BY <1>2, <2>4 DEF Reconcile
    <3>2. w \in W /\ w.op = "add" /\ Remotes[w.at] = r /\ w.spec = "published"
      BY <1>2, <1>3, <3>1
    <3> QED
      BY <2>1, <2>2, <3>2 DEF Written
  <2> QED
    BY <2>2, <2>3, <2>4
<1> QED
  BY <1>4, <1>5, <1>6 DEF Unwanted, Specs

(* After either init every remote has a forum refspec.                     *)
LEMMA EnsureTrusted ==
    ASSUME NEW locked, CloneTypes, Ensure("trusted", locked).ok, NEW r \in known
    PROVE  \E spec \in Specs : Ensure("trusted", locked).fetch[r][spec] > 0
<1> DEFINE after(spec) == Ensure("trusted", locked).fetch[r][spec]
           W == Writes("trusted")
<1>1. r \in DOMAIN fetch /\ r \in RemoteNames
  BY DEF CloneTypes
<1>2. PICK i \in DOMAIN Remotes : Remotes[i] = r
  BY <1>1, NamesOfRemotes
<1>3. Reconcile(i, "trusted") \subseteq W
  BY <1>2 DEF Writes, KnownRemotes
<1>4. ASSUME NEW spec \in Specs PROVE after(spec) = Written(W, r, spec) /\ fetch[r][spec] \in Nat
  BY <1>1, EnsureOk DEF CloneTypes
<1>5. \A spec \in Specs : fetch[r][spec] > 0 => after(spec) > 0
  BY <1>1, EnsureShape DEF Modes
<1>6. CASE fetch[r]["forum"] > 0
  BY <1>5, <1>6 DEF Specs
<1>7. CASE fetch[r]["threads"] > 0
  BY <1>5, <1>7 DEF Specs
<1>8. CASE ~(fetch[r]["forum"] > 0) /\ ~(fetch[r]["threads"] > 0)
  <2> DEFINE w == [op |-> "add", at |-> i, spec |-> "threads"]
  <2>1. w \in Reconcile(i, "trusted")
    BY <1>2, <1>8 DEF Reconcile
  <2>2. w \in W /\ w.op = "add" /\ Remotes[w.at] = r /\ w.spec = "threads"
    BY <1>2, <1>3, <2>1
  <2>3. \A v \in W : v.op # "unset"
    BY WritesAre DEF Modes
  <2>4. Written(W, r, "threads") = fetch[r]["threads"] + 1
    BY <2>2, <2>3 DEF Written
  <2>5. "threads" \in Specs
    BY DEF Specs
  <2> QED
    BY <1>4, <2>4, <2>5
<1> QED
  BY <1>6, <1>7, <1>8

(* A fetch, or the fetches of an init.                                     *)
LEMMA FetchesAre ==
    /\ \A here, r, specs : LET now == Fetched(here, r, specs)
                           IN  /\ now = [auth |-> now.auth, pub |-> now.pub]
                               /\ ~Covers(specs, Authoritative) => now.auth = here.auth
                               /\ ~Covers(specs, Published) => now.pub = here.pub
    /\ \A mode, answering :
          LET now == FetchedAll(mode, answering)
          IN  /\ now = [auth |-> now.auth, pub |-> now.pub]
              /\ known = {} => now.pub = local.pub
              /\ mode = "public" => \A t \in Threads : now.auth[t] = local.auth[t]
<1>1. ASSUME NEW here, NEW r, NEW specs
      PROVE  LET now == Fetched(here, r, specs)
             IN  /\ now = [auth |-> now.auth, pub |-> now.pub]
                 /\ ~Covers(specs, Authoritative) => now.auth = here.auth
                 /\ ~Covers(specs, Published) => now.pub = here.pub
  BY DEF Fetched
<1>2. ASSUME NEW mode, NEW answering
      PROVE  LET now == FetchedAll(mode, answering)
             IN  /\ now = [auth |-> now.auth, pub |-> now.pub]
                 /\ known = {} => now.pub = local.pub
                 /\ mode = "public" => \A t \in Threads : now.auth[t] = local.auth[t]
  <2> DEFINE now == FetchedAll(mode, answering)
  <2>1. now = [auth |-> now.auth, pub |-> now.pub]
    BY DEF FetchedAll
  <2>2. known = {} => now.pub = local.pub
    BY DEF FetchedAll, KnownRemotes
  <2>3. mode = "public" => InitSpec(mode) \notin Authoritative
    BY DEF InitSpec, Authoritative
  <2>4. mode = "public" => \A t \in Threads : now.auth[t] = local.auth[t]
    BY <2>3 DEF FetchedAll
  <2> QED
    BY <2>1, <2>2, <2>4
<1> QED
  BY <1>1, <1>2

-----------------------------------------------------------------------------
(* The steps.                                                              *)

LEMMA CloneInitInv == CloneInit => CloneInv
<1> SUFFICES ASSUME CloneInit PROVE CloneInv
  OBVIOUS
<1>1. PICK old \in SUBSET known :
        fetch = [r \in RemoteNames |-> IF r \in old THEN [Bare EXCEPT !["forum"] = 1] ELSE Bare]
  BY DEF CloneInit, RemoteNames
<1>2. known \subseteq RemoteNames
  BY DEF CloneInit, RemoteNames
<1>3. Bare \in [Specs -> Nat] /\ [Bare EXCEPT !["forum"] = 1] \in [Specs -> Nat]
  BY DEF Bare
<1>4. PICK branch \in Branches : dotForum = [w \in Worktrees |-> branch]
  BY DEF CloneInit
<1>5. CloneTypes
  BY <1>1, <1>2, <1>3, <1>4, BranchesAssumption DEF CloneInit, CloneTypes, NoRefs
<1>6. OnlyKnown
  BY <1>1 DEF OnlyKnown, CloneInit, NoRefs
<1>7. asked # "public"
  BY ModesAssumption DEF CloneInit, Modes
<1> QED
  BY <1>5, <1>6, <1>7 DEF CloneInv, PublicOnly, Wired, Ready, CloneInit

LEMMA InitKeeps ==
    ASSUME CloneInv, NEW mode \in Modes, NEW w \in Worktrees, Init(mode, w)
    PROVE  CloneInv'
<1>1. PICK fault \in Faults(mode) :
        /\ fetch' = Ensure(mode, fault.locked).fetch
        /\ local' = FetchedAll(mode, fault.answering)
        /\ asked' = IF Ensure(mode, fault.locked).ok THEN mode ELSE None
        /\ wired' = IF Ensure(mode, fault.locked).ok THEN known ELSE {}
        /\ hooked' = (hooked /\ ~Ensure(mode, fault.locked).ok)
        /\ imported' = Moved(local, local')
                       \cup (IF Ensure(mode, fault.locked).ok THEN {} ELSE imported)
  BY DEF Init
<1>2. /\ InitForum(w) /\ logs' = logs \cup {w} /\ ready' = ready \cup {w}
      /\ UNCHANGED <<remote, known>>
  BY DEF Init, InitLocal
<1> DEFINE ok == Ensure(mode, fault.locked).ok
<1>3. CloneTypes'
  <2>1. fetch' \in [RemoteNames -> [Specs -> Nat]]
    BY <1>1, EnsureShape DEF CloneInv
  <2>2. dotForum' \in [Worktrees -> [ForumFiles -> {"absent", "good", "bad"}]]
    BY <1>2 DEF InitForum, WriteIfMissing, CloneInv, CloneTypes
  <2>3. local' = [auth |-> local'.auth, pub |-> local'.pub]
    BY <1>1, FetchesAre
  <2>4. hooked' \in BOOLEAN /\ known' \subseteq RemoteNames
    BY <1>1, <1>2 DEF CloneInv, CloneTypes
  <2> QED
    BY <2>1, <2>2, <2>3, <2>4 DEF CloneTypes, RemoteNames
<1>4. OnlyKnown'
  <2>1. \A r \in RemoteNames \ known : fetch'[r] = fetch[r]
    BY <1>1, EnsureShape DEF CloneInv
  <2>2. local'.pub # {} => known # {}
    BY <1>1, FetchesAre DEF CloneInv, OnlyKnown
  <2> QED
    BY <1>2, <2>1, <2>2 DEF CloneInv, OnlyKnown, RemoteNames, Bare
<1>5. ASSUME ok, mode = "public" PROVE PublicOnly'
  <2>1. \A r \in known : /\ fetch'[r]["forum"] = 0 /\ fetch'[r]["threads"] = 0
                         /\ fetch'[r]["published"] > 0
    BY <1>1, <1>5, EnsurePublic DEF CloneInv
  <2>2. imported' = {}
    BY <1>1, <1>5, FetchesAre DEF Moved
  <2>3. local'.pub # {} => known # {}
    BY <1>2, <1>4 DEF OnlyKnown
  <2> QED
    BY <1>2, <2>1, <2>2, <2>3 DEF PublicOnly
<1>6. PublicOnly'
  <2>1. asked' = "public" => ok /\ mode = "public"
    BY <1>1, ModesAssumption DEF Modes
  <2> QED
    BY <1>5, <2>1 DEF PublicOnly
<1>7. ok => \A r \in known : \E spec \in Specs : fetch'[r][spec] > 0
  <2>1. ok /\ mode = "public" => \A r \in known : fetch'[r]["published"] > 0
    BY <1>1, EnsurePublic DEF CloneInv
  <2>2. ok /\ mode = "trusted" => \A r \in known : \E spec \in Specs : fetch'[r][spec] > 0
    BY <1>1, EnsureTrusted DEF CloneInv
  <2> QED
    BY <2>1, <2>2 DEF Modes, Specs
<1>8. Wired'
  BY <1>1, <1>2, <1>7 DEF Wired, HasForumRefspec, Covers
<1>9. Ready'
  <2>1. \A v \in Worktrees : \A f \in ForumFiles :
          dotForum[v][f] # "absent" \/ v = w => dotForum'[v][f] # "absent"
    BY <1>2 DEF InitForum, WriteIfMissing, CloneInv, CloneTypes
  <2> QED
    BY <1>2, <2>1 DEF Ready, CloneInv
<1> QED
  BY <1>3, <1>4, <1>6, <1>8, <1>9 DEF CloneInv

LEMMA CheckoutKeeps ==
    ASSUME CloneInv, NEW w \in Worktrees, Checkout(w)
    PROVE  CloneInv'
<1>1. PICK fault \in Faults("trusted") : fetch' = Ensure("trusted", fault.locked).fetch
  BY DEF Checkout
<1>2. /\ hooked' = TRUE /\ logs' = logs \cup {w}
      /\ UNCHANGED <<remote, known, local, dotForum, ready, asked, wired, imported>>
  BY DEF Checkout, InitLocal, files
<1>3. /\ fetch' \in [RemoteNames -> [Specs -> Nat]]
      /\ \A r \in RemoteNames \ known : fetch'[r] = fetch[r]
      /\ \A r \in RemoteNames : \A spec \in Specs : fetch[r][spec] > 0 => fetch'[r][spec] > 0
  BY <1>1, EnsureShape DEF Modes, CloneInv
<1>4. CloneTypes' /\ OnlyKnown'
  BY <1>2, <1>3 DEF CloneInv, CloneTypes, OnlyKnown, RemoteNames, Bare
<1>5. PublicOnly' /\ Ready'
  BY <1>2 DEF PublicOnly, Ready, CloneInv
<1>6. Wired'
  <2>1. \A r \in known : r \in RemoteNames
    BY DEF CloneInv, CloneTypes
  <2> QED
    BY <1>2, <1>3, <2>1 DEF CloneInv, Wired, HasForumRefspec, Covers
<1> QED
  BY <1>4, <1>5, <1>6 DEF CloneInv

LEMMA PlainFetchKeeps ==
    ASSUME CloneInv, NEW r, PlainFetch(r)
    PROVE  CloneInv'
<1>1. /\ r \in known /\ local' = Fetched(local, r, fetch[r])
      /\ imported' = imported \cup Moved(local, local')
      /\ UNCHANGED <<known, fetch, logs, dotForum, ready, asked, wired, hooked>>
  BY DEF PlainFetch, files
<1>2. CloneTypes' /\ Wired' /\ Ready'
  BY <1>1, FetchesAre
     DEF CloneInv, CloneTypes, Wired, Ready, RemoteNames, HasForumRefspec, Covers
<1>3. OnlyKnown'
  BY <1>1 DEF CloneInv, OnlyKnown, RemoteNames, Bare
<1>4. ASSUME asked = "public", ~hooked
      PROVE  /\ imported' = {}
             /\ local'.pub # {} => \E q \in known : fetch[q]["published"] > 0
  <2>1. ~Covers(fetch[r], Authoritative)
    BY <1>1, <1>4 DEF CloneInv, PublicOnly, Covers, Authoritative
  <2>2. local'.auth = local.auth
    BY <1>1, <2>1, FetchesAre
  <2>3. Covers(fetch[r], Published) => fetch[r]["published"] > 0
    BY <1>1, <1>4 DEF CloneInv, PublicOnly, Covers, Published
  <2>4. local'.pub # local.pub => Covers(fetch[r], Published)
    BY <1>1, FetchesAre
  <2> QED
    BY <1>1, <1>4, <2>2, <2>3, <2>4 DEF Moved, CloneInv, PublicOnly
<1>5. PublicOnly'
  BY <1>1, <1>4 DEF CloneInv, PublicOnly
<1> QED
  BY <1>2, <1>3, <1>5 DEF CloneInv

LEMMA CloneNextInv == CloneInv /\ [CloneNext]_cloneVars => CloneInv'
<1> SUFFICES ASSUME CloneInv, [CloneNext]_cloneVars PROVE CloneInv'
  OBVIOUS
<1>1. ASSUME NEW w \in Worktrees, NEW branch \in Branches, SwitchBranch(w, branch)
      PROVE  CloneInv'
  <2>1. /\ dotForum' = [dotForum EXCEPT ![w] = branch] /\ ready' = ready \ {w}
        /\ UNCHANGED <<remote, known, fetch, hooks, logs, local, asked, wired, hooked, imported>>
    BY <1>1 DEF SwitchBranch, history
  <2>2. CloneTypes'
    BY <2>1, BranchesAssumption DEF CloneInv, CloneTypes, RemoteNames
  <2>3. Ready'
    BY <2>1 DEF CloneInv, CloneTypes, Ready
  <2> QED
    BY <2>1, <2>2, <2>3
       DEF CloneInv, OnlyKnown, PublicOnly, Wired, RemoteNames, HasForumRefspec, Covers, Bare
<1>2. ASSUME \/ InstallHooks \/ UninstallHooks
             \/ \E r \in ToSet(Remotes), t \in Threads : WriteThere(r, t)
             \/ UNCHANGED cloneVars
      PROVE  CloneInv'
  <2>1. UNCHANGED <<known, fetch, logs, local, dotForum, ready, asked, wired, hooked, imported>>
    BY <1>2 DEF InstallHooks, UninstallHooks, WriteThere, cloneVars, files, history
  <2> QED
    BY <2>1 DEF CloneInv, CloneTypes, OnlyKnown, PublicOnly, Wired, Ready, RemoteNames,
                HasForumRefspec, Covers, Bare
<1>3. ASSUME NEW t, WriteHere(t) PROVE CloneInv'
  <2>1. /\ UNCHANGED <<known, fetch, logs, dotForum, ready, asked, wired, hooked, imported>>
        /\ local'.pub = local.pub /\ local' = [auth |-> local'.auth, pub |-> local'.pub]
    BY <1>3 DEF WriteHere, files, history, CloneInv, CloneTypes
  <2> QED
    BY <2>1 DEF CloneInv, CloneTypes, OnlyKnown, PublicOnly, Wired, Ready, RemoteNames,
                HasForumRefspec, Covers, Bare
<1>4. ASSUME NEW r \in ToSet(Remotes), AddRemote(r) PROVE CloneInv'
  <2>1. /\ r \notin known /\ known' = known \cup {r} /\ r \in RemoteNames
        /\ UNCHANGED <<fetch, logs, local, dotForum, ready, asked, wired, hooked, imported>>
    BY <1>4 DEF AddRemote, files, history, RemoteNames
  <2>2. fetch[r] = Bare /\ Bare["forum"] = 0 /\ Bare["threads"] = 0
    BY <2>1 DEF CloneInv, OnlyKnown, Bare, Specs
  <2>3. PublicOnly'
    BY <2>1, <2>2 DEF CloneInv, PublicOnly
  <2> QED
    BY <2>1, <2>3 DEF CloneInv, CloneTypes, OnlyKnown, Wired, Ready, RemoteNames,
                      HasForumRefspec, Covers, Bare
<1>5. ASSUME NEW r \in ToSet(Remotes), NEW spec \in Specs, EditConfig(r, spec) PROVE CloneInv'
  <2>1. /\ r \in known /\ fetch' = [fetch EXCEPT ![r][spec] = @ + 1]
        /\ asked' = None /\ wired' = {}
        /\ UNCHANGED <<known, logs, local, dotForum, ready, hooked, imported>>
    BY <1>5 DEF EditConfig, files
  <2>2. fetch' \in [RemoteNames -> [Specs -> Nat]] /\ \A q \in RemoteNames \ known : fetch'[q] = fetch[q]
    BY <2>1 DEF CloneInv, CloneTypes
  <2>3. asked' # "public"
    BY <2>1, ModesAssumption DEF Modes
  <2> QED
    BY <2>1, <2>2, <2>3 DEF CloneInv, CloneTypes, OnlyKnown, PublicOnly, Wired, Ready,
                            RemoteNames, Bare
<1> QED
  BY <1>1, <1>2, <1>3, <1>4, <1>5, InitKeeps, CheckoutKeeps, PlainFetchKeeps DEF CloneNext

THEOREM CloneInvariant == CloneSpec => []CloneInv
<1> QED
  BY CloneInitInv, CloneNextInv, PTL DEF CloneSpec

-----------------------------------------------------------------------------
(* The theorems.                                                           *)

(* After a public init without a warning, and until somebody edits the     *)
(* refspecs or the hook of a new worktree runs, no fetch moves an          *)
(* authoritative ref.                                                      *)
THEOREM CloneImportsOnlyByHook == CloneSpec => []ImportsOnlyByHook
<1>1. CloneInv => ImportsOnlyByHook
  BY DEF CloneInv, PublicOnly, ImportsOnlyByHook
<1> QED
  BY <1>1, CloneInvariant, PTL

(* What an init without a warning did leaves doctor nothing to report but  *)
(* what came later.                                                        *)
THEOREM CloneDoctorContent == CloneSpec => []DoctorContent
<1>1. ASSUME CloneInv PROVE DoctorContent
  <2>1. \A r \in wired : HasForumRefspec(r)
    BY <1>1 DEF CloneInv, Wired
  <2>2. ASSUME NEW w \in ready, NEW check \in Checks(w)
        PROVE  check.about \in (known \ wired) \cup { f \in ForumFiles : dotForum[w][f] = "bad" }
    <3>1. w \in logs /\ w \in Worktrees /\ \A f \in ForumFiles : dotForum[w][f] \in {"good", "bad"}
      BY <1>1 DEF CloneInv, Ready, CloneTypes
    <3>2. ~IsFreshClone(w)
      BY <3>1 DEF IsFreshClone
    <3>3. \/ \E f \in ForumFiles : dotForum[w][f] # "good" /\ check.about = f
          \/ \E r \in known : ~HasForumRefspec(r) /\ check.about = r
      BY <2>2, <3>1, <3>2 DEF Checks
    <3> QED
      BY <2>1, <3>1, <3>3
  <2>3. ASSUME asked = "public", ~hooked, NEW t \in Threads, local.auth[t] = None,
               <<"stale-published", t>> \in Advisories
        PROVE  FALSE
    <3>1. t \in local.pub /\ ~IsPublicConsumer
      BY <2>3 DEF Advisories
    <3>2. /\ \A r \in known : ~Covers(fetch[r], Authoritative)
          /\ \E r \in known : fetch[r]["published"] > 0
      BY <1>1, <2>3, <3>1 DEF CloneInv, PublicOnly, Covers, Authoritative
    <3> QED
      BY <3>1, <3>2 DEF IsPublicConsumer
  <2> QED
    BY <2>1, <2>2, <2>3 DEF DoctorContent
<1> QED
  BY <1>1, CloneInvariant, PTL
==============================================================================
