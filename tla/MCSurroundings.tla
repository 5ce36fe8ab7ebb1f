--------------------------- MODULE MCSurroundings ---------------------------
(***************************************************************************)
(* Two parts whose state others change under their hands: commands under   *)
(* policy.toml, and a clone among its remotes. They share no state: a      *)
(* behaviour takes the steps of one part, and the other stays where it     *)
(* began.                                                                  *)
(***************************************************************************)
EXTENDS PolicyFile, MCClones

VARIABLE part       \* the part that takes steps

-----------------------------------------------------------------------------
(* PolicyFile: the default, strict and not, and files with a state machine  *)
(* of their own: guarded, started elsewhere, incomplete and malformed.      *)

Arc(from, to) == [from |-> from, to |-> to, form |-> "exact"]
SpacedArc(from, to) == [from |-> from, to |-> to, form |-> "spaced"]
BadArc == [from |-> "open", to |-> "done", form |-> "malformed"]
GuardRow(key, rules) == [key |-> key, rules |-> rules]
PolicyText(strict, categories) ==
    [form |-> "policy", strict |-> strict, categories |-> categories]
Machine(transitions, initial) ==
    [initial |-> initial, statuses |-> {"open","review","done","proposed"},
     transitions |-> transitions]
OwnFile(def, guards, allowed, evidence) ==
    PolicyText(TRUE, ("task" :> [NoRules EXCEPT !.def = def, !.guards = guards,
                                                !.allowed = allowed, !.evidence = evidence]))
DefaultFile ==
    PolicyText(FALSE,
        ("rfc" :> [NoRules EXCEPT
            !.guards = {GuardRow(Arc("review","done"), {"one_approval","no_open_objections"})},
            !.creation = [body |-> TRUE, sections |-> {"Goal"}], !.body = {"draft","open"}])
        @@ ("task" :> [NoRules EXCEPT
            !.guards = {GuardRow(Arc("open","done"), {"no_open_actions"})},
            !.creation = [body |-> FALSE, sections |-> {"Goal"}], !.evidence = {},
            !.node = {"open"}, !.allowed = ("done" :> {"comment"})]))
ReviewFile(initial) ==
    Machine({Arc("proposed","done"), Arc("open","review"), Arc("review","done")}, initial)
MCFiles ==
    { [EmptyPolicy EXCEPT !.form = "legacy"],
      DefaultFile,
      [DefaultFile EXCEPT !.strict = TRUE],
      OwnFile([ReviewFile("open") EXCEPT !.transitions = @ \cup {SpacedArc("open","done")}],
              {GuardRow(Arc("review","done"), {"has_commit_evidence"}),
               GuardRow(SpacedArc("open","review"), {"one_approval"}),
               GuardRow(Arc("proposed","done"), {"one_approval"})},
              ("open" :> {"comment"}) @@ ("proposed" :> {"action"}), {"proposed","review"}),
      OwnFile(ReviewFile("proposed"), {}, <<>>, None),
      OwnFile([Machine({Arc("open","review")}, "open") EXCEPT !.statuses = {"open","done"}],
              {}, <<>>, None),
      OwnFile(Machine({Arc("open","done"), BadArc}, "open"), {}, <<>>, None),
      PolicyText(FALSE, ("task" :> [NoRules EXCEPT !.partial = TRUE])) }

TextLine(level, text) == [level |-> level, text |-> text]
MCBodies ==
    { None,
      <<TextLine(0,"blank")>>,
      <<TextLine(0,"text")>>,
      <<TextLine(1,"Goal"), TextLine(2,"Sub"), TextLine(0,"text")>>,
      <<TextLine(2,"Goal"), TextLine(0,"blank"), TextLine(1,"Next"), TextLine(0,"text")>> }

-----------------------------------------------------------------------------
(* The part that takes no step begins in one state. A clone begins with no  *)
(* remote or with all, and where another hook is in the way the branch has  *)
(* all of .forum.                                                           *)
OneBranch(branch) == \A w \in Worktrees : dotForum[w] = branch
NoHooks == \A h \in DOMAIN hooks : hooks[h] = "absent"

SurroundingsInit ==
    /\ part \in {"policy", "clones"}
    /\ PolicyInit /\ CloneInit
    /\ part # "policy" => file = DefaultFile
    /\ IF part = "clones"
       THEN /\ known \in {{}, ToSet(Remotes)}
            /\ OneBranch(Tracked) \/ NoHooks
       ELSE known = {} /\ NoHooks /\ OneBranch(Tracked)

SurroundingsNext ==
    /\ \/ part = "policy" /\ PolicyNext /\ UNCHANGED cloneVars
       \/ part = "clones" /\ CloneNext /\ UNCHANGED policyVars
    /\ UNCHANGED part

SurroundingsSpec == SurroundingsInit /\ [][SurroundingsNext]_<<part, policyVars, cloneVars>>
=============================================================================
