------------------------------ MODULE Categories ------------------------------
(***************************************************************************)
(* The built-in category registry and the default policy (policy.rs,       *)
(* init.rs, operation_check.rs): which status changes a thread may make,   *)
(* which guards gate them, and which statuses admit an operation.          *)
(*                                                                         *)
(* A thread's flavor is its category and whether it carries the decision   *)
(* tag, which is all that shorthand verbs ask of its tags; "decision"      *)
(* stands for a task thread with the tag.                                  *)
(***************************************************************************)

BuiltInFlavors == {"rfc", "task", "decision"}

CanonicalStatuses == {"draft", "open", "working", "review", "done",
                      "rejected", "withdrawn", "deprecated"}

RfcEdges ==
    { <<"draft", "open">>, <<"draft", "withdrawn">>, <<"open", "review">>,
      <<"open", "rejected">>, <<"open", "withdrawn">>,
      <<"open", "deprecated">>, <<"review", "done">>,
      <<"review", "rejected">>, <<"review", "deprecated">>,
      <<"done", "open">>, <<"rejected", "open">>, <<"done", "deprecated">>,
      <<"rejected", "deprecated">> }

TaskEdges ==
    { <<"open", "working">>, <<"open", "review">>, <<"working", "review">>,
      <<"review", "working">>, <<"done", "open">>, <<"rejected", "open">>,
      <<"done", "deprecated">>, <<"rejected", "deprecated">> }
    \cup ({"open", "working", "review"} \X {"done", "rejected", "deprecated"})

BuiltInEdges(f) == IF f = "rfc" THEN RfcEdges ELSE TaskEdges

BuiltInInitial(f) == IF f = "rfc" THEN "draft" ELSE "open"

(* Guards of the policy that git forum init writes.                        *)
DefaultGuards(f, from, to) ==
    IF f = "rfc"
    THEN IF <<from, to>> = <<"review", "done">>
         THEN {"one_approval", "no_open_objections"} ELSE {}
    ELSE IF from \in {"open", "working", "review"} /\ to = "done"
         THEN {"no_open_actions"} ELSE {}

(* Operation checks of that policy: <<rule, flavor, status>> is refused.     *)
AllowedIn(rule, f) ==
    CASE rule = "revise_body" -> IF f = "rfc" THEN {"draft", "open"}
                                 ELSE {"open", "working"}
      [] rule = "revise_node" -> IF f = "rfc" THEN {"draft", "open", "review"}
                                 ELSE {"open", "working", "review"}
      [] rule = "evidence" ->
             {"open", "review", "done", "rejected", "deprecated"}
             \cup (IF f = "rfc" THEN {"draft"} ELSE {"working"})
      [] OTHER -> CanonicalStatuses   \* no restriction

DefaultDenied ==
    { d \in {"revise_body", "revise_node", "evidence"} \X BuiltInFlavors
              \X CanonicalStatuses : d[3] \notin AllowedIn(d[1], d[2]) }

-----------------------------------------------------------------------------
(* Shorthand verbs and status names a user may type.                       *)

(* The verb exists but is refused on a thread of flavor f.                  *)
NotApplicable(verb, f) ==
    \/ verb = "closed" /\ f = "rfc"
    \/ verb = "accepted" /\ f = "task"
    \/ verb = "proposed" /\ f # "rfc"
    \/ verb = "pending" /\ f # "task"
    \/ verb = "withdrawn" /\ f # "rfc"

(* Otherwise a verb and a 1.x name are folded onto a canonical status.      *)
Canonical(name) ==
    CASE name \in {"closed", "accepted"} -> "done"
      [] name = "proposed" -> "open"
      [] name \in {"under-review", "reviewing"} -> "review"
      [] name \in {"pending", "designing", "implementing"} -> "working"
      [] OTHER -> name
===============================================================================
