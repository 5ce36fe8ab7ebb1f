------------------------------ MODULE ThreadLog ------------------------------
(***************************************************************************)
(* What the snapshot store promises to the callers of its write functions, *)
(* with nothing said of how: every thread is a log of the commands that    *)
(* reached it, a log only grows at its end, a command is in at most one    *)
(* place, and what a caller is told is true - after Ok the command is in   *)
(* the log, after an error it is not and never will be.                    *)
(*                                                                         *)
(* SnapshotStore.tla implements this module (property LogPromise there).   *)
(***************************************************************************)
EXTENDS Sequences

CONSTANTS
    Threads,   \* thread ids: one ref refs/forum/threads/<id> each
    Commands   \* the identities of the write commands ever issued

VARIABLES
    log,       \* log[t]: the commands recorded on thread t, oldest first
    acked,     \* commands whose caller was told Ok
    rejected   \* commands whose caller was told an error

vars == <<log, acked, rejected>>

IsLogged(c) == \E t \in Threads : \E i \in DOMAIN log[t] : log[t][i] = c

Init ==
    /\ log = [t \in Threads |-> <<>>]
    /\ acked = {}
    /\ rejected = {}

(* A command takes effect: it becomes the newest entry of one thread.      *)
Record(t, c) ==
    /\ ~IsLogged(c)
    /\ c \notin rejected
    /\ log' = [log EXCEPT ![t] = Append(@, c)]
    /\ UNCHANGED <<acked, rejected>>

(* The caller is told Ok: only for a command that took effect.             *)
Acknowledge(c) ==
    /\ IsLogged(c)
    /\ acked' = acked \cup {c}
    /\ UNCHANGED <<log, rejected>>

(* The caller is told an error: only for a command that took no effect.    *)
Reject(c) ==
    /\ ~IsLogged(c)
    /\ rejected' = rejected \cup {c}
    /\ UNCHANGED <<log, acked>>

Next ==
    \E c \in Commands :
        \/ \E t \in Threads : Record(t, c)
        \/ Acknowledge(c)
        \/ Reject(c)

Spec == Init /\ [][Next]_vars
=============================================================================
