-------------------------- MODULE ExecutionContract --------------------------
(***************************************************************************)
(* What the runtime plane promises the rest of the platform about one      *)
(* execution, whatever workers, leases and messages do underneath: the     *)
(* business action is called by at most one caller and only while the      *)
(* execution is open; at most one outcome is chosen; the execution closes  *)
(* once, with the chosen outcome, or without any call having been made;    *)
(* and nothing happens to it after that.                                   *)
(***************************************************************************)
CONSTANTS
    Callers,    \* who may call the business action
    Outcomes,   \* the outcomes an execution may close with
    Unserved    \* how it may close without having been served

VARIABLES
    callers,    \* who called
    chosen,     \* the outcomes recorded for it
    final       \* "OPEN", or how it was closed

vars == <<callers, chosen, final>>

Init == callers = {} /\ chosen = {} /\ final = "OPEN"

Call(c) ==
    /\ final = "OPEN" /\ callers = {}
    /\ callers' = {c}
    /\ UNCHANGED <<chosen, final>>

Choose(o) ==
    /\ final = "OPEN" /\ chosen = {}
    /\ chosen' = {o}
    /\ UNCHANGED <<callers, final>>

Commit(o) ==
    /\ final = "OPEN" /\ chosen = {o}
    /\ final' = o
    /\ UNCHANGED <<callers, chosen>>

\* Closed without the business action ever having been called.
CloseUnserved(f) ==
    /\ final = "OPEN" /\ callers = {}
    /\ final' = f
    /\ UNCHANGED <<callers, chosen>>

Next ==
    \/ \E c \in Callers : Call(c)
    \/ \E o \in Outcomes : Choose(o) \/ Commit(o)
    \/ \E f \in Unserved : CloseUnserved(f)

Spec == Init /\ [][Next]_vars
=============================================================================
