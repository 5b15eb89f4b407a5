---------------------------- MODULE HookRegistry ----------------------------
(***************************************************************************)
(* What hooking one function in SHARED mode promises: a set of hooked      *)
(* proxies that hook and unhook change atomically, somewhere between the   *)
(* call and the return.                                                    *)
(***************************************************************************)
CONSTANTS
    Hookers,    \* threads that hook and unhook
    Funcs       \* proxy functions

VARIABLES
    hooks,      \* the proxies that are hooked
    request,    \* request[t]: the call being served, or Idle
    result      \* result[t]: its outcome, or Unknown

regVars == <<hooks, request, result>>

Idle == [op |-> "none", func |-> "none"]
Unknown == "unknown"

Init ==
    /\ hooks = {}
    /\ request = [t \in Hookers |-> Idle]
    /\ result = [t \in Hookers |-> Unknown]

Begin(t, op, f) ==
    /\ request[t] = Idle
    /\ request' = [request EXCEPT ![t] = [op |-> op, func |-> f]]
    /\ UNCHANGED <<hooks, result>>

Pending(t, op) == request[t].op = op /\ result[t] = Unknown
Answer(t, r) == result' = [result EXCEPT ![t] = r] /\ UNCHANGED request

\* A proxy is hooked once; a failure leaves everything as it was.
Hook(t) ==
    /\ Pending(t, "hook")
    /\ \/ request[t].func \notin hooks /\ Answer(t, "ok")
          /\ hooks' = hooks \union {request[t].func}
       \/ request[t].func \in hooks /\ Answer(t, "dup") /\ UNCHANGED hooks
       \/ Answer(t, "error") /\ UNCHANGED hooks

\* "not found" is only said of a proxy that is not hooked.
Unhook(t) ==
    /\ Pending(t, "unhook")
    /\ \/ Answer(t, "ok") /\ hooks' = hooks \ {request[t].func}
       \/ request[t].func \notin hooks /\ Answer(t, "not found") /\ UNCHANGED hooks

\* The proxy is gone, but the function could not be restored.
NotRestored(t) ==
    /\ request[t].op = "unhook" /\ result[t] = "ok"
    /\ Answer(t, "error")
    /\ UNCHANGED hooks

Return(t) ==
    /\ result[t] # Unknown
    /\ request' = [request EXCEPT ![t] = Idle]
    /\ result' = [result EXCEPT ![t] = Unknown]
    /\ UNCHANGED hooks

Next == \E t \in Hookers :
    \/ \E op \in {"hook", "unhook"}, f \in Funcs : Begin(t, op, f)
    \/ Hook(t) \/ Unhook(t) \/ NotRestored(t) \/ Return(t)

Spec == Init /\ [][Next]_regVars
=============================================================================
