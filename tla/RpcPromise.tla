----------------------------- MODULE RpcPromise -----------------------------
(* What the daemon promises a caller at the gateway about one JSON-RPC       *)
(* request, whatever happens to connections, loops and queues below: the     *)
(* handler runs at most once, a response exists only after the handler has   *)
(* finished, and the caller sees it at most once or never.  Nothing is said  *)
(* about when: the daemon keeps no request and no response across a failed   *)
(* write, so a call may also end unanswered.                                 *)
CONSTANT Requests

VARIABLE call   \* [Requests -> CallState]

CallState == {"unread", "accepted", "executed", "answered", "unanswered"}

PromiseType == call \in [Requests -> CallState]

PromiseInit == call = [r \in Requests |-> "unread"]

Advance(r, from, to) ==
    /\ call[r] \in from
    /\ call' = [call EXCEPT ![r] = to]

Accept(r)  == Advance(r, {"unread"}, "accepted")
Execute(r) == Advance(r, {"accepted"}, "executed")
Answer(r)  == Advance(r, {"executed"}, "answered")
Abandon(r) == Advance(r, {"accepted", "executed"}, "unanswered")

PromiseNext == \E r \in Requests : Accept(r) \/ Execute(r) \/ Answer(r) \/ Abandon(r)

PromiseSpec == PromiseInit /\ [][PromiseNext]_call
=============================================================================
