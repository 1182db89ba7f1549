---------------------------- MODULE PortAllowlist ----------------------------
(* What a caller of vm.openport and update-allowlist may rely on when calls  *)
(* come one after the other: each port has a set of allowed sources, which   *)
(* only the call that was made for the port changes.  It first withdraws     *)
(* what is not wanted, then admits what is missing, source by source, and it *)
(* is done only when nothing is left to do; it may give up at any point.     *)
(* Nothing is said of numbers, of rules or of their order.                   *)
CONSTANTS
    Calls,
    Ports,
    Sources,
    Everyone,   \* the two sources that stand for everyone, one per family
    Nothing     \* what a call asks for while it does not run

VARIABLES
    allowed,    \* the sources allowed on each port
    asked,      \* [port, wanted] of each call
    outcome     \* how far each call is

allowlistVars == <<allowed, asked, outcome>>

\* Who may get in at the end: with one family of everyone comes the other.
Extent(wanted) == wanted \cup {s \in Everyone : wanted \cap Everyone # {}}

AllowlistInit ==
    /\ allowed \in [Ports -> SUBSET Sources]
    /\ asked = [c \in Calls |-> Nothing]
    /\ outcome = [c \in Calls |-> "none"]

Ask(c) ==
    /\ outcome[c] = "none"
    /\ \A d \in Calls : outcome[d] # "pending"
    /\ \E p \in Ports, wanted \in (SUBSET Sources) \ {{}} :
            asked' = [asked EXCEPT ![c] = [port |-> p, wanted |-> wanted]]
    /\ outcome' = [outcome EXCEPT ![c] = "pending"]
    /\ UNCHANGED allowed

Withdraw(c) ==
    /\ outcome[c] = "pending"
    /\ \E s \in allowed[asked[c].port] \ asked[c].wanted :
            allowed' = [allowed EXCEPT ![asked[c].port] = @ \ {s}]
    /\ UNCHANGED <<asked, outcome>>

Admit(c) ==
    /\ outcome[c] = "pending"
    /\ allowed[asked[c].port] \subseteq Extent(asked[c].wanted)
    /\ \E s \in asked[c].wanted \ allowed[asked[c].port] :
            allowed' = [allowed EXCEPT ![asked[c].port] = @ \cup Extent({s})]
    /\ UNCHANGED <<asked, outcome>>

Leave(c, result) ==
    /\ asked' = [asked EXCEPT ![c] = Nothing]
    /\ outcome' = [outcome EXCEPT ![c] = result]
    /\ UNCHANGED allowed

Finish(c) ==
    /\ outcome[c] = "pending"
    /\ asked[c].wanted \subseteq allowed[asked[c].port]
    /\ allowed[asked[c].port] \subseteq Extent(asked[c].wanted)
    /\ Leave(c, "done")

GiveUp(c) ==
    /\ outcome[c] = "pending"
    /\ Leave(c, "failed")

AllowlistNext ==
    \E c \in Calls : Ask(c) \/ Withdraw(c) \/ Admit(c) \/ Finish(c) \/ GiveUp(c)

AllowlistSpec == AllowlistInit /\ [][AllowlistNext]_allowlistVars
=============================================================================
