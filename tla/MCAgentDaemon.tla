---------------------------- MODULE MCAgentDaemon ----------------------------
(* Instances of AgentDaemon for TLC.                                         *)
EXTENDS AgentDaemon

CONSTANTS r1, r2, n1

TwoRequests  == {r1, r2}
OneNotice    == {n1}
=============================================================================
