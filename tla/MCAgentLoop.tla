----------------------------- MODULE MCAgentLoop -----------------------------
(* Small instances of AgentLoop.                                           *)
EXTENDS AgentLoop

CONSTANTS c1, c2

TwoCallers == {c1, c2}
RunAndAny == (c1 :> {"run"}) @@ (c2 :> Calls)
UserOps == {"create", "edit", "pause", "resume", "complete", "clear"}
OneRound == {1}
===============================================================================
