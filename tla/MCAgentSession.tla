---------------------------- MODULE MCAgentSession ----------------------------
(* Small instances of AgentSession for TLC: c1 and c2 steer, f1 and f2 are *)
(* follow-ups.                                                             *)
EXTENDS AgentSession

CONSTANTS c1, c2, f1, f2

ByName == [c \in Controls |-> IF c \in {c1, c2} THEN "steer" ELSE "follow_up"]
=============================================================================
