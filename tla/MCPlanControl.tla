---------------------------- MODULE MCPlanControl ----------------------------
(* A small instance of PlanControl for TLC: two runs in plan mode of one   *)
(* session; two requests to execute the first plan, one of them with the   *)
(* key of the second planner's request; and a plain run with the key of    *)
(* the first planner's request.                                            *)
EXTENDS PlanControl

CONSTANTS r1, r2, r3, r4, r5, k1, k2, k3, s1, s2, w1, S

OneSession == [r \in Runs |-> S]
NoRequests == [x \in Calls \cup Inputs |-> r1]
NoHashes   == [c \in Calls |-> None]
OneWorker  == [s \in Slots |-> w1]
KeyOfRun   == [r \in Runs |-> CASE r \in {r1, r5} -> k1 [] r = r3 -> k3 [] OTHER -> k2]
FirstPlan  == [r \in Runs |-> IF r \in {r3, r4} THEN r1 ELSE None]

Twins      == Permutations(Slots)
=============================================================================
