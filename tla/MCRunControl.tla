----------------------------- MODULE MCRunControl -----------------------------
(* Small instances of RunControl for TLC: one run, two slots of two        *)
(* workers, and the calls and interactions the run needs.                  *)
EXTENDS RunControl, TLC

CONSTANTS r1, s1, s2, w1, w2, c1, c2, h1, h2, q1, q2, m1, S

OneSession == [r \in Runs |-> S]
OnlyRun1   == [x \in Calls \cup Inputs |-> r1]
OwnHash    == [c \in Calls |-> IF c = c1 THEN h1 ELSE h2]
ApartSlots == [s \in Slots |-> IF s = s2 THEN w2 ELSE w1]
=============================================================================
