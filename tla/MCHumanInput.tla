---------------------------- MODULE MCHumanInput ----------------------------
EXTENDS HumanInput

CONSTANTS f1, f2, r1, r2

\* Two people may answer the first form, nobody the second one.
TwoThenNone == [n \in {f1, f2} |-> IF n = f1 THEN {r1, r2} ELSE {}]

\* Two nodes of parallel branches.
Parallel == [n \in {f1, f2} |-> {}]
=============================================================================
