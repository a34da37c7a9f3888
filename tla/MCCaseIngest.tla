---------------------------- MODULE MCCaseIngest ----------------------------
(***************************************************************************)
(* A batch of two cases: one of two subjects, and one that names none but  *)
(* has evidence a run for the other reads.                                 *)
(***************************************************************************)
EXTENDS CaseIngest

CONSTANTS a, b, s, t, v, g, w1, w2

TwoSubjects == [c \in Cases |-> IF c = a THEN <<s, t>> ELSE <<>>]
OwnSubject == [c \in Cases |-> IF c = a THEN <<s>> ELSE <<>>]
OneWorker == [c \in Callers |-> w1]
OwnWorker == [c \in Callers |-> IF c = g THEN w1 ELSE w2]
WholeBatch == {<<a, b>>}
Singles == {<<a>>}
=============================================================================
