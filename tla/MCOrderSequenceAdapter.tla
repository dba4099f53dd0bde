----------------------- MODULE MCOrderSequenceAdapter -----------------------
(* Two processes, as the deployment descriptor starts them.  They are alike, *)
(* so the one fault of the run can be the first one's.                       *)
EXTENDS OrderSequenceAdapter

CONSTANTS p1, p2

MCProc   == {p1, p2}
MCFaulty == {p1}
====
