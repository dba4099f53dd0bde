----------------------- MODULE MCGlacier2Communicator -----------------------
(* Two callers and up to three faults of the router.                        *)
EXTENDS Glacier2Communicator

CONSTANTS c1, c2

MCCaller == {c1, c2}
====
