----------------------------- MODULE UniqueRanges -----------------------------
(***************************************************************************)
(* What clients of the id service rely on, whatever the algorithm: a call  *)
(* is granted a set of ids that nobody else was or is granted, and then    *)
(* returns it, or is lost with its ids.                                    *)
(***************************************************************************)
CONSTANTS
    Calls,  \* the calls that can be under way at once
    IdSet   \* the ids of the algorithm

VARIABLES
    issued,  \* the ids returned to clients
    granted  \* the ids each call under way is going to return

vars == <<issued, granted>>

Init == issued = {} /\ granted = [c \in Calls |-> {}]

\* Call c gets ids that are neither returned nor granted to another call.
Grant(c) ==
    /\ granted[c] = {}
    /\ granted' = [granted EXCEPT ![c] = granted'[c]]
    /\ granted'[c] \subseteq IdSet
    /\ granted'[c] \cap issued = {}
    /\ \A d \in Calls \ {c} : granted'[c] \cap granted[d] = {}
    /\ UNCHANGED issued

\* Call c returns its ids.
Return(c) ==
    /\ issued' = issued \cup granted[c]
    /\ granted' = [granted EXCEPT ![c] = {}]

\* A process dies, and the calls D it was serving with it.
Lose(D) ==
    /\ granted' = [c \in Calls |-> IF c \in D THEN {} ELSE granted[c]]
    /\ UNCHANGED issued

Next ==
    \/ \E c \in Calls : Grant(c) \/ Return(c)
    \/ \E D \in SUBSET Calls : Lose(D)

Spec == Init /\ [][Next]_vars
=============================================================================
