------------------------------ MODULE MCHashMap -----------------------------
(* Four keys with any of four hashes, which fall together in one table size *)
(* and apart in the next: a copy of three elements from slots 7, 0 and 1 of  *)
(* eight overflows the table of sixteen it fills.                            *)
EXTENDS HashMap, TLC

CONSTANTS k1, k2, k3, k4, v1, v2

MCKey == {k1, k2, k3, k4}
MCValue == {v1, v2}
MCHashValues == {0, 7, 8, 15}
MCSymmetry == Permutations(MCKey) \cup Permutations(MCValue)
====
