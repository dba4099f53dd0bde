---------------------------- MODULE MCMySQLDBPool ----------------------------
(* Three threads over the pool of one database.                             *)
EXTENDS MySQLDBPool, TLC

CONSTANTS c1, c2, c3, c4, u1, u2, u3

MCConns == {c1, c2, c3, c4}
MCUsers == {u1, u2, u3}

\* Connections and threads are interchangeable.
MCSymmetry == Permutations(MCConns) \cup Permutations(MCUsers)
====
