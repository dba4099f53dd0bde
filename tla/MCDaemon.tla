------------------------------ MODULE MCDaemon ------------------------------
(* Two commands over a daemon that can have four pids in mind.              *)
EXTENDS Daemon

CONSTANTS c1, c2

MCCmd == {c1, c2}

MCOneCmd == {c1}
====
