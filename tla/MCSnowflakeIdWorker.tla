------------------------- MODULE MCSnowflakeIdWorker -------------------------
(* Two workers; the first is called by two threads.                         *)
EXTENDS SnowflakeIdWorker, TLC

CONSTANTS w1, w2, t1, t2, t3

MCWorkers == {w1, w2}
MCThreads == {t1, t2, t3}
MCWorkerOf == t1 :> w1 @@ t2 :> w1 @@ t3 :> w2

\* The two services of one process share the worker id of its configuration.
SharedField == w1 :> 1 @@ w2 :> 1

\* One worker with two threads.
OneWorker == {w1}
TwoThreads == {t1, t2}
OneWorkerOf == t1 :> w1 @@ t2 :> w1
OneField == w1 :> 1

\* The threads of one worker are interchangeable.
MCSymmetry == Permutations({t1, t2})
====
