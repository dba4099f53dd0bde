----------------------- MODULE MCDefaultSequenceWorker -----------------------
(* Two services with two threads and one.                                   *)
EXTENDS DefaultSequenceWorker, TLC

CONSTANTS s1, s2, t1, t2, t3

MCServices == {s1, s2}
MCThreads == {t1, t2, t3}
MCServiceOf == t1 :> s1 @@ t2 :> s1 @@ t3 :> s2

\* One service with two threads, for the liveness run.
LiveServices == {s1}
LiveThreads == {t1, t2}
LiveServiceOf == t1 :> s1 @@ t2 :> s1
LiveSteps == {-2, 3}

\* The threads of one service are interchangeable.
MCSymmetry == Permutations({t1, t2})
====
