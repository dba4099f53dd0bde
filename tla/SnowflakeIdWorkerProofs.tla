----------------------- MODULE SnowflakeIdWorkerProofs -----------------------
(***************************************************************************)
(* Proofs about SnowflakeIdWorker, for any workers, threads, steps, widths *)
(* of the counter and behaviours of the clock.                             *)
(*                                                                         *)
(* The invariant has three layers, each with the hypotheses it needs.      *)
(*   LInv  the mutex and the counters: needs positive steps.               *)
(*   OInv  what a worker gave is behind its last timestamp and counter, or *)
(*         behind those of its dead processes: needs a clock that is kept. *)
(*   UInv  ids returned and about to be returned are apart: needs workers  *)
(*         with different ids.                                             *)
(* With these the workers implement UniqueRanges.                          *)
(***************************************************************************)
EXTENDS SnowflakeIdWorker, TLAPS

\* No client asks for a range of no ids.
PositiveSteps == 0 \notin Steps

\* Each worker has an id of its own in the configuration.
DistinctWorkers == \A v, w \in Workers : Field[v] = Field[w] => v = w

Spinning == {"spin", "spinsec"}

-----------------------------------------------------------------------------
(* The first layer.                                                         *)

\* The threads in the mutex of a worker are one at most.
Mutex ==
    \A t, u \in Threads :
        WorkerOf[t] = WorkerOf[u] /\ pc[t] \in Held /\ pc[u] \in Held => t = u

\* A thread that waits for the next millisecond asked for more than is left of
\* the old one.
Overflown ==
    \A t \in Threads : pc[t] \in Spinning =>
        /\ minSeq[t] >= 1 /\ minSeq[t] <= SeqMask + 1
        /\ minSeq[t] + step[t] > SeqMask + 1

\* But for such a thread, the counter is within its bits.
Small ==
    \A w \in Workers :
        (\A t \in Threads : WorkerOf[t] = w => pc[t] \notin Spinning) => sequence[w] <= SeqMask

\* Calls ask for something.
Asked == \A t \in Threads : pc[t] # "idle" => step[t] >= 1

\* A range carries its worker's id.
Tagged == \A t \in Threads : pc[t] = "done" => sr[t].field = Field[WorkerOf[t]]

LInv == TypeOK /\ Mutex /\ Overflown /\ Small /\ Asked /\ Tagged /\ RangeFits

-----------------------------------------------------------------------------
(* The second layer.                                                        *)

\* Worker w is past counter q of millisecond x.
Past(w, x, q) ==
    \/ x <= dead[w]
    \/ x < lastTimestamp[w]
    \/ /\ x = lastTimestamp[w] /\ q <= sequence[w]
       /\ \A t \in Threads : WorkerOf[t] = w /\ pc[t] \in Spinning => q < minSeq[t]

\* The clock and what was read from it are later than dead processes.
Later ==
    /\ \A w \in Workers : dead[w] < now
    /\ \A t \in Threads : pc[t] \in {"sec", "spinsec"} => dead[WorkerOf[t]] < raw[t]
    /\ \A t \in Threads : pc[t] \in Spinning =>
          dead[WorkerOf[t]] < lastTimestamp[WorkerOf[t]]

\* A worker is past the ids it returned, a call's floor, and the ranges about
\* to be returned.
Behind ==
    /\ \A w \in Workers : Past(w, top[w][1], top[w][2])
    /\ \A t \in Threads : pc[t] # "done" => Past(WorkerOf[t], floor[t][1], floor[t][2])
    /\ \A t \in Threads : pc[t] = "done" => Past(WorkerOf[t], sr[t].ts, sr[t].max)

\* Ranges are above their floors.
Above ==
    \A t \in Threads : pc[t] = "done" => Below(floor[t], <<sr[t].ts, sr[t].min>>)

OInv == Later /\ Behind /\ Above

-----------------------------------------------------------------------------
(* The third layer.                                                         *)

\* Two ranges of a worker share no counter.
Apart(r, s) == r.ts # s.ts \/ r.max < s.min \/ s.max < r.min

UInv ==
    /\ \A i \in issued, w \in Workers : i[2] = Field[w] => Past(w, i[1], i[3])
    /\ \A i \in issued, t \in Threads :
          pc[t] = "done" /\ i[2] = sr[t].field /\ i[1] = sr[t].ts
              => i[3] < sr[t].min \/ i[3] > sr[t].max
    /\ \A t, u \in Threads :
          t # u /\ pc[t] = "done" /\ pc[u] = "done" /\ WorkerOf[t] = WorkerOf[u]
              => Apart(sr[t], sr[u])

-----------------------------------------------------------------------------
(* Type correctness.                                                        *)

\* timeGen returns the reading or one second more.
LEMMA FixedCases ==
    ASSUME NEW r \in Nat, NEW ts \in Fixed(r)
    PROVE  ts \in Nat /\ (ts = r \/ ts = r + Sec)
  BY ConstantsAssumption DEF Fixed

\* The unsigned sum is an unsigned int.
LEMMA PlusType ==
    ASSUME NEW a \in 0 .. Wrap - 1, NEW b \in 0 .. Wrap - 1
    PROVE  Plus(a, b) \in 0 .. Wrap - 1
  BY ConstantsAssumption DEF Plus

\* The ranges of the type invariant.
Ranges == [ts : Nat, field : 0 .. FieldMax, min : 0 .. Wrap - 1, max : 0 .. Wrap - 1]

\* What ids are made of.
LEMMA IdsType ==
    ASSUME NEW r \in Ranges
    PROVE  Ids(r) \subseteq IdSet
  <1>1. /\ r.ts \in Nat /\ r.field \in 0 .. FieldMax
        /\ r.min \in 0 .. Wrap - 1 /\ r.max \in 0 .. Wrap - 1
        /\ SeqMask \in Nat /\ Wrap \in Nat
    BY ConstantsAssumption DEF Ranges
  <1>2. CASE r.max <= SeqMask
    <2> DEFINE m == IF r.min <= SeqMask THEN r.min ELSE IF r.field % 2 = 1 THEN 0 ELSE r.min
    <2>1. m \in Nat
      BY <1>1
    <2>2. Ids(r) = {<<r.ts, r.field, q>> : q \in m .. r.max}
      BY <1>2 DEF Ids
    <2> HIDE DEF m
    <2>3. \A q \in m .. r.max : q \in 0 .. SeqMask
      BY <1>1, <1>2, <2>1
    <2> QED
      BY <1>1, <2>2, <2>3 DEF IdSet
  <1>3. CASE ~(r.max <= SeqMask)
    <2> DEFINE e == r.ts + TsBits - 1 - (r.ts % TsBits)
    <2>1. Ids(r) \subseteq (r.ts .. e) \X (0 .. FieldMax) \X (0 .. SeqMask)
      BY <1>3 DEF Ids
    <2>2. e \in Int
      BY <1>1, ConstantsAssumption
    <2> HIDE DEF e
    <2>3. r.ts .. e \subseteq Nat
      BY <1>1, <2>2
    <2> QED
      BY <2>1, <2>3 DEF IdSet
  <1> QED
    BY <1>2, <1>3

\* A range taken by a thread.
LEMMA TakeType ==
    ASSUME NEW t \in Threads, NEW x \in Nat, NEW a \in 0 .. Wrap - 1, NEW b \in 0 .. Wrap - 1,
           NEW ts \in Nat, NEW q \in 0 .. Wrap - 1,
           TypeOK, Take(t, RangeOf(t, x, a, b), ts, q), UNCHANGED clockVars
    PROVE  TypeOK'
  <1>1. WorkerOf[t] \in Workers /\ Field[WorkerOf[t]] \in 0 .. FieldMax
    BY ConstantsAssumption
  <1>2. RangeOf(t, x, a, b) \in Ranges
    BY <1>1 DEF RangeOf, Ranges
  <1>3. /\ sr' \in [Threads -> Ranges]
        /\ lastTimestamp' \in [Workers -> Nat]
        /\ sequence' \in [Workers -> 0 .. Wrap - 1]
    BY <1>1, <1>2 DEF Take, TypeOK, Ranges
  <1>4. pc' \in [Threads -> Held \cup {"idle", "lock", "done"}]
    BY DEF Take, Goto, TypeOK
  <1> QED
    BY <1>3, <1>4 DEF Take, TypeOK, Ranges, history, clockVars

\* Threads that leave.
LEMMA LeaveType ==
    ASSUME NEW T, TypeOK, Leave(T)
    PROVE  /\ pc' \in [Threads -> Held \cup {"idle", "lock", "done"}]
           /\ step' \in [Threads -> 0 .. SeqMask]
           /\ raw' \in [Threads -> Nat]
           /\ minSeq' \in [Threads -> 0 .. Wrap - 1]
           /\ sr' \in [Threads -> Ranges]
           /\ floor' \in [Threads -> Nat \X (0 .. Wrap - 1)]
  <1>1. /\ 0 \in 0 .. SeqMask /\ 0 \in 0 .. Wrap - 1 /\ 0 \in Nat /\ 0 \in 0 .. FieldMax
    BY ConstantsAssumption
  <1>2. NoRange \in Ranges
    BY <1>1 DEF NoRange, Ranges
  <1>3. sr' \in [Threads -> Ranges]
    BY <1>2 DEF Leave, TypeOK, Ranges
  <1>4. floor' \in [Threads -> Nat \X (0 .. Wrap - 1)]
    BY <1>1 DEF Leave, TypeOK
  <1>5. pc' \in [Threads -> Held \cup {"idle", "lock", "done"}]
    BY DEF Leave, TypeOK
  <1>6. /\ step' \in [Threads -> 0 .. SeqMask]
        /\ raw' \in [Threads -> Nat]
        /\ minSeq' \in [Threads -> 0 .. Wrap - 1]
    BY <1>1 DEF Leave, TypeOK
  <1> QED
    BY <1>3, <1>4, <1>5, <1>6

\* A new millisecond.
LEMMA FreshType ==
    ASSUME NEW t \in Threads, NEW ts \in Nat, TypeOK, Fresh(t, ts), UNCHANGED clockVars
    PROVE  TypeOK'
  <1> DEFINE q == IF step[t] = 0 THEN Wrap - 1 ELSE step[t] - 1
  <1>1. step[t] \in 0 .. SeqMask
    BY DEF TypeOK
  <1>2. q \in 0 .. Wrap - 1 /\ 0 \in 0 .. Wrap - 1
    BY <1>1, ConstantsAssumption
  <1>3. Take(t, RangeOf(t, ts, 0, q), ts, q)
    BY DEF Fresh
  <1> HIDE DEF q
  <1> QED
    BY <1>2, <1>3, TakeType

\* The call goes on with a timestamp.
LEMMA GotTimeType ==
    ASSUME NEW t \in Threads, NEW ts \in Nat, TypeOK, GotTime(t, ts), UNCHANGED clockVars
    PROVE  TypeOK'
  <1> DEFINE w == WorkerOf[t]
             a == Plus(sequence[w], 1)
             q == Plus(sequence[w], step[t])
  <1>1. /\ w \in Workers /\ sequence[w] \in 0 .. Wrap - 1 /\ step[t] \in 0 .. SeqMask
        /\ lastTimestamp[w] \in Nat
    BY ConstantsAssumption DEF TypeOK
  <1>2. a \in 0 .. Wrap - 1 /\ q \in 0 .. Wrap - 1
    <2>1. 1 \in 0 .. Wrap - 1 /\ step[t] \in 0 .. Wrap - 1
      BY <1>1, ConstantsAssumption
    <2> QED
      BY <1>1, <2>1, PlusType
  <1>3. CASE Leave({t}) /\ UNCHANGED <<workerVars, issued, top>>
    <2> QED
      BY <1>3, LeaveType DEF TypeOK, Ranges, clockVars, workerVars
  <1>4. CASE Same(t)
    <2>1. CASE q > SeqMask
      <3>1. /\ sequence' = [sequence EXCEPT ![w] = q]
            /\ minSeq' = [minSeq EXCEPT ![t] = a]
            /\ Goto(t, "spin")
            /\ UNCHANGED <<lastTimestamp, step, raw, sr, history>>
        BY <1>4, <2>1 DEF Same
      <3> HIDE DEF a, q, w
      <3>2. pc' \in [Threads -> Held \cup {"idle", "lock", "done"}]
        BY <3>1 DEF Goto, TypeOK, Held
      <3>3. sequence' \in [Workers -> 0 .. Wrap - 1] /\ minSeq' \in [Threads -> 0 .. Wrap - 1]
        BY <3>1, <1>1, <1>2 DEF TypeOK
      <3> QED
        BY <3>1, <3>2, <3>3 DEF TypeOK, history, clockVars
    <2>2. CASE ~(q > SeqMask)
      <3>1. Take(t, RangeOf(t, lastTimestamp[w], a, q), lastTimestamp[w], q)
        BY <1>4, <2>2 DEF Same
      <3> HIDE DEF a, q, w
      <3> QED
        BY <3>1, <1>1, <1>2, TakeType
    <2> QED
      BY <2>1, <2>2
  <1>5. CASE Fresh(t, ts)
    BY <1>5, FreshType
  <1> QED
    BY <1>3, <1>4, <1>5 DEF GotTime

\* The next millisecond has come.
LEMMA NextMilliType ==
    ASSUME NEW t \in Threads, NEW ts \in Nat, TypeOK, NextMilli(t, ts), UNCHANGED clockVars
    PROVE  TypeOK'
  <1>1. CASE Fresh(t, ts)
    BY <1>1, FreshType
  <1>2. CASE Take(t, RangeOf(t, lastTimestamp[WorkerOf[t]], minSeq[t], SeqMask), ts, 0)
    <2>1. /\ lastTimestamp[WorkerOf[t]] \in Nat /\ minSeq[t] \in 0 .. Wrap - 1
          /\ SeqMask \in 0 .. Wrap - 1 /\ 0 \in 0 .. Wrap - 1
      BY ConstantsAssumption DEF TypeOK
    <2> QED
      BY <1>2, <2>1, TakeType
  <1> QED
    BY <1>1, <1>2 DEF NextMilli

\* Every step keeps the types.
LEMMA TypeStep ==
    ASSUME TypeOK, [Next]_vars
    PROVE  TypeOK'
  <1> DEFINE Labels == Held \cup {"idle", "lock", "done"}
  <1>1. ASSUME NEW t \in Threads, NEW n \in Steps, Call(t, n)
        PROVE  TypeOK'
    <2>1. n \in 0 .. SeqMask
      BY <1>1, ConstantsAssumption DEF Call, Accepts
    <2>2. WorkerOf[t] \in Workers /\ top[WorkerOf[t]] \in Nat \X (0 .. Wrap - 1)
      BY ConstantsAssumption DEF TypeOK
    <2>3. step' \in [Threads -> 0 .. SeqMask] /\ floor' \in [Threads -> Nat \X (0 .. Wrap - 1)]
      BY <1>1, <2>1, <2>2 DEF Call, TypeOK
    <2>4. pc' \in [Threads -> Labels]
      BY <1>1 DEF Call, Goto, TypeOK
    <2> QED
      BY <1>1, <2>3, <2>4 DEF Call, TypeOK, clockVars, workerVars
  <1>2. ASSUME NEW t \in Threads, Lock(t)
        PROVE  TypeOK'
    <2>1. pc' \in [Threads -> Labels]
      BY <1>2 DEF Lock, Goto, TypeOK, Held
    <2> QED
      BY <1>2, <2>1 DEF Lock, TypeOK, clockVars, workerVars, history
  <1>3. ASSUME NEW t \in Threads, NEW l \in {"sec", "spinsec"},
               raw' = [raw EXCEPT ![t] = now], Goto(t, l),
               UNCHANGED <<workerVars, step, minSeq, sr, history>>, UNCHANGED clockVars
        PROVE  TypeOK'
    <2>1. pc' \in [Threads -> Labels]
      BY <1>3 DEF Goto, TypeOK, Held
    <2> QED
      BY <1>3, <2>1 DEF TypeOK, clockVars, workerVars, history
  <1>4. ASSUME NEW t \in Threads, ReadTime(t)
        PROVE  TypeOK'
    <2>1. now \in Nat
      BY DEF TypeOK
    <2> QED
      BY <1>3, <1>4, <2>1, GotTimeType DEF ReadTime
  <1>5. ASSUME NEW t \in Threads, ReadSec(t)
        PROVE  TypeOK'
    <2>1. raw[t] \in Nat
      BY DEF TypeOK
    <2> QED
      BY <1>5, <2>1, FixedCases, GotTimeType DEF ReadSec
  <1>6. ASSUME NEW t \in Threads, Spin(t)
        PROVE  TypeOK'
    <2>1. now \in Nat
      BY DEF TypeOK
    <2> QED
      BY <1>3, <1>6, <2>1, NextMilliType DEF Spin
  <1>7. ASSUME NEW t \in Threads, SpinSec(t)
        PROVE  TypeOK'
    <2>1. raw[t] \in Nat
      BY DEF TypeOK
    <2>2. CASE /\ Goto(t, "spin")
               /\ UNCHANGED <<workerVars, step, raw, minSeq, sr, history>>
               /\ UNCHANGED clockVars
      <3>1. pc' \in [Threads -> Labels]
        BY <2>2 DEF Goto, TypeOK, Held
      <3> QED
        BY <2>2, <3>1 DEF TypeOK, clockVars, workerVars, history
    <2> QED
      BY <1>7, <2>1, <2>2, FixedCases, NextMilliType DEF SpinSec
  <1>8. ASSUME NEW t \in Threads, Return(t)
        PROVE  TypeOK'
    <2> DEFINE w == WorkerOf[t]
    <2>1. sr[t] \in Ranges /\ w \in Workers
      BY ConstantsAssumption DEF TypeOK, Ranges
    <2>2. Last(sr[t]) \in Nat \X (0 .. Wrap - 1)
      BY <2>1 DEF Last, Ranges
    <2>3. top' \in [Workers -> Nat \X (0 .. Wrap - 1)]
      BY <1>8, <2>1, <2>2 DEF Return, TypeOK
    <2>4. issued' \subseteq IdSet
      BY <1>8, <2>1, IdsType DEF Return, TypeOK
    <2>5. Leave({t}) /\ UNCHANGED <<clockVars, workerVars>>
      BY <1>8 DEF Return
    <2> QED
      BY <2>3, <2>4, <2>5, LeaveType DEF TypeOK, Ranges, clockVars, workerVars
  <1>9. ASSUME NEW w \in Workers, Restart(w)
        PROVE  TypeOK'
    <2> DEFINE T == {t \in Threads : WorkerOf[t] = w}
    <2>1. Leave(T) /\ UNCHANGED <<now, backs, issued, top>> /\ crashes' = crashes + 1
      BY <1>9 DEF Restart
    <2>2. /\ dead' \in [Workers -> Nat] /\ lastTimestamp' \in [Workers -> Nat]
          /\ sequence' \in [Workers -> 0 .. Wrap - 1]
      BY <1>9, ConstantsAssumption DEF Restart, TypeOK
    <2> HIDE DEF T
    <2>3. crashes' \in Nat
      BY <2>1 DEF TypeOK
    <2>4. UNCHANGED <<now, backs, issued, top>> /\ Leave(T)
      BY <2>1
    <2> QED
      BY <2>2, <2>3, <2>4, LeaveType DEF TypeOK, Ranges
  <1>10. CASE Tick
    BY <1>10 DEF Tick, TypeOK, workerVars, callVars, history
  <1>11. CASE SetBack
    BY <1>11 DEF SetBack, TypeOK, workerVars, callVars, history
  <1>12. CASE UNCHANGED vars
    BY <1>12 DEF TypeOK, vars, clockVars, workerVars, callVars, history
  <1> QED
    BY <1>1, <1>2, <1>4, <1>5, <1>6, <1>7, <1>8, <1>9, <1>10, <1>11, <1>12 DEF Next

\* So do the initial states.
LEMMA TypeInit == Init => TypeOK
  <1> SUFFICES ASSUME Init PROVE TypeOK
    OBVIOUS
  <1>1. 0 \in 0 .. SeqMask /\ 0 \in 0 .. Wrap - 1 /\ 0 \in Nat /\ 0 \in 0 .. FieldMax
    BY ConstantsAssumption
  <1>2. /\ sr \in [Threads -> [ts : Nat, field : 0 .. FieldMax,
                               min : 0 .. Wrap - 1, max : 0 .. Wrap - 1]]
        /\ pc \in [Threads -> Held \cup {"idle", "lock", "done"}]
        /\ top \in [Workers -> Nat \X (0 .. Wrap - 1)]
        /\ floor \in [Threads -> Nat \X (0 .. Wrap - 1)]
    BY <1>1 DEF Init, NoRange
  <1> QED
    BY <1>1, <1>2 DEF Init, TypeOK

\* The variables keep their types: unsigned counters stay within the width of
\* an unsigned int, and ids handed out are made of a timestamp, a worker id
\* and a counter of their widths, whatever the steps, the clock and the
\* restarts (SnowflakeIdWorker.cpp, getAndIncrement).
THEOREM TypeCorrect == Spec => []TypeOK
  <1>1. Init => TypeOK
    BY TypeInit
  <1>2. TypeOK /\ [Next]_vars => TypeOK'
    BY TypeStep
  <1> QED
    BY <1>1, <1>2, PTL DEF Spec

-----------------------------------------------------------------------------
(* What a step of timeGen or tilNextMillis does, for positive steps and     *)
(* counters within their bits.  The sums cannot wrap then.                  *)

\* timeGen may return ts: the clock, or a noted reading or more.
Read(t, ts) ==
    /\ ts \in Nat
    /\ ts = now \/ (pc[t] \in {"sec", "spinsec"} /\ ts >= raw[t])

\* A reading is noted, or the loop goes round.
Looks(t) ==
    /\ \/ pc[t] = "time" /\ Goto(t, "sec") /\ raw' = [raw EXCEPT ![t] = now]
       \/ pc[t] = "spin" /\ Goto(t, "spinsec") /\ raw' = [raw EXCEPT ![t] = now]
       \/ pc[t] = "spinsec" /\ Goto(t, "spin") /\ raw' = raw
    /\ UNCHANGED <<workerVars, step, minSeq, sr, history>>

\* The clock is behind, and the call throws.
Throws(t) ==
    pc[t] \in {"time", "sec"} /\ Leave({t}) /\ UNCHANGED <<workerVars, issued, top>>

\* A new millisecond ts begins with the range of the call.
Begins(t, ts) ==
    /\ pc[t] \in Held
    /\ ts > lastTimestamp[WorkerOf[t]]
    /\ Take(t, RangeOf(t, ts, 0, step[t] - 1), ts, step[t] - 1)

\* The range goes on in the same millisecond.
Continues(t) ==
    LET w == WorkerOf[t] IN
    /\ pc[t] \in {"time", "sec"}
    /\ sequence[w] + step[t] <= SeqMask
    /\ Take(t, RangeOf(t, lastTimestamp[w], sequence[w] + 1, sequence[w] + step[t]),
            lastTimestamp[w], sequence[w] + step[t])

\* The millisecond does not have that many, and the call waits.
Waits(t, ts) ==
    LET w == WorkerOf[t] IN
    /\ pc[t] \in {"time", "sec"}
    /\ ts = lastTimestamp[w]
    /\ sequence[w] + step[t] > SeqMask
    /\ sequence' = [sequence EXCEPT ![w] = sequence[w] + step[t]]
    /\ minSeq' = [minSeq EXCEPT ![t] = sequence[w] + 1]
    /\ Goto(t, "spin")
    /\ UNCHANGED <<lastTimestamp, step, raw, sr, history>>

\* The call gets what was left, and the next millisecond begins.
GetsRest(t, ts) ==
    LET w == WorkerOf[t] IN
    /\ pc[t] \in Spinning
    /\ ts > lastTimestamp[w]
    /\ minSeq[t] <= SeqMask
    /\ Take(t, RangeOf(t, lastTimestamp[w], minSeq[t], SeqMask), ts, 0)

\* A step of a thread in the mutex.
ClockAction(t) ==
    /\ UNCHANGED clockVars
    /\ \/ Looks(t) \/ Throws(t)
       \/ \E ts : /\ Read(t, ts)
                  /\ \/ Begins(t, ts) \/ Waits(t, ts) \/ GetsRest(t, ts)
                     \/ ts = lastTimestamp[WorkerOf[t]] /\ Continues(t)

\* A thread in the mutex that does not wait finds the counter within its bits.
LEMMA SmallInMutex ==
    ASSUME LInv, NEW t \in Threads, pc[t] \in {"time", "sec"}
    PROVE  sequence[WorkerOf[t]] \in 0 .. SeqMask
  <1>1. WorkerOf[t] \in Workers
    BY ConstantsAssumption
  <1>2. \A u \in Threads : WorkerOf[u] = WorkerOf[t] => pc[u] \notin Spinning
    BY DEF LInv, Mutex, Held, Spinning
  <1>3. sequence[WorkerOf[t]] <= SeqMask
    BY <1>1, <1>2 DEF LInv, Small
  <1>4. sequence[WorkerOf[t]] \in 0 .. Wrap - 1
    BY <1>1 DEF LInv, TypeOK
  <1> QED
    BY <1>3, <1>4, ConstantsAssumption

\* The cases of GotTime.
LEMMA GotTimeCases ==
    ASSUME LInv, NEW t \in Threads, NEW ts \in Nat, pc[t] \in {"time", "sec"},
           GotTime(t, ts)
    PROVE  \/ Throws(t)
           \/ Begins(t, ts) \/ Waits(t, ts)
           \/ ts = lastTimestamp[WorkerOf[t]] /\ Continues(t)
  <1> DEFINE w == WorkerOf[t]
  <1>1. step[t] \in 1 .. SeqMask
    BY ConstantsAssumption DEF LInv, TypeOK, Asked
  <1>2. sequence[w] \in 0 .. SeqMask
    BY SmallInMutex
  <1>3. CASE ts < lastTimestamp[w] /\ Leave({t}) /\ UNCHANGED <<workerVars, issued, top>>
    BY <1>3 DEF Throws
  <1>4. CASE ts > lastTimestamp[w] /\ Fresh(t, ts)
    <2>1. (IF step[t] = 0 THEN Wrap - 1 ELSE step[t] - 1) = step[t] - 1
      BY <1>1
    <2> QED
      BY <1>4, <2>1 DEF Fresh, Begins, Held
  <1>5. CASE ts = lastTimestamp[w] /\ Same(t)
    <2>1. /\ Plus(sequence[w], 1) = sequence[w] + 1
          /\ Plus(sequence[w], step[t]) = sequence[w] + step[t]
      BY <1>1, <1>2, ConstantsAssumption DEF Plus
    <2>2. CASE sequence[w] + step[t] > SeqMask
      BY <1>5, <2>1, <2>2 DEF Same, Waits
    <2>3. CASE ~(sequence[w] + step[t] > SeqMask)
      <3>1. sequence[w] + step[t] <= SeqMask
        BY <1>1, <1>2, <2>3, ConstantsAssumption
      <3> QED
        BY <1>5, <2>1, <2>3, <3>1 DEF Same, Continues
    <2> QED
      BY <2>2, <2>3
  <1> QED
    BY <1>3, <1>4, <1>5 DEF GotTime

\* The cases of NextMilli.
LEMMA NextMilliCases ==
    ASSUME LInv, NEW t \in Threads, NEW ts \in Nat, pc[t] \in Spinning,
           ts > lastTimestamp[WorkerOf[t]], NextMilli(t, ts)
    PROVE  Begins(t, ts) \/ GetsRest(t, ts)
  <1>1. step[t] \in 1 .. SeqMask /\ minSeq[t] \in 0 .. Wrap - 1
    BY ConstantsAssumption DEF LInv, TypeOK, Asked, Spinning
  <1>2. CASE minSeq[t] > SeqMask
    <2>1. (IF step[t] = 0 THEN Wrap - 1 ELSE step[t] - 1) = step[t] - 1
      BY <1>1
    <2> QED
      BY <1>2, <2>1 DEF NextMilli, Fresh, Begins, Held, Spinning
  <1>3. CASE ~(minSeq[t] > SeqMask)
    <2>1. minSeq[t] <= SeqMask
      BY <1>1, <1>3, ConstantsAssumption
    <2> QED
      BY <1>3, <2>1 DEF NextMilli, GetsRest
  <1> QED
    BY <1>2, <1>3

\* The four actions of a thread in the mutex are among these cases.
LEMMA ClockStep ==
    ASSUME LInv, NEW t \in Threads,
           ReadTime(t) \/ ReadSec(t) \/ Spin(t) \/ SpinSec(t)
    PROVE  ClockAction(t)
  <1>1. /\ now \in Nat /\ raw[t] \in Nat /\ lastTimestamp[WorkerOf[t]] \in Nat
    BY ConstantsAssumption DEF LInv, TypeOK
  <1>2. \A ts \in Fixed(raw[t]) : ts \in Nat /\ ts >= raw[t]
    BY <1>1, FixedCases, ConstantsAssumption
  <1>3. CASE ReadTime(t)
    <2>1. CASE now < lastTimestamp[WorkerOf[t]]
      BY <1>3, <2>1 DEF ReadTime, ClockAction, Looks
    <2>2. CASE ~(now < lastTimestamp[WorkerOf[t]])
      <3>1. pc[t] \in {"time", "sec"} /\ GotTime(t, now) /\ Read(t, now) /\ UNCHANGED clockVars
        BY <1>1, <1>3, <2>2 DEF ReadTime, Read
      <3> QED
        BY <1>1, <3>1, GotTimeCases DEF ClockAction
    <2> QED
      BY <2>1, <2>2
  <1>4. CASE ReadSec(t)
    <2>1. PICK ts \in Fixed(raw[t]) : GotTime(t, ts)
      BY <1>4 DEF ReadSec
    <2>2. pc[t] \in {"time", "sec"} /\ Read(t, ts) /\ UNCHANGED clockVars
      BY <1>2, <1>4 DEF ReadSec, Read
    <2> QED
      BY <1>2, <2>1, <2>2, GotTimeCases DEF ClockAction
  <1>5. CASE Spin(t)
    <2>1. CASE now < lastTimestamp[WorkerOf[t]]
      BY <1>5, <2>1 DEF Spin, ClockAction, Looks
    <2>2. CASE ~(now < lastTimestamp[WorkerOf[t]])
      <3>1. /\ pc[t] \in Spinning /\ NextMilli(t, now) /\ Read(t, now) /\ UNCHANGED clockVars
            /\ now > lastTimestamp[WorkerOf[t]]
        BY <1>1, <1>5, <2>2 DEF Spin, Read, Spinning
      <3> QED
        BY <1>1, <3>1, NextMilliCases DEF ClockAction
    <2> QED
      BY <2>1, <2>2
  <1>6. CASE SpinSec(t)
    <2>1. PICK ts \in Fixed(raw[t]) :
             IF ts <= lastTimestamp[WorkerOf[t]]
             THEN /\ Goto(t, "spin")
                  /\ UNCHANGED <<workerVars, step, raw, minSeq, sr, history>>
             ELSE NextMilli(t, ts)
      BY <1>6 DEF SpinSec
    <2>2. pc[t] = "spinsec" /\ pc[t] \in Spinning /\ Read(t, ts) /\ UNCHANGED clockVars
      BY <1>2, <1>6 DEF SpinSec, Read, Spinning
    <2>3. CASE ts <= lastTimestamp[WorkerOf[t]]
      BY <2>1, <2>2, <2>3 DEF ClockAction, Looks
    <2>4. CASE ~(ts <= lastTimestamp[WorkerOf[t]])
      <3>1. ts \in Nat /\ ts > lastTimestamp[WorkerOf[t]] /\ NextMilli(t, ts)
        BY <1>1, <1>2, <2>1, <2>4
      <3> QED
        BY <2>2, <3>1, NextMilliCases DEF ClockAction
    <2> QED
      BY <2>3, <2>4
  <1> QED
    BY <1>3, <1>4, <1>5, <1>6

-----------------------------------------------------------------------------
(* The first layer is an invariant.                                         *)

\* What Take does, thread by thread and worker by worker.
LEMMA Taken ==
    ASSUME TypeOK, NEW t \in Threads, NEW x, NEW a, NEW b, NEW ts, NEW q,
           Take(t, RangeOf(t, x, a, b), ts, q)
    PROVE  /\ pc'[t] = "done"
           /\ sr'[t].ts = x /\ sr'[t].field = Field[WorkerOf[t]]
           /\ sr'[t].min = a /\ sr'[t].max = b
           /\ \A u \in Threads : u # t => pc'[u] = pc[u] /\ sr'[u] = sr[u]
           /\ lastTimestamp'[WorkerOf[t]] = ts
           /\ sequence'[WorkerOf[t]] = q
           /\ \A w \in Workers : w # WorkerOf[t] =>
                 lastTimestamp'[w] = lastTimestamp[w] /\ sequence'[w] = sequence[w]
           /\ UNCHANGED <<step, raw, minSeq, issued, top, floor>>
  <1>1. WorkerOf[t] \in Workers
    BY ConstantsAssumption
  <1>2. sr'[t] = RangeOf(t, x, a, b)
    BY DEF Take, TypeOK
  <1> QED
    BY <1>1, <1>2 DEF Take, Goto, TypeOK, RangeOf, history

\* What Leave does.
LEMMA Left ==
    ASSUME NEW T, Leave(T)
    PROVE  \A u \in Threads :
              IF u \in T
              THEN pc'[u] = "idle" /\ floor'[u] = <<0, 0>>
              ELSE /\ pc'[u] = pc[u] /\ step'[u] = step[u] /\ raw'[u] = raw[u]
                   /\ minSeq'[u] = minSeq[u] /\ sr'[u] = sr[u] /\ floor'[u] = floor[u]
  BY DEF Leave

\* A range within the bits of the counter, and not larger than asked for.
LEMMA LTake ==
    ASSUME LInv, TypeOK', NEW t \in Threads, pc[t] \in Held,
           NEW x, NEW a \in Nat, NEW b \in Nat, NEW ts, NEW q \in 0 .. SeqMask,
           a <= b, b <= SeqMask, b - a < step[t],
           Take(t, RangeOf(t, x, a, b), ts, q)
    PROVE  LInv'
  <1> DEFINE v == WorkerOf[t]
  <1>1. TypeOK
    BY DEF LInv
  <1>2. /\ pc'[t] = "done"
        /\ sr'[t].field = Field[v] /\ sr'[t].min = a /\ sr'[t].max = b
        /\ \A u \in Threads : u # t => pc'[u] = pc[u] /\ sr'[u] = sr[u]
        /\ sequence'[v] = q
        /\ \A w \in Workers : w # v => sequence'[w] = sequence[w]
        /\ step' = step /\ minSeq' = minSeq
    BY <1>1, Taken
  <1>3. \A u \in Threads : pc'[u] \in Held => u # t /\ pc'[u] = pc[u]
    BY <1>2 DEF Held
  <1>4. Mutex'
    BY <1>3 DEF LInv, Mutex
  <1>5. Overflown'
    BY <1>2, <1>3 DEF LInv, Overflown, Held, Spinning
  <1>6. Small'
    <2> SUFFICES ASSUME NEW w \in Workers,
                        \A u \in Threads : WorkerOf[u] = w => pc'[u] \notin Spinning
                 PROVE  sequence'[w] <= SeqMask
      BY DEF Small
    <2>1. CASE w = v
      BY <1>2, <2>1, ConstantsAssumption
    <2>2. CASE w # v
      <3>1. \A u \in Threads : WorkerOf[u] = w => pc[u] \notin Spinning
        BY <1>2, <2>2
      <3> QED
        BY <1>2, <2>2, <3>1 DEF LInv, Small
    <2> QED
      BY <2>1, <2>2
  <1>7. Asked'
    BY <1>2 DEF LInv, Asked, Held
  <1>8. Tagged'
    BY <1>2 DEF LInv, Tagged
  <1>9. RangeFits'
    BY <1>2 DEF LInv, RangeFits
  <1> QED
    BY <1>4, <1>5, <1>6, <1>7, <1>8, <1>9 DEF LInv

\* Threads leave; a waiting one only with the counter reset.
LEMMA LLeave ==
    ASSUME LInv, TypeOK', NEW T, Leave(T),
           \A w \in Workers :
              \/ sequence'[w] = 0
              \/ /\ sequence'[w] = sequence[w]
                 /\ \A u \in T : WorkerOf[u] = w => pc[u] \notin Spinning
    PROVE  LInv'
  <1>1. \A u \in Threads :
           IF u \in T
           THEN pc'[u] = "idle"
           ELSE pc'[u] = pc[u] /\ step'[u] = step[u] /\ minSeq'[u] = minSeq[u] /\ sr'[u] = sr[u]
    BY Left
  <1>2. \A u \in Threads : pc'[u] # "idle" =>
           pc'[u] = pc[u] /\ step'[u] = step[u] /\ minSeq'[u] = minSeq[u] /\ sr'[u] = sr[u]
    BY <1>1
  <1>3. Mutex'
    BY <1>2 DEF LInv, Mutex, Held
  <1>4. Overflown'
    BY <1>2 DEF LInv, Overflown, Spinning
  <1>5. Small'
    <2> SUFFICES ASSUME NEW w \in Workers,
                        \A u \in Threads : WorkerOf[u] = w => pc'[u] \notin Spinning
                 PROVE  sequence'[w] <= SeqMask
      BY DEF Small
    <2>1. CASE sequence'[w] = 0
      BY <2>1, ConstantsAssumption
    <2>2. CASE /\ sequence'[w] = sequence[w]
               /\ \A u \in T : WorkerOf[u] = w => pc[u] \notin Spinning
      <3>1. \A u \in Threads : WorkerOf[u] = w => pc[u] \notin Spinning
        BY <1>1, <2>2
      <3> QED
        BY <2>2, <3>1 DEF LInv, Small
    <2> QED
      BY <2>1, <2>2
  <1>6. Asked'
    BY <1>2 DEF LInv, Asked
  <1>7. Tagged'
    BY <1>2 DEF LInv, Tagged
  <1>8. RangeFits'
    BY <1>2 DEF LInv, RangeFits
  <1> QED
    BY <1>3, <1>4, <1>5, <1>6, <1>7, <1>8 DEF LInv

\* A thread goes on without touching the counters: to the mutex, into it, and
\* within it.
LEMMA LMove ==
    ASSUME LInv, TypeOK', NEW t \in Threads, NEW l, Goto(t, l),
           l \notin {"idle", "done"}, pc[t] \in Spinning <=> l \in Spinning,
           l \in Held => pc[t] \in Held
              \/ \A u \in Threads : WorkerOf[u] = WorkerOf[t] => pc[u] \notin Held,
           UNCHANGED <<sequence, minSeq, sr>>,
           step'[t] >= 1, \A u \in Threads : u # t => step'[u] = step[u],
           pc[t] \in Spinning => step'[t] = step[t]
    PROVE  LInv'
  <1>1. pc'[t] = l /\ \A u \in Threads : u # t => pc'[u] = pc[u]
    BY DEF Goto, LInv, TypeOK
  <1>2. Mutex'
    BY <1>1 DEF LInv, Mutex
  <1>3. Overflown'
    BY <1>1 DEF LInv, Overflown
  <1>4. Small'
    <2>1. \A u \in Threads : pc'[u] \in Spinning <=> pc[u] \in Spinning
      BY <1>1
    <2> QED
      BY <2>1 DEF LInv, Small
  <1>5. Asked'
    BY <1>1 DEF LInv, Asked
  <1>6. Tagged'
    BY <1>1 DEF LInv, Tagged
  <1>7. RangeFits'
    BY <1>1 DEF LInv, RangeFits
  <1> QED
    BY <1>2, <1>3, <1>4, <1>5, <1>6, <1>7 DEF LInv

\* A thread begins to wait.
LEMMA LWaits ==
    ASSUME LInv, TypeOK', NEW t \in Threads, NEW ts, Waits(t, ts)
    PROVE  LInv'
  <1> DEFINE v == WorkerOf[t]
  <1>1. /\ sequence[v] \in 0 .. SeqMask /\ v \in Workers /\ step[t] \in Nat
    BY SmallInMutex, ConstantsAssumption DEF Waits, LInv, TypeOK
  <1>2. /\ pc'[t] = "spin" /\ \A u \in Threads : u # t => pc'[u] = pc[u]
        /\ minSeq'[t] = sequence[v] + 1
        /\ \A u \in Threads : u # t => minSeq'[u] = minSeq[u]
        /\ \A w \in Workers : w # v => sequence'[w] = sequence[w]
        /\ step' = step /\ sr' = sr
        /\ sequence[v] + step[t] > SeqMask
        /\ pc[t] \in {"time", "sec"}
    BY DEF Waits, Goto, LInv, TypeOK
  <1>3. Mutex'
    BY <1>2 DEF LInv, Mutex, Held
  <1>4. Overflown'
    <2>1. minSeq'[t] >= 1 /\ minSeq'[t] <= SeqMask + 1 /\ minSeq'[t] + step'[t] > SeqMask + 1
      BY <1>1, <1>2, ConstantsAssumption
    <2> QED
      BY <1>2, <2>1 DEF LInv, Overflown, Spinning
  <1>5. Small'
    <2> SUFFICES ASSUME NEW w \in Workers,
                        \A u \in Threads : WorkerOf[u] = w => pc'[u] \notin Spinning
                 PROVE  sequence'[w] <= SeqMask
      BY DEF Small
    <2>1. w # v
      BY <1>2 DEF Spinning
    <2>2. \A u \in Threads : WorkerOf[u] = w => pc[u] \notin Spinning
      BY <1>2, <2>1
    <2> QED
      BY <1>2, <2>1, <2>2 DEF LInv, Small
  <1>6. Asked'
    BY <1>2 DEF LInv, Asked
  <1>7. Tagged'
    BY <1>2 DEF LInv, Tagged
  <1>8. RangeFits'
    BY <1>2 DEF LInv, RangeFits
  <1> QED
    BY <1>3, <1>4, <1>5, <1>6, <1>7, <1>8 DEF LInv

\* The clock moves: nothing the layer speaks of changes.
LEMMA LKept ==
    ASSUME LInv, TypeOK', UNCHANGED <<sequence, pc, step, minSeq, sr>>
    PROVE  LInv'
  BY DEF LInv, Mutex, Overflown, Small, Asked, Tagged, RangeFits

\* A step of a thread in the mutex.
LEMMA LClock ==
    ASSUME LInv, TypeOK', NEW t \in Threads, ClockAction(t)
    PROVE  LInv'
  <1> DEFINE v == WorkerOf[t]
  <1>1. v \in Workers /\ step[t] \in 0 .. SeqMask /\ minSeq[t] \in Nat /\ SeqMask \in Nat
    BY ConstantsAssumption DEF LInv, TypeOK
  <1>2. pc[t] \in Held => step[t] >= 1
    BY DEF LInv, Asked, Held
  <1>3. CASE Looks(t)
    <2>1. UNCHANGED <<sequence, minSeq, sr>> /\ step' = step
      BY <1>3 DEF Looks, workerVars
    <2>2. pc[t] \in Held
      BY <1>3 DEF Looks, Held
    <2>3. PICK l : Goto(t, l) /\ l \in Held /\ (pc[t] \in Spinning <=> l \in Spinning)
      BY <1>3 DEF Looks, Held, Spinning
    <2>4. l \notin {"idle", "done"}
      BY <2>3 DEF Held
    <2>5. step'[t] >= 1
      BY <1>2, <2>1, <2>2
    <2> QED
      BY <2>1, <2>2, <2>3, <2>4, <2>5, LMove
  <1>4. CASE Throws(t)
    <2>1. Leave({t}) /\ sequence' = sequence /\ pc[t] \notin Spinning
      BY <1>4 DEF Throws, workerVars, Spinning
    <2> QED
      BY <2>1, LLeave
  <1>5. ASSUME NEW ts, Begins(t, ts)
        PROVE  LInv'
    <2>1. /\ 0 \in Nat /\ step[t] - 1 \in Nat /\ step[t] - 1 \in 0 .. SeqMask
          /\ 0 <= step[t] - 1 /\ step[t] - 1 <= SeqMask /\ (step[t] - 1) - 0 < step[t]
      BY <1>1, <1>2, <1>5 DEF Begins
    <2> QED
      BY <1>5, <2>1, LTake DEF Begins
  <1>6. CASE Continues(t)
    <2> DEFINE s == sequence[v]
    <2>1. s \in 0 .. SeqMask
      BY <1>6, SmallInMutex DEF Continues
    <2>2. pc[t] \in Held /\ s + step[t] <= SeqMask
          /\ Take(t, RangeOf(t, lastTimestamp[v], s + 1, s + step[t]), lastTimestamp[v], s + step[t])
      BY <1>6 DEF Continues, Held
    <2> HIDE DEF s
    <2>3. /\ s + 1 \in Nat /\ s + step[t] \in Nat /\ s + step[t] \in 0 .. SeqMask
          /\ s + 1 <= s + step[t] /\ (s + step[t]) - (s + 1) < step[t]
      BY <1>1, <1>2, <2>1, <2>2
    <2> QED
      BY <2>2, <2>3, LTake
  <1>7. ASSUME NEW ts, GetsRest(t, ts)
        PROVE  LInv'
    <2>1. minSeq[t] <= SeqMask /\ minSeq[t] + step[t] > SeqMask + 1 /\ pc[t] \in Held
      BY <1>7 DEF GetsRest, LInv, Overflown, Held, Spinning
    <2>2. /\ SeqMask <= SeqMask /\ SeqMask - minSeq[t] < step[t] /\ 0 \in 0 .. SeqMask
      BY <1>1, <2>1
    <2>3. Take(t, RangeOf(t, lastTimestamp[v], minSeq[t], SeqMask), ts, 0)
      BY <1>7 DEF GetsRest
    <2> QED
      BY <1>1, <2>1, <2>2, <2>3, LTake
  <1> QED
    BY <1>3, <1>4, <1>5, <1>6, <1>7, LWaits DEF ClockAction

\* Every step keeps the first layer.
LEMMA LStep ==
    ASSUME PositiveSteps, LInv, [Next]_vars
    PROVE  LInv'
  <1>1. TypeOK /\ TypeOK'
    BY TypeStep DEF LInv
  <1>2. ASSUME NEW t \in Threads, NEW n \in Steps, Call(t, n)
        PROVE  LInv'
    <2>1. n >= 1
      BY ConstantsAssumption DEF PositiveSteps
    <2>2. step'[t] = n /\ \A u \in Threads : u # t => step'[u] = step[u]
      BY <1>1, <1>2 DEF Call, TypeOK
    <2>3. /\ Goto(t, "lock") /\ UNCHANGED <<sequence, minSeq, sr>> /\ pc[t] \notin Spinning
          /\ "lock" \notin Spinning /\ "lock" \notin Held /\ "lock" \notin {"idle", "done"}
      BY <1>2 DEF Call, workerVars, Spinning, Held
    <2>4. step'[t] >= 1
      BY <2>1, <2>2
    <2> QED
      BY <1>1, <2>2, <2>3, <2>4, LMove
  <1>3. ASSUME NEW t \in Threads, Lock(t)
        PROVE  LInv'
    <2>1. /\ Goto(t, "time") /\ UNCHANGED <<sequence, minSeq, sr>> /\ pc[t] \notin Spinning
          /\ "time" \notin Spinning /\ "time" \notin {"idle", "done"} /\ step' = step
          /\ \A u \in Threads : WorkerOf[u] = WorkerOf[t] => pc[u] \notin Held
      BY <1>3 DEF Lock, workerVars, Spinning, Held
    <2>2. step'[t] >= 1
      BY <1>3, <2>1 DEF Lock, LInv, Asked
    <2> QED
      BY <1>1, <2>1, <2>2, LMove
  <1>4. ASSUME NEW t \in Threads, Return(t)
        PROVE  LInv'
    <2>1. Leave({t}) /\ sequence' = sequence /\ pc[t] \notin Spinning
      BY <1>4 DEF Return, workerVars, Spinning
    <2> QED
      BY <1>1, <2>1, LLeave
  <1>5. ASSUME NEW w \in Workers, Restart(w)
        PROVE  LInv'
    <2> DEFINE T == {t \in Threads : WorkerOf[t] = w}
    <2>1. /\ Leave(T) /\ sequence'[w] = 0
          /\ \A x \in Workers : x # w => sequence'[x] = sequence[x]
      BY <1>1, <1>5 DEF Restart, TypeOK
    <2>2. \A u \in T : WorkerOf[u] = w
      OBVIOUS
    <2> HIDE DEF T
    <2> QED
      BY <1>1, <2>1, <2>2, LLeave
  <1>6. CASE Tick \/ SetBack \/ UNCHANGED vars
    <2>1. UNCHANGED <<sequence, pc, step, minSeq, sr>>
      BY <1>6 DEF Tick, SetBack, vars, workerVars, callVars
    <2> QED
      BY <1>1, <2>1, LKept
  <1> QED
    BY <1>1, <1>2, <1>3, <1>4, <1>5, <1>6, ClockStep, LClock DEF Next

\* So do the initial states.
LEMMA LStart == Init => LInv
  <1> SUFFICES ASSUME Init PROVE LInv
    OBVIOUS
  <1>1. TypeOK
    BY TypeInit
  <1>2. \A t \in Threads : pc[t] = "idle"
    BY DEF Init
  <1>3. \A w \in Workers : sequence[w] = 0 /\ 0 <= SeqMask
    BY ConstantsAssumption DEF Init
  <1> QED
    BY <1>1, <1>2, <1>3 DEF LInv, Mutex, Overflown, Small, Asked, Tagged, RangeFits, Held, Spinning

\* If no client asks for an empty range, a call gets at least one id and no
\* more than it asked for, of one millisecond and within the twelve bits of
\* the counter: neither the unsigned sums of getAndIncrement nor the rest of
\* an old millisecond leave them, for any width of the counter and however
\* the threads and the clock behave.
THEOREM Fits ==
    ASSUME PositiveSteps
    PROVE  Spec => []RangeFits
  <1>1. Init => LInv
    BY LStart
  <1>2. LInv /\ [Next]_vars => LInv'
    BY LStep
  <1>3. LInv => RangeFits
    BY DEF LInv
  <1> QED
    BY <1>1, <1>2, <1>3, PTL DEF Spec

-----------------------------------------------------------------------------
(* The second layer is an invariant.                                        *)

\* A thread gets its range.
Takes(t) ==
    \E ts : /\ Read(t, ts)
            /\ \/ Begins(t, ts) \/ GetsRest(t, ts)
               \/ ts = lastTimestamp[WorkerOf[t]] /\ Continues(t)

\* A waiting thread was waiting already, with the same first counter.
NoneWaits ==
    \A u \in Threads : pc'[u] \in Spinning => pc[u] \in Spinning /\ minSeq'[u] = minSeq[u]

\* A worker stays past what it is past, when nothing of it changes,
LEMMA PastSame ==
    ASSUME NEW w, NEW x, NEW q,
           dead'[w] = dead[w], lastTimestamp'[w] = lastTimestamp[w], sequence'[w] = sequence[w],
           \A u \in Threads : WorkerOf[u] = w /\ pc'[u] \in Spinning =>
              pc[u] \in Spinning /\ minSeq'[u] = minSeq[u],
           Past(w, x, q)
    PROVE  Past(w, x, q)'
  BY DEF Past

\* when a thread in the mutex goes on,
LEMMA PastClock ==
    ASSUME LInv, NEW t \in Threads, ClockAction(t),
           NEW w \in Workers, NEW x \in Nat, NEW q \in Nat, Past(w, x, q)
    PROVE  Past(w, x, q)'
  <1> DEFINE v == WorkerOf[t]
  <1>1. /\ v \in Workers /\ step[t] \in Nat /\ lastTimestamp[v] \in Nat /\ sequence[v] \in Nat
        /\ dead[v] \in Nat
    BY ConstantsAssumption DEF LInv, TypeOK
  <1>2. dead' = dead /\ TypeOK
    BY DEF ClockAction, clockVars, LInv
  <1>3. CASE Looks(t)
    <2>1. NoneWaits
      BY <1>2, <1>3 DEF Looks, Goto, TypeOK, Spinning, NoneWaits
    <2>2. UNCHANGED <<lastTimestamp, sequence>>
      BY <1>3 DEF Looks, workerVars
    <2> QED
      BY <1>2, <2>1, <2>2, PastSame DEF NoneWaits
  <1>4. CASE Throws(t)
    <2>1. Leave({t}) /\ UNCHANGED <<lastTimestamp, sequence>>
      BY <1>4 DEF Throws, workerVars
    <2>2. NoneWaits
      BY <2>1, Left DEF NoneWaits, Spinning
    <2> QED
      BY <1>2, <2>1, <2>2, PastSame DEF NoneWaits
  <1>5. ASSUME NEW ts \in Nat, ts > lastTimestamp[v], NEW r, NEW a, NEW b, NEW s,
               Take(t, RangeOf(t, r, a, b), ts, s)
        PROVE  Past(w, x, q)'
    <2>1. /\ \A u \in Threads : u # t => pc'[u] = pc[u]
          /\ pc'[t] = "done" /\ minSeq' = minSeq
          /\ lastTimestamp'[v] = ts
          /\ w # v => lastTimestamp'[w] = lastTimestamp[w] /\ sequence'[w] = sequence[w]
      BY <1>2, <1>5, Taken
    <2>2. CASE w = v
      <3>1. x <= dead[v] \/ x <= lastTimestamp[v]
        BY <1>1, <2>2 DEF Past
      <3>2. x <= dead'[v] \/ x < lastTimestamp'[v]
        BY <1>1, <1>2, <1>5, <2>1, <3>1
      <3> QED
        BY <2>2, <3>2 DEF Past
    <2>3. CASE w # v
      <3>1. NoneWaits
        BY <2>1 DEF NoneWaits, Spinning
      <3> QED
        BY <1>2, <2>1, <2>3, <3>1, PastSame DEF NoneWaits
    <2> QED
      BY <2>2, <2>3
  <1>6. CASE Continues(t)
    <2>1. Take(t, RangeOf(t, lastTimestamp[v], sequence[v] + 1, sequence[v] + step[t]),
               lastTimestamp[v], sequence[v] + step[t])
      BY <1>6 DEF Continues
    <2>2. /\ \A u \in Threads : u # t => pc'[u] = pc[u]
          /\ pc'[t] = "done" /\ minSeq' = minSeq
          /\ lastTimestamp'[v] = lastTimestamp[v] /\ sequence'[v] = sequence[v] + step[t]
          /\ w # v => lastTimestamp'[w] = lastTimestamp[w] /\ sequence'[w] = sequence[w]
      BY <1>2, <2>1, Taken
    <2>3. NoneWaits
      BY <2>2 DEF NoneWaits, Spinning
    <2>4. CASE w = v
      <3>1. q <= sequence[v] => q <= sequence'[v]
        BY <1>1, <2>2
      <3> QED
        BY <1>2, <2>2, <2>3, <2>4, <3>1 DEF Past, NoneWaits
    <2>5. CASE w # v
      BY <1>2, <2>2, <2>3, <2>5, PastSame DEF NoneWaits
    <2> QED
      BY <2>4, <2>5
  <1>7. ASSUME NEW ts, Waits(t, ts)
        PROVE  Past(w, x, q)'
    <2>1. /\ \A u \in Threads : u # t => pc'[u] = pc[u] /\ minSeq'[u] = minSeq[u]
          /\ minSeq'[t] = sequence[v] + 1
          /\ lastTimestamp' = lastTimestamp /\ sequence'[v] = sequence[v] + step[t]
          /\ w # v => sequence'[w] = sequence[w]
          /\ pc[t] \in Held
      BY <1>1, <1>2, <1>7 DEF Waits, Goto, TypeOK, Held
    <2>2. CASE w = v
      <3>1. \A u \in Threads : u # t /\ WorkerOf[u] = v => pc'[u] \notin Spinning
        BY <2>1 DEF LInv, Mutex, Held, Spinning
      <3>2. q <= sequence[v] => q <= sequence'[v] /\ q < minSeq'[t]
        BY <1>1, <2>1
      <3> QED
        BY <1>2, <2>1, <2>2, <3>1, <3>2 DEF Past
    <2>3. CASE w # v
      <3>1. \A u \in Threads : WorkerOf[u] = w /\ pc'[u] \in Spinning =>
               pc[u] \in Spinning /\ minSeq'[u] = minSeq[u]
        BY <2>1, <2>3
      <3> QED
        BY <1>2, <2>1, <2>3, <3>1, PastSame
    <2> QED
      BY <2>2, <2>3
  <1> QED
    BY <1>3, <1>4, <1>5, <1>6, <1>7 DEF ClockAction, Read, Begins, GetsRest

\* and in every other step: a restarted worker is past all its process gave.
LEMMA PastStep ==
    ASSUME LInv, [Next]_vars, NEW w \in Workers, NEW x \in Nat, NEW q \in Nat, Past(w, x, q)
    PROVE  Past(w, x, q)'
  <1>1. TypeOK
    BY DEF LInv
  <1>2. ASSUME UNCHANGED <<dead, lastTimestamp, sequence>>, NoneWaits
        PROVE  Past(w, x, q)'
    BY <1>2, PastSame DEF NoneWaits
  <1>3. ASSUME NEW t \in Threads, NEW n \in Steps, Call(t, n)
        PROVE  Past(w, x, q)'
    <2>1. NoneWaits
      BY <1>1, <1>3 DEF Call, Goto, TypeOK, NoneWaits, Spinning
    <2> QED
      BY <1>2, <1>3, <2>1 DEF Call, clockVars, workerVars
  <1>4. ASSUME NEW t \in Threads, Lock(t)
        PROVE  Past(w, x, q)'
    <2>1. NoneWaits
      BY <1>1, <1>4 DEF Lock, Goto, TypeOK, NoneWaits, Spinning
    <2> QED
      BY <1>2, <1>4, <2>1 DEF Lock, clockVars, workerVars
  <1>5. ASSUME NEW t \in Threads, Return(t)
        PROVE  Past(w, x, q)'
    <2>1. Leave({t}) /\ UNCHANGED <<dead, lastTimestamp, sequence>>
      BY <1>5 DEF Return, clockVars, workerVars
    <2>2. NoneWaits
      BY <2>1, Left DEF NoneWaits, Spinning
    <2> QED
      BY <1>2, <2>1, <2>2
  <1>6. ASSUME NEW v \in Workers, Restart(v)
        PROVE  Past(w, x, q)'
    <2> DEFINE T == {t \in Threads : WorkerOf[t] = v}
    <2>1. /\ Leave(T)
          /\ dead'[v] = (IF lastTimestamp[v] > dead[v] THEN lastTimestamp[v] ELSE dead[v])
          /\ w # v => dead'[w] = dead[w] /\ lastTimestamp'[w] = lastTimestamp[w]
                      /\ sequence'[w] = sequence[w]
          /\ dead[v] \in Nat /\ lastTimestamp[v] \in Nat
      BY <1>1, <1>6 DEF Restart, TypeOK
    <2>2. CASE w = v
      <3>1. x <= dead[v] \/ x <= lastTimestamp[v]
        BY <2>1, <2>2 DEF Past
      <3>2. x <= dead'[v]
        BY <2>1, <3>1
      <3> QED
        BY <2>2, <3>2 DEF Past
    <2>3. CASE w # v
      <3> HIDE DEF T
      <3>1. NoneWaits
        BY <2>1, Left DEF NoneWaits, Spinning
      <3> QED
        BY <2>1, <2>3, <3>1, PastSame DEF NoneWaits
    <2> QED
      BY <2>2, <2>3
  <1>7. CASE Tick \/ SetBack \/ UNCHANGED vars
    <2>1. UNCHANGED <<dead, lastTimestamp, sequence>> /\ NoneWaits
      BY <1>7 DEF Tick, SetBack, vars, clockVars, workerVars, callVars, NoneWaits
    <2> QED
      BY <1>2, <2>1
  <1> QED
    BY <1>3, <1>4, <1>5, <1>6, <1>7, ClockStep, PastClock DEF Next

\* A timestamp from timeGen is later than the dead processes of the worker.
LEMMA ReadLater ==
    ASSUME LInv, Later, NEW t \in Threads, NEW ts, Read(t, ts)
    PROVE  ts \in Nat /\ dead[WorkerOf[t]] < ts
  <1>1. /\ WorkerOf[t] \in Workers /\ dead[WorkerOf[t]] \in Nat
        /\ now \in Nat /\ raw[t] \in Nat
    BY ConstantsAssumption DEF LInv, TypeOK
  <1>2. ts \in Nat /\ (ts = now \/ (pc[t] \in {"sec", "spinsec"} /\ ts >= raw[t]))
    BY DEF Read
  <1>3. /\ dead[WorkerOf[t]] < now
        /\ pc[t] \in {"sec", "spinsec"} => dead[WorkerOf[t]] < raw[t]
    BY <1>1 DEF Later
  <1> QED
    BY <1>1, <1>2, <1>3

\* A new range is above all its worker is past, which then is past the range.
LEMMA NewRange ==
    ASSUME LInv, Later, NEW t \in Threads, Takes(t), UNCHANGED clockVars
    PROVE  /\ \A x, q \in Nat : Past(WorkerOf[t], x, q) =>
                 x < sr'[t].ts \/ (x = sr'[t].ts /\ q < sr'[t].min)
           /\ \/ sr'[t].ts < lastTimestamp'[WorkerOf[t]]
              \/ /\ sr'[t].ts = lastTimestamp'[WorkerOf[t]]
                 /\ sr'[t].max <= sequence'[WorkerOf[t]]
           /\ \A u \in Threads : WorkerOf[u] = WorkerOf[t] => pc'[u] \notin Held
           /\ pc'[t] = "done" /\ \A u \in Threads : u # t => pc'[u] = pc[u] /\ sr'[u] = sr[u]
           /\ UNCHANGED <<issued, top, floor, raw>>
           /\ \A w \in Workers : w # WorkerOf[t] => lastTimestamp'[w] = lastTimestamp[w]
           /\ pc[t] # "done"
  <1> DEFINE v == WorkerOf[t]
  <1>1. /\ v \in Workers /\ dead[v] \in Nat /\ lastTimestamp[v] \in Nat /\ sequence[v] \in Nat
        /\ step[t] \in Nat /\ minSeq[t] \in Nat /\ SeqMask \in Nat
        /\ TypeOK
    BY ConstantsAssumption DEF LInv, TypeOK
  <1>2. PICK ts : /\ Read(t, ts)
                  /\ \/ Begins(t, ts) \/ GetsRest(t, ts)
                     \/ ts = lastTimestamp[v] /\ Continues(t)
    BY DEF Takes
  <1>3. ts \in Nat /\ dead[v] < ts
    BY <1>2, ReadLater
  <1>4. pc[t] \in Held
    BY <1>2 DEF Begins, GetsRest, Continues, Held, Spinning
  <1>5. PICK r, a, b, l, s : Take(t, RangeOf(t, r, a, b), l, s)
    BY <1>2 DEF Begins, GetsRest, Continues
  <1>6. /\ pc'[t] = "done" /\ \A u \in Threads : u # t => pc'[u] = pc[u] /\ sr'[u] = sr[u]
        /\ UNCHANGED <<issued, top, floor, raw>>
        /\ \A w \in Workers : w # v => lastTimestamp'[w] = lastTimestamp[w]
    BY <1>1, <1>5, Taken
  <1>7. \A u \in Threads : WorkerOf[u] = v => pc'[u] \notin Held
    BY <1>4, <1>6 DEF LInv, Mutex, Held
  <1>8. \A x, q \in Nat : Past(v, x, q) =>
           /\ x <= dead[v] \/ x <= lastTimestamp[v]
           /\ x <= dead[v] \/ x < lastTimestamp[v]
              \/ (q <= sequence[v] /\ (pc[t] \in Spinning => q < minSeq[t]))
    BY <1>1 DEF Past
  <1>9. CASE Begins(t, ts)
    <2>1. /\ ts > lastTimestamp[v]
          /\ Take(t, RangeOf(t, ts, 0, step[t] - 1), ts, step[t] - 1)
      BY <1>9 DEF Begins
    <2>2. /\ sr'[t].ts = ts /\ sr'[t].max = step[t] - 1
          /\ lastTimestamp'[v] = ts /\ sequence'[v] = step[t] - 1
      BY <1>1, <2>1, Taken
    <2>3. \A x, q \in Nat : Past(v, x, q) => x < ts
      BY <1>1, <1>3, <1>8, <2>1
    <2> QED
      BY <1>1, <1>4, <1>6, <1>7, <2>2, <2>3 DEF Held
  <1>10. CASE GetsRest(t, ts)
    <2>1. /\ ts > lastTimestamp[v] /\ pc[t] \in Spinning
          /\ Take(t, RangeOf(t, lastTimestamp[v], minSeq[t], SeqMask), ts, 0)
      BY <1>10 DEF GetsRest
    <2>2. /\ sr'[t].ts = lastTimestamp[v] /\ sr'[t].min = minSeq[t]
          /\ lastTimestamp'[v] = ts
      BY <1>1, <2>1, Taken
    <2>3. dead[v] < lastTimestamp[v]
      BY <2>1 DEF Later
    <2>4. \A x, q \in Nat : Past(v, x, q) =>
             x < lastTimestamp[v] \/ (x = lastTimestamp[v] /\ q < minSeq[t])
      BY <1>1, <1>8, <2>1, <2>3
    <2> QED
      BY <1>1, <1>3, <1>4, <1>6, <1>7, <2>1, <2>2, <2>4 DEF Held
  <1>11. CASE ts = lastTimestamp[v] /\ Continues(t)
    <2>1. Take(t, RangeOf(t, lastTimestamp[v], sequence[v] + 1, sequence[v] + step[t]),
               lastTimestamp[v], sequence[v] + step[t])
      BY <1>11 DEF Continues
    <2>2. /\ sr'[t].ts = lastTimestamp[v] /\ sr'[t].min = sequence[v] + 1
          /\ sr'[t].max = sequence[v] + step[t]
          /\ lastTimestamp'[v] = lastTimestamp[v] /\ sequence'[v] = sequence[v] + step[t]
      BY <1>1, <2>1, Taken
    <2>3. \A x, q \in Nat : Past(v, x, q) =>
             x < lastTimestamp[v] \/ (x = lastTimestamp[v] /\ q < sequence[v] + 1)
      BY <1>1, <1>3, <1>8, <1>11
    <2> QED
      BY <1>1, <1>4, <1>6, <1>7, <2>2, <2>3 DEF Held
  <1> QED
    BY <1>2, <1>9, <1>10, <1>11

\* A step in which no thread gets a range.
Keeps ==
    /\ \A u \in Threads : pc'[u] = "done" =>
          pc[u] = "done" /\ sr'[u] = sr[u] /\ floor'[u] = floor[u]
    /\ \A u \in Threads : pc'[u] # "done" =>
          \/ floor'[u] = <<0, 0>>
          \/ floor'[u] = top[WorkerOf[u]]
          \/ pc[u] # "done" /\ floor'[u] = floor[u]
    /\ \A w \in Workers :
          \/ top'[w] = top[w]
          \/ \E t \in Threads : WorkerOf[t] = w /\ pc[t] = "done" /\ top'[w] = Last(sr[t])

\* There are these two kinds of steps.
LEMMA StepKinds ==
    ASSUME LInv, [Next]_vars
    PROVE  \/ \E t \in Threads : Takes(t) /\ UNCHANGED clockVars
           \/ Keeps /\ (UNCHANGED issued \/ \E t \in Threads : Return(t))
  <1> DEFINE Kinds == \/ \E t \in Threads : Takes(t) /\ UNCHANGED clockVars
                      \/ Keeps /\ (UNCHANGED issued \/ \E t \in Threads : Return(t))
  <1>1. TypeOK
    BY DEF LInv
  <1>2. ASSUME NEW t \in Threads, NEW n \in Steps, Call(t, n)
        PROVE  Keeps /\ UNCHANGED issued
    <2>1. /\ \A u \in Threads : u # t => pc'[u] = pc[u] /\ floor'[u] = floor[u]
          /\ pc'[t] = "lock" /\ floor'[t] = top[WorkerOf[t]]
          /\ UNCHANGED <<sr, top, issued>>
      BY <1>1, <1>2 DEF Call, Goto, TypeOK
    <2> QED
      BY <2>1 DEF Keeps
  <1>3. ASSUME NEW t \in Threads, NEW l, Goto(t, l), l # "done", pc[t] # "done",
               UNCHANGED <<sr, history>>
        PROVE  Keeps /\ UNCHANGED issued
    BY <1>1, <1>3 DEF Goto, TypeOK, Keeps, history
  <1>4. ASSUME NEW T, Leave(T), UNCHANGED top
        PROVE  Keeps
    BY <1>4, Left DEF Keeps
  <1>5. ASSUME NEW t \in Threads, Lock(t)
        PROVE  Kinds
    BY <1>3, <1>5 DEF Lock
  <1>6. ASSUME NEW t \in Threads, ClockAction(t)
        PROVE  Kinds
    <2>1. CASE Looks(t)
      BY <1>3, <2>1 DEF Looks
    <2>2. CASE Throws(t)
      BY <1>4, <2>2 DEF Throws
    <2>3. ASSUME NEW ts, Waits(t, ts)
          PROVE  Kinds
      BY <1>3, <2>3 DEF Waits
    <2> QED
      BY <1>6, <2>1, <2>2, <2>3 DEF ClockAction, Takes
  <1>7. ASSUME NEW t \in Threads, Return(t)
        PROVE  Keeps
    <2>1. /\ Leave({t}) /\ pc[t] = "done" /\ WorkerOf[t] \in Workers
          /\ top' = [top EXCEPT ![WorkerOf[t]] =
                        IF Below(@, Last(sr[t])) THEN Last(sr[t]) ELSE @]
      BY <1>7, ConstantsAssumption DEF Return
    <2>2. /\ \A w \in Workers : w # WorkerOf[t] => top'[w] = top[w]
          /\ top'[WorkerOf[t]] = top[WorkerOf[t]] \/ top'[WorkerOf[t]] = Last(sr[t])
      BY <1>1, <2>1 DEF TypeOK
    <2> QED
      BY <2>1, <2>2, Left DEF Keeps
  <1>8. ASSUME NEW w \in Workers, Restart(w)
        PROVE  Keeps /\ UNCHANGED issued
    <2> DEFINE T == {t \in Threads : WorkerOf[t] = w}
    <2>1. Leave(T) /\ UNCHANGED <<issued, top>>
      BY <1>8 DEF Restart
    <2> HIDE DEF T
    <2> QED
      BY <1>4, <2>1
  <1>9. CASE Tick \/ SetBack \/ UNCHANGED vars
    BY <1>9 DEF Tick, SetBack, vars, callVars, history, Keeps
  <1> QED
    BY <1>2, <1>5, <1>6, <1>7, <1>8, <1>9, ClockStep DEF Next

\* Every step keeps the clock and its readings later than dead processes.
LEMMA LaterStep ==
    ASSUME ClockKept, LInv, Later, [Next]_vars
    PROVE  Later'
  <1>1. TypeOK
    BY DEF LInv
  <1>2. ASSUME UNCHANGED <<now, dead, lastTimestamp>>,
               \A u \in Threads : pc'[u] \in {"sec", "spin", "spinsec"} =>
                  pc'[u] = pc[u] /\ raw'[u] = raw[u]
        PROVE  Later'
    BY <1>2 DEF Later, Spinning
  <1>3. ASSUME NEW t \in Threads, NEW n \in Steps, Call(t, n)
        PROVE  Later'
    <2>1. UNCHANGED <<now, dead, lastTimestamp, raw>>
      BY <1>3 DEF Call, clockVars, workerVars
    <2>2. pc'[t] = "lock" /\ \A u \in Threads : u # t => pc'[u] = pc[u]
      BY <1>1, <1>3 DEF Call, Goto, TypeOK
    <2> QED
      BY <1>2, <2>1, <2>2
  <1>4. ASSUME NEW t \in Threads, Lock(t)
        PROVE  Later'
    <2>1. UNCHANGED <<now, dead, lastTimestamp, raw>>
      BY <1>4 DEF Lock, clockVars, workerVars
    <2>2. pc'[t] = "time" /\ \A u \in Threads : u # t => pc'[u] = pc[u]
      BY <1>1, <1>4 DEF Lock, Goto, TypeOK
    <2> QED
      BY <1>2, <2>1, <2>2
  <1>5. ASSUME NEW t \in Threads, Leave({t}), UNCHANGED <<clockVars, workerVars>>
        PROVE  Later'
    <2>1. UNCHANGED <<now, dead, lastTimestamp>>
      BY <1>5 DEF clockVars, workerVars
    <2> QED
      BY <1>2, <1>5, <2>1, Left
  <1>6. ASSUME NEW t \in Threads, Takes(t), UNCHANGED clockVars
        PROVE  Later'
    <2>1. /\ \A u \in Threads : WorkerOf[u] = WorkerOf[t] => pc'[u] \notin Held
          /\ pc'[t] = "done" /\ \A u \in Threads : u # t => pc'[u] = pc[u]
          /\ raw' = raw
          /\ \A w \in Workers : w # WorkerOf[t] => lastTimestamp'[w] = lastTimestamp[w]
      BY <1>6, NewRange
    <2>2. UNCHANGED <<now, dead>>
      BY <1>6 DEF clockVars
    <2>3. \A u \in Threads : pc'[u] \in Held => u # t /\ WorkerOf[u] # WorkerOf[t]
      BY <2>1
    <2>4. \A u \in Threads : WorkerOf[u] \in Workers
      BY ConstantsAssumption
    <2> QED
      BY <2>1, <2>2, <2>3, <2>4 DEF Later, Held, Spinning
  <1>7. ASSUME NEW t \in Threads, ClockAction(t)
        PROVE  Later'
    <2>1. UNCHANGED <<now, dead>> /\ WorkerOf[t] \in Workers
      BY <1>7, ConstantsAssumption DEF ClockAction, clockVars
    <2>2. CASE Looks(t)
      <3>1. /\ UNCHANGED lastTimestamp
            /\ \A u \in Threads : u # t => pc'[u] = pc[u] /\ raw'[u] = raw[u]
            /\ pc'[t] \in {"sec", "spinsec"} => raw'[t] = now
            /\ pc'[t] \in Spinning => pc[t] \in Spinning
        BY <1>1, <2>2 DEF Looks, Goto, TypeOK, workerVars, Spinning
      <3> QED
        BY <2>1, <3>1 DEF Later
    <2>3. CASE Throws(t)
      BY <1>5, <1>7, <2>3 DEF Throws, ClockAction
    <2>4. ASSUME NEW ts, Read(t, ts), Waits(t, ts)
          PROVE  Later'
      <3>1. dead[WorkerOf[t]] < ts /\ ts = lastTimestamp[WorkerOf[t]]
        BY <2>4, ReadLater DEF Waits
      <3>2. /\ UNCHANGED <<lastTimestamp, raw>> /\ pc'[t] = "spin"
            /\ \A u \in Threads : u # t => pc'[u] = pc[u]
        BY <1>1, <2>4 DEF Waits, Goto, TypeOK
      <3> QED
        BY <2>1, <3>1, <3>2 DEF Later, Spinning
    <2> QED
      BY <1>6, <1>7, <2>2, <2>3, <2>4 DEF ClockAction, Takes
  <1>8. ASSUME NEW t \in Threads, Return(t)
        PROVE  Later'
    BY <1>5, <1>8 DEF Return
  <1>9. ASSUME NEW w \in Workers, Restart(w)
        PROVE  Later'
    <2> DEFINE T == {t \in Threads : WorkerOf[t] = w}
    <2>1. /\ Leave(T) /\ now' = now /\ now > lastTimestamp[w]
          /\ dead'[w] = (IF lastTimestamp[w] > dead[w] THEN lastTimestamp[w] ELSE dead[w])
          /\ \A x \in Workers : x # w =>
                dead'[x] = dead[x] /\ lastTimestamp'[x] = lastTimestamp[x]
          /\ now \in Nat /\ dead[w] \in Nat /\ lastTimestamp[w] \in Nat
      BY <1>1, <1>9 DEF Restart, TypeOK
    <2>2. dead[w] < now
      BY DEF Later
    <2>3. dead'[w] < now
      BY <2>1, <2>2
    <2>4. \A u \in Threads : u \notin T => WorkerOf[u] \in Workers /\ WorkerOf[u] # w
      BY ConstantsAssumption
    <2> HIDE DEF T
    <2>5. \A u \in Threads : pc'[u] # "idle" =>
             u \notin T /\ pc'[u] = pc[u] /\ raw'[u] = raw[u]
      BY <2>1, Left
    <2> QED
      BY <2>1, <2>3, <2>4, <2>5 DEF Later, Spinning
  <1>10. CASE Tick
    <2>1. now \in Nat /\ now' = now + 1 /\ UNCHANGED <<dead, lastTimestamp, pc, raw>>
          /\ \A w \in Workers : dead[w] \in Nat
      BY <1>1, <1>10 DEF Tick, TypeOK, workerVars, callVars
    <2>2. \A w \in Workers : dead[w] < now'
      BY <2>1 DEF Later
    <2> QED
      BY <2>1, <2>2 DEF Later
  <1>11. CASE SetBack
    <2>1. PICK n \in 1 .. now - 1 : (\A w \in Workers : n > dead[w]) /\ now' = n
      BY <1>11 DEF SetBack
    <2>2. UNCHANGED <<dead, lastTimestamp, pc, raw>> /\ \A w \in Workers : dead[w] \in Nat
      BY <1>1, <1>11 DEF SetBack, TypeOK, workerVars, callVars
    <2>3. \A w \in Workers : dead[w] < now'
      BY <1>1, <2>1, <2>2 DEF TypeOK
    <2> QED
      BY <2>2, <2>3 DEF Later
  <1>12. CASE UNCHANGED vars
    BY <1>2, <1>12 DEF vars, clockVars, workerVars, callVars
  <1> QED
    BY <1>3, <1>4, <1>7, <1>8, <1>9, <1>10, <1>11, <1>12, ClockStep DEF Next

\* Every step keeps workers past what they gave.
LEMMA BehindStep ==
    ASSUME LInv, OInv, [Next]_vars
    PROVE  Behind'
  <1>1. TypeOK /\ Later /\ Behind
    BY DEF LInv, OInv
  <1>2. \A u \in Threads : WorkerOf[u] \in Workers
    BY ConstantsAssumption
  <1>3. \A w \in Workers : top[w][1] \in Nat /\ top[w][2] \in Nat
    BY <1>1, ConstantsAssumption DEF TypeOK
  <1>4. \A u \in Threads : /\ floor[u][1] \in Nat /\ floor[u][2] \in Nat
                           /\ sr[u].ts \in Nat /\ sr[u].max \in Nat
    BY <1>1, ConstantsAssumption DEF TypeOK
  <1>5. \A w \in Workers : \A x, q \in Nat : Past(w, x, q) => Past(w, x, q)'
    BY PastStep
  <1>6. \A w \in Workers : Past(w, 0, 0)
    BY <1>1 DEF Past, TypeOK
  <1>7. ASSUME NEW t \in Threads, Takes(t), UNCHANGED clockVars
        PROVE  Behind'
    <2>1. /\ \/ sr'[t].ts < lastTimestamp'[WorkerOf[t]]
             \/ /\ sr'[t].ts = lastTimestamp'[WorkerOf[t]]
                /\ sr'[t].max <= sequence'[WorkerOf[t]]
          /\ \A u \in Threads : WorkerOf[u] = WorkerOf[t] => pc'[u] \notin Held
          /\ pc'[t] = "done" /\ \A u \in Threads : u # t => pc'[u] = pc[u] /\ sr'[u] = sr[u]
          /\ UNCHANGED <<top, floor>>
      BY <1>1, <1>7, NewRange
    <2>2. Past(WorkerOf[t], sr[t].ts, sr[t].max)'
      BY <2>1 DEF Past, Held, Spinning
    <2>3. \A w \in Workers : Past(w, top[w][1], top[w][2])'
      BY <1>1, <1>3, <1>5, <2>1 DEF Behind, Past
    <2>4. \A u \in Threads : (pc[u] # "done" => Past(WorkerOf[u], floor[u][1], floor[u][2]))'
      BY <1>1, <1>2, <1>4, <1>5, <2>1 DEF Behind, Past
    <2>5. \A u \in Threads : u # t =>
             (pc[u] = "done" => Past(WorkerOf[u], sr[u].ts, sr[u].max))'
      BY <1>1, <1>2, <1>4, <1>5, <2>1 DEF Behind, Past
    <2> QED
      BY <2>2, <2>3, <2>4, <2>5 DEF Behind
  <1>8. CASE Keeps
    <2>1. \A w \in Workers : Past(w, top[w][1], top[w][2])'
      <3> SUFFICES ASSUME NEW w \in Workers
                   PROVE  Past(w, top[w][1], top[w][2])'
        OBVIOUS
      <3>1. CASE top'[w] = top[w]
        BY <1>1, <1>3, <1>5, <3>1 DEF Behind, Past
      <3>2. ASSUME NEW t \in Threads, WorkerOf[t] = w, pc[t] = "done", top'[w] = Last(sr[t])
            PROVE  Past(w, top[w][1], top[w][2])'
        <4>1. Past(w, sr[t].ts, sr[t].max)
          BY <1>1, <3>2 DEF Behind
        <4>2. top'[w][1] = sr[t].ts /\ top'[w][2] = sr[t].max
          BY <3>2 DEF Last
        <4> QED
          BY <1>4, <1>5, <4>1, <4>2 DEF Past
      <3> QED
        BY <1>8, <3>1, <3>2 DEF Keeps
    <2>2. \A u \in Threads : (pc[u] # "done" => Past(WorkerOf[u], floor[u][1], floor[u][2]))'
      <3> SUFFICES ASSUME NEW u \in Threads, pc'[u] # "done"
                   PROVE  Past(WorkerOf[u], floor[u][1], floor[u][2])'
        OBVIOUS
      <3>1. PICK x \in Nat, q \in Nat :
               floor'[u][1] = x /\ floor'[u][2] = q /\ Past(WorkerOf[u], x, q)
        <4>1. CASE floor'[u] = <<0, 0>>
          BY <1>2, <1>6, <4>1
        <4>2. CASE floor'[u] = top[WorkerOf[u]]
          BY <1>1, <1>2, <1>3, <4>2 DEF Behind
        <4>3. CASE pc[u] # "done" /\ floor'[u] = floor[u]
          BY <1>1, <1>4, <4>3 DEF Behind
        <4> QED
          BY <1>8, <4>1, <4>2, <4>3 DEF Keeps
      <3>2. Past(WorkerOf[u], x, q)'
        BY <1>2, <1>5, <3>1
      <3> QED
        BY <3>1, <3>2 DEF Past
    <2>3. \A u \in Threads : (pc[u] = "done" => Past(WorkerOf[u], sr[u].ts, sr[u].max))'
      <3> SUFFICES ASSUME NEW u \in Threads, pc'[u] = "done"
                   PROVE  Past(WorkerOf[u], sr[u].ts, sr[u].max)'
        OBVIOUS
      <3>1. pc[u] = "done" /\ sr'[u] = sr[u]
        BY <1>8 DEF Keeps
      <3>2. Past(WorkerOf[u], sr[u].ts, sr[u].max)
        BY <1>1, <3>1 DEF Behind
      <3> QED
        BY <1>2, <1>4, <1>5, <3>1, <3>2 DEF Past
    <2> QED
      BY <2>1, <2>2, <2>3 DEF Behind
  <1> QED
    BY <1>7, <1>8, StepKinds

\* Every step keeps ranges above their floors.
LEMMA AboveStep ==
    ASSUME LInv, OInv, [Next]_vars
    PROVE  Above'
  <1>1. TypeOK /\ Later /\ Behind /\ Above
    BY DEF LInv, OInv
  <1>2. ASSUME NEW t \in Threads, Takes(t), UNCHANGED clockVars
        PROVE  Above'
    <2>1. /\ \A x, q \in Nat : Past(WorkerOf[t], x, q) =>
                x < sr'[t].ts \/ (x = sr'[t].ts /\ q < sr'[t].min)
          /\ \A u \in Threads : u # t => pc'[u] = pc[u] /\ sr'[u] = sr[u]
          /\ floor' = floor /\ pc[t] # "done"
      BY <1>1, <1>2, NewRange
    <2>2. floor[t][1] \in Nat /\ floor[t][2] \in Nat
      BY <1>1, ConstantsAssumption DEF TypeOK
    <2>3. Past(WorkerOf[t], floor[t][1], floor[t][2])
      BY <1>1, <2>1 DEF Behind
    <2>4. floor[t][1] < sr'[t].ts \/ (floor[t][1] = sr'[t].ts /\ floor[t][2] < sr'[t].min)
      BY <2>1, <2>2, <2>3
    <2>5. Below(floor[t], <<sr[t].ts, sr[t].min>>)'
      BY <2>1, <2>4 DEF Below
    <2> QED
      BY <1>1, <2>1, <2>5 DEF Above, Below
  <1>3. CASE Keeps
    BY <1>1, <1>3 DEF Keeps, Above, Below
  <1> QED
    BY <1>2, <1>3, StepKinds

\* The initial states.
LEMMA OStart == Init => OInv
  <1> SUFFICES ASSUME Init PROVE OInv
    OBVIOUS
  <1>1. \A t \in Threads : pc[t] = "idle" /\ floor[t] = <<0, 0>> /\ WorkerOf[t] \in Workers
    BY ConstantsAssumption DEF Init
  <1>2. \A w \in Workers : dead[w] = 0 /\ top[w] = <<0, 0>>
    BY DEF Init
  <1>3. Later
    BY <1>1, <1>2 DEF Init, Later, Spinning
  <1>4. \A w \in Workers : Past(w, 0, 0)
    BY <1>2 DEF Past
  <1>5. Behind
    BY <1>1, <1>2, <1>4 DEF Behind
  <1>6. Above
    BY <1>1 DEF Above
  <1> QED
    BY <1>3, <1>5, <1>6 DEF OInv

\* If no client asks for an empty range and the clock is kept past the ids of
\* dead processes, the ids of a worker grow: a call that begins after another
\* one returned gets larger ids, however often the clock is set back under a
\* running process, whatever timeGen makes of a reading, and through restarts
\* (getAndIncrement compares with lastTimestamp, which a restart forgets).
THEOREM Order ==
    ASSUME PositiveSteps, ClockKept
    PROVE  Spec => []Ordered
  <1>1. Init => LInv /\ OInv
    BY LStart, OStart
  <1>2. LInv /\ OInv /\ [Next]_vars => (LInv /\ OInv)'
    BY LStep, LaterStep, BehindStep, AboveStep DEF OInv
  <1>3. LInv /\ OInv => Ordered
    BY DEF OInv, Above, Ordered
  <1> QED
    BY <1>1, <1>2, <1>3, PTL DEF Spec

-----------------------------------------------------------------------------
(* The third layer is an invariant.                                         *)

\* The ids of a range that fits.
LEMMA IdsOf ==
    ASSUME LInv, NEW t \in Threads, pc[t] = "done"
    PROVE  /\ sr[t].field = Field[WorkerOf[t]]
           /\ sr[t].ts \in Nat /\ sr[t].min \in Nat /\ sr[t].max \in Nat
           /\ Ids(sr[t]) = {<<sr[t].ts, sr[t].field, q>> : q \in sr[t].min .. sr[t].max}
           /\ \A i \in Ids(sr[t]) : /\ i[1] = sr[t].ts /\ i[2] = sr[t].field
                                    /\ i[3] \in Nat /\ i[3] >= sr[t].min /\ i[3] <= sr[t].max
  <1>1. sr[t].ts \in Nat /\ sr[t].min \in Nat /\ sr[t].max \in Nat
    BY ConstantsAssumption DEF LInv, TypeOK
  <1>2. sr[t].max <= SeqMask /\ sr[t].min <= sr[t].max /\ sr[t].field = Field[WorkerOf[t]]
    BY DEF LInv, RangeFits, Tagged
  <1>3. sr[t].min <= SeqMask
    BY <1>1, <1>2, ConstantsAssumption
  <1>4. Ids(sr[t]) = {<<sr[t].ts, sr[t].field, q>> : q \in sr[t].min .. sr[t].max}
    BY <1>2, <1>3 DEF Ids
  <1>5. ASSUME NEW i \in Ids(sr[t])
        PROVE  /\ i[1] = sr[t].ts /\ i[2] = sr[t].field
               /\ i[3] \in Nat /\ i[3] >= sr[t].min /\ i[3] <= sr[t].max
    <2>1. PICK q \in sr[t].min .. sr[t].max : i = <<sr[t].ts, sr[t].field, q>>
      BY <1>4, <1>5
    <2>2. i[1] = sr[t].ts /\ i[2] = sr[t].field /\ i[3] = q
      BY <2>1
    <2> QED
      BY <1>1, <2>2
  <1> QED
    BY <1>1, <1>2, <1>4, <1>5

\* Being past a counter is being past the smaller ones.
LEMMA PastDown ==
    ASSUME LInv, NEW w \in Workers, NEW x \in Nat, NEW q \in Nat, NEW p \in Nat, p <= q,
           Past(w, x, q)
    PROVE  Past(w, x, p)
  <1>1. sequence[w] \in Nat /\ \A t \in Threads : minSeq[t] \in Nat
    BY ConstantsAssumption DEF LInv, TypeOK
  <1>2. /\ q <= sequence[w] => p <= sequence[w]
        /\ \A t \in Threads : q < minSeq[t] => p < minSeq[t]
    BY <1>1
  <1> QED
    BY <1>2 DEF Past

\* Every step keeps it.
LEMMA UStep ==
    ASSUME DistinctWorkers, LInv, LInv', OInv, UInv, [Next]_vars
    PROVE  UInv'
  <1>1. TypeOK /\ Later /\ Behind
    BY DEF LInv, OInv
  <1>2. \A u \in Threads : WorkerOf[u] \in Workers
    BY ConstantsAssumption
  <1>3. \A i \in issued : i[1] \in Nat /\ i[3] \in Nat
    <2>1. issued \subseteq IdSet /\ SeqMask \in Nat
      BY <1>1, ConstantsAssumption DEF TypeOK
    <2> QED
      BY <2>1 DEF IdSet
  <1>4. \A u \in Threads : pc[u] = "done" =>
           /\ sr[u].field = Field[WorkerOf[u]]
           /\ sr[u].ts \in Nat /\ sr[u].min \in Nat /\ sr[u].max \in Nat
           /\ \A i \in Ids(sr[u]) : /\ i[1] = sr[u].ts /\ i[2] = sr[u].field
                                    /\ i[3] \in Nat /\ i[3] >= sr[u].min /\ i[3] <= sr[u].max
    BY IdsOf
  <1>5. \A w \in Workers : \A x, q \in Nat : Past(w, x, q) => Past(w, x, q)'
    BY PastStep
  <1>6. \A i \in issued, w \in Workers : i[2] = Field[w] => Past(w, i[1], i[3])
    BY DEF UInv
  <1>7. /\ \A i \in issued, t \in Threads :
              pc[t] = "done" /\ i[2] = sr[t].field /\ i[1] = sr[t].ts
                  => i[3] < sr[t].min \/ i[3] > sr[t].max
        /\ \A t, u \in Threads :
              t # u /\ pc[t] = "done" /\ pc[u] = "done" /\ WorkerOf[t] = WorkerOf[u]
                  => Apart(sr[t], sr[u])
    BY DEF UInv
  <1>8. ASSUME NEW t \in Threads, Takes(t), UNCHANGED clockVars
        PROVE  UInv'
    <2>1. /\ \A x, q \in Nat : Past(WorkerOf[t], x, q) =>
                x < sr'[t].ts \/ (x = sr'[t].ts /\ q < sr'[t].min)
          /\ pc'[t] = "done" /\ \A u \in Threads : u # t => pc'[u] = pc[u] /\ sr'[u] = sr[u]
          /\ issued' = issued
      BY <1>1, <1>8, NewRange
    <2>2. /\ sr'[t].field = Field[WorkerOf[t]]
          /\ sr'[t].ts \in Nat /\ sr'[t].min \in Nat /\ sr'[t].max \in Nat
      BY <2>1, ConstantsAssumption DEF LInv, TypeOK, Tagged
    <2>3. \A i \in issued', w \in Workers : i[2] = Field[w] => Past(w, i[1], i[3])'
      BY <1>3, <1>5, <1>6, <2>1
    <2>4. ASSUME NEW i \in issued', NEW u \in Threads,
                 pc'[u] = "done", i[2] = sr'[u].field, i[1] = sr'[u].ts
          PROVE  i[3] < sr'[u].min \/ i[3] > sr'[u].max
      <3>1. CASE u = t
        <4>1. Past(WorkerOf[t], i[1], i[3])
          BY <1>2, <1>6, <2>1, <2>2, <2>4, <3>1
        <4>2. i[1] < sr'[t].ts \/ (i[1] = sr'[t].ts /\ i[3] < sr'[t].min)
          BY <1>3, <2>1, <4>1
        <4> QED
          BY <1>3, <2>1, <2>2, <2>4, <3>1, <4>2
      <3>2. CASE u # t
        BY <1>7, <2>1, <2>4, <3>2
      <3> QED
        BY <3>1, <3>2
    <2>5. ASSUME NEW u \in Threads, u # t, pc'[u] = "done", WorkerOf[u] = WorkerOf[t]
          PROVE  Apart(sr[t], sr[u])' /\ Apart(sr[u], sr[t])'
      <3>1. pc[u] = "done" /\ sr'[u] = sr[u]
        BY <2>1, <2>5
      <3>2. /\ Past(WorkerOf[t], sr[u].ts, sr[u].max)
            /\ sr[u].ts \in Nat /\ sr[u].max \in Nat
        BY <1>1, <1>4, <2>5, <3>1 DEF Behind
      <3>3. sr[u].ts < sr'[t].ts \/ (sr[u].ts = sr'[t].ts /\ sr[u].max < sr'[t].min)
        BY <2>1, <3>2
      <3>4. sr'[t].ts # sr'[u].ts \/ sr'[u].max < sr'[t].min
        BY <2>2, <3>1, <3>2, <3>3
      <3> QED
        BY <3>4 DEF Apart
    <2>6. ASSUME NEW u \in Threads, NEW v \in Threads, u # v,
                 pc'[u] = "done", pc'[v] = "done", WorkerOf[u] = WorkerOf[v]
          PROVE  Apart(sr[u], sr[v])'
      <3>1. CASE u # t /\ v # t
        <4>1. Apart(sr[u], sr[v]) /\ sr'[u] = sr[u] /\ sr'[v] = sr[v]
          BY <1>7, <2>1, <2>6, <3>1
        <4> QED
          BY <4>1 DEF Apart
      <3> QED
        BY <2>5, <2>6, <3>1
    <2> QED
      BY <2>3, <2>4, <2>6 DEF UInv
  <1>9. CASE Keeps /\ (UNCHANGED issued \/ \E t \in Threads : Return(t))
    <2>1. \A u \in Threads : pc'[u] = "done" => pc[u] = "done" /\ sr'[u] = sr[u]
      BY <1>9 DEF Keeps
    <2>2. ASSUME NEW u \in Threads, NEW v \in Threads, u # v,
                 pc'[u] = "done", pc'[v] = "done", WorkerOf[u] = WorkerOf[v]
          PROVE  Apart(sr[u], sr[v])'
      <3>1. Apart(sr[u], sr[v]) /\ sr'[u] = sr[u] /\ sr'[v] = sr[v]
        BY <1>7, <2>1, <2>2
      <3> QED
        BY <3>1 DEF Apart
    <2>3. CASE UNCHANGED issued
      <3>1. \A i \in issued', w \in Workers : i[2] = Field[w] => Past(w, i[1], i[3])'
        BY <1>3, <1>5, <1>6, <2>3
      <3>2. \A i \in issued', u \in Threads :
               pc'[u] = "done" /\ i[2] = sr'[u].field /\ i[1] = sr'[u].ts
                   => i[3] < sr'[u].min \/ i[3] > sr'[u].max
        BY <1>7, <2>1, <2>3
      <3> QED
        BY <2>2, <3>1, <3>2 DEF UInv
    <2>4. ASSUME NEW t \in Threads, Return(t)
          PROVE  UInv'
      <3>1. /\ pc[t] = "done" /\ issued' = issued \cup Ids(sr[t])
            /\ Leave({t})
        BY <2>4 DEF Return
      <3>2. pc'[t] = "idle"
        BY <3>1, Left
      <3>3. ASSUME NEW i \in Ids(sr[t]), NEW w \in Workers, i[2] = Field[w]
            PROVE  Past(w, i[1], i[3])'
        <4>1. w = WorkerOf[t]
          BY <1>2, <1>4, <3>1, <3>3 DEF DistinctWorkers
        <4>2. Past(w, sr[t].ts, sr[t].max)
          BY <1>1, <3>1, <4>1 DEF Behind
        <4>3. /\ i[1] = sr[t].ts /\ i[3] <= sr[t].max
              /\ i[1] \in Nat /\ i[3] \in Nat /\ sr[t].max \in Nat
          BY <1>4, <3>1
        <4>4. Past(w, i[1], i[3])
          BY <4>2, <4>3, PastDown
        <4> QED
          BY <1>5, <4>3, <4>4
      <3>4. \A i \in issued', w \in Workers : i[2] = Field[w] => Past(w, i[1], i[3])'
        BY <1>3, <1>5, <1>6, <3>1, <3>3
      <3>5. ASSUME NEW i \in issued', NEW u \in Threads,
                   pc'[u] = "done", i[2] = sr'[u].field, i[1] = sr'[u].ts
            PROVE  i[3] < sr'[u].min \/ i[3] > sr'[u].max
        <4>1. u # t /\ pc[u] = "done" /\ sr'[u] = sr[u]
          BY <2>1, <3>2, <3>5
        <4>2. CASE i \in issued
          BY <1>7, <3>5, <4>1, <4>2
        <4>3. CASE i \in Ids(sr[t])
          <5>1. /\ i[1] = sr[t].ts /\ i[2] = Field[WorkerOf[t]] /\ i[3] \in Nat
                /\ i[3] >= sr[t].min /\ i[3] <= sr[t].max
            BY <1>4, <3>1, <4>3
          <5>2. sr[u].field = Field[WorkerOf[u]]
            BY <1>4, <4>1
          <5>3. WorkerOf[u] = WorkerOf[t]
            BY <1>2, <3>5, <4>1, <5>1, <5>2 DEF DistinctWorkers
          <5>4. Apart(sr[t], sr[u])
            BY <1>7, <3>1, <4>1, <5>3
          <5>5. sr[t].max < sr[u].min \/ sr[u].max < sr[t].min
            BY <3>5, <4>1, <5>1, <5>4 DEF Apart
          <5> QED
            BY <1>4, <3>1, <4>1, <5>1, <5>5
        <4> QED
          BY <3>1, <3>5, <4>2, <4>3
      <3> QED
        BY <2>2, <3>4, <3>5 DEF UInv
    <2> QED
      BY <1>9, <2>3, <2>4
  <1> QED
    BY <1>8, <1>9, StepKinds

\* It is what uniqueness needs.
LEMMA UImplies ==
    ASSUME DistinctWorkers, LInv, UInv
    PROVE  NoDuplicateIds
  <1>1. \A u \in Threads : WorkerOf[u] \in Workers
    BY ConstantsAssumption
  <1>2. \A u \in Threads : pc[u] = "done" =>
           /\ sr[u].field = Field[WorkerOf[u]]
           /\ sr[u].ts \in Nat /\ sr[u].min \in Nat /\ sr[u].max \in Nat
           /\ \A i \in Ids(sr[u]) : /\ i[1] = sr[u].ts /\ i[2] = sr[u].field
                                    /\ i[3] \in Nat /\ i[3] >= sr[u].min /\ i[3] <= sr[u].max
    BY IdsOf
  <1>3. ASSUME NEW t \in Threads, pc[t] = "done", NEW i \in issued
        PROVE  i \notin Ids(sr[t])
    <2> SUFFICES ASSUME i \in Ids(sr[t]) PROVE FALSE
      OBVIOUS
    <2>1. i[1] = sr[t].ts /\ i[2] = sr[t].field /\ i[3] \in Nat
          /\ i[3] >= sr[t].min /\ i[3] <= sr[t].max /\ sr[t].min \in Nat /\ sr[t].max \in Nat
      BY <1>2, <1>3
    <2>2. i[3] < sr[t].min \/ i[3] > sr[t].max
      BY <1>3, <2>1 DEF UInv
    <2> QED
      BY <2>1, <2>2
  <1>4. ASSUME NEW t \in Threads, NEW u \in Threads, t # u, pc[t] = "done", pc[u] = "done",
               NEW i \in Ids(sr[t])
        PROVE  i \notin Ids(sr[u])
    <2> SUFFICES ASSUME i \in Ids(sr[u]) PROVE FALSE
      OBVIOUS
    <2>1. /\ i[1] = sr[t].ts /\ i[2] = Field[WorkerOf[t]] /\ i[3] \in Nat
          /\ i[3] >= sr[t].min /\ i[3] <= sr[t].max /\ sr[t].min \in Nat /\ sr[t].max \in Nat
          /\ i[1] = sr[u].ts /\ i[2] = Field[WorkerOf[u]]
          /\ i[3] >= sr[u].min /\ i[3] <= sr[u].max /\ sr[u].min \in Nat /\ sr[u].max \in Nat
      BY <1>2, <1>4
    <2>2. WorkerOf[t] = WorkerOf[u]
      BY <1>1, <2>1 DEF DistinctWorkers
    <2>3. Apart(sr[t], sr[u])
      BY <1>4, <2>2 DEF UInv
    <2>4. sr[t].max < sr[u].min \/ sr[u].max < sr[t].min
      BY <2>1, <2>3 DEF Apart
    <2> QED
      BY <2>1, <2>4
  <1> QED
    BY <1>3, <1>4 DEF NoDuplicateIds

\* The initial states.
LEMMA UStart == Init => UInv
  BY DEF Init, UInv

\* If moreover the workers have ids of their own, no id is handed out twice in
\* the whole system: not by concurrent calls, which getAndIncrement separates
\* by its mutex, not in a millisecond whose rest is handed out late, and not
\* when the clock is set back under a running process.
THEOREM Uniqueness ==
    ASSUME PositiveSteps, ClockKept, DistinctWorkers
    PROVE  Spec => []NoDuplicateIds
  <1>1. Init => LInv /\ OInv /\ UInv
    BY LStart, OStart, UStart
  <1>2. LInv /\ OInv /\ UInv /\ [Next]_vars => (LInv /\ OInv /\ UInv)'
    BY LStep, LaterStep, BehindStep, AboveStep, UStep DEF OInv
  <1>3. LInv /\ OInv /\ UInv => NoDuplicateIds
    BY UImplies
  <1> QED
    BY <1>1, <1>2, <1>3, PTL DEF Spec

-----------------------------------------------------------------------------
(* Both kinds of sequences keep one contract.                               *)

\* What a thread is granted follows from where it is and from its range.
LEMMA GrantedNext ==
    ASSUME NEW u \in Threads
    PROVE  /\ pc'[u] # "done" => Granted'[u] = {}
           /\ pc'[u] = "done" => Granted'[u] = Ids(sr'[u])
  BY DEF Granted, Ids

\* A thread that gets its range is granted it.
LEMMA TakesGrants ==
    ASSUME LInv, TypeOK', NoDuplicateIds', NEW t \in Threads, Takes(t)
    PROVE  Abstract!Grant(t)
  <1>1. TypeOK
    BY DEF LInv
  <1>2. PICK x, a, b, ts, q : Take(t, RangeOf(t, x, a, b), ts, q) /\ pc[t] \in Held
    BY DEF Takes, Begins, GetsRest, Continues, Spinning, Held
  <1>3. /\ pc'[t] = "done" /\ issued' = issued
        /\ \A u \in Threads : u # t => pc'[u] = pc[u] /\ sr'[u] = sr[u]
    BY <1>1, <1>2, Taken
  <1>4. Granted[t] = {} /\ Granted'[t] = Ids(sr'[t])
    BY <1>2, <1>3 DEF Granted, Held, Ids
  <1>5. \A u \in Threads \ {t} : Granted'[u] = Granted[u]
    BY <1>3, GrantedNext DEF Granted
  <1>6. Granted'[t] \cap issued = {}
    BY <1>3, <1>4 DEF NoDuplicateIds, Ids
  <1>7. ASSUME NEW u \in Threads \ {t}
        PROVE  Granted'[t] \cap Granted[u] = {}
    <2>1. CASE pc'[u] = "done"
      BY <1>3, <1>4, <1>5, <2>1 DEF NoDuplicateIds, Granted, Ids
    <2>2. CASE pc'[u] # "done"
      BY <1>5, <2>2 DEF Granted
    <2> QED
      BY <2>1, <2>2
  <1>8. Granted'[t] \subseteq IdSet
    <2>1. sr'[t] \in Ranges
      BY DEF TypeOK, Ranges
    <2> QED
      BY <1>4, <2>1, IdsType
  <1>9. Granted' = [Granted EXCEPT ![t] = Granted'[t]]
    BY <1>5 DEF Granted
  <1> QED
    BY <1>3, <1>4, <1>6, <1>7, <1>8, <1>9 DEF Abstract!Grant

\* A step that leaves ranges alone and returns none loses some or none.
LEMMA KeepsLoses ==
    ASSUME Keeps, issued' = issued
    PROVE  Abstract!Next
  <1> DEFINE D == {u \in Threads : pc'[u] # "done"}
  <1>1. \A u \in Threads : Granted'[u] = IF u \in D THEN {} ELSE Granted[u]
    BY GrantedNext DEF Keeps, Granted
  <1>2. Granted' = [u \in Threads |-> IF u \in D THEN {} ELSE Granted[u]]
    BY <1>1 DEF Granted
  <1>3. Abstract!Lose(D)
    BY <1>2 DEF Abstract!Lose
  <1>4. D \in SUBSET Threads
    OBVIOUS
  <1> QED
    BY <1>3, <1>4 DEF Abstract!Next

\* A call returns what it was granted.
LEMMA ReturnReturns ==
    ASSUME NEW t \in Threads, Return(t)
    PROVE  Abstract!Return(t)
  <1>1. pc[t] = "done" /\ issued' = issued \cup Ids(sr[t]) /\ Leave({t})
    BY DEF Return
  <1>2. Granted[t] = Ids(sr[t])
    BY <1>1 DEF Granted
  <1>3. \A u \in Threads : Granted'[u] = IF u = t THEN {} ELSE Granted[u]
    BY <1>1 DEF Leave, Granted, Ids
  <1>4. Granted' = [Granted EXCEPT ![t] = {}]
    BY <1>3 DEF Granted
  <1> QED
    BY <1>1, <1>2, <1>4 DEF Abstract!Return

\* Under the hypotheses of Uniqueness the workers implement UniqueRanges: the
\* end of the mutex is Grant, the return Return, an exception or a restart Lose,
\* and a step of the clock changes nothing a client can see (getAndIncrement,
\* nextValue).
THEOREM Refinement ==
    ASSUME PositiveSteps, ClockKept, DistinctWorkers
    PROVE  Spec => GrantsUniqueRanges
  <1>1. Init => Abstract!Init
    BY DEF Init, Abstract!Init, Granted
  <1>2. LInv /\ TypeOK' /\ NoDuplicateIds' /\ [Next]_vars => [Abstract!Next]_(Abstract!vars)
    <2> SUFFICES ASSUME LInv, TypeOK', NoDuplicateIds', [Next]_vars
                 PROVE  Abstract!Next
      OBVIOUS
    <2>1. ASSUME NEW t \in Threads, Takes(t)
          PROVE  Abstract!Next
      BY <2>1, TakesGrants DEF Abstract!Next
    <2>2. ASSUME NEW t \in Threads, Return(t)
          PROVE  Abstract!Next
      BY <2>2, ReturnReturns DEF Abstract!Next
    <2> QED
      BY <2>1, <2>2, StepKinds, KeepsLoses
  <1>3. Spec => []LInv
    BY LStart, LStep, PTL DEF Spec
  <1> QED
    BY <1>1, <1>2, <1>3, TypeCorrect, Uniqueness, PTL
    DEF Spec, GrantsUniqueRanges, Abstract!Spec

=============================================================================
