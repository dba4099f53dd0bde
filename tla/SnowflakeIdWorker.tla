-------------------------- MODULE SnowflakeIdWorker --------------------------
(***************************************************************************)
(* The time-based sequences of the id service.  An id is a timestamp in    *)
(* milliseconds, the worker id of the configuration and a counter within   *)
(* the millisecond, packed into 64 bits; the packing is order preserving,  *)
(* so that an id is modelled as the triple <<timestamp, field, sequence>>. *)
(* A worker hands out counters under a mutex and remembers the last        *)
(* timestamp it used, in memory only.  The clock is the wall clock of the  *)
(* machine: it ticks, and it may be set back.                              *)
(*                                                                         *)
(* A thread in getAndIncrement is at                                       *)
(*   lock           about to take the mutex                                *)
(*   time, sec      in timeGen: at gettimeofday, at time(NULL)             *)
(*   spin, spinsec  the same within tilNextMillis                          *)
(*   done           past the mutex, about to return                        *)
(***************************************************************************)
EXTENDS Integers, FiniteSets

CONSTANTS
    Workers,   \* the SnowflakeIdWorker objects of one sequence
    Field,     \* the worker id each of them packs into its ids
    Threads,   \* the Ice dispatch threads
    WorkerOf,  \* the worker each thread calls
    Steps,     \* the steps clients ask for
    SeqMask,   \* sequenceMask (4095)
    Wrap,      \* the values of an unsigned int (2^32)
    FieldMax,  \* maxWorkerId (1023)
    TsBits,    \* the timestamps that differ in the low 32 bits of an id (1024)
    Sec,       \* the milliseconds of a second
    ClockKept, \* whether the clock is kept past the ids of dead processes
    MaxClock,  \* bound: the last reading of the clock
    MaxBacks,  \* bound: how often the clock is set back
    MaxCrash   \* bound: how often a worker's process restarts

ASSUME ConstantsAssumption ==
    /\ Field \in [Workers -> 0 .. FieldMax]
    /\ WorkerOf \in [Threads -> Workers]
    /\ Steps \subseteq Nat
    /\ SeqMask \in Nat \ {0}
    /\ Wrap \in Nat /\ Wrap > 2 * SeqMask + 1
    /\ FieldMax \in Nat
    /\ TsBits \in Nat \ {0}
    /\ Sec \in Nat \ {0}
    /\ ClockKept \in BOOLEAN
    /\ {MaxClock, MaxBacks, MaxCrash} \subseteq Nat

VARIABLES
    now,       \* the wall clock, in milliseconds
    backs,     \* how often it was set back
    crashes,   \* how often a process restarted
    lastTimestamp, \* the timestamp each worker used last
    sequence,  \* the counter each worker used last
    dead,      \* history: the last timestamp of a worker's dead processes
    pc,        \* where each thread is
    step,      \* the argument of its call
    raw,       \* what gettimeofday gave it
    minSeq,    \* the first counter it takes
    sr,        \* the range it is about to return
    issued,    \* history: every id returned to a client
    top,       \* history: the largest id each worker returned
    floor      \* history: top of the thread's worker when its call began

workerVars == <<lastTimestamp, sequence>>
clockVars  == <<now, backs, crashes, dead>>
callVars   == <<pc, step, raw, minSeq, sr>>
history    == <<issued, top, floor>>
vars       == <<clockVars, workerVars, callVars, history>>

-----------------------------------------------------------------------------
(* Ids and ranges.  A range has one timestamp and one field; its counters   *)
(* are or-ed into the low bits of the id.                                   *)

NoRange == [ts |-> 0, field |-> 0, min |-> 0, max |-> 0]

\* The ids from `min' to `max' of a range.  Counters within the mask stay in
\* their bits.  A minimum one past the mask sets the lowest bit of the field
\* and, if that is set already, falls back to counter 0.  A maximum of all
\* ones (step - 1 for step 0) also fills the field and the low bits of the
\* timestamp.
Ids(r) ==
    IF r.max <= SeqMask
    THEN LET m == IF r.min <= SeqMask THEN r.min
                  ELSE IF r.field % 2 = 1 THEN 0 ELSE r.min
         IN {<<r.ts, r.field, q>> : q \in m .. r.max}
    ELSE {i \in (r.ts .. r.ts + TsBits - 1 - (r.ts % TsBits))
                    \X (0 .. FieldMax) \X (0 .. SeqMask) :
            i[1] = r.ts => i[2] > r.field \/ (i[2] = r.field /\ i[3] >= r.min)}

\* The order of ids of one worker.
Below(i, j) == i[1] < j[1] \/ (i[1] = j[1] /\ i[2] < j[2])

Last(r) == <<r.ts, r.max>>

-----------------------------------------------------------------------------
Init ==
    /\ now = 1
    /\ backs = 0
    /\ crashes = 0
    /\ lastTimestamp = [w \in Workers |-> 0]
    /\ sequence = [w \in Workers |-> 0]
    /\ dead = [w \in Workers |-> 0]
    /\ pc = [t \in Threads |-> "idle"]
    /\ step = [t \in Threads |-> 0]
    /\ raw = [t \in Threads |-> 0]
    /\ minSeq = [t \in Threads |-> 0]
    /\ sr = [t \in Threads |-> NoRange]
    /\ issued = {}
    /\ top = [w \in Workers |-> <<0, 0>>]
    /\ floor = [t \in Threads |-> <<0, 0>>]

Goto(t, l) == pc' = [pc EXCEPT ![t] = l]

Held == {"time", "sec", "spin", "spinsec"}

\* The threads T leave getAndIncrement, and the mutex if they hold it.
Leave(T) ==
    /\ pc' = [t \in Threads |-> IF t \in T THEN "idle" ELSE pc[t]]
    /\ step' = [t \in Threads |-> IF t \in T THEN 0 ELSE step[t]]
    /\ raw' = [t \in Threads |-> IF t \in T THEN 0 ELSE raw[t]]
    /\ minSeq' = [t \in Threads |-> IF t \in T THEN 0 ELSE minSeq[t]]
    /\ sr' = [t \in Threads |-> IF t \in T THEN NoRange ELSE sr[t]]
    /\ floor' = [t \in Threads |-> IF t \in T THEN <<0, 0>> ELSE floor[t]]

\* Mutant: the step is not limited to what fits a millisecond.
AcceptsAny(n) == TRUE

\* The validation of the argument.
Accepts(n) == n <= SeqMask

\* A call with an argument that is accepted; any other call throws at once.
Call(t, n) ==
    /\ pc[t] = "idle"
    /\ Accepts(n)
    /\ Goto(t, "lock")
    /\ step' = [step EXCEPT ![t] = n]
    /\ floor' = [floor EXCEPT ![t] = top[WorkerOf[t]]]
    /\ UNCHANGED <<clockVars, workerVars, raw, minSeq, sr, issued, top>>

\* Mutant: a thread that waits for the next millisecond lets go of the mutex.
LockWhileSpinning(t) ==
    /\ pc[t] = "lock"
    /\ \A u \in Threads : WorkerOf[u] = WorkerOf[t] => pc[u] \notin {"time", "sec"}
    /\ Goto(t, "time")
    /\ UNCHANGED <<clockVars, workerVars, step, raw, minSeq, sr, history>>

Lock(t) ==
    /\ pc[t] = "lock"
    /\ \A u \in Threads : WorkerOf[u] = WorkerOf[t] => pc[u] \notin Held
    /\ Goto(t, "time")
    /\ UNCHANGED <<clockVars, workerVars, step, raw, minSeq, sr, history>>

-----------------------------------------------------------------------------
(* The counters.                                                            *)

\* The sum of two unsigned ints.
Plus(a, b) == IF a + b >= Wrap THEN a + b - Wrap ELSE a + b

\* The call is done with range r: the worker remembers timestamp ts and
\* counter q, and the mutex is released.
Take(t, r, ts, q) ==
    /\ lastTimestamp' = [lastTimestamp EXCEPT ![WorkerOf[t]] = ts]
    /\ sequence' = [sequence EXCEPT ![WorkerOf[t]] = q]
    /\ sr' = [sr EXCEPT ![t] = r]
    /\ Goto(t, "done")
    /\ UNCHANGED <<step, raw, minSeq, history>>

\* The range of thread t with timestamp ts and counters a to b.
RangeOf(t, ts, a, b) == [ts |-> ts, field |-> Field[WorkerOf[t]], min |-> a, max |-> b]

\* A new millisecond: the counter starts again at 0.
Fresh(t, ts) ==
    LET q == IF step[t] = 0 THEN Wrap - 1 ELSE step[t] - 1
    IN Take(t, RangeOf(t, ts, 0, q), ts, q)

\* The same millisecond: the counter goes on, and past the mask the thread
\* waits for the next millisecond with the mutex held.
Same(t) ==
    LET w == WorkerOf[t]
        a == Plus(sequence[w], 1)
        q == Plus(sequence[w], step[t])
    IN IF q > SeqMask
       THEN /\ sequence' = [sequence EXCEPT ![w] = q]
            /\ minSeq' = [minSeq EXCEPT ![t] = a]
            /\ Goto(t, "spin")
            /\ UNCHANGED <<lastTimestamp, step, raw, sr, history>>
       ELSE Take(t, RangeOf(t, lastTimestamp[w], a, q), lastTimestamp[w], q)

\* Mutant: a clock that was set back is not noticed.
GotTimeUnchecked(t, ts) ==
    IF ts = lastTimestamp[WorkerOf[t]] THEN Same(t) ELSE Fresh(t, ts)

\* The call goes on with the timestamp timeGen returned.
GotTime(t, ts) ==
    LET last == lastTimestamp[WorkerOf[t]]
    IN \/ ts < last /\ Leave({t}) /\ UNCHANGED <<workerVars, issued, top>>
       \/ ts = last /\ Same(t)
       \/ ts > last /\ Fresh(t, ts)

\* Mutant: the rest of the old millisecond gets the new timestamp.
NextMilliNew(t, ts) ==
    IF minSeq[t] > SeqMask
    THEN Fresh(t, ts)
    ELSE Take(t, RangeOf(t, ts, minSeq[t], SeqMask), ts, 0)

\* The next millisecond ts has come.  If the old one had counters left, the
\* call gets those, with the old timestamp.
NextMilli(t, ts) ==
    IF minSeq[t] > SeqMask
    THEN Fresh(t, ts)
    ELSE Take(t, RangeOf(t, lastTimestamp[WorkerOf[t]], minSeq[t], SeqMask), ts, 0)

-----------------------------------------------------------------------------
(* timeGen, on its own and in the loop of tilNextMillis.  A reading below   *)
(* the last timestamp is compared with time(NULL), which may lag behind by  *)
(* a tick, and put one second ahead if the seconds differ in their last     *)
(* digit.                                                                   *)

Fixed(r) ==
    {IF (r \div Sec) % 10 # s % 10 THEN r + Sec ELSE r :
        s \in {now \div Sec, (now - 1) \div Sec}}

ReadTime(t) ==
    /\ pc[t] = "time"
    /\ IF now < lastTimestamp[WorkerOf[t]]
       THEN /\ raw' = [raw EXCEPT ![t] = now]
            /\ Goto(t, "sec")
            /\ UNCHANGED <<workerVars, step, minSeq, sr, history>>
       ELSE GotTime(t, now)
    /\ UNCHANGED clockVars

ReadSec(t) ==
    /\ pc[t] = "sec"
    /\ \E ts \in Fixed(raw[t]) : GotTime(t, ts)
    /\ UNCHANGED clockVars

\* An iteration of tilNextMillis; one that sees the last timestamp changes
\* nothing.
Spin(t) ==
    /\ pc[t] = "spin"
    /\ now # lastTimestamp[WorkerOf[t]]
    /\ IF now < lastTimestamp[WorkerOf[t]]
       THEN /\ raw' = [raw EXCEPT ![t] = now]
            /\ Goto(t, "spinsec")
            /\ UNCHANGED <<workerVars, step, minSeq, sr, history>>
       ELSE NextMilli(t, now)
    /\ UNCHANGED clockVars

SpinSec(t) ==
    /\ pc[t] = "spinsec"
    /\ \E ts \in Fixed(raw[t]) :
           IF ts <= lastTimestamp[WorkerOf[t]]
           THEN /\ Goto(t, "spin")
                /\ UNCHANGED <<workerVars, step, raw, minSeq, sr, history>>
           ELSE NextMilli(t, ts)
    /\ UNCHANGED clockVars

\* getAndIncrement returns its range, and nextValue returns it to the client.
Return(t) ==
    LET w == WorkerOf[t] IN
    /\ pc[t] = "done"
    /\ issued' = issued \cup Ids(sr[t])
    /\ top' = [top EXCEPT ![w] = IF Below(@, Last(sr[t])) THEN Last(sr[t]) ELSE @]
    /\ Leave({t})
    /\ UNCHANGED <<clockVars, workerVars>>

-----------------------------------------------------------------------------
(* The environment.                                                         *)

Tick ==
    /\ now < MaxClock
    /\ now' = now + 1
    /\ UNCHANGED <<backs, crashes, dead, workerVars, callVars, history>>

\* The clock is set back.  If it is kept, never to where a dead process was.
SetBack ==
    /\ backs < MaxBacks
    /\ \E n \in 1 .. now - 1 :
          /\ ClockKept => \A w \in Workers : n > dead[w]
          /\ now' = n
    /\ backs' = backs + 1
    /\ UNCHANGED <<crashes, dead, workerVars, callVars, history>>

\* The process of worker w dies and is started again; what the worker knew is
\* lost.  If the clock is kept, the new process starts later than the last
\* timestamp of the old one.
Restart(w) ==
    /\ crashes < MaxCrash
    /\ lastTimestamp[w] > 0
    /\ ClockKept => now > lastTimestamp[w]
    /\ crashes' = crashes + 1
    /\ dead' = [dead EXCEPT ![w] = IF lastTimestamp[w] > @ THEN lastTimestamp[w] ELSE @]
    /\ lastTimestamp' = [lastTimestamp EXCEPT ![w] = 0]
    /\ sequence' = [sequence EXCEPT ![w] = 0]
    /\ Leave({t \in Threads : WorkerOf[t] = w})
    /\ UNCHANGED <<now, backs, issued, top>>

Next ==
    \/ \E t \in Threads :
          \/ \E n \in Steps : Call(t, n)
          \/ Lock(t) \/ ReadTime(t) \/ ReadSec(t) \/ Spin(t) \/ SpinSec(t)
          \/ Return(t)
    \/ \E w \in Workers : Restart(w)
    \/ Tick
    \/ SetBack

Spec == Init /\ [][Next]_vars

-----------------------------------------------------------------------------
(* Properties.                                                              *)

\* The triples that fit their bits.
IdSet == Nat \X (0 .. FieldMax) \X (0 .. SeqMask)

\* The shape of the state.
TypeOK ==
    /\ now \in Nat
    /\ backs \in Nat
    /\ crashes \in Nat
    /\ dead \in [Workers -> Nat]
    /\ lastTimestamp \in [Workers -> Nat]
    /\ sequence \in [Workers -> 0 .. Wrap - 1]
    /\ pc \in [Threads -> Held \cup {"idle", "lock", "done"}]
    /\ step \in [Threads -> 0 .. SeqMask]
    /\ raw \in [Threads -> Nat]
    /\ minSeq \in [Threads -> 0 .. Wrap - 1]
    /\ sr \in [Threads -> [ts : Nat, field : 0 .. FieldMax,
                           min : 0 .. Wrap - 1, max : 0 .. Wrap - 1]]
    /\ issued \subseteq IdSet
    /\ top \in [Workers -> Nat \X (0 .. Wrap - 1)]
    /\ floor \in [Threads -> Nat \X (0 .. Wrap - 1)]

\* No id is handed out twice in the whole system: what a call is about to
\* return nobody was given, and no other call is about to return.
NoDuplicateIds ==
    /\ \A t \in Threads : pc[t] = "done" => Ids(sr[t]) \cap issued = {}
    /\ \A t, u \in Threads :
          t # u /\ pc[t] = "done" /\ pc[u] = "done" => Ids(sr[t]) \cap Ids(sr[u]) = {}

\* The ids of a worker grow: a call that began after another one returned
\* gets larger ids, though the clock is set back or the process restarts.
Ordered ==
    \A t \in Threads : pc[t] = "done" =>
        floor[t] = <<0, 0>> \/ Below(floor[t], <<sr[t].ts, sr[t].min>>)

\* A call gets at least one id and at most as many as it asked for, all of
\* one millisecond and within the bits of the counter.
RangeFits ==
    \A t \in Threads : pc[t] = "done" =>
        /\ sr[t].min <= sr[t].max
        /\ sr[t].max <= SeqMask
        /\ sr[t].max - sr[t].min < step[t]

\* The range each call is going to return.
Granted == [t \in Threads |-> IF pc[t] = "done" THEN Ids(sr[t]) ELSE {}]

Abstract == INSTANCE UniqueRanges WITH Calls <- Threads, granted <- Granted

\* The workers implement UniqueRanges, the contract of the incrementing
\* sequences too: every call returns ids of its own, and keeps them from the
\* moment it releases the mutex.
GrantsUniqueRanges == Abstract!Spec
=============================================================================
