------------------------ MODULE DefaultSequenceWorker ------------------------
(***************************************************************************)
(* The incrementing sequences of the id service.  A SequenceServiceI       *)
(* answers nextValue(name, step) from a worker that owns a block of ids,   *)
(* the ids above `value' up to `max'.  The block is carved out of a row of *)
(* table t_sequence by the stored function seq_nextval_v2, which several   *)
(* services (the replicas, and the two services of one process) call       *)
(* concurrently.  One sequence name is modelled: names share nothing but   *)
(* the map that holds their workers.                                       *)
(*                                                                         *)
(* A thread is an Ice dispatch thread of one service; pc says where in     *)
(* nextValue it stands, and which locks it holds follows from pc:          *)
(*   find, build       about to take rangeLock for reading, for writing    *)
(*   cfg               getAlgorithmCfg, under rangeLock                    *)
(*   rlock, wlock      about to take the worker's lock                     *)
(*   radd, rinc        addAndIncrement under the read lock, before and     *)
(*                     after its first test                                *)
(*   wcheck, wadd      under the write lock                                *)
(*   conn .. reply     nextRange, under the write lock of the worker or,   *)
(*                     in the constructor, under rangeLock                 *)
(*   done              the range is computed and not yet returned          *)
(***************************************************************************)
EXTENDS Integers, FiniteSets

CONSTANTS
    Services,   \* the SequenceServiceI objects that serve the sequence
    Threads,    \* the Ice dispatch threads
    ServiceOf,  \* the service each thread belongs to
    Steps,      \* the steps clients ask for, a signed Ice::Int that nobody checks
    Inc,        \* column step of the row: the length of a block
    DbStart,    \* column value of the row when the first service starts
    DbTries,    \* the compare-and-set attempts of seq_nextval_v2 (100)
    RetryTimes, \* retryTimes of SequenceServiceI.cpp (5)
    Limit,      \* 0x7fffffffffffffff - DELTA: a block from here on is fatal
    DbMax,      \* the largest BIGINT
    Datacenter, \* datacenterId of the services, 0 if the sequence has no mask
    Datacenters,\* the ids the constructor accepts: 0..maxDatacenterId
    SequenceRange, \* 2^sequenceBits32 or 2^sequenceBits64
    MaxOrphans, \* bound: calls the database still runs for a client that left
    MaxNegative \* bound: calls with a negative step

ASSUME ConstantsAssumption ==
    /\ ServiceOf \in [Threads -> Services]
    /\ Steps \subseteq Int
    /\ Inc \in Nat \ {0}
    /\ DbStart \in Int
    /\ DbTries \in Nat \ {0}
    /\ RetryTimes \in Nat
    /\ Limit \in Int
    /\ DbMax \in Int
    /\ MaxOrphans \in Nat

\* The constructor accepts only the ids of Datacenters.
ASSUME LayoutAssumption ==
    /\ MaxNegative \in Nat
    /\ Datacenters \subseteq Nat
    /\ Datacenter \in Datacenters
    /\ SequenceRange \in Nat \ {0}

VARIABLES
    db,      \* t_sequence.value
    orphans, \* how many calls of seq_nextval_v2 run on without a client
    ready,   \* whether the service's rangeMap holds the worker
    value,   \* the worker's value: the last id taken from its block
    max,     \* the worker's max: the last id of its block
    pc,      \* where each thread is
    step,    \* the argument of the thread's nextValue
    attempt, \* the iterations of nextValue's retry loop that failed
    tries,   \* i of seq_nextval_v2
    rd,      \* val - inc of seq_nextval_v2: the value it selected
    nv,      \* newValue of nextRange: what seq_nextval_v2 answered
    sr,      \* the range nextValue is about to return
    issued,  \* history: every id returned to a client
    last,    \* history: the largest id each service returned
    floor,   \* history: last of the thread's service when its call began
    clean,   \* history: no call failed and no service crashed so far
    back     \* history: how many calls asked for a negative step

dbVars     == <<db, orphans>>
workerVars == <<ready, value, max>>
callVars   == <<pc, step, attempt, tries, rd, nv, sr>>
history    == <<issued, last, floor, clean, back>>
vars       == <<dbVars, workerVars, callVars, history>>

-----------------------------------------------------------------------------
(* Locks.  A lock is held by the threads whose pc says so.                  *)

Fetch     == {"cfg", "conn", "select", "update", "reply"}
WriteHeld == Fetch \cup {"wcheck", "wadd"}

\* Mutant: the read lock is kept while the write lock is asked for.
ReadHeldToWLock == {"radd", "rinc", "wlock"}

ReadHeld == {"radd", "rinc"}

PCs       == {"idle", "find", "build", "rlock", "wlock", "done"}
             \cup WriteHeld \cup ReadHeld

Of(s) == {t \in Threads : ServiceOf[t] = s}

\* rangeLock is held over an action only by the thread that builds the worker.
RangeLocked(s) == ~ready[s] /\ \E t \in Of(s) : pc[t] \in Fetch

\* No thread holds the worker's lock for writing.
NoWriter(s) == \A t \in Of(s) : pc[t] \notin WriteHeld

\* No thread holds the worker's lock at all.
NoHolder(s) == \A t \in Of(s) : pc[t] \notin WriteHeld \cup ReadHeld

Goto(t, l) == pc' = [pc EXCEPT ![t] = l]

-----------------------------------------------------------------------------
(* addAndIncrement on a block (v, m], as its fetch-and-add finds it.        *)

\* Mutant: the last, partial range of a block is not handed out.
ServedWholeOnly(v, m, n) == v + n <= m

\* It returns 0: the whole range fits, or something of it does.
Served(v, m, n) == v + n <= m \/ v < m

\* Mutant: the range starts at the last id taken.
RangeFromValue(v, m, n) == [min |-> v, max |-> IF v + n <= m THEN v + n ELSE m]

Range(v, m, n) == [min |-> v + 1, max |-> IF v + n <= m THEN v + n ELSE m]

Ids(r) == r.min .. r.max

NoRange == [min |-> 0, max |-> 0]

-----------------------------------------------------------------------------
(* The datacenter id above the bits of the sequence.                        *)

Bit(n, i) == (n \div 2^i) % 2 = 1

\* Bitwise or of natural numbers; a = 0 is the usual case, a value that fits.
Or(a, b) ==
    IF a = 0 THEN b
    ELSE CHOOSE n \in 0 .. a + b :
             \A i \in 0 .. a + b : Bit(n, i) <=> (Bit(a, i) \/ Bit(b, i))

\* Mutant: the datacenter id is shifted one bit less.
MaskedLow(d, x) ==
    LET R == SequenceRange \div 2 IN (x % R) + R * Or(x \div R, d)

\* datacenterIdMask | x, for the mask of datacenter d.
Masked(d, x) ==
    (x % SequenceRange) + SequenceRange * Or(x \div SequenceRange, d)

\* The ids a client reads from the range it is given.
ClientIds(r) == Masked(Datacenter, r.min) .. Masked(Datacenter, r.max)

-----------------------------------------------------------------------------
Init ==
    /\ db = DbStart
    /\ orphans = 0
    /\ ready = [s \in Services |-> FALSE]
    /\ value = [s \in Services |-> 0]
    /\ max = [s \in Services |-> 0]
    /\ pc = [t \in Threads |-> "idle"]
    /\ step = [t \in Threads |-> 0]
    /\ attempt = [t \in Threads |-> 0]
    /\ tries = [t \in Threads |-> 0]
    /\ rd = [t \in Threads |-> 0]
    /\ nv = [t \in Threads |-> 0]
    /\ sr = [t \in Threads |-> NoRange]
    /\ issued = {}
    /\ last = [s \in Services |-> DbStart]
    /\ floor = [t \in Threads |-> DbStart]
    /\ clean = TRUE
    /\ back = 0

\* The threads T leave nextValue: their locks are released and their locals gone.
Leave(T) ==
    /\ pc' = [t \in Threads |-> IF t \in T THEN "idle" ELSE pc[t]]
    /\ step' = [t \in Threads |-> IF t \in T THEN 0 ELSE step[t]]
    /\ attempt' = [t \in Threads |-> IF t \in T THEN 0 ELSE attempt[t]]
    /\ tries' = [t \in Threads |-> IF t \in T THEN 0 ELSE tries[t]]
    /\ rd' = [t \in Threads |-> IF t \in T THEN 0 ELSE rd[t]]
    /\ nv' = [t \in Threads |-> IF t \in T THEN 0 ELSE nv[t]]
    /\ sr' = [t \in Threads |-> IF t \in T THEN NoRange ELSE sr[t]]
    /\ floor' = [t \in Threads |-> IF t \in T THEN DbStart ELSE floor[t]]

\* nextValue ends with an exception.
Throw(t) ==
    /\ Leave({t})
    /\ clean' = FALSE
    /\ UNCHANGED <<issued, last, back>>

\* The process of service s dies: its worker and its threads are gone.  Another
\* service of the process dies in a step of its own.
Down(s) ==
    /\ ready' = [ready EXCEPT ![s] = FALSE]
    /\ value' = [value EXCEPT ![s] = 0]
    /\ max' = [max EXCEPT ![s] = 0]
    /\ Leave(Of(s))
    /\ clean' = FALSE
    /\ UNCHANGED <<issued, last, back>>

-----------------------------------------------------------------------------
(* nextValue, up to the loop: find the worker or build it.                  *)

\* A client's request is dispatched.  A negative step is accepted like any other;
\* it moves the worker's value back.
Call(t, n) ==
    /\ pc[t] = "idle"
    /\ n < 0 => back < MaxNegative
    /\ back' = IF n < 0 THEN back + 1 ELSE back
    /\ Goto(t, "find")
    /\ step' = [step EXCEPT ![t] = n]
    /\ floor' = [floor EXCEPT ![t] = last[ServiceOf[t]]]
    /\ UNCHANGED <<dbVars, workerVars, attempt, tries, rd, nv, sr>>
    /\ UNCHANGED <<issued, last, clean>>

\* The lookup in rangeMap under the read lock of rangeLock.
Find(t) ==
    /\ pc[t] = "find"
    /\ ~RangeLocked(ServiceOf[t])
    /\ Goto(t, IF ready[ServiceOf[t]] THEN "rlock" ELSE "build")
    /\ UNCHANGED <<dbVars, workerVars, step, attempt, tries, rd, nv, sr, history>>

\* The write lock of rangeLock is taken and the lookup repeated.
Build(t) ==
    /\ pc[t] = "build"
    /\ ~RangeLocked(ServiceOf[t])
    /\ Goto(t, IF ready[ServiceOf[t]] THEN "rlock" ELSE "cfg")
    /\ UNCHANGED <<dbVars, workerVars, step, attempt, tries, rd, nv, sr, history>>

\* getAlgorithmCfg answers, and the constructor runs up to nextRange.
ReadCfg(t) ==
    /\ pc[t] = "cfg"
    /\ Goto(t, "conn")
    /\ UNCHANGED <<dbVars, workerVars, step, attempt, tries, rd, nv, sr, history>>

-----------------------------------------------------------------------------
(* nextRange: a connection, the call of seq_nextval_v2, its answer.         *)

Connect(t) ==
    /\ pc[t] = "conn"
    /\ Goto(t, "select")
    /\ UNCHANGED <<dbVars, workerVars, step, attempt, tries, rd, nv, sr, history>>

\* No connection, or an error of the query for the configuration.
Refused(t) ==
    /\ pc[t] \in {"cfg", "conn"}
    /\ Throw(t)
    /\ UNCHANGED <<dbVars, workerVars>>

\* seq_nextval_v2 selects the row.  A second iteration sees the row as it is
\* now or, in a repeatable-read transaction, as the first one saw it.  The sum
\* VALUE + step is an SQL error beyond the range of BIGINT.
Select(t) ==
    /\ pc[t] = "select"
    /\ \E v \in {db} \cup (IF tries[t] > 0 THEN {rd[t]} ELSE {}) :
           IF v + Inc <= DbMax
           THEN /\ rd' = [rd EXCEPT ![t] = v]
                /\ Goto(t, "update")
                /\ UNCHANGED <<step, attempt, tries, nv, sr, history>>
           ELSE Throw(t)
    /\ UNCHANGED <<dbVars, workerVars>>

\* Mutant: the loop of seq_nextval_v2 runs once too often.
AgainTooOften(i) == i <= DbTries

\* The condition of its loop.
Again(i) == i < DbTries

\* Mutant: the update does not test that the row is as it was selected.
UpdateBlind(t) ==
    /\ pc[t] = "update"
    /\ db' = rd[t] + Inc
    /\ nv' = [nv EXCEPT ![t] = rd[t]]
    /\ Goto(t, "reply")
    /\ UNCHANGED <<orphans, workerVars, step, attempt, tries, rd, sr, history>>

\* The compare-and-set of the row.  It commits with the function; after
\* DbTries failures the function answers -1.
Update(t) ==
    /\ pc[t] = "update"
    /\ \/ /\ db = rd[t]
          /\ db' = rd[t] + Inc
          /\ nv' = [nv EXCEPT ![t] = rd[t]]
          /\ Goto(t, "reply")
          /\ UNCHANGED tries
       \/ /\ db # rd[t]
          /\ tries' = [tries EXCEPT ![t] = @ + 1]
          /\ IF Again(tries[t] + 1)
             THEN Goto(t, "select") /\ UNCHANGED nv
             ELSE Goto(t, "reply") /\ nv' = [nv EXCEPT ![t] = -1]
          /\ UNCHANGED db
    /\ UNCHANGED <<orphans, workerVars, step, attempt, rd, sr, history>>

\* An SQLException: the database fails, the connection breaks or its read
\* timeout passes.  If the function still
\* ran, the database may finish it after the client left; if it had
\* committed, its block is lost.
SqlError(t) ==
    /\ pc[t] \in {"select", "update", "reply"}
    /\ orphans' \in {orphans} \cup
          (IF pc[t] # "reply" /\ orphans < MaxOrphans THEN {orphans + 1} ELSE {})
    /\ Throw(t)
    /\ UNCHANGED <<db, workerVars>>

\* A call without a client ends: its compare-and-set succeeds or it gives up.
Orphan ==
    /\ orphans > 0
    /\ orphans' = orphans - 1
    /\ db' \in {db} \cup (IF db + Inc <= DbMax THEN {db + Inc} ELSE {})
    /\ UNCHANGED <<workerVars, callVars, history>>

\* Mutant: the block starts one id early.
AcceptEarly(t) ==
    LET s == ServiceOf[t] IN
    /\ value' = [value EXCEPT ![s] = nv[t] - 1]
    /\ max' = [max EXCEPT ![s] = nv[t] + Inc]
    /\ ready' = [ready EXCEPT ![s] = TRUE]
    /\ Goto(t, IF ready[s] THEN "wadd" ELSE "rlock")
    /\ tries' = [tries EXCEPT ![t] = 0]
    /\ rd' = [rd EXCEPT ![t] = 0]
    /\ nv' = [nv EXCEPT ![t] = 0]
    /\ UNCHANGED <<step, attempt, sr, history>>

\* The block becomes the worker's.  In the constructor the worker then enters
\* rangeMap and rangeLock is released; else the write lock is kept.
Accept(t) ==
    LET s == ServiceOf[t] IN
    /\ value' = [value EXCEPT ![s] = nv[t]]
    /\ max' = [max EXCEPT ![s] = nv[t] + Inc]
    /\ ready' = [ready EXCEPT ![s] = TRUE]
    /\ Goto(t, IF ready[s] THEN "wadd" ELSE "rlock")
    /\ tries' = [tries EXCEPT ![t] = 0]
    /\ rd' = [rd EXCEPT ![t] = 0]
    /\ nv' = [nv EXCEPT ![t] = 0]
    /\ UNCHANGED <<step, attempt, sr, history>>

\* The answer of seq_nextval_v2: -1 and 0 are refused, a value near the end of
\* the range aborts the process (LOG(FATAL)), any other value is a block.
Reply(t) ==
    /\ pc[t] = "reply"
    /\ \/ nv[t] \in {-1, 0} /\ Throw(t) /\ UNCHANGED workerVars
       \/ nv[t] \notin {-1, 0} /\ nv[t] < Limit /\ Accept(t)
       \/ nv[t] \notin {-1, 0} /\ nv[t] >= Limit /\ Down(ServiceOf[t])
    /\ UNCHANGED dbVars

-----------------------------------------------------------------------------
(* getAndIncrement.                                                         *)

RLock(t) ==
    /\ pc[t] = "rlock"
    /\ NoWriter(ServiceOf[t])
    /\ Goto(t, "radd")
    /\ UNCHANGED <<dbVars, workerVars, step, attempt, tries, rd, nv, sr, history>>

\* The first test of addAndIncrement under the read lock.
RCheck(t) ==
    /\ pc[t] = "radd"
    /\ Goto(t, IF value[ServiceOf[t]] >= max[ServiceOf[t]] THEN "wlock" ELSE "rinc")
    /\ UNCHANGED <<dbVars, workerVars, step, attempt, tries, rd, nv, sr, history>>

\* Its fetch-and-add, and the range that yields.  Other readers may have moved
\* value since the test.
RInc(t) ==
    LET s == ServiceOf[t] IN
    /\ pc[t] = "rinc"
    /\ value' = [value EXCEPT ![s] = @ + step[t]]
    /\ IF Served(value[s], max[s], step[t])
       THEN /\ sr' = [sr EXCEPT ![t] = Range(value[s], max[s], step[t])]
            /\ Goto(t, "done")
       ELSE Goto(t, "wlock") /\ UNCHANGED sr
    /\ UNCHANGED <<dbVars, ready, max, step, attempt, tries, rd, nv, history>>

WLock(t) ==
    /\ pc[t] = "wlock"
    /\ NoHolder(ServiceOf[t])
    /\ Goto(t, "wcheck")
    /\ UNCHANGED <<dbVars, workerVars, step, attempt, tries, rd, nv, sr, history>>

\* Mutant: a used up block is not replaced.
WCheckNever(t) ==
    /\ pc[t] = "wcheck"
    /\ Goto(t, "wadd")
    /\ UNCHANGED <<dbVars, workerVars, step, attempt, tries, rd, nv, sr, history>>

\* Under the write lock: another thread may have fetched a block meanwhile.
WCheck(t) ==
    /\ pc[t] = "wcheck"
    /\ Goto(t, IF value[ServiceOf[t]] >= max[ServiceOf[t]] THEN "conn" ELSE "wadd")
    /\ UNCHANGED <<dbVars, workerVars, step, attempt, tries, rd, nv, sr, history>>

\* addAndIncrement under the write lock.  If it fails, nextValue's loop runs
\* getAndIncrement again, and throws after RetryTimes retries.
WAdd(t) ==
    LET s == ServiceOf[t]
        left == value[s] < max[s] IN
    /\ pc[t] = "wadd"
    /\ value' = IF left THEN [value EXCEPT ![s] = @ + step[t]] ELSE value
    /\ IF left /\ Served(value[s], max[s], step[t])
       THEN /\ sr' = [sr EXCEPT ![t] = Range(value[s], max[s], step[t])]
            /\ Goto(t, "done")
            /\ UNCHANGED <<step, attempt, tries, rd, nv, history>>
       ELSE IF attempt[t] < RetryTimes
       THEN /\ Goto(t, "rlock")
            /\ attempt' = [attempt EXCEPT ![t] = @ + 1]
            /\ UNCHANGED <<step, tries, rd, nv, sr, history>>
       ELSE Throw(t)
    /\ UNCHANGED <<dbVars, ready, max>>

-----------------------------------------------------------------------------
\* nextValue returns its range to the client.
Return(t) ==
    LET s == ServiceOf[t] IN
    /\ pc[t] = "done"
    /\ issued' = issued \cup Ids(sr[t])
    /\ last' = [last EXCEPT ![s] =
                   IF Ids(sr[t]) # {} /\ sr[t].max > @ THEN sr[t].max ELSE @]
    /\ Leave({t})
    /\ UNCHANGED <<dbVars, workerVars, clean, back>>

\* The process of service s is killed, and may be started again at once.  A
\* call of seq_nextval_v2 it was waiting for may run on.
Crash(s) ==
    /\ ready[s] \/ \E t \in Of(s) : pc[t] # "idle"
    /\ orphans' \in {orphans} \cup
          (IF orphans < MaxOrphans /\ \E t \in Of(s) : pc[t] \in {"select", "update"}
           THEN {orphans + 1} ELSE {})
    /\ Down(s)
    /\ UNCHANGED db

\* What a thread does by itself once it has a request.
Proceed(t) ==
    \/ Find(t) \/ Build(t) \/ ReadCfg(t) \/ Connect(t)
    \/ Select(t) \/ Update(t) \/ Reply(t)
    \/ RLock(t) \/ RCheck(t) \/ RInc(t) \/ WLock(t) \/ WCheck(t) \/ WAdd(t)
    \/ Return(t)

Fail(t) == Refused(t) \/ SqlError(t)

Next ==
    \/ \E t \in Threads : Proceed(t) \/ Fail(t) \/ \E n \in Steps : Call(t, n)
    \/ \E s \in Services : Crash(s)
    \/ Orphan

Spec == Init /\ [][Next]_vars

\* The scheduler runs every thread that can run, and a thread that waits for a
\* lock that is free again and again gets it.
Fairness ==
    \A t \in Threads :
        WF_vars(Proceed(t)) /\ SF_vars(WLock(t)) /\ SF_vars(RLock(t)) /\ SF_vars(Find(t) \/ Build(t))

LiveSpec == Spec /\ Fairness

-----------------------------------------------------------------------------
(* Properties.                                                              *)

\* The shape of the row, the workers and the history, and of the calls.
StoreTypeOK ==
    /\ db \in Int
    /\ orphans \in Nat
    /\ ready \in [Services -> BOOLEAN]
    /\ value \in [Services -> Int]
    /\ max \in [Services -> Int]
    /\ issued \subseteq Int
    /\ last \in [Services -> Int]
    /\ clean \in BOOLEAN
    /\ back \in Nat

CallTypeOK ==
    /\ pc \in [Threads -> PCs]
    /\ step \in [Threads -> Int]
    /\ attempt \in [Threads -> 0 .. RetryTimes]
    /\ tries \in [Threads -> 0 .. DbTries]
    /\ rd \in [Threads -> Int]
    /\ nv \in [Threads -> Int]
    /\ sr \in [Threads -> [min : Int, max : Int]]
    /\ floor \in [Threads -> Int]

TypeOK == StoreTypeOK /\ CallTypeOK

\* The ids a thread alone may use next: a block on its way from the database,
\* or the range it is about to return.
Own(t) ==
    CASE pc[t] = "reply" /\ nv[t] # -1 -> nv[t] + 1 .. nv[t] + Inc
      [] pc[t] = "done" -> Ids(sr[t])
      [] OTHER -> {}

\* The ids left in the block of a service.
Left(s) == value[s] + 1 .. max[s]

\* As long as nobody asks for a negative step, no id is handed out twice, by one
\* service or by two, across races for a block, timeouts, retries and restarts
\* (getAndIncrement, nextRange): what a call is about to return was never
\* returned, and no other call, block or answer on its way holds it.  A negative
\* step moves the worker's value back (addAndIncrement), and the ids from there
\* on are handed out again.
NoDuplicateIds ==
    back = 0 =>
        /\ \A t \in Threads : Own(t) \cap issued = {}
        /\ \A s \in Services : Left(s) \cap issued = {}
        /\ \A t, u \in Threads : t # u => Own(t) \cap Own(u) = {}
        /\ \A s, r \in Services : s # r => Left(s) \cap Left(r) = {}
        /\ \A t \in Threads, s \in Services : Own(t) \cap Left(s) = {}

\* The ids of one service grow: a call that began after another call of the
\* service returned gets only larger ids, restarts included, as long as nobody
\* asks for a negative step.
Ordered ==
    back = 0 =>
        \A t \in Threads : pc[t] = "done" => \A x \in Ids(sr[t]) : x > floor[t]

\* Until some call fails, no id is skipped, whatever the steps: all that the row
\* has given away is returned, held by a call, or left in a block (the partial
\* range at the end of a block, addAndIncrement's second case, is what this
\* rests on, and that the block a thread replaces cannot be refilled by a step
\* back meanwhile).
NoGaps ==
    clean => DbStart + 1 .. db \subseteq
                 issued \cup (UNION {Own(t) : t \in Threads})
                        \cup (UNION {Left(s) : s \in Services})

\* Both ends are below the datacenter's bits, which the code does not check.
Fits(r) == {r.min, r.max} \subseteq 0 .. SequenceRange-1

\* With the datacenter id or-ed into both ends of a range, clients still get
\* ids of their own: as long as values stay below the datacenter's bits, which
\* nothing in the code sees to, and no step is negative, the ids from the first
\* to the last of a range are apart from those of all other calls, past and
\* current, and from what any other datacenter gives from a row of its own.
DistinctForClients ==
    \A t \in Threads : back = 0 /\ pc[t] = "done" /\ Fits(sr[t]) =>
        /\ \A x \in issued \cap (0 .. SequenceRange-1) :
               Masked(Datacenter, x) \notin ClientIds(sr[t])
        /\ \A u \in Threads \ {t} : pc[u] = "done" /\ Fits(sr[u]) =>
               ClientIds(sr[t]) \cap ClientIds(sr[u]) = {}
        /\ \A d \in Datacenters \ {Datacenter}, x \in 0 .. SequenceRange-1 :
               Masked(d, x) \notin ClientIds(sr[t])

\* The range each call is going to return.
Granted == [t \in Threads |-> IF pc[t] = "done" THEN Ids(sr[t]) ELSE {}]

Abstract == INSTANCE UniqueRanges WITH Calls <- Threads, IdSet <- Int, granted <- Granted

\* What a step is to UniqueRanges, until somebody asks for a negative step.
GrantStep == back' = 0 => [Abstract!Next]_(Abstract!vars)

\* The service implements UniqueRanges as long as nobody asks for a negative
\* step: every call returns ids of its own (nextValue, getAndIncrement).
GrantsUniqueRanges == Abstract!Init /\ [][GrantStep]_vars

\* Each request is answered, with a range or with an exception.
CallsComplete == \A t \in Threads : pc[t] # "idle" ~> pc[t] = "idle"
====
