# TLA+ models of the DevTools id service and supervisor

The repository is a collection of tools. Most of it is vendored (glog, wrk,
tpcc-mysql, Detours, zkclient) or example code. Its own core is the id service
`src/app/sequence`, an Ice service that hands out ranges of unique ids, from a
MySQL table or from the clock, with the election that decides which process
answers for ordered ids; the client side of its sessions; and the supervisor
`src/app/daemon`, which keeps a Java service running. These modules model
those, check them with TLC and prove with TLAPS, for instances of any size, that
ids are unique, ordered and not skipped, that connections and leadership have
one owner, that the supervisor doubles no process, and that its hash map gives
back what was put in.

## The system

| component | state | operations | talks to |
|---|---|---|---|
| incrementing sequences (`SequenceServiceI`, `DefaultSequenceWorker`, stored function `seq_nextval_v2`) | row `t_sequence.value`; per service a map of workers; per worker a block `(value, max]` | `nextValue`, `getAndIncrement`, `addAndIncrement`, `nextRange` | MySQL through the pool; clients through Ice threads |
| snowflake sequences (`SnowflakeIdWorker`) | per worker the last timestamp and counter, in memory | `getAndIncrement`, `timeGen`, `tilNextMillis` | the wall clock |
| connection pool (`MySQLDBPool`) | queue of idle connections, count of used ones, run flag | `GetConnection`, `FreeConnection`, `CheckConnection`, `ReleaseAll` | MySQL; a detached maintenance thread |
| leader election (`OrderSequenceAdapter`, `zookeeper_helper`) | ephemeral node, `isregister` | watch events, periodic test, register, unregister | ZooKeeper, the Ice adapter |
| IceBox service | adapters | `start`, `stop` | all of the above |
| session client (`IceExtClientUtil`) | session, `_initialized` | connect, ping, destroy | a Glacier2 router |
| JVM supervisor (`daemon.cpp`, `LibC`) | pids and status in shared memory | fork, signal handlers, health check | the processes it watches |
| the daemon's `hashmap.c` | a table of slots, its size | put, get, remove, copy into a larger table | its caller |
| `Toolkits`, loggers, hooks, tracing | | | |

What is hard in it: readers that share a block through an atomic add while
others want to replace it; services that race for one database row, with
timeouts after which the database may still commit; crashes that lose a
half-used block; a wall clock that is set back; a pool whose connections are in
the hands of users and of a maintenance thread at once; leadership that is lost
without notice; signal handlers that share pids with the main loop. What must
hold: ids are unique over the whole system and grow per service; calls end;
connections have one owner and obey the configured limits; at most one leader
serves; a supervised process is restarted and never doubled. PROJECT.json lists
each hazard at its line.

## Modules

`UniqueRanges` is the abstract specification of an id service: a call is
granted ids nobody else was or is granted, and returns them or is lost. Both
kinds of sequences implement it.

`DefaultSequenceWorker` models the incrementing sequences for one sequence name
(names share only the map of workers).

* The row is `db`. A service's worker is `ready`, `value`, `max`. A thread has
  the locals of `nextValue` and the functions it calls, and `pc` says where it
  stands; the locks it holds follow from `pc`.
* `Call`, `Find`, `Build`, `ReadCfg` are `nextValue` up to its loop. `Connect`,
  `Refused`, `Select`, `Update`, `SqlError`, `Reply` are `nextRange` and the
  body of `seq_nextval_v2`, statement by statement. `RLock`, `RCheck`, `RInc`
  are `addAndIncrement` under the read lock, the test and the fetch-and-add
  apart. `WLock`, `WCheck`, `WAdd` are the write path and the retry loop.
* The environment: `Orphan` (a call that the database finishes though its
  client has left after a timeout or a crash) and `Crash`.
* A retried `Select` may see the row as the first one saw it (repeatable read)
  or as it is now, so the model covers both isolation levels.
* `Masked` is the datacenter id that `getAndIncrement` ors into both ends of a
  range, and `ClientIds` the ids a client then reads from it. `issued` keeps the
  values without the mask. A sequence without one is datacenter 0.
* The column `step` does not change while services run.
* The step a client asks for is a signed `Ice::Int` that nobody checks. A
  negative one moves the worker's value back, and the ids from there on are
  handed out again. `back` counts such calls, up to the bound `MaxNegative`;
  what is said of uniqueness and order is said of the time before the first of
  them.

`SnowflakeIdWorker` models the time-based sequences. An id is the triple of
timestamp, worker field and counter, in the order of the packed bits. `Call`
and `Lock` enter; `ReadTime` and `ReadSec` are the two clock readings of
`timeGen`; `Spin` and `SpinSec` are those of `tilNextMillis`; `Fresh`, `Same`
and `NextMilli` are the branches that choose a range. Unsigned arithmetic wraps
at `Wrap`. `Ids` says which ids a returned range covers when the counter
overflows its bits. `Tick`, `SetBack` and `Restart` are the environment;
`ClockKept` says whether a process starts only after its predecessor's last
timestamp.

`MySQLDBPool` models the pool of one database, with users that take (`Ask`,
`Take`, `Grow`, `Fail`), use and return (`Finish`, `Release`, `Released`)
connections, the maintenance thread (`CheckIdle`, `CloseIdle`, `CheckExpired`,
`Probe`, `Probed`, `Dropped`) and `Stop`. What the code does under the mutex
is one action, and the tests of `runing` and `isErr` before the mutex are
steps apart. A connection is closed without the mutex (`CloseIdle`, `Release`,
`Probed`), and the count follows in a step of its own (`Released`, `Dropped`).
Time is the set `old` of idle connections that look expired. After `Stop` the
code frees the pool while the detached thread may be in it; the model keeps
the memory. The header declares `FreeConnection` and `ReleaseConnect` with a
second, defaulted parameter that the definitions lack; the definitions are
what is modelled.

`OrderSequenceAdapter` models the election. A process is a record `proc[p]`:
whether it is registered, the node it knows as its own, its handles, the
helper's lists and flags, where its election thread stands (`thread`) and what
the completion thread that holds the helper's lock does (`watcher`).

* `Connect`, `AddNode`, `AddEvent`, `TestRead`, `TestAct` are
  `start_leader_election` and `test_event`. `Recreate`, `Connected`,
  `ChildEvent`, `Expired`, `Act` are `watcher` with the callbacks it makes. The
  children are read in one step and acted on in another. `create_node` and
  `FailedCreations` say what a creation can come to, and `Exit` is the `exit(0)`
  of a leader that finds itself second.
* ZooKeeper is external: sessions, ephemeral nodes, one-shot watches, events
  still to be delivered. A call of a process in `Faulty` fails with its effect
  or without it.
* `lost` is auxiliary: a session of the process ended after it found itself
  first. In that time, and only then, two processes may be registered.
* Timing. `Reap` ends the session of a dead process at any time, also between
  the moment another process reads the children and the moment it acts on them;
  `late` counts those, up to the bound `MaxLate`. Without a bound no leader need
  ever be found: each time a list outlives a node on it, the process that found
  itself second on it exits (line 183), leaves a session behind, and the next
  reader meets the end of that one.
* A failed `add_zookeeper_event` makes the election thread open another handle
  and leave the old one open; `MaxHandles` bounds that.

`Daemon` models the supervisor with a master. `Loop` to `End` are the main
loop of `main`, with `forkMaster` and `forkWork` cut between the fork and the
recording of the pid. A fork that fails ends the daemon (`ForkFails`). The
worker's pid is recorded in shared memory and in `wpid` in two steps
(`RecordWorker`, `SetWorker`); the master's two assignments are one
(`SetMaster`), as no handler reads its pid in shared memory. `ReapMaster`,
`ReapWorker`, `ReapOther` and `Waited` are `sigchld_handler`, which blocks in
`waitpid` for the worker; SIGTERM interrupts it there. `Late` is the part of
`sigterm_handler` that kills. The children die, hang or notify at any time;
`Command` to `Return` are the `-s` commands and the start. Pids are small
numbers, not used again while the daemon remembers them. What the module shows
beside its properties: a child that dies before its pid is recorded is reaped
unnoticed and never replaced (`missed`); a worker may run with no master, and
a master that dies before its notice, with no other child to reap, leaves the
daemon waiting (`Abandoned`); a master that dies with no worker recorded makes
the daemon signal its whole group, itself included, and shut down.

`HashMap` models the map for any hash function, chosen in `Init`. Nothing else
in the repository calls `hashmap.c`, so a client may make any call.
`hashmap_put` and `_hashmap_rehash` call each other in the code, so that a
copy may need a larger copy half-way. `calls` is the stack of the puts under
way, and a step is one iteration of a loop: `Store`, `KeyUsed`, `Rehash` and
`OutOfMemory` are what the innermost put comes to, `CopyNext` is the next slot
of the copy it runs. `content` is what a client put in and did not remove. Two
things make lookups differ from it, both reached by the run and recorded in
`tainted`: a put of a present key that sits behind a freed slot stores it
twice (hashmap.h:11 says "Key already existed"), after which a copy stops at
the duplicate and loses the rest; and a nested copy without memory loses what
it had not moved.

`Glacier2Communicator` models the session thread (`Begin` to `Sleep`, the
method `run` with `createSession`), the callers of `stringToProxy`, and the
destructor, which takes no lock. The mutex is held by the thread over its remote
calls (`LockFree`); a caller's work under it is one step. The router, with the
repository's session server behind it, is up, down or refuses. The object's
memory stays readable after the destructor; in the code it is freed while the
thread may still sleep. The destructor may come before `run` has set `runing`;
the assignment then undoes the destructor's, and the thread goes on for ever.
`ThreadEnds` is about the other order.

The `MC*` modules give the constants their values. An operator whose comment
begins with "Mutant" is a plausible bug that a run's property catches, as listed
in PROJECT.json; no specification uses it.

## Runs

| run | expectation | what it shows |
|---|---|---|
| `ids_unique` | pass | `TypeOK`, and as long as nobody asks for a negative step: `NoDuplicateIds`: returned, held, fetched and left ids are disjoint; `Ordered`: a later call of a service gets larger ids, also after crashes; `DistinctForClients`: under the datacenter mask, too, clients get ids of their own while values fit; `GrantsUniqueRanges`: the worker implements `UniqueRanges`. `NoGaps`: without failures every id the row gave away is accounted for |
| `ids_live` | pass | also when a client asks for a negative step: `NoGaps`, and `CallsComplete`: every call ends |
| `snowflake` | pass | `TypeOK`, `NoDuplicateIds`, `Ordered`, `RangeFits`, `GrantsUniqueRanges` for one worker whose clock is set back and that restarts later than its last timestamp |
| `snowflake_shared` | violation | the two services of a process share a worker id and give equal ids |
| `pool` | pass | `TypeOK`; `OneOwner`: an open connection is in one place; `NoBrokenIdle`: one with an error is not reused; `NeverOvercounted`: the pool refuses only with more than the maximum in use |
| `pool_max` | violation | more connections are open than the configured maximum |
| `election` | pass | `TypeOK`; `OneLeader`: two are registered only while one of them has lost a session; `SettlesOnOne`: after the faults at most one stays registered; `LeaderElected`: one does, unless a process keeps for ever a node it does not know as its own, or some thread is always between its read and its act |
| `election_reconnect` | violation | a process whose session expired dies while it makes its node again |
| `daemon` | pass | `TypeOK`; `OneWorker`, `OneMaster`: never two workers or two masters; `WorkerReplaced`: a dead worker is replaced, or the daemon stops or cannot fork, with the two exceptions above; `StopCompletes`: stop returns, also with a hung worker |
| `daemon_restart` | violation | restart stops the daemon and is refused by its pid file |
| `hashmap` | pass | `TypeOK`, with an exact size; `Agrees`: lookups give what was put in, once, through nested copies; the exceptions are `tainted`; `CopiesComplete`: no copy ends at a key that is there already, which `hashmap_put` would not notice |
| `session` | pass | `TypeOK`; `ProxyOverPingedSession`; `CallsReturn`; `SessionRestored`: a lost session is made again once callers pause; `ThreadEnds`: the thread ends after a destructor that came after `runing` was set |

Seen in the models and not a run of their own: a negative step
(SequenceServiceI.cpp:76) makes the incrementing sequences give ids again, as
the fetch-and-add at DefaultSequenceWorker.cpp:167 moves `value` back. With
value 100 and a step of -50 the ids 51 to 100 are given a second time. Without
the premise `back = 0` TLC finds `NoDuplicateIds` violated in the instance of
`ids_live`. The comment at SequenceServiceI.cpp:131, "如失败则进行重试", says that a
failed request for a new range is retried; in the code the exception of
`nextRange` leaves the loop and the call fails (`Refused`, `SqlError`). What
the loop would retry, a block used up again before the second
`addAndIncrement`, cannot happen under the write lock (`Ample`). With
`ClockKept` FALSE a snowflake worker that restarts after its clock was set
back repeats ids; a step of 0 passes its validation and returns a range over
other calls' ids; an incrementing value that outgrows its bits, which nothing
checks, gives ids of another datacenter (`Fits` excludes it; the comment in
SequenceServiceI.h counts 27 bits where the code has 26); a clock reading
below the last timestamp is not always refused, because `timeGen` may put it a
second ahead.

Bounds. `ids_unique` has two services, one with two threads, so that threads
race within a service and services race for the row; blocks of three ids and
steps of two, so that every block ends in a partial range; two compare-and-set
attempts; and rows from 4 to 13 with the fatal limit at 10, so that three
blocks, the abort and the SQL overflow all occur. Values from 8 on do not fit
below the datacenter id. `MaxNegative` is 0 there, and 1 in `ids_live`, which
has two threads of one service, steps of -2 and 3 with blocks of two, so that
a step may undo a whole block, and a row that starts at 1 with the fatal limit
at 5. `snowflake` has a counter of two bits, so that two or three calls
overflow a millisecond, seconds of two milliseconds, so that the fix-up of
`timeGen` happens, one set-back and one restart. The clock stops at
`MaxClock`, where a spinning thread waits for ever, so deadlock is not checked
there. `pool` has three threads, four connections, a maximum of two and two
rounds of the maintenance thread; it may rest once the pool has stopped.

`election` has two processes, of which one meets one fault: a failed call with
or without its effect, an expired session, a crash or a stop. Which one is a
matter of names. One session of a dead process ends between a read and its act.
There are two sessions, so that a third one waits until an old one is gone, and
three in `election_reconnect`; two handles for each process; and seven nodes,
which are never used up. `daemon` has two
commands and four pids, one more than can be alive or remembered at once in a
run without losses; it may rest when the master it waits for is gone. `hashmap`
has four keys with any hashes among four values, chains of two and tables of 4
to 32, so that chains fill, wrap and shift between tables, a copy overflows and
is copied again, and memory runs out at the outer and at a nested call.
`session` has two callers and three faults of the router, enough to lose a
session, come back to a refusal and lose it again; it may rest after the
destructor.

Fairness. `ids_live` assumes that a thread that can go on does (the operating
system's scheduler), and that a thread which waits for a lock that is free
again and again gets it in the end. The second is strong fairness; glibc's
read-write locks prefer readers, so it holds as long as readers do not overlap
for ever, which they do not when steps are positive: readers use up the block
and then queue for the write lock. One negative step does not change that; a
stream of them would, as would steps of 0. Clients need not call, and the
database may fail at any time.

`election` assumes that the threads of a live process run, that IceGrid starts a
server that has ended (`activation="always"`), and that ZooKeeper gives up dead
sessions: `Reap` has strong fairness, since its bound lets it through only while
no thread is between a read and its act. That this is so again and again is a
premise of `LeaderElected`; the code gives it by the 100 minutes it sleeps after
each round. `daemon` assumes that signals are delivered, that a master notifies
while it lives, that a JVM that does not hang exits when told, that the commands
repeat their signal, and that the main loop gets to run between two of them
(strong fairness: they come once a second, and past the timeout the handler does
not sleep). `session` assumes that the threads run, that the router and the
token service recover, and that a caller gets the mutex, which is free for the
60 or 10 seconds the session thread sleeps (strong fairness).

## Proofs

Every safety property the passing runs check is also proved for all instances:
any number of services, workers, threads, processes, connections, callers and
keys, any block lengths, widths, limits and hash functions, and any steps, with
what the properties themselves say of negative ones. A proof
assumes the `ConstantsAssumption` of its component and the hypotheses named
below. The scheme is the same throughout: an inductive invariant, of which TLC
first checked that it holds, one lemma per kind of step, and the theorem from
both. What follows says what had to be added to each property to make it
inductive, which is where its reason lies.

### Incrementing sequences

`DefaultSequenceWorkerProofs`: `TypeCorrect` (`TypeOK`), `Uniqueness`
(`NoDuplicateIds`) and `ClientUniqueness` (`DistinctForClients`).

`NoDuplicateIds` is not inductive: that a block fresh from the row is disjoint
from all ids around follows only if none of those lies above the row. The
inductive invariant `IInv` adds that: of each id, at most one thread or block
holds it, it is not issued while held, and it is at most `db` (`Exclusive`).
It says so only while `back = 0`, which is when no call under way has a
negative step (`Forward`); types and the bound of the database's loop hold
always. Each kind of step has a lemma: steps that move no id
(`MoveExclusive`); a successful compare-and-set, which makes a block above
everything (`UpdateExclusive`); the acceptance of a block (`AcceptExclusive`);
the fetch-and-add, which moves ids from a block to a call (`AddExclusive`);
the return (`ReturnExclusive`); failures, which only lose ids
(`ThrowExclusive`, `DownExclusive`). The locks play no part: uniqueness rests
on the compare-and-set and the fetch-and-add alone.

`ClientUniqueness` follows from it: below the datacenter id the mask is an
addition (`MaskedFits`), which keeps values and datacenters apart
(`LayoutApart`), and a client reads from its range the masks of the ids in it
and no others (`ClientIdsMasked`). It needs `LayoutAssumption`. Both ends of a
range must fit: a call with step 0 gets `max = min - 1`, and at the last value
that fits the mask would make a whole range of it.

`DefaultSequenceWorkerOrder`: `Order` (`Ordered`), `Gapless` (`NoGaps`) and
`Refinement` (`GrantsUniqueRanges`).

The first two rest on the locks. `OInv` adds to `IInv` that a writer is alone
in its worker and that a worker exists where one is used (`Guarded`); that the
block has an id left before the second `addAndIncrement` (`Ample`); and,
before any negative step, that the row, the worker's value and a block on its
way are at or above every id the service returned or is about to (`Past`) and
that a call is above its floor (`Above`). The delicate step is `AcceptPast`:
while a thread waits for the database with the write lock held, others may
return ranges they got from the old block, and the new block must be above
those too.

`Gapless` holds whatever the steps. It adds that the block a thread is going
to replace has no id left (`Spent`), which the test under the write lock and
the exclusion of readers give, that the row never falls below its start and
that no call runs on without its client before a failure (`Rising`). Its
hypothesis `StartNotNegative` is needed: `nextRange` takes -1 for the answer
of a failed compare-and-set, so a row that started below 0 and reached -1
would lose a block without any failure. The table's definition allows such a
row.

`Refinement` rests on `IInv`: a fetch-and-add that finds an id is `Grant`, the
return is `Return`, an exception or a crash is `Lose`, any other step a stutter,
until the first negative step.

### Snowflake sequences

`SnowflakeIdWorkerProofs` has a theorem for each layer of its invariant, and
each layer needs one hypothesis more.

* `TypeCorrect` (`TypeOK`) has none: the unsigned counters keep their width
  whatever clients ask for.
* `Fits` (`RangeFits`) needs `PositiveSteps`. A step of 0 passes the validation
  of `getAndIncrement`, and `step - 1` wraps. `LInv` says that one thread is in
  a worker's mutex, that the counter is within its bits unless a thread waits
  for the next millisecond, and how much that thread has left of the old one.
  The sums cannot wrap then, and the steps of `timeGen` and `tilNextMillis`
  fall into six cases (`ClockStep`).
* `Order` (`Ordered`) needs `ClockKept`, because a restart forgets
  `lastTimestamp`. `OInv` says that a worker, or its dead processes, are past
  all it returned and is about to return, and that clock readings noted by a
  thread are later than dead processes; nothing relates them to
  `lastTimestamp`, so that set-backs and the second that `timeGen` may add are
  covered.
* `Uniqueness` (`NoDuplicateIds`) and `Refinement` (`GrantsUniqueRanges`) need
  `DistinctWorkers`, which the two services of one process do not satisfy
  (`snowflake_shared`). `UInv` says that ranges are apart from issued ids and
  from each other. The end of the mutex is `Grant`.

### Connection pool

`MySQLDBPoolProofs`: `TypeCorrect` (`TypeOK`), `Ownership` (`OneOwner`),
`NoReuseOfBroken` (`NoBrokenIdle`) and `CountBelowUse` (`NeverOvercounted`).
The invariant `PInv` says that a user holds a connection exactly from
`GetConnection` until it is pushed back or closed; that queue, maintenance
thread and users share none; that these make up the open connections; that a
connection with an error is neither idle nor on its way back to the queue; and
that the count is at most the number of users between `GetConnection` and the
end of `FreeConnection`. The last is why the second decrement of a connection
that `CheckConnection` closes only ever makes the pool too generous
(`pool_max`).

### Leader election

`OrderSequenceAdapterProofs`: `TypeCorrect` (`TypeOK`) and `LeaderUnique`
(`OneLeader`). The invariant `EInv` says that a process that leads, or found
itself first and is about to act on that, and has lost no session since, holds
the session of the first node there is (`Leads`). Two processes cannot both, as
their handles are of different sessions (`Attached`) and no two nodes have one
number (`Numbered`). It does not speak of the node the process knows as its own:
a creation that fails half-way gives it another name while the old node stays.
What it needs of that name is `Known`: a node that has it belongs to a session
of the process. Neither fairness nor the bound `MaxLate` is used.

### Supervisor and session client

`DaemonProofs`: `TypeCorrect` (`TypeOK`), `WorkerUnique` (`OneWorker`) and
`MasterUnique` (`OneMaster`). Neither is inductive, since `forkWork` and
`forkMaster` look only at a recorded pid. `WInv` says that a live child is
recorded: in `forked` from its fork to `RecordWorker` or `SetMaster`, and in
shared memory or `mpid` at any other time (`Recorded`). The handler of SIGCHLD
is where that could fail; what it waits for is the recorded worker, or anyone
when none is recorded, so that it resets the pid of no live worker
(`WaitsForWorker`).

`Glacier2CommunicatorProofs`: `TypeCorrect` (`TypeOK`) and `ProxyPinged` (the
action property `ProxyOverPingedSession`), from the part of `TypeOK` that says
that the flag is set only over a pinged session.

### Hash map

`HashMapProofs`: `TypeCorrect` (`TypeOK`), `Agreement` (`Agrees`) and `Copies`
(the action property `CopiesComplete`), for any hash function, chain length and
table sizes.

While a copy runs, and more so while copies are nested, lookups say little: a
pair may be in the table, in an old table that is still to be copied, or the
argument of a call. The invariant `Inv` speaks of all these places (`At`). Of
a map that is not tainted, `Consistent` says that no key is at two places
(`Unique`) and that the pairs at the places are `content` (`Complete`); the
pair a client's own call brings is not at a place until it is stored.
`Chained` says that a key in the table is in a slot of its chain, which is
what a lookup needs. Each step then moves one pair from a place to another
(`StorePlaces`, `RehashPlaces`, `MovePlaces`), adds the client's
(`ClientPlaces`) or removes one (`RemovePlaces`). That a copy meets no
duplicate, and so `HMAP_E_KEYUSED` never cuts one short, follows from `Unique`
(`KeyUsedByClient`); it is what a second store of a present key breaks. Once
the stack is empty the only places left are the slots, which is `Agrees`. The
exact `size` needs only that a slot changes between used and unused one at a
time (`UsedGrows`, `UsedShrinks`).

### Only model-checked

The liveness properties (`CallsComplete`, `SettlesOnOne`, `LeaderElected`,
`WorkerReplaced`, `StopCompletes`, `CallsReturn`, `SessionRestored`,
`ThreadEnds`), which need fairness and are beyond this prover. That the stack of
calls in `HashMap` does not grow for ever is not stated: the model's tables are
bounded.

## Not modelled

The parsing of the connection string, of the daemon's configuration and of the
Ice properties, log set-up, plug-in registration and the cached clock are I/O
without decisions the modelled parts depend on. The start of the JVMs and the
other JNI calls only prepare or read. Memory that is used after it was freed
(the pool under its maintenance thread, the session client under its own) is
outside the models. The hooks (`hook-linux`, `netfilter`) and the tracer patch
or observe other programs. The vendored code (`hook-win32` with Detours, glog,
wrk, tpcc-mysql, rapidjson, zkclient) is not this project's; it makes up almost
all of the repository's lines, so the models cover a small share of them.

## What is left

* Runs of their own for the negative step, for the retry the comment promises,
  and for values that outgrow the 32-bit sequence.
* Safety parts of the liveness arguments as theorems of their own: that no
  thread of `DefaultSequenceWorker` waits for a lock nobody holds, and that the
  supervisor's `missed` and `Abandoned` arise only as described.
* The hazards that PROJECT.json lists without a property, each with the reason:
  memory freed under a thread that uses it, the race of two starts, and those
  that a property's premise exempts (the negative step, the forgotten timestamp,
  the lost exit of a child and others).
