----------------------------- MODULE MySQLDBPool -----------------------------
(***************************************************************************)
(* The connection pool of one database: a queue of idle connections, the   *)
(* count usedConns of connections in use, the threads that take and return *)
(* connections, and the maintenance thread that closes or probes idle      *)
(* ones.  What happens under the pool's mutex is one action; the tests of  *)
(* `runing' before the mutex is taken are steps of their own.              *)
(*                                                                         *)
(* Time is kept as the set of idle connections whose lastTime is at least  *)
(* expiretime ago.  lastTime of the connections InitPool makes is never    *)
(* set, so any of them may look expired.  After Stop the memory of the     *)
(* pool stays readable in the model; in the code it is freed.              *)
(***************************************************************************)
EXTENDS Integers, Sequences, FiniteSets, SequencesExt, FiniteSetsExt

CONSTANTS
    Conns,     \* bound: the connections that can be open at once
    Users,     \* the threads that call the database
    MinSize,   \* connOpt.min
    MaxSize,   \* connOpt.max
    MaxChecks  \* bound: the rounds of the maintenance thread

ASSUME ConstantsAssumption ==
    /\ MinSize \in Nat \ {0} /\ MaxSize \in Nat /\ MinSize <= MaxSize
    /\ IsFiniteSet(Conns) /\ MinSize <= Cardinality(Conns)
    /\ MaxChecks \in Nat

VARIABLES
    open,      \* the open connections
    freeQueue, \* the idle connections
    usedConns, \* the pool's count of connections in use
    runing,    \* whether the pool runs
    old,       \* the idle connections that look expired
    pc,        \* of each user: idle, ask, have, put, close or closed
    held,      \* the connections each user holds, at most one
    cpc,       \* of the maintenance thread: what it does next
    tmpQueue,  \* the connections the maintenance thread took out
    isErr,     \* the open connections an SQL error was seen on
    checks     \* the rounds of the maintenance thread

userVars  == <<pc, held>>
checkVars == <<cpc, tmpQueue, checks>>
poolVars  == <<open, freeQueue, usedConns, old, isErr>>
vars      == <<poolVars, runing, userVars, checkVars>>

Goto(u, l) == pc' = [pc EXCEPT ![u] = l]

-----------------------------------------------------------------------------
\* RegistDataBase and Startup: InitPool makes MinSize connections.
Init ==
    /\ open \in kSubset(MinSize, Conns)
    /\ freeQueue \in SetToSeqs(open)
    /\ usedConns = 0
    /\ runing = TRUE
    /\ old \in SUBSET open
    /\ pc = [u \in Users |-> "idle"]
    /\ held = [u \in Users |-> {}]
    /\ cpc = "sleep"
    /\ tmpQueue = <<>>
    /\ isErr = {}
    /\ checks = 0

-----------------------------------------------------------------------------
(* What a release of connection c, by a user or by the maintenance thread,  *)
(* does to the pool.                                                        *)

\* It goes back to the queue if the pool runs and no error was seen on it.
Reusable(err) == runing /\ ~err

Push(c) ==
    /\ freeQueue' = Append(freeQueue, c)
    /\ usedConns' = usedConns - 1
    /\ UNCHANGED <<open, old, isErr>>

\* It is closed; the count follows, in a step of its own.
Close(c) ==
    /\ open' = open \ {c}
    /\ isErr' = isErr \ {c}
    /\ UNCHANGED <<freeQueue, usedConns, old>>

CountDown ==
    /\ usedConns' = usedConns - 1
    /\ UNCHANGED <<open, freeQueue, old, isErr>>

-----------------------------------------------------------------------------
(* A user: GetConnection, the use of the connection, FreeConnection.        *)

\* GetConnection finds the pool running.
Ask(u) ==
    /\ pc[u] = "idle"
    /\ runing
    /\ Goto(u, "ask")
    /\ UNCHANGED <<poolVars, runing, held, checkVars>>

\* Mutant: the connection stays in the queue.
TakeKept(u) ==
    /\ pc[u] = "ask"
    /\ freeQueue # <<>>
    /\ old' = old \ {Head(freeQueue)}
    /\ usedConns' = usedConns + 1
    /\ held' = [held EXCEPT ![u] = {Head(freeQueue)}]
    /\ Goto(u, "have")
    /\ UNCHANGED <<open, freeQueue, isErr, runing, checkVars>>

\* Under the mutex: the longest idle connection.
Take(u) ==
    /\ pc[u] = "ask"
    /\ freeQueue # <<>>
    /\ freeQueue' = Tail(freeQueue)
    /\ old' = old \ {Head(freeQueue)}
    /\ usedConns' = usedConns + 1
    /\ held' = [held EXCEPT ![u] = {Head(freeQueue)}]
    /\ Goto(u, "have")
    /\ UNCHANGED <<open, isErr, runing, checkVars>>

\* None is idle: a new connection, made under the mutex.
Grow(u) ==
    /\ pc[u] = "ask"
    /\ freeQueue = <<>>
    /\ usedConns <= MaxSize
    /\ \E c \in Conns \ open :
          /\ open' = open \cup {c}
          /\ held' = [held EXCEPT ![u] = {c}]
    /\ usedConns' = usedConns + 1
    /\ Goto(u, "have")
    /\ UNCHANGED <<freeQueue, old, isErr, runing, checkVars>>

\* The server refuses it (connect throws), or the count is past the maximum.
Fail(u) ==
    /\ pc[u] = "ask"
    /\ freeQueue = <<>>
    /\ Goto(u, "idle")
    /\ UNCHANGED <<poolVars, runing, held, checkVars>>

\* Mutant: an SQL error is forgotten when the connection is released.
FinishForgets(u, err) ==
    /\ pc[u] = "have"
    /\ isErr' = IF err THEN isErr \cup held[u] ELSE isErr
    /\ Goto(u, IF runing THEN "put" ELSE "close")
    /\ UNCHANGED <<open, freeQueue, usedConns, old, runing, held, checkVars>>

\* The statement ends, err after an SQLException, and ~ProxStream calls
\* FreeConnection, which tests where the connection goes.
Finish(u, err) ==
    /\ pc[u] = "have"
    /\ isErr' = IF err THEN isErr \cup held[u] ELSE isErr
    /\ Goto(u, IF Reusable(err) THEN "put" ELSE "close")
    /\ UNCHANGED <<open, freeQueue, usedConns, old, runing, held, checkVars>>

Release(u) ==
    /\ \E c \in held[u] :
          \/ pc[u] = "put" /\ Push(c) /\ Goto(u, "idle")
          \/ pc[u] = "close" /\ Close(c) /\ Goto(u, "closed")
    /\ held' = [held EXCEPT ![u] = {}]
    /\ UNCHANGED <<runing, checkVars>>

\* Mutant: closing a connection leaves the count as it was.
ReleasedUncounted(u) ==
    /\ pc[u] = "closed"
    /\ Goto(u, "idle")
    /\ UNCHANGED <<poolVars, runing, held, checkVars>>

Released(u) ==
    /\ pc[u] = "closed"
    /\ CountDown
    /\ Goto(u, "idle")
    /\ UNCHANGED <<runing, held, checkVars>>

-----------------------------------------------------------------------------
(* The maintenance thread: CheckConnection, every CHECK_INTERVAL seconds.   *)

\* How many connections at the front look expired, leaving keep of the queue.
Expired(keep) ==
    Max({k \in 0 .. Len(freeQueue) :
            k = 0 \/ /\ k <= Len(freeQueue) - keep
                     /\ \A i \in 1 .. k : freeQueue[i] \in old})

\* Under the mutex, the thread takes out the first n idle connections.  Each
\* takes one off the count, which does not count idle connections.
Pop(n) ==
    /\ freeQueue' = SubSeq(freeQueue, n + 1, Len(freeQueue))
    /\ tmpQueue' = SubSeq(freeQueue, 1, n)
    /\ old' = old \ ToSet(SubSeq(freeQueue, 1, n))
    /\ usedConns' = usedConns - n
    /\ UNCHANGED <<open, isErr>>

\* What is idle beyond MinSize is taken out
CheckIdle ==
    /\ cpc = "sleep"
    /\ runing
    /\ checks < MaxChecks
    /\ checks' = checks + 1
    /\ Pop(Expired(MinSize))
    /\ cpc' = IF Expired(MinSize) = 0 THEN "expired" ELSE "close"
    /\ UNCHANGED <<runing, userVars>>

\* and closed, without the mutex.
CloseIdle ==
    /\ cpc = "close"
    /\ Close(Head(tmpQueue))
    /\ tmpQueue' = Tail(tmpQueue)
    /\ cpc' = IF Len(tmpQueue) = 1 THEN "expired" ELSE "close"
    /\ UNCHANGED <<runing, checks, userVars>>

\* The others that look expired are taken out to be probed.
CheckExpired ==
    /\ cpc = "expired"
    /\ Pop(Expired(0))
    /\ cpc' = IF Expired(0) = 0 THEN "sleep" ELSE "probe"
    /\ UNCHANGED <<runing, checks, userVars>>

\* SELECT 1 succeeds or fails, and ~ProxStream tests where the connection goes.
Probe(err) ==
    /\ cpc = "probe"
    /\ isErr' = IF err THEN isErr \cup {Head(tmpQueue)} ELSE isErr
    /\ cpc' = IF Reusable(err) THEN "push" ELSE "drop"
    /\ UNCHANGED <<open, freeQueue, usedConns, old, runing, tmpQueue, checks, userVars>>

\* The release of the probed connection, which takes one off the count again.
Probed ==
    /\ \/ /\ cpc = "push" /\ Push(Head(tmpQueue))
          /\ cpc' = IF Len(tmpQueue) = 1 THEN "sleep" ELSE "probe"
       \/ cpc = "drop" /\ Close(Head(tmpQueue)) /\ cpc' = "dropped"
    /\ tmpQueue' = Tail(tmpQueue)
    /\ UNCHANGED <<runing, checks, userVars>>

Dropped ==
    /\ cpc = "dropped"
    /\ CountDown
    /\ cpc' = IF tmpQueue = <<>> THEN "sleep" ELSE "probe"
    /\ UNCHANGED <<runing, tmpQueue, checks, userVars>>

-----------------------------------------------------------------------------
\* expiretime passes for an idle connection.  The order of the queue does not
\* bound it: lastTime is read before the mutex is taken.
Age(c) ==
    /\ c \in ToSet(freeQueue) \ old
    /\ old' = old \cup {c}
    /\ UNCHANGED <<open, freeQueue, usedConns, isErr, runing, userVars, checkVars>>

\* ReleaseAll, when the service has destroyed its adapters and so no request is
\* left.  The maintenance thread is detached and may be anywhere.
Stop ==
    /\ runing
    /\ \A u \in Users : pc[u] = "idle"
    /\ runing' = FALSE
    /\ open' = open \ ToSet(freeQueue)
    /\ freeQueue' = <<>>
    /\ old' = {}
    /\ UNCHANGED <<usedConns, isErr, userVars, checkVars>>

Next ==
    \/ \E u \in Users :
          \/ Ask(u) \/ Take(u) \/ Grow(u) \/ Fail(u) \/ Release(u) \/ Released(u)
          \/ \E err \in BOOLEAN : Finish(u, err)
    \/ CheckIdle \/ CloseIdle \/ CheckExpired \/ Probed \/ Dropped
    \/ \E err \in BOOLEAN : Probe(err)
    \/ \E c \in Conns : Age(c)
    \/ Stop

Spec == Init /\ [][Next]_vars

-----------------------------------------------------------------------------
(* Properties.                                                              *)

\* The shape of the state; a user holds a connection exactly from GetConnection
\* to FreeConnection.
TypeOK ==
    /\ open \subseteq Conns
    /\ freeQueue \in Seq(Conns) /\ tmpQueue \in Seq(Conns)
    /\ usedConns \in Int
    /\ runing \in BOOLEAN
    /\ old \subseteq ToSet(freeQueue)
    /\ pc \in [Users -> {"idle", "ask", "have", "put", "close", "closed"}]
    /\ held \in [Users -> SUBSET Conns]
    /\ \A u \in Users :
          Cardinality(held[u]) = IF pc[u] \in {"have", "put", "close"} THEN 1 ELSE 0
    /\ cpc \in {"sleep", "close", "expired", "probe", "push", "drop", "dropped"}
    /\ cpc \in {"sleep", "expired"} => tmpQueue = <<>>
    /\ cpc \in {"close", "probe", "push", "drop"} => tmpQueue # <<>>
    /\ isErr \subseteq open
    /\ checks \in 0 .. MaxChecks

\* In how many places connection c is.
Places(c) ==
    Cardinality({i \in DOMAIN freeQueue : freeQueue[i] = c})
    + Cardinality({i \in DOMAIN tmpQueue : tmpQueue[i] = c})
    + Cardinality({u \in Users : c \in held[u]})

\* Whatever GetConnection, FreeConnection and CheckConnection do at once, an
\* open connection has one owner, so that no two threads use one connection and
\* none is lost; a closed one has none.
OneOwner == \A c \in Conns : Places(c) = IF c \in open THEN 1 ELSE 0

\* A connection on which an error was seen never comes back to the queue.
NoBrokenIdle == ToSet(freeQueue) \cap isErr = {}

\* The threads between GetConnection and the end of FreeConnection.
InUse == {u \in Users : pc[u] \notin {"idle", "ask"}}

\* The count never exceeds the connections in use, so that GetConnection
\* refuses ("No resources currently available") only when more than MaxSize
\* connections are in use or about to be counted out.
NeverOvercounted == usedConns <= Cardinality(InUse)

\* What the header says of max, the largest number of connections of the pool.
MaxRespected == Cardinality(open) <= MaxSize
====
