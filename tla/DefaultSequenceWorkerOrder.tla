---------------------- MODULE DefaultSequenceWorkerOrder ----------------------
(***************************************************************************)
(* Proofs about the order of ids and about gaps in DefaultSequenceWorker,  *)
(* and that it implements UniqueRanges.  Unlike uniqueness, the first two  *)
(* rest on the locks: Locks and Readiness say which threads can be inside  *)
(* a worker together; Past, that a worker's value is at or above every id  *)
(* its service returned, also while the next block is on its way, until a  *)
(* negative step moves it back; Spent, that the block it will replace has  *)
(* no id left by then, whatever the steps.                                 *)
(***************************************************************************)
EXTENDS DefaultSequenceWorkerProofs

\* Whoever holds a lock for writing is alone inside the worker.
Locks ==
    \A t, u \in Threads :
        t # u /\ ServiceOf[t] = ServiceOf[u] /\ pc[t] \in WriteHeld
            => pc[u] \notin WriteHeld \cup ReadHeld

\* Past the lookup there is a worker; the thread that builds one found none.
Readiness ==
    \A t \in Threads :
        /\ pc[t] \in ReadHeld \cup {"rlock", "wlock", "wcheck", "wadd", "done"}
               => ready[ServiceOf[t]]
        /\ pc[t] = "cfg" => ~ready[ServiceOf[t]]

\* All that a service returned or is about to return is at or below m.
AtMost(s, m) ==
    /\ last[s] <= m
    /\ \A t \in Threads : ServiceOf[t] = s /\ pc[t] = "done" => sr[t].max <= m

\* The row, the worker's value and a block on its way to the worker are past
\* all ids of the service, and the row is past the worker's block.
Past ==
    /\ \A s \in Services : AtMost(s, db)
    /\ \A s \in Services : ready[s] => AtMost(s, value[s]) /\ max[s] <= db
    /\ \A t \in Threads :
          pc[t] = "reply" /\ nv[t] # -1 => AtMost(ServiceOf[t], nv[t])

\* A call began when its service had returned floor at most, and its range is
\* above that.
Above ==
    \A t \in Threads :
        /\ pc[t] # "idle" => floor[t] <= last[ServiceOf[t]]
        /\ pc[t] = "done" => floor[t] < sr[t].min

\* Before the second addAndIncrement the block has an id left.
Ample ==
    \A t \in Threads : pc[t] = "wadd" => value[ServiceOf[t]] < max[ServiceOf[t]]

\* The parts about locks.
Guarded == Locks /\ Readiness

\* The invariant behind Ordered.
OInv == IInv /\ Guarded /\ Ample /\ (back = 0 => Past /\ Above)

-----------------------------------------------------------------------------
(* The locks.                                                               *)

\* Threads that leave free their locks.
LEMMA LeaveGuarded ==
    ASSUME TypeOK, Guarded, NEW T, Leave(T), ready' = ready
    PROVE  Guarded'
  <1> USE DEF TypeOK, CallTypeOK, Leave, WriteHeld, ReadHeld, Fetch
  <1>1. Locks'
    BY DEF Guarded, Locks
  <1>2. Readiness'
    BY DEF Guarded, Readiness
  <1> QED
    BY <1>1, <1>2 DEF Guarded

\* A process that ends frees its locks and has no worker.
LEMMA DownGuarded ==
    ASSUME TypeOK, Guarded, NEW s \in Services, Down(s)
    PROVE  Guarded'
  <1>1. \A t \in Threads : ServiceOf[t] = s => pc'[t] = "idle"
    BY DEF Down, Leave, Of
  <1>2. \A t \in Threads : ServiceOf[t] # s =>
            pc'[t] = pc[t] /\ ready'[ServiceOf[t]] = ready[ServiceOf[t]]
    BY ConstantsAssumption DEF Down, Leave, Of, TypeOK, StoreTypeOK
  <1>3. Locks'
    BY <1>1, <1>2 DEF Guarded, Locks, WriteHeld, ReadHeld, Fetch
  <1>4. Readiness'
    BY <1>1, <1>2 DEF Guarded, Readiness, ReadHeld
  <1> QED
    BY <1>3, <1>4 DEF Guarded

\* A thread that takes no lock, that goes from reading to reading, or that is
\* alone already keeps the locks.
LEMMA MoveLocks ==
    ASSUME TypeOK, Locks, NEW t \in Threads, NEW l, Goto(t, l),
           \/ l \notin WriteHeld \cup ReadHeld
           \/ l \in ReadHeld /\ pc[t] \in ReadHeld
           \/ pc[t] \in WriteHeld
    PROVE  Locks'
  <1>1. \A u \in Threads : pc'[u] = IF u = t THEN l ELSE pc[u]
    BY DEF Goto, TypeOK, CallTypeOK
  <1>2. WriteHeld \cap ReadHeld = {}
    BY DEF WriteHeld, ReadHeld, Fetch
  <1> QED
    BY <1>1, <1>2 DEF Locks

\* A thread that moves to where a worker is needed has one.
LEMMA MoveReady ==
    ASSUME TypeOK, Readiness, NEW t \in Threads, NEW l, Goto(t, l), ready' = ready,
           l \in ReadHeld \cup {"rlock", "wlock", "wcheck", "wadd", "done"}
               => ready[ServiceOf[t]],
           l = "cfg" => ~ready[ServiceOf[t]]
    PROVE  Readiness'
  BY DEF Goto, TypeOK, CallTypeOK, Readiness

\* Every step keeps the locks exclusive and workers ready.
LEMMA GuardedStep ==
    ASSUME TypeOK, Guarded, [Next]_vars
    PROVE  Guarded'
  <1> USE ConstantsAssumption
  <1>0. /\ {"find", "build", "rlock", "wlock", "done"} \cap (WriteHeld \cup ReadHeld) = {}
        /\ {"cfg", "conn", "select", "update", "reply", "wcheck", "wadd"} = WriteHeld
        /\ {"radd", "rinc"} = ReadHeld
    BY DEF WriteHeld, ReadHeld, Fetch
  <1>1. ASSUME NEW t \in Threads, NEW n \in Steps, Call(t, n)
        PROVE  Guarded'
    <2>1. Goto(t, "find") /\ ready' = ready
      BY <1>1 DEF Call, workerVars
    <2> QED
      BY <1>0, <2>1, MoveLocks, MoveReady DEF Guarded
  <1>2. ASSUME NEW t \in Threads, Find(t)
        PROVE  Guarded'
    <2>1. ready' = ready /\ Goto(t, IF ready[ServiceOf[t]] THEN "rlock" ELSE "build")
      BY <1>2 DEF Find, workerVars
    <2> QED
      BY <1>0, <2>1, MoveLocks, MoveReady DEF Guarded
  <1>3. ASSUME NEW t \in Threads, Build(t)
        PROVE  Guarded'
    <2>1. ready' = ready /\ pc[t] = "build" /\ ~RangeLocked(ServiceOf[t])
      BY <1>3 DEF Build, workerVars
    <2>2. CASE Goto(t, "rlock") /\ ready[ServiceOf[t]]
      BY <1>0, <2>1, <2>2, MoveLocks, MoveReady DEF Guarded
    <2>3. CASE Goto(t, "cfg") /\ ~ready[ServiceOf[t]]
      <3>1. \A u \in Threads : ServiceOf[u] = ServiceOf[t] =>
                pc[u] \notin WriteHeld \cup ReadHeld
        BY <2>1, <2>3 DEF RangeLocked, Of, Guarded, Readiness, WriteHeld, ReadHeld
      <3>2. Locks'
        BY <3>1, <2>3 DEF Guarded, Locks, Goto, TypeOK, CallTypeOK
      <3> QED
        BY <1>0, <2>1, <2>3, <3>2, MoveReady DEF Guarded
    <2> QED
      BY <1>3, <2>2, <2>3 DEF Build
  <1>4. ASSUME NEW t \in Threads, ReadCfg(t) \/ Connect(t)
        PROVE  Guarded'
    <2>1. \E l \in {"conn", "select"} : Goto(t, l)
      BY <1>4 DEF ReadCfg, Connect
    <2>2. pc[t] \in WriteHeld /\ ready' = ready
      BY <1>0, <1>4 DEF ReadCfg, Connect, workerVars
    <2> QED
      BY <1>0, <2>1, <2>2, MoveLocks, MoveReady DEF Guarded
  <1>5. ASSUME NEW t \in Threads, Refused(t) \/ SqlError(t) \/ Return(t)
        PROVE  Guarded'
    <2>1. Leave({t}) /\ ready' = ready
      BY <1>5 DEF Refused, SqlError, Return, Throw, workerVars
    <2> QED
      BY <2>1, LeaveGuarded
  <1>6. ASSUME NEW t \in Threads, Select(t)
        PROVE  Guarded'
    <2>1. ready' = ready /\ pc[t] \in WriteHeld
      BY <1>0, <1>6 DEF Select, workerVars
    <2>2. CASE Throw(t)
      BY <2>1, <2>2, LeaveGuarded DEF Throw
    <2>3. CASE Goto(t, "update")
      BY <1>0, <2>1, <2>3, MoveLocks, MoveReady DEF Guarded
    <2> QED
      BY <1>6, <2>2, <2>3 DEF Select
  <1>7. ASSUME NEW t \in Threads, Update(t)
        PROVE  Guarded'
    <2>1. ready' = ready /\ pc[t] \in WriteHeld
      BY <1>0, <1>7 DEF Update, workerVars
    <2>2. \E l \in {"select", "reply"} : Goto(t, l)
      BY <1>7 DEF Update
    <2> QED
      BY <1>0, <2>1, <2>2, MoveLocks, MoveReady DEF Guarded
  <1>8. ASSUME NEW t \in Threads, Reply(t)
        PROVE  Guarded'
    <2>1. CASE Throw(t) /\ UNCHANGED workerVars
      BY <2>1, LeaveGuarded DEF Throw, workerVars
    <2>2. CASE Accept(t)
      <3>1. pc[t] = "reply" /\ pc[t] \in WriteHeld
        BY <1>0, <1>8 DEF Reply
      <3>2. PICK l \in {"wadd", "rlock"} : Goto(t, l)
        BY <2>2 DEF Accept
      <3>3. Locks'
        BY <3>1, <3>2, MoveLocks DEF Guarded
      <3>4. \A u \in Threads : u # t /\ ServiceOf[u] = ServiceOf[t] => pc[u] # "cfg"
        BY <1>0, <3>1 DEF Guarded, Locks
      <3>5. ready' = [ready EXCEPT ![ServiceOf[t]] = TRUE]
        BY <2>2 DEF Accept
      <3>6. Readiness'
        BY <3>2, <3>4, <3>5
        DEF Guarded, Readiness, Goto, TypeOK, StoreTypeOK, CallTypeOK
      <3> QED
        BY <3>3, <3>6 DEF Guarded
    <2>3. CASE Down(ServiceOf[t])
      BY <2>3, DownGuarded
    <2> QED
      BY <1>8, <2>1, <2>2, <2>3 DEF Reply
  <1>9. ASSUME NEW t \in Threads, RLock(t)
        PROVE  Guarded'
    <2>1. ready' = ready /\ pc[t] = "rlock" /\ Goto(t, "radd") /\ NoWriter(ServiceOf[t])
      BY <1>9 DEF RLock, workerVars
    <2>2. Locks'
      BY <1>0, <2>1 DEF Guarded, Locks, NoWriter, Of, Goto, TypeOK, CallTypeOK
    <2> QED
      BY <2>1, <2>2, MoveReady DEF Guarded, Readiness
  <1>10. ASSUME NEW t \in Threads, RCheck(t) \/ RInc(t)
         PROVE  Guarded'
    <2>1. ready' = ready /\ pc[t] \in ReadHeld
      BY <1>0, <1>10 DEF RCheck, RInc, workerVars
    <2>2. PICK l \in {"wlock", "rinc", "done"} : Goto(t, l)
      BY <1>10 DEF RCheck, RInc
    <2>3. Locks'
      BY <1>0, <2>1, <2>2, MoveLocks DEF Guarded
    <2> QED
      BY <2>1, <2>2, <2>3, MoveReady DEF Guarded, Readiness
  <1>11. ASSUME NEW t \in Threads, WLock(t)
         PROVE  Guarded'
    <2>1. /\ ready' = ready /\ pc[t] = "wlock" /\ Goto(t, "wcheck")
          /\ NoHolder(ServiceOf[t])
      BY <1>11 DEF WLock, workerVars
    <2>2. Locks'
      BY <2>1 DEF Guarded, Locks, NoHolder, Of, Goto, TypeOK, CallTypeOK
    <2> QED
      BY <2>1, <2>2, MoveReady DEF Guarded, Readiness
  <1>12. ASSUME NEW t \in Threads, WCheck(t) \/ (WAdd(t) /\ ~Throw(t))
         PROVE  Guarded'
    <2>1. ready' = ready /\ pc[t] \in {"wcheck", "wadd"}
      BY <1>12 DEF WCheck, WAdd, workerVars
    <2>2. PICK l \in {"conn", "wadd", "done", "rlock"} : Goto(t, l)
      BY <1>12 DEF WCheck, WAdd
    <2>3. Locks'
      BY <1>0, <2>1, <2>2, MoveLocks DEF Guarded
    <2> QED
      BY <2>1, <2>2, <2>3, MoveReady DEF Guarded, Readiness
  <1>13. ASSUME NEW t \in Threads, WAdd(t), Throw(t)
         PROVE  Guarded'
    BY <1>13, LeaveGuarded DEF WAdd, Throw
  <1>14. ASSUME NEW s \in Services, Crash(s)
         PROVE  Guarded'
    BY <1>14, DownGuarded DEF Crash
  <1>15. CASE Orphan \/ UNCHANGED vars
    BY <1>15 DEF Orphan, vars, workerVars, callVars, Guarded, Locks, Readiness
  <1> QED
    BY <1>1, <1>2, <1>3, <1>4, <1>5, <1>6, <1>7, <1>8, <1>9, <1>10, <1>11, <1>12,
       <1>13, <1>14, <1>15
    DEF Next, Proceed, Fail

-----------------------------------------------------------------------------
(* Every step of a thread, up to what the remaining proofs need.            *)

\* Nobody gets a range or a block, and no worker loses ground.
Quiet ==
    /\ UNCHANGED <<last, ready, max>>
    /\ db <= db'
    /\ \A s \in Services : value[s] <= value'[s]
    /\ \A t \in Threads : pc'[t] = "done" => pc[t] = "done" /\ sr'[t] = sr[t]
    /\ \A t \in Threads :
          pc'[t] = "reply" /\ nv'[t] # -1 => pc[t] = "reply" /\ nv'[t] = nv[t]

\* Thread t gets a range from the block of its service.
Adds(t) ==
    LET s == ServiceOf[t] IN
    /\ pc[t] \in {"rinc", "wadd"}
    /\ Served(value[s], max[s], step[t])
    /\ value' = [value EXCEPT ![s] = @ + step[t]]
    /\ sr' = [sr EXCEPT ![t] = Range(value[s], max[s], step[t])]
    /\ Goto(t, "done")
    /\ UNCHANGED <<db, ready, max, nv, last, floor>>

\* Thread t gets a block from the row.
Wins(t) ==
    /\ pc[t] = "update"
    /\ db' = db + Inc
    /\ nv' = [nv EXCEPT ![t] = db]
    /\ Goto(t, "reply")
    /\ UNCHANGED <<ready, value, max, sr, last, floor>>

\* A thread that goes to l with its locals kept is quiet.
LEMMA MoveQuiet ==
    ASSUME TypeOK, NEW t \in Threads, NEW l, Goto(t, l), l \notin {"done", "reply"},
           UNCHANGED <<last, ready, max, value, db, sr, nv>>
    PROVE  Quiet
  <1>1. db <= db' /\ \A s \in Services : value[s] <= value'[s]
    BY DEF TypeOK, StoreTypeOK
  <1>2. \A u \in Threads : pc'[u] \in {"done", "reply"} => pc'[u] = pc[u]
    BY DEF Goto, TypeOK, CallTypeOK
  <1> QED
    BY <1>1, <1>2 DEF Quiet

\* A thread that leaves is quiet.
LEMMA LeaveQuiet ==
    ASSUME TypeOK, NEW T, Leave(T), UNCHANGED <<last, ready, max, db>>,
           \A s \in Services : value[s] <= value'[s]
    PROVE  Quiet
  <1>1. db <= db'
    BY DEF TypeOK, StoreTypeOK
  <1>2. \A u \in Threads : pc'[u] \in {"done", "reply"} =>
            pc'[u] = pc[u] /\ sr'[u] = sr[u] /\ nv'[u] = nv[u]
    BY DEF Leave
  <1> QED
    BY <1>1, <1>2 DEF Quiet

\* A failed compare-and-set is quiet; one that succeeds wins.
LEMMA UpdateKind ==
    ASSUME TypeOK, NEW t \in Threads, Update(t)
    PROVE  Quiet \/ Wins(t)
  <1>1. CASE db = rd[t]
    BY <1>1 DEF Update, Wins, workerVars, history
  <1>2. CASE db # rd[t]
    <2>1. UNCHANGED <<last, ready, max, value, db, sr>>
      BY <1>2 DEF Update, workerVars, history
    <2>2. \/ Goto(t, "select") /\ nv' = nv
          \/ Goto(t, "reply") /\ nv' = [nv EXCEPT ![t] = -1]
      BY <1>2 DEF Update
    <2>3. db <= db' /\ \A s \in Services : value[s] <= value'[s]
      BY <2>1 DEF TypeOK, StoreTypeOK
    <2>4. \A u \in Threads : pc'[u] = "done" => pc[u] = "done"
      BY <2>2 DEF Goto, TypeOK, CallTypeOK
    <2>5. \A u \in Threads :
              pc'[u] = "reply" /\ nv'[u] # -1 => pc[u] = "reply" /\ nv'[u] = nv[u]
      BY <2>2 DEF Goto, TypeOK, CallTypeOK
    <2> QED
      BY <2>1, <2>3, <2>4, <2>5 DEF Quiet
  <1> QED
    BY <1>1, <1>2

\* The fetch-and-add under the read lock gives a range or nothing.
LEMMA RIncKind ==
    ASSUME TypeOK, Forward, NEW t \in Threads, RInc(t)
    PROVE  Quiet \/ Adds(t)
  <1>1. CASE Served(value[ServiceOf[t]], max[ServiceOf[t]], step[t])
    BY <1>1 DEF RInc, Adds, dbVars, history
  <1>2. CASE ~Served(value[ServiceOf[t]], max[ServiceOf[t]], step[t])
    <2>1. /\ Goto(t, "wlock") /\ UNCHANGED <<last, ready, max, db, sr, nv>>
          /\ value' = [value EXCEPT ![ServiceOf[t]] = @ + step[t]]
      BY <1>2 DEF RInc, dbVars, history
    <2>2. db <= db' /\ \A s \in Services : value[s] <= value'[s]
      BY <2>1, ConstantsAssumption DEF TypeOK, StoreTypeOK, CallTypeOK, Forward
    <2>3. \A u \in Threads : pc'[u] \in {"done", "reply"} => pc'[u] = pc[u]
      BY <2>1 DEF Goto, TypeOK, CallTypeOK
    <2> QED
      BY <2>1, <2>2, <2>3 DEF Quiet
  <1> QED
    BY <1>1, <1>2

\* Under the write lock addAndIncrement always gives a range.
LEMMA WAddKind ==
    ASSUME TypeOK, Ample, NEW t \in Threads, WAdd(t)
    PROVE  Adds(t)
  <1>1. value[ServiceOf[t]] < max[ServiceOf[t]]
    BY DEF Ample, WAdd
  <1>2. Served(value[ServiceOf[t]], max[ServiceOf[t]], step[t])
    BY <1>1 DEF Served
  <1> QED
    BY <1>1, <1>2 DEF WAdd, Adds, dbVars, history

-----------------------------------------------------------------------------
(* The row, the workers and the blocks on their way stay past all ids.      *)

\* A quiet step keeps everything past the ids.
LEMMA QuietPast ==
    ASSUME TypeOK, TypeOK', Past, Quiet
    PROVE  Past'
  <1> USE ConstantsAssumption DEF TypeOK, StoreTypeOK, CallTypeOK
  <1>1. ASSUME NEW s \in Services, NEW m \in Int, NEW n \in Int, m <= n, AtMost(s, m)
        PROVE  last'[s] <= n /\ \A t \in Threads :
                   ServiceOf[t] = s /\ pc'[t] = "done" => sr'[t].max <= n
    BY <1>1 DEF AtMost, Quiet
  <1>2. \A s \in Services : AtMost(s, db)'
    BY <1>1 DEF Past, Quiet, AtMost
  <1>3. \A s \in Services : ready'[s] => AtMost(s, value[s])' /\ max'[s] <= db'
    BY <1>1 DEF Past, Quiet, AtMost
  <1>4. \A t \in Threads :
            pc'[t] = "reply" /\ nv'[t] # -1 => AtMost(ServiceOf[t], nv[t])'
    BY <1>1 DEF Past, Quiet, AtMost
  <1> QED
    BY <1>2, <1>3, <1>4 DEF Past

\* A block just won starts at the row's value, which is past everything.
LEMMA WinsPast ==
    ASSUME TypeOK, TypeOK', Past, NEW t \in Threads, Wins(t)
    PROVE  Past'
  <1> USE ConstantsAssumption DEF TypeOK, StoreTypeOK, CallTypeOK
  <1>1. \A u \in Threads : pc'[u] = "done" => pc[u] = "done" /\ sr'[u] = sr[u]
    BY DEF Wins, Goto
  <1>2. db < db' /\ last' = last /\ ready' = ready /\ value' = value /\ max' = max
    BY DEF Wins
  <1>3. \A s \in Services : AtMost(s, db)'
    BY <1>1, <1>2 DEF Past, AtMost
  <1>4. \A s \in Services : ready'[s] => AtMost(s, value[s])' /\ max'[s] <= db'
    BY <1>1, <1>2 DEF Past, AtMost
  <1>5. AtMost(ServiceOf[t], nv[t])'
    BY <1>1, <1>2 DEF Past, AtMost, Wins
  <1>6. \A u \in Threads \ {t} :
            pc'[u] = "reply" /\ nv'[u] # -1 => AtMost(ServiceOf[u], nv[u])'
    BY <1>1, <1>2 DEF Past, AtMost, Wins, Goto
  <1> QED
    BY <1>3, <1>4, <1>5, <1>6 DEF Past

\* A block that becomes the worker's starts past all ids of the service.
LEMMA AcceptPast ==
    ASSUME TypeOK, TypeOK', Exclusive, Past, NEW t \in Threads,
           pc[t] = "reply", nv[t] # -1, Accept(t), db' = db
    PROVE  Past'
  <1> USE ConstantsAssumption DEF TypeOK, StoreTypeOK, CallTypeOK
  <1>1. \A u \in Threads : pc'[u] = "done" => pc[u] = "done" /\ sr'[u] = sr[u]
    BY DEF Accept, Goto
  <1>2. last' = last /\ db' = db
    BY DEF Accept, history
  <1>3. nv[t] + Inc <= db
    <2>1. Holds(t, nv[t] + Inc) /\ nv[t] + Inc \in Int
      BY DEF Holds
    <2> QED
      BY <2>1 DEF Exclusive
  <1>4. \A s \in Services : AtMost(s, db)'
    BY <1>1, <1>2 DEF Past, AtMost
  <1>5. /\ value'[ServiceOf[t]] = nv[t] /\ max'[ServiceOf[t]] <= db'
        /\ AtMost(ServiceOf[t], value[ServiceOf[t]])'
    BY <1>1, <1>2, <1>3 DEF Past, AtMost, Accept
  <1>6. \A s \in Services : s # ServiceOf[t] =>
            /\ ready'[s] = ready[s] /\ value'[s] = value[s] /\ max'[s] = max[s]
    BY DEF Accept
  <1>7. \A s \in Services : ready'[s] => AtMost(s, value[s])' /\ max'[s] <= db'
    <2> SUFFICES ASSUME NEW s \in Services, ready'[s], s # ServiceOf[t]
                 PROVE  AtMost(s, value[s])' /\ max'[s] <= db'
      BY <1>5
    <2>1. AtMost(s, value[s]) /\ max[s] <= db
      BY <1>6 DEF Past
    <2> QED
      BY <1>1, <1>2, <1>6, <2>1 DEF AtMost
  <1>8. \A u \in Threads :
            pc'[u] = "reply" /\ nv'[u] # -1 => pc[u] = "reply" /\ nv'[u] = nv[u]
    BY DEF Accept, Goto
  <1>9. \A u \in Threads :
            pc'[u] = "reply" /\ nv'[u] # -1 => AtMost(ServiceOf[u], nv[u])'
    BY <1>1, <1>2, <1>8 DEF Past, AtMost
  <1> QED
    BY <1>4, <1>7, <1>9 DEF Past

\* A new range is within the block and at most the worker's new value; nobody
\* of the service waits for a block.
LEMMA AddsPast ==
    ASSUME TypeOK, TypeOK', Forward, Guarded, Past, NEW t \in Threads, Adds(t)
    PROVE  Past'
  <1> USE ConstantsAssumption DEF TypeOK, StoreTypeOK, CallTypeOK
  <1> DEFINE s == ServiceOf[t]
  <1>1. s \in Services /\ ready[s]
    BY DEF Adds, Guarded, Readiness, ReadHeld
  <1>2. /\ \A u \in Threads \ {t} : pc'[u] = pc[u] /\ sr'[u] = sr[u]
        /\ pc'[t] = "done" /\ UNCHANGED <<db, ready, max, nv, last>>
    BY DEF Adds, Goto
  <1>3. sr'[t].max <= max[s] /\ sr'[t].max <= value[s] + step[t]
    BY <1>1 DEF Adds, Range
  <1>4. /\ value'[s] = value[s] + step[t]
        /\ \A r \in Services : r # s => value'[r] = value[r]
    BY <1>1 DEF Adds
  <1>5. \A u \in Threads : pc'[u] = "reply" => ServiceOf[u] # s /\ pc[u] = "reply"
    BY <1>2 DEF Guarded, Locks, WriteHeld, ReadHeld, Fetch, Adds
  <1> HIDE DEF s
  <1>6. \A r \in Services : AtMost(r, db)'
    BY <1>1, <1>2, <1>3 DEF Past, AtMost, s
  <1>7. \A r \in Services : ready'[r] => AtMost(r, value[r])' /\ max'[r] <= db'
    <2> SUFFICES ASSUME NEW r \in Services, ready'[r]
                 PROVE  AtMost(r, value[r])' /\ max'[r] <= db'
      OBVIOUS
    <2>1. AtMost(r, value[r]) /\ max[r] <= db
      BY <1>2 DEF Past
    <2>2. value[r] <= value'[r]
      BY <1>4 DEF Forward
    <2>3. \A u \in Threads : ServiceOf[u] = r /\ pc'[u] = "done" => sr'[u].max <= value'[r]
      BY <1>2, <1>3, <1>4, <2>1, <2>2 DEF AtMost, s
    <2> QED
      BY <1>2, <2>1, <2>2, <2>3 DEF AtMost
  <1>8. \A u \in Threads :
            pc'[u] = "reply" /\ nv'[u] # -1 => AtMost(ServiceOf[u], nv[u])'
    BY <1>2, <1>5 DEF Past, AtMost, s
  <1> QED
    BY <1>6, <1>7, <1>8 DEF Past

\* What a service returns was past already.
LEMMA ReturnPast ==
    ASSUME TypeOK, TypeOK', Guarded, Past, NEW t \in Threads, Return(t)
    PROVE  Past'
  <1> USE ConstantsAssumption DEF TypeOK, StoreTypeOK, CallTypeOK
  <1>1. pc[t] = "done" /\ UNCHANGED <<db, ready, value, max>>
    BY DEF Return, dbVars, workerVars
  <1>2. \A r \in Services : last'[r] = last[r] \/ (r = ServiceOf[t] /\ last'[r] = sr[t].max)
    BY DEF Return
  <1>3. \A u \in Threads : pc'[u] # "idle" => pc'[u] = pc[u] /\ sr'[u] = sr[u] /\ nv'[u] = nv[u]
    BY DEF Return, Leave
  <1>4. ASSUME NEW r \in Services, NEW m \in Int, AtMost(r, m)
        PROVE  last'[r] <= m /\ \A u \in Threads :
                   ServiceOf[u] = r /\ pc'[u] = "done" => sr'[u].max <= m
    BY <1>1, <1>2, <1>3, <1>4 DEF AtMost
  <1>5. \A r \in Services : AtMost(r, db)'
    BY <1>1, <1>4 DEF Past, AtMost
  <1>6. \A r \in Services : ready'[r] => AtMost(r, value[r])' /\ max'[r] <= db'
    BY <1>1, <1>4 DEF Past, AtMost
  <1>7. \A u \in Threads :
            pc'[u] = "reply" /\ nv'[u] # -1 => AtMost(ServiceOf[u], nv[u])'
    BY <1>3, <1>4 DEF Past, AtMost
  <1> QED
    BY <1>5, <1>6, <1>7 DEF Past

\* A process that ends has nothing left to be past but the row.
LEMMA DownPast ==
    ASSUME TypeOK, TypeOK', Past, NEW s \in Services, Down(s), db' = db
    PROVE  Past'
  <1> USE ConstantsAssumption DEF TypeOK, StoreTypeOK, CallTypeOK
  <1>1. last' = last
    BY DEF Down
  <1>2. \A u \in Threads : pc'[u] # "idle" =>
            /\ pc'[u] = pc[u] /\ sr'[u] = sr[u] /\ nv'[u] = nv[u] /\ ServiceOf[u] # s
    BY DEF Down, Leave, Of
  <1>3. /\ ~ready'[s]
        /\ \A r \in Services : r # s =>
              ready'[r] = ready[r] /\ value'[r] = value[r] /\ max'[r] = max[r]
    BY DEF Down
  <1>4. \A r \in Services : AtMost(r, db)'
    BY <1>1, <1>2 DEF Past, AtMost
  <1>5. \A r \in Services : ready'[r] => AtMost(r, value[r])' /\ max'[r] <= db'
    BY <1>1, <1>2, <1>3 DEF Past, AtMost
  <1>6. \A u \in Threads :
            pc'[u] = "reply" /\ nv'[u] # -1 => AtMost(ServiceOf[u], nv[u])'
    BY <1>1, <1>2 DEF Past, AtMost
  <1> QED
    BY <1>4, <1>5, <1>6 DEF Past

-----------------------------------------------------------------------------
(* Calls stay above their floors, and blocks ample.                         *)

\* Calls that neither begin nor get a range stay above their floors.
LEMMA KeepAbove ==
    ASSUME TypeOK, TypeOK', Above,
           \A s \in Services : last[s] <= last'[s],
           \A t \in Threads : pc'[t] # "idle" => pc[t] # "idle" /\ floor'[t] = floor[t],
           \A t \in Threads : pc'[t] = "done" => pc[t] = "done" /\ sr'[t] = sr[t]
    PROVE  Above'
  BY ConstantsAssumption DEF TypeOK, StoreTypeOK, CallTypeOK, Above

\* A thread that moves on with its range and floor kept.
LEMMA MoveAbove ==
    ASSUME TypeOK, TypeOK', Above, NEW t \in Threads, NEW l, Goto(t, l),
           l # "done", pc[t] # "idle", UNCHANGED <<last, floor, sr>>
    PROVE  Above'
  <1>1. \A s \in Services : last[s] <= last'[s]
    BY DEF TypeOK, StoreTypeOK
  <1>2. \A u \in Threads : pc'[u] # "idle" => pc[u] # "idle" /\ floor'[u] = floor[u]
    BY DEF TypeOK, CallTypeOK, Goto
  <1>3. \A u \in Threads : pc'[u] = "done" => pc[u] = "done" /\ sr'[u] = sr[u]
    BY DEF TypeOK, CallTypeOK, Goto
  <1> QED
    BY <1>1, <1>2, <1>3, KeepAbove

\* Threads that leave, whatever their service returned.
LEMMA LeaveAbove ==
    ASSUME TypeOK, TypeOK', Above, NEW T, Leave(T),
           \A s \in Services : last[s] <= last'[s]
    PROVE  Above'
  <1>1. \A u \in Threads : pc'[u] # "idle" =>
            pc[u] # "idle" /\ pc'[u] = pc[u] /\ floor'[u] = floor[u] /\ sr'[u] = sr[u]
    BY DEF Leave
  <1>2. \A u \in Threads : pc'[u] # "idle" => pc[u] # "idle" /\ floor'[u] = floor[u]
    BY <1>1
  <1>3. \A u \in Threads : pc'[u] = "done" => pc[u] = "done" /\ sr'[u] = sr[u]
    BY <1>1
  <1> QED
    BY <1>2, <1>3, KeepAbove

\* A new range starts above the worker's value, hence above the floor.
LEMMA AddsAbove ==
    ASSUME TypeOK, TypeOK', Guarded, Past, Above, NEW t \in Threads, Adds(t)
    PROVE  Above'
  <1> USE ConstantsAssumption DEF TypeOK, StoreTypeOK, CallTypeOK
  <1>1. ready[ServiceOf[t]] /\ pc[t] # "idle"
    BY DEF Adds, Guarded, Readiness, ReadHeld
  <1>2. floor[t] <= last[ServiceOf[t]] /\ last[ServiceOf[t]] <= value[ServiceOf[t]]
    BY <1>1 DEF Above, Past, AtMost
  <1>3. sr'[t].min = value[ServiceOf[t]] + 1
    BY DEF Adds, Range
  <1>4. floor[t] < sr'[t].min
    BY <1>2, <1>3
  <1>5. \A u \in Threads \ {t} : pc'[u] = pc[u] /\ sr'[u] = sr[u]
    BY DEF Adds, Goto
  <1>6. UNCHANGED <<last, floor>>
    BY DEF Adds
  <1> QED
    BY <1>2, <1>4, <1>5, <1>6 DEF Above

\* Every step keeps calls above their floors.
LEMMA AboveStep ==
    ASSUME TypeOK, TypeOK', Guarded, Past, Above, Ample, [Next]_vars
    PROVE  Above'
  <1>0. \A s \in Services : last[s] <= last[s]
    BY DEF TypeOK, StoreTypeOK
  <1>1. ASSUME NEW t \in Threads, NEW n \in Steps, Call(t, n)
        PROVE  Above'
    <2>1. /\ pc' = [pc EXCEPT ![t] = "find"] /\ UNCHANGED <<last, sr>>
          /\ floor' = [floor EXCEPT ![t] = last[ServiceOf[t]]]
      BY <1>1 DEF Call, Goto
    <2> QED
      BY <1>0, <2>1, ConstantsAssumption DEF Above, TypeOK, StoreTypeOK, CallTypeOK
  <1>2. ASSUME NEW t \in Threads, Walk(t)
        PROVE  Above'
    <2>1. PICK l \in PCs \ {"reply", "done"} : Goto(t, l)
      BY <1>2, WalkMoves
    <2>2. UNCHANGED <<last, floor, sr>>
      BY <1>2, WalkMoves DEF history
    <2>3. pc[t] # "idle"
      BY <1>2 DEF Walk, Find, Build, ReadCfg, Connect, RLock, RCheck, WLock, WCheck
    <2> QED
      BY <2>1, <2>2, <2>3, MoveAbove
  <1>3. ASSUME NEW t \in Threads, Throw(t)
        PROVE  Above'
    BY <1>0, <1>3, LeaveAbove DEF Throw
  <1>4. ASSUME NEW t \in Threads, Select(t)
        PROVE  Above'
    <2>1. CASE ~Throw(t)
      <3>1. Goto(t, "update") /\ pc[t] = "select" /\ UNCHANGED <<last, floor, sr>>
        BY <1>4, <2>1 DEF Select, history
      <3> QED
        BY <3>1, MoveAbove
    <2> QED
      BY <1>3, <2>1
  <1>5. ASSUME NEW t \in Threads, Update(t)
        PROVE  Above'
    <2>1. PICK l \in {"select", "reply"} : Goto(t, l)
      BY <1>5 DEF Update
    <2>2. pc[t] = "update" /\ UNCHANGED <<last, floor, sr>>
      BY <1>5 DEF Update, history
    <2> QED
      BY <2>1, <2>2, MoveAbove
  <1>6. ASSUME NEW s \in Services, Down(s)
        PROVE  Above'
    BY <1>0, <1>6, LeaveAbove DEF Down
  <1>7. ASSUME NEW t \in Threads, Reply(t)
        PROVE  Above'
    <2>1. CASE Accept(t)
      <3>1. PICK l \in {"wadd", "rlock"} : Goto(t, l)
        BY <2>1 DEF Accept
      <3>2. pc[t] = "reply" /\ UNCHANGED <<last, floor, sr>>
        BY <1>7, <2>1 DEF Reply, Accept, history
      <3> QED
        BY <3>1, <3>2, MoveAbove
    <2> QED
      BY <1>3, <1>6, <1>7, <2>1, ConstantsAssumption DEF Reply
  <1>8. ASSUME NEW t \in Threads, RInc(t)
        PROVE  Above'
    <2>1. CASE ~Served(value[ServiceOf[t]], max[ServiceOf[t]], step[t])
      <3>1. Goto(t, "wlock") /\ pc[t] = "rinc" /\ UNCHANGED <<last, floor, sr>>
        BY <1>8, <2>1 DEF RInc, history
      <3> QED
        BY <3>1, MoveAbove
    <2>2. CASE Served(value[ServiceOf[t]], max[ServiceOf[t]], step[t])
      <3>1. Adds(t)
        BY <1>8, <2>2 DEF RInc, Adds, dbVars, history
      <3> QED
        BY <3>1, AddsAbove
    <2> QED
      BY <2>1, <2>2
  <1>9. ASSUME NEW t \in Threads, WAdd(t)
        PROVE  Above'
    BY <1>9, WAddKind, AddsAbove
  <1>10. ASSUME NEW t \in Threads, Return(t)
         PROVE  Above'
    <2>1. \A s \in Services : last[s] <= last'[s]
      BY <1>10 DEF Return, TypeOK, StoreTypeOK, CallTypeOK
    <2> QED
      BY <1>10, <2>1, LeaveAbove DEF Return
  <1>11. CASE Orphan \/ UNCHANGED vars
    BY <1>11 DEF Orphan, vars, callVars, history, Above
  <1> QED
    BY <1>1, <1>2, <1>3, <1>4, <1>5, <1>6, <1>7, <1>8, <1>9, <1>10, <1>11
    DEF Next, Proceed, Fail, Walk, Refused, SqlError, Crash

\* Blocks that nobody else changes stay ample.
LEMMA KeepAmple ==
    ASSUME TypeOK, Ample,
           \A t \in Threads : pc'[t] = "wadd" =>
               /\ pc[t] = "wadd"
               /\ value'[ServiceOf[t]] = value[ServiceOf[t]]
               /\ max'[ServiceOf[t]] = max[ServiceOf[t]]
    PROVE  Ample'
  BY DEF Ample

\* A thread inside the worker changes no block that another relies on.
LEMMA AddsAmple ==
    ASSUME TypeOK, Guarded, Ample, NEW t \in Threads, pc[t] \in {"rinc", "wadd"},
           NEW l, l # "wadd", Goto(t, l), max' = max,
           value' = [value EXCEPT ![ServiceOf[t]] = @ + step[t]]
    PROVE  Ample'
  <1> USE ConstantsAssumption DEF TypeOK, StoreTypeOK, CallTypeOK
  <1>1. \A u \in Threads : pc'[u] = "wadd" => u # t /\ pc[u] = "wadd"
    BY DEF Goto
  <1>2. \A u \in Threads : pc'[u] = "wadd" => ServiceOf[u] # ServiceOf[t]
    BY <1>1 DEF Guarded, Locks, WriteHeld, ReadHeld
  <1>3. \A u \in Threads : pc'[u] = "wadd" => value'[ServiceOf[u]] = value[ServiceOf[u]]
    BY <1>2
  <1> QED
    BY <1>1, <1>3, KeepAmple

\* Every step keeps the blocks ample.
LEMMA AmpleStep ==
    ASSUME TypeOK, Guarded, Ample, [Next]_vars
    PROVE  Ample'
  <1> USE ConstantsAssumption
  <1>1. ASSUME NEW t \in Threads, NEW l, Goto(t, l), l # "wadd",
               UNCHANGED <<value, max>>
        PROVE  Ample'
    BY <1>1, KeepAmple DEF TypeOK, CallTypeOK, Goto
  <1>2. ASSUME NEW T, Leave(T), UNCHANGED <<value, max>>
        PROVE  Ample'
    BY <1>2, KeepAmple DEF Leave
  <1>3. ASSUME NEW s \in Services, Down(s)
        PROVE  Ample'
    <2>1. \A t \in Threads : pc'[t] = "wadd" => pc[t] = "wadd" /\ ServiceOf[t] # s
      BY <1>3 DEF Down, Leave, Of
    <2>2. \A r \in Services : r # s => value'[r] = value[r] /\ max'[r] = max[r]
      BY <1>3 DEF Down, TypeOK, StoreTypeOK
    <2> QED
      BY <2>1, <2>2, KeepAmple
  <1>4. ASSUME NEW t \in Threads, NEW n \in Steps, Call(t, n)
        PROVE  Ample'
    BY <1>1, <1>4 DEF Call, workerVars
  <1>5. ASSUME NEW t \in Threads,
               Find(t) \/ Build(t) \/ ReadCfg(t) \/ Connect(t)
                 \/ RLock(t) \/ RCheck(t) \/ WLock(t) \/ Update(t)
        PROVE  Ample'
    <2>1. \E l \in {"rlock", "build", "cfg", "conn", "select", "radd", "wlock", "rinc",
                    "wcheck", "reply"} : Goto(t, l)
      BY <1>5 DEF Find, Build, ReadCfg, Connect, RLock, RCheck, WLock, Update
    <2>2. UNCHANGED <<value, max>>
      BY <1>5 DEF Find, Build, ReadCfg, Connect, RLock, RCheck, WLock, Update, workerVars
    <2> QED
      BY <1>1, <2>1, <2>2
  <1>6. ASSUME NEW t \in Threads, WCheck(t)
        PROVE  Ample'
    <2>1. UNCHANGED <<value, max>>
      BY <1>6 DEF WCheck, workerVars
    <2>2. CASE value[ServiceOf[t]] < max[ServiceOf[t]]
      <3>1. Goto(t, "wadd")
        BY <1>6, <2>2 DEF WCheck, TypeOK, StoreTypeOK
      <3> QED
        BY <2>1, <2>2, <3>1 DEF Ample, Goto, TypeOK, CallTypeOK
    <2>3. CASE ~(value[ServiceOf[t]] < max[ServiceOf[t]])
      <3>1. Goto(t, "conn")
        BY <1>6, <2>3 DEF WCheck, TypeOK, StoreTypeOK
      <3> QED
        BY <1>1, <2>1, <3>1
    <2> QED
      BY <2>2, <2>3
  <1>7. ASSUME NEW t \in Threads, Refused(t) \/ SqlError(t) \/ Return(t)
        PROVE  Ample'
    BY <1>2, <1>7 DEF Refused, SqlError, Return, Throw, workerVars
  <1>8. ASSUME NEW t \in Threads, Select(t)
        PROVE  Ample'
    <2>1. CASE Throw(t)
      BY <1>2, <1>8, <2>1 DEF Select, Throw, workerVars
    <2>2. CASE ~Throw(t)
      BY <1>1, <1>8, <2>2 DEF Select, workerVars
    <2> QED
      BY <2>1, <2>2
  <1>9. ASSUME NEW t \in Threads, Reply(t)
        PROVE  Ample'
    <2>1. CASE Throw(t) /\ UNCHANGED workerVars
      BY <1>2, <2>1 DEF Throw, workerVars
    <2>2. CASE Accept(t)
      <3>1. pc[t] = "reply"
        BY <1>9 DEF Reply
      <3>2. \A u \in Threads \ {t} : pc'[u] = pc[u]
        BY <2>2 DEF Accept, Goto, TypeOK, CallTypeOK
      <3>3. \A u \in Threads \ {t} : pc[u] = "wadd" => ServiceOf[u] # ServiceOf[t]
        BY <3>1 DEF Guarded, Locks, WriteHeld, Fetch
      <3>4. value'[ServiceOf[t]] < max'[ServiceOf[t]]
        BY <2>2 DEF Accept, TypeOK, StoreTypeOK, CallTypeOK
      <3>5. \A r \in Services : r # ServiceOf[t] =>
                value'[r] = value[r] /\ max'[r] = max[r]
        BY <2>2 DEF Accept, TypeOK, StoreTypeOK
      <3> QED
        BY <3>2, <3>3, <3>4, <3>5 DEF Ample
    <2> QED
      BY <1>3, <1>9, <2>1, <2>2 DEF Reply
  <1>10. ASSUME NEW t \in Threads, RInc(t)
         PROVE  Ample'
    <2>1. PICK l \in {"done", "wlock"} : Goto(t, l)
      BY <1>10 DEF RInc
    <2>2. /\ pc[t] = "rinc" /\ max' = max
          /\ value' = [value EXCEPT ![ServiceOf[t]] = @ + step[t]]
      BY <1>10 DEF RInc
    <2> QED
      BY <2>1, <2>2, AddsAmple
  <1>11. ASSUME NEW t \in Threads, WAdd(t)
         PROVE  Ample'
    <2>1. Adds(t)
      BY <1>11, WAddKind
    <2> QED
      BY <2>1, AddsAmple DEF Adds
  <1>12. ASSUME NEW s \in Services, Crash(s)
         PROVE  Ample'
    BY <1>3, <1>12 DEF Crash
  <1>13. CASE Orphan \/ UNCHANGED vars
    BY <1>13 DEF Orphan, vars, workerVars, callVars, Ample
  <1> QED
    BY <1>4, <1>5, <1>6, <1>7, <1>8, <1>9, <1>10, <1>11, <1>12, <1>13
    DEF Next, Proceed, Fail

-----------------------------------------------------------------------------

\* Every step keeps the row, the workers and the blocks past all ids.
LEMMA PastStep ==
    ASSUME TypeOK, TypeOK', Forward, Exclusive, Guarded, Past, Ample, [Next]_vars
    PROVE  Past'
  <1> USE ConstantsAssumption
  <1>0. db <= db /\ \A s \in Services : value[s] <= value[s]
    BY DEF TypeOK, StoreTypeOK
  <1>1. ASSUME NEW t \in Threads, NEW n \in Steps, Call(t, n)
        PROVE  Past'
    <2>1. Quiet
      BY <1>1, MoveQuiet DEF Call, dbVars, workerVars
    <2> QED
      BY <2>1, QuietPast
  <1>2. ASSUME NEW t \in Threads, Walk(t)
        PROVE  Past'
    <2>1. PICK l \in PCs \ {"reply", "done"} : Goto(t, l)
      BY <1>2, WalkMoves
    <2>2. UNCHANGED <<last, ready, max, value, db, sr, nv>>
      BY <1>2, WalkMoves DEF dbVars, workerVars, history
    <2>3. Quiet
      BY <2>1, <2>2, MoveQuiet
    <2> QED
      BY <2>3, QuietPast
  <1>3. ASSUME NEW t \in Threads, Throw(t), UNCHANGED <<db, workerVars>>
        PROVE  Past'
    <2>1. Quiet
      BY <1>0, <1>3, LeaveQuiet DEF Throw, workerVars
    <2> QED
      BY <2>1, QuietPast
  <1>4. ASSUME NEW t \in Threads, Select(t)
        PROVE  Past'
    <2>1. UNCHANGED <<db, workerVars>>
      BY <1>4 DEF Select, dbVars
    <2>2. CASE ~Throw(t)
      <3>1. Goto(t, "update") /\ UNCHANGED <<last, sr, nv>>
        BY <1>4, <2>2 DEF Select, history
      <3>2. Quiet
        BY <2>1, <3>1, MoveQuiet DEF workerVars
      <3> QED
        BY <3>2, QuietPast
    <2> QED
      BY <1>3, <2>1, <2>2
  <1>5. ASSUME NEW t \in Threads, Update(t)
        PROVE  Past'
    BY <1>5, UpdateKind, QuietPast, WinsPast
  <1>6. ASSUME NEW t \in Threads, Reply(t)
        PROVE  Past'
    <2>1. pc[t] = "reply" /\ db' = db
      BY <1>6 DEF Reply, dbVars
    <2>2. CASE Throw(t) /\ UNCHANGED workerVars
      BY <1>3, <2>1, <2>2
    <2>3. CASE nv[t] # -1 /\ Accept(t)
      BY <2>1, <2>3, AcceptPast
    <2>4. CASE Down(ServiceOf[t])
      BY <2>1, <2>4, DownPast
    <2> QED
      BY <1>6, <2>2, <2>3, <2>4 DEF Reply
  <1>7. ASSUME NEW t \in Threads, RInc(t)
        PROVE  Past'
    BY <1>7, RIncKind, QuietPast, AddsPast
  <1>8. ASSUME NEW t \in Threads, WAdd(t)
        PROVE  Past'
    BY <1>8, WAddKind, AddsPast
  <1>9. ASSUME NEW t \in Threads, Return(t)
        PROVE  Past'
    BY <1>9, ReturnPast
  <1>10. ASSUME NEW s \in Services, Crash(s)
         PROVE  Past'
    BY <1>10, DownPast DEF Crash
  <1>11. CASE Orphan \/ UNCHANGED vars
    <2>1. UNCHANGED <<last, ready, max, value, pc, sr, nv>>
      BY <1>11 DEF Orphan, vars, workerVars, callVars, history
    <2>2. db <= db'
      BY <1>11 DEF Orphan, vars, dbVars, TypeOK, StoreTypeOK
    <2>3. Quiet
      BY <1>0, <2>1, <2>2 DEF Quiet
    <2> QED
      BY <2>3, QuietPast
  <1> QED
    BY <1>1, <1>2, <1>3, <1>4, <1>5, <1>6, <1>7, <1>8, <1>9, <1>10, <1>11
    DEF Next, Proceed, Fail, Walk, Refused, SqlError, dbVars

-----------------------------------------------------------------------------
(* The theorems.                                                            *)

\* Nothing is handed out at the start.
LEMMA InitOInv == Init => OInv
  <1> SUFFICES ASSUME Init PROVE OInv
    OBVIOUS
  <1>1. Guarded
    BY DEF Init, Guarded, Locks, Readiness, WriteHeld, ReadHeld, Fetch
  <1>2. Past
    BY ConstantsAssumption DEF Init, Past, AtMost
  <1>3. Above /\ Ample
    BY DEF Init, Above, Ample
  <1> QED
    BY <1>1, <1>2, <1>3, InitIInv DEF OInv

\* OInv is an invariant of the services and the database.
LEMMA OrderInvariant == Spec => []OInv
  <1>1. OInv /\ [Next]_vars => OInv'
    <2> SUFFICES ASSUME OInv, [Next]_vars PROVE OInv'
      OBVIOUS
    <2>1. TypeOK /\ Guarded /\ Ample /\ IInv
      BY DEF OInv, IInv
    <2>2. IInv' /\ TypeOK'
      BY <2>1, InvariantStep DEF IInv
    <2>3. Guarded' /\ Ample'
      BY <2>1, GuardedStep, AmpleStep
    <2>4. ASSUME back' = 0 PROVE Past' /\ Above'
      <3>1. back = 0
        BY <2>1, <2>2, <2>4, ForwardStep DEF IInv
      <3>2. Forward /\ Exclusive /\ Past /\ Above
        BY <3>1 DEF OInv, IInv
      <3> QED
        BY <2>1, <2>2, <3>2, PastStep, AboveStep
    <2> QED
      BY <2>2, <2>3, <2>4 DEF OInv
  <1> QED
    BY InitOInv, <1>1, PTL DEF Spec

\* The ids of a service grow: a call that began after another call of the same
\* service returned gets larger ids only, whatever fails or restarts in between,
\* as long as nobody asks for a negative step (nextValue, getAndIncrement,
\* nextRange).
THEOREM Order == Spec => []Ordered
  <1>1. OInv => Ordered
    <2> SUFFICES ASSUME OInv, back = 0, NEW t \in Threads, pc[t] = "done",
                        NEW x \in Ids(sr[t])
                 PROVE  x > floor[t]
      BY DEF Ordered
    <2>1. sr[t].min \in Int /\ sr[t].max \in Int /\ floor[t] \in Int
      BY DEF OInv, IInv, TypeOK, CallTypeOK
    <2>2. floor[t] < sr[t].min
      BY DEF OInv, Above
    <2> QED
      BY <2>1, <2>2 DEF Ids
  <1> QED
    BY OrderInvariant, <1>1, PTL

-----------------------------------------------------------------------------
(* No id is skipped.                                                        *)

\* The row of a sequence starts at 0 or above.  A row below may reach -1, which
\* nextRange takes for the answer of a failed compare-and-set, and a block that
\* looks like that is lost.
StartNotNegative == DbStart >= 0

\* Id x was returned, is held by a call or is left in a block.
Around(x) ==
    \/ x \in issued
    \/ \E t \in Threads : Holds(t, x)
    \/ \E s \in Services : HasLeft(s, x)

\* Until a call fails, every id the row gave away is around.
Covered == clean => \A x \in Int : DbStart < x /\ x <= db => Around(x)

\* Whoever builds a worker or fetches its next block replaces no id.
Spent ==
    /\ \A s \in Services : ~ready[s] => value[s] >= max[s]
    /\ \A t \in Threads :
          pc[t] \in Fetch => value[ServiceOf[t]] >= max[ServiceOf[t]]

\* The row only grows, and calls run on without a client only after a failure.
Rising == DbStart <= db /\ (clean => orphans = 0)

\* The invariant behind NoGaps.
GInv == OInv /\ Covered /\ Spent /\ Rising

\* If each id around stays around, nothing is skipped.
LEMMA KeepCovered ==
    ASSUME Covered, db' = db, clean' = clean,
           \A x \in Int : Around(x) => Around(x)'
    PROVE  Covered'
  BY DEF Covered

\* A thread that held no id and holds none afterwards changes nothing, if
\* every block keeps what it has left.
LEMMA MoveCovered ==
    ASSUME TypeOK, TypeOK', Covered, NEW t \in Threads,
           \A x \in Int : ~Holds(t, x) /\ ~Holds(t, x)',
           \A u \in Threads \ {t} :
               pc'[u] = pc[u] /\ nv'[u] = nv[u] /\ sr'[u] = sr[u],
           \A x \in Int, s \in Services : HasLeft(s, x)' <=> HasLeft(s, x),
           UNCHANGED <<db, issued, clean>>
    PROVE  Covered'
  <1>1. \A x \in Int, u \in Threads : Holds(u, x)' <=> Holds(u, x)
    <2> SUFFICES ASSUME NEW x \in Int, NEW u \in Threads, u # t
                 PROVE  Holds(u, x)' <=> Holds(u, x)
      OBVIOUS
    <2>1. pc'[u] = pc[u] /\ nv'[u] = nv[u] /\ sr'[u] = sr[u]
      OBVIOUS
    <2> QED
      BY <2>1 DEF Holds
  <1>2. \A x \in Int : Around(x)' <=> Around(x)
    BY <1>1 DEF Around
  <1> QED
    BY <1>2, KeepCovered

\* A block just won is what the row gave away.
LEMMA WinsCovered ==
    ASSUME StartNotNegative, TypeOK, TypeOK', Covered, Rising,
           NEW t \in Threads, Wins(t), UNCHANGED <<issued, clean>>
    PROVE  Covered'
  <1> USE ConstantsAssumption
  <1>1. db \in Int /\ db' = db + Inc /\ db # -1
    BY DEF Wins, Rising, StartNotNegative, TypeOK, StoreTypeOK
  <1>2. \A x \in Int : ~Holds(t, x)
    BY DEF Wins, Holds
  <1>3. \A x \in Int : Holds(t, x)' <=> db < x /\ x <= db + Inc
    <2>1. pc'[t] = "reply" /\ nv'[t] = db
      BY DEF Wins, Goto, TypeOK, CallTypeOK
    <2> QED
      BY <1>1, <2>1 DEF Holds
  <1>4. \A x \in Int, u \in Threads : u # t => (Holds(u, x)' <=> Holds(u, x))
    BY DEF TypeOK, CallTypeOK, Holds, Goto, Wins
  <1>5. \A x \in Int, s \in Services : HasLeft(s, x)' <=> HasLeft(s, x)
    BY DEF HasLeft, Wins
  <1>6. \A x \in Int : Around(x)' <=> Around(x) \/ (db < x /\ x <= db + Inc)
    BY <1>2, <1>3, <1>4, <1>5 DEF Around
  <1>7. DbStart <= db /\ DbStart \in Int /\ Inc \in Nat
    BY DEF Rising
  <1> QED
    BY <1>1, <1>6, <1>7 DEF Covered

\* A block that becomes the worker's replaces one with nothing left.
LEMMA AcceptCovered ==
    ASSUME TypeOK, TypeOK', Covered, Spent, NEW t \in Threads,
           pc[t] = "reply", nv[t] # -1, Accept(t), db' = db
    PROVE  Covered'
  <1> DEFINE s == ServiceOf[t]
  <1> USE ConstantsAssumption
  <1>1. s \in Services /\ issued' = issued /\ clean' = clean
    BY DEF TypeOK, Accept, history
  <1>2. \A x \in Int : ~Holds(t, x)'
    BY DEF TypeOK, CallTypeOK, Accept, Goto, Holds
  <1>3. \A x \in Int, u \in Threads : u # t => (Holds(u, x)' <=> Holds(u, x))
    BY DEF TypeOK, CallTypeOK, Accept, Goto, Holds
  <1>4. \A x \in Int : HasLeft(s, x)' <=> Holds(t, x)
    BY DEF TypeOK, StoreTypeOK, Accept, HasLeft, Holds
  <1>5. \A x \in Int, r \in Services : r # s => (HasLeft(r, x)' <=> HasLeft(r, x))
    BY DEF TypeOK, StoreTypeOK, Accept, HasLeft
  <1>6. \A x \in Int : ~HasLeft(s, x)
    <2>1. value[s] >= max[s] /\ value[s] \in Int /\ max[s] \in Int
      BY <1>1 DEF Spent, Fetch, TypeOK, StoreTypeOK
    <2> QED
      BY <2>1 DEF HasLeft
  <1> HIDE DEF s
  <1>7. \A x \in Int : Around(x)' <=> Around(x)
    BY <1>1, <1>2, <1>3, <1>4, <1>5, <1>6 DEF Around
  <1> QED
    BY <1>1, <1>7, KeepCovered

\* A fetch-and-add leaves every id of the block with the thread or the worker,
\* at the end of the block too.
LEMMA AddsCovered ==
    ASSUME TypeOK, TypeOK', Covered, NEW t \in Threads, Adds(t),
           UNCHANGED <<issued, clean>>
    PROVE  Covered'
  <1> DEFINE s == ServiceOf[t]
  <1> USE ConstantsAssumption
  <1>1. s \in Services /\ step[t] \in Int /\ value[s] \in Int /\ max[s] \in Int
    BY DEF TypeOK, StoreTypeOK, CallTypeOK
  <1>2. \A x \in Int : ~Holds(t, x)
    BY DEF Adds, Holds
  <1>3. \A x \in Int : Holds(t, x)' <=> HasLeft(s, x) /\ x <= value[s] + step[t]
    <2>1. pc'[t] = "done" /\ sr'[t] = Range(value[s], max[s], step[t])
      BY DEF Adds, Goto, TypeOK, CallTypeOK
    <2>2. /\ sr'[t].min = value[s] + 1
          /\ sr'[t].max = IF value[s] + step[t] <= max[s] THEN value[s] + step[t] ELSE max[s]
      BY <2>1 DEF Range
    <2> HIDE DEF s
    <2> QED
      BY <1>1, <2>1, <2>2 DEF Holds, HasLeft
  <1>4. \A x \in Int, u \in Threads : u # t => (Holds(u, x)' <=> Holds(u, x))
    BY DEF TypeOK, CallTypeOK, Holds, Goto, Adds
  <1>5. \A x \in Int : HasLeft(s, x) /\ x > value[s] + step[t] => HasLeft(s, x)'
    BY <1>1 DEF TypeOK, StoreTypeOK, HasLeft, Adds
  <1>6. \A x \in Int, r \in Services : r # s => (HasLeft(r, x)' <=> HasLeft(r, x))
    BY DEF TypeOK, StoreTypeOK, HasLeft, Adds
  <1> HIDE DEF s
  <1>7. \A x \in Int : HasLeft(s, x) => Holds(t, x)' \/ HasLeft(s, x)'
    BY <1>1, <1>3, <1>5
  <1>8. \A x \in Int : Around(x) => Around(x)'
    <2> SUFFICES ASSUME NEW x \in Int, Around(x) PROVE Around(x)'
      OBVIOUS
    <2>1. CASE x \in issued
      BY <2>1 DEF Around
    <2>2. ASSUME NEW u \in Threads, Holds(u, x) PROVE Around(x)'
      BY <1>2, <1>4, <2>2 DEF Around
    <2>3. ASSUME NEW q \in Services, HasLeft(q, x) PROVE Around(x)'
      BY <1>1, <1>6, <1>7, <2>3 DEF Around
    <2> QED
      BY <2>1, <2>2, <2>3 DEF Around
  <1>9. db' = db
    BY DEF Adds
  <1> QED
    BY <1>8, <1>9, KeepCovered

\* What a call returns goes from the thread to the client.
LEMMA ReturnCovered ==
    ASSUME TypeOK, TypeOK', Covered, NEW t \in Threads, Return(t)
    PROVE  Covered'
  <1>1. pc[t] = "done" /\ Leave({t}) /\ UNCHANGED <<db, value, max, clean>>
    BY DEF Return, dbVars, workerVars
  <1>2. \A x \in Int : x \in issued' <=> x \in issued \/ Holds(t, x)
    BY <1>1 DEF Return, Ids, Holds, TypeOK, CallTypeOK
  <1>3. \A x \in Int : ~Holds(t, x)'
    BY <1>1 DEF Leave, Holds
  <1>4. \A x \in Int, u \in Threads : u # t => (Holds(u, x)' <=> Holds(u, x))
    BY <1>1 DEF Leave, Holds, TypeOK, CallTypeOK
  <1>5. \A x \in Int, s \in Services : HasLeft(s, x)' <=> HasLeft(s, x)
    BY <1>1 DEF HasLeft
  <1>6. \A x \in Int : Around(x)' <=> Around(x)
    BY <1>2, <1>3, <1>4, <1>5 DEF Around
  <1> QED
    BY <1>1, <1>6, KeepCovered

\* Every step keeps the ids the row gave away around.
LEMMA CoveredStep ==
    ASSUME StartNotNegative, TypeOK, TypeOK', Ample, Covered, Spent, Rising, [Next]_vars
    PROVE  Covered'
  <1> USE ConstantsAssumption
  <1>1. ASSUME NEW t \in Threads, NEW l, Goto(t, l), l \notin {"reply", "done"},
               pc[t] \notin {"reply", "done"},
               UNCHANGED <<nv, sr, value, max, db, issued, clean>>
        PROVE  Covered'
    <2>1. pc'[t] = l /\ \A u \in Threads \ {t} : pc'[u] = pc[u]
      BY <1>1 DEF Goto, TypeOK, CallTypeOK
    <2>2. \A x \in Int : ~Holds(t, x) /\ ~Holds(t, x)'
      BY <1>1, <2>1 DEF Holds
    <2>3. \A x \in Int, s \in Services : HasLeft(s, x)' <=> HasLeft(s, x)
      BY <1>1 DEF HasLeft
    <2>4. \A u \in Threads \ {t} :
              pc'[u] = pc[u] /\ nv'[u] = nv[u] /\ sr'[u] = sr[u]
      BY <1>1, <2>1
    <2> QED
      BY <1>1, <2>2, <2>3, <2>4, MoveCovered
  <1>2. ASSUME NEW t \in Threads, NEW n \in Steps, Call(t, n)
        PROVE  Covered'
    BY <1>1, <1>2 DEF Call, dbVars, workerVars
  <1>3. ASSUME NEW t \in Threads, Walk(t)
        PROVE  Covered'
    <2>1. PICK l \in PCs \ {"reply", "done"} : Goto(t, l)
      BY <1>3, WalkMoves
    <2>2. UNCHANGED <<nv, sr, value, max, db, issued, clean>>
      BY <1>3, WalkMoves DEF dbVars, workerVars, history
    <2>3. pc[t] \notin {"reply", "done"}
      BY <1>3 DEF Walk, Find, Build, ReadCfg, Connect, RLock, RCheck, WLock, WCheck
    <2> QED
      BY <1>1, <2>1, <2>2, <2>3
  <1>4. ASSUME ~clean' PROVE Covered'
    BY <1>4 DEF Covered
  <1>5. ASSUME NEW t \in Threads, Select(t)
        PROVE  Covered'
    <2>1. CASE Throw(t)
      BY <1>4, <2>1 DEF Throw
    <2>2. CASE ~Throw(t)
      <3>1. Goto(t, "update") /\ pc[t] = "select" /\ UNCHANGED <<nv, sr, issued, clean>>
        BY <1>5, <2>2 DEF Select, history
      <3>2. UNCHANGED <<value, max, db>>
        BY <1>5 DEF Select, dbVars, workerVars
      <3> QED
        BY <1>1, <3>1, <3>2
    <2> QED
      BY <2>1, <2>2
  <1>6. ASSUME NEW t \in Threads, Update(t)
        PROVE  Covered'
    <2>1. pc[t] = "update" /\ UNCHANGED <<value, max, sr, issued, clean>>
      BY <1>6 DEF Update, workerVars, history
    <2>2. CASE db = rd[t]
      <3>1. Wins(t)
        BY <1>6, <2>2 DEF Update, Wins, workerVars, history
      <3> QED
        BY <2>1, <3>1, WinsCovered
    <2>3. CASE db # rd[t]
      <3>1. db' = db
        BY <1>6, <2>3 DEF Update
      <3>2. CASE Goto(t, "select") /\ nv' = nv
        BY <1>1, <2>1, <3>1, <3>2
      <3>3. CASE Goto(t, "reply") /\ nv' = [nv EXCEPT ![t] = -1]
        <4>1. /\ pc'[t] = "reply" /\ nv'[t] = -1
              /\ \A u \in Threads \ {t} : pc'[u] = pc[u] /\ nv'[u] = nv[u]
          BY <3>3 DEF Goto, TypeOK, CallTypeOK
        <4>2. \A x \in Int : ~Holds(t, x) /\ ~Holds(t, x)'
          BY <2>1, <4>1 DEF Holds
        <4>3. \A x \in Int, s \in Services : HasLeft(s, x)' <=> HasLeft(s, x)
          BY <2>1 DEF HasLeft
        <4> QED
          BY <2>1, <3>1, <4>1, <4>2, <4>3, MoveCovered
      <3> QED
        BY <1>6, <2>3, <3>2, <3>3 DEF Update
    <2> QED
      BY <2>2, <2>3
  <1>7. ASSUME NEW t \in Threads, Reply(t)
        PROVE  Covered'
    <2>1. pc[t] = "reply" /\ db' = db
      BY <1>7 DEF Reply, dbVars
    <2>2. CASE Throw(t) \/ Down(ServiceOf[t])
      BY <1>4, <2>2 DEF Throw, Down
    <2>3. CASE nv[t] # -1 /\ Accept(t)
      BY <2>1, <2>3, AcceptCovered
    <2> QED
      BY <1>7, <2>2, <2>3 DEF Reply
  <1>8. ASSUME NEW t \in Threads, RInc(t)
        PROVE  Covered'
    <2> DEFINE s == ServiceOf[t]
    <2>1. pc[t] = "rinc" /\ UNCHANGED <<db, max, nv, issued, clean>>
      BY <1>8 DEF RInc, dbVars, history
    <2>2. CASE Served(value[s], max[s], step[t])
      <3>1. Adds(t)
        BY <1>8, <2>2 DEF RInc, Adds, dbVars, history
      <3> QED
        BY <2>1, <3>1, AddsCovered
    <2>3. CASE ~Served(value[s], max[s], step[t])
      <3>1. Goto(t, "wlock") /\ sr' = sr /\ value' = [value EXCEPT ![s] = @ + step[t]]
        BY <1>8, <2>3 DEF RInc
      <3>2. pc'[t] = "wlock" /\ \A u \in Threads \ {t} : pc'[u] = pc[u]
        BY <3>1 DEF Goto, TypeOK, CallTypeOK
      <3>3. \A x \in Int : ~Holds(t, x) /\ ~Holds(t, x)'
        BY <2>1, <3>2 DEF Holds
      <3>4. \A x \in Int, r \in Services : HasLeft(r, x)' <=> HasLeft(r, x)
        <4>1. \A r \in Services : r # s => value'[r] = value[r] /\ max'[r] = max[r]
          BY <2>1, <3>1 DEF TypeOK, StoreTypeOK
        <4>2. /\ s \in Services /\ value[s] \in Int /\ max[s] \in Int /\ step[t] \in Int
              /\ value'[s] = value[s] + step[t] /\ max'[s] = max[s]
          BY <2>1, <3>1 DEF TypeOK, StoreTypeOK, CallTypeOK
        <4>3. value[s] >= max[s] /\ value'[s] > max[s]
          BY <2>3, <4>2 DEF Served
        <4> HIDE DEF s
        <4>4. \A x \in Int : ~HasLeft(s, x) /\ ~HasLeft(s, x)'
          BY <4>2, <4>3 DEF HasLeft
        <4> QED
          BY <4>1, <4>4 DEF HasLeft
      <3> QED
        BY <2>1, <3>1, <3>2, <3>3, <3>4, MoveCovered
    <2> QED
      BY <2>2, <2>3
  <1>9. ASSUME NEW t \in Threads, WAdd(t)
        PROVE  Covered'
    <2>1. Adds(t)
      BY <1>9, WAddKind
    <2>2. value[ServiceOf[t]] < max[ServiceOf[t]]
      BY <2>1, <1>9 DEF Ample, WAdd
    <2>3. UNCHANGED <<issued, clean>>
      BY <1>9, <2>1, <2>2 DEF WAdd, Adds, history
    <2> QED
      BY <2>1, <2>3, AddsCovered
  <1>10. ASSUME NEW t \in Threads, Return(t)
         PROVE  Covered'
    BY <1>10, ReturnCovered
  <1>11. ASSUME NEW t \in Threads, Fail(t)
         PROVE  Covered'
    BY <1>4, <1>11 DEF Fail, Refused, SqlError, Throw
  <1>12. ASSUME NEW s \in Services, Crash(s)
         PROVE  Covered'
    BY <1>4, <1>12 DEF Crash, Down
  <1>13. CASE Orphan
    <2>1. ~clean /\ clean' = clean
      BY <1>13 DEF Orphan, Rising, history
    <2> QED
      BY <1>4, <2>1
  <1>14. CASE UNCHANGED vars
    <2>1. UNCHANGED <<pc, nv, sr, value, max, db, issued, clean>>
      BY <1>14 DEF vars, dbVars, workerVars, callVars, history
    <2>2. \A x \in Int : Around(x)' <=> Around(x)
      BY <2>1 DEF Around, Holds, HasLeft
    <2> QED
      BY <2>1, <2>2, KeepCovered
  <1> QED
    BY <1>2, <1>3, <1>5, <1>6, <1>7, <1>8, <1>9, <1>10, <1>11, <1>12, <1>13, <1>14
    DEF Next, Proceed, Walk

-----------------------------------------------------------------------------
(* A block is fetched only when the old one is used up.                     *)

\* Workers only lose ids, and a thread begins to fetch only without any left.
LEMMA KeepSpent ==
    ASSUME TypeOK, TypeOK', Spent, UNCHANGED <<ready, max>>,
           \A s \in Services : value[s] <= value'[s],
           \A t \in Threads : pc'[t] \in Fetch /\ pc[t] \notin Fetch
               => value[ServiceOf[t]] >= max[ServiceOf[t]]
    PROVE  Spent'
  <1>1. \A s \in Services : value[s] \in Int /\ value'[s] \in Int /\ max[s] \in Int
    BY DEF TypeOK, StoreTypeOK
  <1>2. \A t \in Threads : ServiceOf[t] \in Services
    BY ConstantsAssumption
  <1>3. \A s \in Services : ~ready'[s] => value'[s] >= max'[s]
    BY <1>1 DEF Spent
  <1>4. \A t \in Threads :
            pc'[t] \in Fetch => value'[ServiceOf[t]] >= max'[ServiceOf[t]]
    BY <1>1, <1>2 DEF Spent
  <1> QED
    BY <1>3, <1>4 DEF Spent

\* A process that ends has no block.
LEMMA DownSpent ==
    ASSUME TypeOK, TypeOK', Spent, NEW s \in Services, Down(s)
    PROVE  Spent'
  <1>1. value'[s] = 0 /\ max'[s] = 0
    BY DEF Down, TypeOK, StoreTypeOK
  <1>2. \A r \in Services : r # s =>
            ready'[r] = ready[r] /\ value'[r] = value[r] /\ max'[r] = max[r]
    BY DEF Down, TypeOK, StoreTypeOK
  <1>3. \A t \in Threads : ServiceOf[t] \in Services
    BY ConstantsAssumption
  <1>4. \A t \in Threads : ServiceOf[t] # s => pc'[t] = pc[t]
    BY DEF Down, Leave, Of
  <1> QED
    BY <1>1, <1>2, <1>3, <1>4 DEF Spent

\* A worker that got its block is ready and its lock is not held by a second
\* thread that fetches one.
LEMMA AcceptSpent ==
    ASSUME TypeOK, TypeOK', Guarded, Spent, NEW t \in Threads,
           pc[t] = "reply", Accept(t)
    PROVE  Spent'
  <1>1. \A u \in Threads : ServiceOf[u] \in Services
    BY ConstantsAssumption
  <1>2. ready'[ServiceOf[t]]
    BY <1>1 DEF Accept, TypeOK, StoreTypeOK
  <1>3. \A r \in Services : r # ServiceOf[t] =>
            ready'[r] = ready[r] /\ value'[r] = value[r] /\ max'[r] = max[r]
    BY DEF Accept, TypeOK, StoreTypeOK
  <1>4. pc'[t] \notin Fetch /\ \A u \in Threads \ {t} : pc'[u] = pc[u]
    BY DEF Accept, Goto, Fetch, TypeOK, CallTypeOK
  <1>5. \A u \in Threads \ {t} : ServiceOf[u] = ServiceOf[t] => pc[u] \notin Fetch
    BY DEF Guarded, Locks, WriteHeld, Fetch
  <1> QED
    BY <1>1, <1>2, <1>3, <1>4, <1>5 DEF Spent

\* Every step keeps Spent.
LEMMA SpentStep ==
    ASSUME TypeOK, TypeOK', Guarded, Ample, Spent, [Next]_vars
    PROVE  Spent'
  <1> USE ConstantsAssumption
  <1>0. \A s \in Services : value[s] <= value[s]
    BY DEF TypeOK, StoreTypeOK
  <1>1. ASSUME NEW t \in Threads, NEW l, Goto(t, l), UNCHANGED <<ready, value, max>>,
               l \in Fetch /\ pc[t] \notin Fetch
                   => value[ServiceOf[t]] >= max[ServiceOf[t]]
        PROVE  Spent'
    <2>1. pc'[t] = l /\ \A u \in Threads \ {t} : pc'[u] = pc[u]
      BY <1>1 DEF Goto, TypeOK, CallTypeOK
    <2> QED
      BY <1>0, <1>1, <2>1, KeepSpent
  <1>2. ASSUME NEW t \in Threads, NEW n \in Steps, Call(t, n)
        PROVE  Spent'
    BY <1>1, <1>2 DEF Call, workerVars, Fetch
  <1>3. ASSUME NEW t \in Threads, Walk(t)
        PROVE  Spent'
    <2>1. UNCHANGED <<ready, value, max>>
      BY <1>3, WalkMoves DEF workerVars
    <2>2. CASE Find(t)
      BY <1>1, <2>1, <2>2 DEF Find, Fetch
    <2>3. CASE Build(t)
      <3>1. ServiceOf[t] \in Services
        OBVIOUS
      <3> QED
        BY <1>1, <2>1, <2>3, <3>1 DEF Build, Spent, Fetch
    <2>4. CASE ReadCfg(t) \/ Connect(t)
      BY <1>1, <2>1, <2>4 DEF ReadCfg, Connect, Fetch
    <2>5. CASE RLock(t) \/ RCheck(t) \/ WLock(t)
      BY <1>1, <2>1, <2>5 DEF RLock, RCheck, WLock, Fetch
    <2>6. CASE WCheck(t)
      BY <1>1, <2>1, <2>6 DEF WCheck, Fetch
    <2> QED
      BY <1>3, <2>2, <2>3, <2>4, <2>5, <2>6 DEF Walk
  <1>4. ASSUME NEW T, Leave(T), UNCHANGED <<ready, max, value>>
        PROVE  Spent'
    <2>1. \A u \in Threads : pc'[u] = pc[u] \/ pc'[u] \notin Fetch
      BY <1>4 DEF Leave, Fetch
    <2> QED
      BY <1>0, <1>4, <2>1, KeepSpent
  <1>5. ASSUME NEW t \in Threads, Select(t)
        PROVE  Spent'
    <2>1. UNCHANGED <<ready, value, max>> /\ pc[t] \in Fetch
      BY <1>5 DEF Select, workerVars, Fetch
    <2>2. CASE Throw(t)
      BY <1>4, <2>1, <2>2 DEF Throw
    <2>3. CASE ~Throw(t)
      BY <1>1, <1>5, <2>1, <2>3 DEF Select
    <2> QED
      BY <2>2, <2>3
  <1>6. ASSUME NEW t \in Threads, Update(t)
        PROVE  Spent'
    BY <1>1, <1>6 DEF Update, workerVars, Fetch
  <1>7. ASSUME NEW t \in Threads, Reply(t)
        PROVE  Spent'
    <2>1. pc[t] = "reply"
      BY <1>7 DEF Reply
    <2>2. CASE Throw(t) /\ UNCHANGED workerVars
      BY <1>4, <2>2 DEF Throw, workerVars
    <2>3. CASE Accept(t)
      BY <2>1, <2>3, AcceptSpent
    <2>4. CASE Down(ServiceOf[t])
      BY <2>4, DownSpent
    <2> QED
      BY <1>7, <2>2, <2>3, <2>4 DEF Reply
  <1>8. ASSUME NEW t \in Threads, RInc(t) \/ WAdd(t)
        PROVE  Spent'
    <2>1. /\ UNCHANGED <<ready, max>>
          /\ value' = [value EXCEPT ![ServiceOf[t]] = @ + step[t]]
          /\ Goto(t, "done") \/ Goto(t, "wlock")
          /\ pc[t] \in {"rinc", "wadd"}
      BY <1>8, WAddKind DEF RInc, Adds
    <2>2. \A s \in Services : s # ServiceOf[t] => value'[s] = value[s]
      BY <2>1 DEF TypeOK, StoreTypeOK
    <2>3. ready[ServiceOf[t]]
      BY <2>1 DEF Guarded, Readiness, ReadHeld
    <2>4. \A u \in Threads : pc'[u] \in Fetch => u # t /\ pc[u] \in Fetch
      BY <2>1 DEF Goto, Fetch, TypeOK, CallTypeOK
    <2>5. \A u \in Threads : pc'[u] \in Fetch => ServiceOf[u] # ServiceOf[t]
      BY <2>1, <2>4 DEF Guarded, Locks, WriteHeld, ReadHeld
    <2> QED
      BY <2>1, <2>2, <2>3, <2>4, <2>5 DEF Spent
  <1>9. ASSUME NEW t \in Threads, Return(t) \/ Fail(t)
        PROVE  Spent'
    BY <1>4, <1>9 DEF Return, Fail, Refused, SqlError, Throw, workerVars
  <1>10. ASSUME NEW s \in Services, Crash(s)
         PROVE  Spent'
    BY <1>10, DownSpent DEF Crash
  <1>11. CASE Orphan \/ UNCHANGED vars
    BY <1>11 DEF Orphan, vars, workerVars, callVars, Spent
  <1> QED
    BY <1>2, <1>3, <1>5, <1>6, <1>7, <1>8, <1>9, <1>10, <1>11
    DEF Next, Proceed, Walk

\* Every step keeps the row from falling, and only a failure leaves a call
\* behind.
LEMMA RisingStep ==
    ASSUME TypeOK, TypeOK', Rising, [Next]_vars
    PROVE  Rising'
  <1> USE ConstantsAssumption
  <1>1. db <= db'
    <2>1. db \in Int /\ db <= db /\ db <= db + Inc
      BY DEF TypeOK, StoreTypeOK
    <2>2. ASSUME NEW t \in Threads, Update(t)
          PROVE  db' = db \/ db' = db + Inc
      BY <2>2 DEF Update
    <2>3. CASE db' = db \/ db' = db + Inc
      BY <2>1, <2>3
    <2> QED
      BY <2>2, <2>3
      DEF Next, Proceed, Fail, Call, Find, Build, ReadCfg, Connect, Refused, Select,
          SqlError, Orphan, Reply, RLock, RCheck, RInc, WLock, WCheck, WAdd, Return,
          Crash, vars, dbVars
  <1>2. \/ clean' = FALSE
        \/ clean' = clean /\ orphans' = orphans
        \/ clean' = clean /\ orphans > 0
    <2>1. ASSUME NEW t \in Threads, Walk(t)
          PROVE  clean' = clean /\ orphans' = orphans
      BY <2>1, WalkMoves DEF dbVars, history
    <2>2. ASSUME NEW t \in Threads, Select(t)
          PROVE  clean' = FALSE \/ (clean' = clean /\ orphans' = orphans)
      BY <2>2 DEF Select, Throw, dbVars, history
    <2>3. ASSUME NEW t \in Threads, Reply(t)
          PROVE  clean' = FALSE \/ (clean' = clean /\ orphans' = orphans)
      BY <2>3 DEF Reply, Accept, Throw, Down, dbVars, history
    <2>4. ASSUME NEW t \in Threads, WAdd(t)
          PROVE  clean' = FALSE \/ (clean' = clean /\ orphans' = orphans)
      BY <2>4 DEF WAdd, Throw, dbVars, history
    <2>5. ASSUME NEW t \in Threads, Update(t) \/ RInc(t) \/ Return(t)
          PROVE  clean' = clean /\ orphans' = orphans
      BY <2>5 DEF Update, RInc, Return, dbVars, history
    <2>6. ASSUME NEW t \in Threads, Fail(t)
          PROVE  clean' = FALSE
      BY <2>6 DEF Fail, Refused, SqlError, Throw
    <2>7. ASSUME NEW t \in Threads, NEW n \in Steps, Call(t, n)
          PROVE  clean' = clean /\ orphans' = orphans
      BY <2>7 DEF Call, dbVars
    <2>8. ASSUME NEW s \in Services, Crash(s)
          PROVE  clean' = FALSE
      BY <2>8 DEF Crash, Down
    <2>9. CASE Orphan
      BY <2>9 DEF Orphan, history
    <2>10. CASE UNCHANGED vars
      BY <2>10 DEF vars, dbVars, history
    <2> QED
      BY <2>1, <2>2, <2>3, <2>4, <2>5, <2>6, <2>7, <2>8, <2>9, <2>10
      DEF Next, Proceed, Walk
  <1>3. DbStart <= db'
    BY <1>1 DEF Rising, TypeOK, StoreTypeOK
  <1>4. clean' => orphans' = 0
    <2>1. CASE clean' = FALSE
      BY <2>1
    <2>2. CASE clean' = clean /\ orphans' = orphans
      BY <2>2 DEF Rising
    <2>3. CASE clean' = clean /\ orphans > 0
      <3>1. orphans # 0
        BY <2>3 DEF TypeOK, StoreTypeOK
      <3> QED
        BY <2>3, <3>1 DEF Rising
    <2> QED
      BY <1>2, <2>1, <2>2, <2>3
  <1> QED
    BY <1>3, <1>4 DEF Rising

\* GInv is an invariant of the services and the database.
LEMMA GapsInvariant ==
    ASSUME StartNotNegative
    PROVE  Spec => []GInv
  <1> USE ConstantsAssumption
  <1>1. Init => GInv
    <2> SUFFICES ASSUME Init PROVE GInv
      OBVIOUS
    <2>1. Covered
      BY DEF Init, Covered, Around, Holds, HasLeft
    <2>2. Spent /\ Rising
      BY DEF Init, Spent, Rising, Fetch
    <2> QED
      BY <2>1, <2>2, InitOInv DEF GInv
  <1>2. OInv /\ OInv' /\ GInv /\ [Next]_vars => GInv'
    <2> SUFFICES ASSUME OInv, OInv', GInv, [Next]_vars PROVE GInv'
      OBVIOUS
    <2>1. TypeOK /\ TypeOK' /\ Guarded /\ Ample /\ Covered /\ Spent /\ Rising
      BY DEF GInv, OInv, IInv
    <2> QED
      BY <2>1, CoveredStep, SpentStep, RisingStep DEF GInv
  <1> QED
    BY OrderInvariant, <1>1, <1>2, PTL DEF Spec

\* Until a call fails or a service crashes, and whatever steps clients ask for,
\* negative ones too, every id the row gave away was
\* returned, is held by a call or is left in a block: threads that race within
\* a service, services that race for the row and the partial range at the end of
\* a block skip none (getAndIncrement, addAndIncrement, nextRange).
THEOREM Gapless ==
    ASSUME StartNotNegative
    PROVE  Spec => []NoGaps
  <1> USE ConstantsAssumption
  <1>1. GInv => NoGaps
    <2> DEFINE Owned == UNION {Own(t) : t \in Threads}
               Kept == UNION {Left(s) : s \in Services}
               All == issued \cup Owned \cup Kept
    <2> SUFFICES ASSUME GInv, clean
                 PROVE  DbStart + 1 .. db \subseteq All
      BY DEF NoGaps
    <2>1. TypeOK
      BY DEF GInv, OInv, IInv
    <2>2. \A t \in Threads : \A x : x \in Own(t) <=> x \in Int /\ Holds(t, x)
      <3> SUFFICES ASSUME NEW t \in Threads, NEW x
                   PROVE  x \in Own(t) <=> x \in Int /\ Holds(t, x)
        OBVIOUS
      <3>1. nv[t] \in Int /\ sr[t].min \in Int /\ sr[t].max \in Int
        BY <2>1 DEF TypeOK, CallTypeOK
      <3>2. CASE pc[t] = "reply"
        BY <3>1, <3>2 DEF Own, Holds
      <3>3. CASE pc[t] = "done"
        BY <3>1, <3>3 DEF Own, Ids, Holds
      <3>4. CASE pc[t] \notin {"reply", "done"}
        BY <3>4 DEF Own, Holds
      <3> QED
        BY <3>2, <3>3, <3>4
    <2>3. \A s \in Services : \A x : x \in Left(s) <=> x \in Int /\ HasLeft(s, x)
      BY <2>1 DEF TypeOK, StoreTypeOK, Left, HasLeft
    <2>4. issued \subseteq Int
      BY <2>1 DEF TypeOK, StoreTypeOK
    <2>5. \A x : x \in All <=> x \in Int /\ Around(x)
      <3> SUFFICES ASSUME NEW x
                   PROVE  x \in All <=> x \in Int /\ Around(x)
        OBVIOUS
      <3>1. x \in All <=> \/ x \in issued
                          \/ \E t \in Threads : x \in Own(t)
                          \/ \E s \in Services : x \in Left(s)
        <4>1. x \in Owned <=> \E t \in Threads : x \in Own(t)
          BY Zenon
        <4>2. x \in Kept <=> \E s \in Services : x \in Left(s)
          BY Zenon
        <4> HIDE DEF Owned, Kept
        <4> QED
          BY <4>1, <4>2
      <3> HIDE DEF All
      <3>2. x \in issued => x \in Int
        BY <2>4
      <3> QED
        BY <2>2, <2>3, <3>1, <3>2 DEF Around
    <2>6. \A x \in Int : DbStart < x /\ x <= db => Around(x)
      BY DEF GInv, Covered
    <2>7. db \in Int /\ DbStart \in Int
      BY <2>1 DEF TypeOK, StoreTypeOK
    <2> HIDE DEF All
    <2>8. \A x : x \in DbStart + 1 .. db <=> x \in Int /\ DbStart < x /\ x <= db
      BY <2>7
    <2> QED
      BY <2>5, <2>6, <2>8
  <1> QED
    BY GapsInvariant, <1>1, PTL

-----------------------------------------------------------------------------
(* DefaultSequenceWorker implements UniqueRanges: the fetch-and-add that    *)
(* finds an id is Grant, the return of nextValue is Return, an exception or *)
(* the end of a process is Lose, and every other step is a stutter.         *)

\* If the same calls have the same ranges, nothing is granted or lost.
LEMMA SameGranted ==
    ASSUME issued' = issued,
           \A t \in Threads : (pc'[t] = "done") = (pc[t] = "done"),
           \A t \in Threads : pc[t] = "done" => sr'[t] = sr[t]
    PROVE  UNCHANGED Abstract!vars
  <1>1. \A t \in Threads : Granted'[t] = Granted[t]
    BY DEF Granted, Ids
  <1>2. Granted' = Granted
    BY <1>1 DEF Granted
  <1> QED
    BY <1>2 DEF Abstract!vars

\* A thread that moves on without a range.
LEMMA MoveGranted ==
    ASSUME TypeOK, NEW t \in Threads, NEW l, Goto(t, l), pc[t] # "done", l # "done",
           UNCHANGED <<sr, issued>>
    PROVE  UNCHANGED Abstract!vars
  <1>1. \A u \in Threads : (pc'[u] = "done") = (pc[u] = "done")
    BY DEF TypeOK, CallTypeOK, Goto
  <1> QED
    BY <1>1, SameGranted

\* Threads that leave lose what they were granted.
LEMMA LeaveLoses ==
    ASSUME TypeOK, NEW T, Leave(T), issued' = issued
    PROVE  Abstract!Next
  <1> DEFINE D == T \cap Threads
  <1>1. \A t \in Threads : Granted'[t] = IF t \in D THEN {} ELSE Granted[t]
    BY DEF Leave, Granted, Ids
  <1>2. Granted' = [t \in Threads |-> IF t \in D THEN {} ELSE Granted[t]]
    BY <1>1 DEF Granted
  <1>3. Abstract!Lose(D)
    BY <1>2 DEF Abstract!Lose
  <1>4. D \in SUBSET Threads
    OBVIOUS
  <1> QED
    BY <1>3, <1>4 DEF Abstract!Next

\* A thread that gets a range is granted it.
LEMMA AddsGrants ==
    ASSUME TypeOK, TypeOK', NoDuplicateIds', back' = 0, NEW t \in Threads, Adds(t),
           issued' = issued
    PROVE  Abstract!Next
  <1>1. \A u \in Threads \ {t} : pc'[u] = pc[u] /\ sr'[u] = sr[u]
    BY DEF TypeOK, CallTypeOK, Adds, Goto
  <1>2. pc[t] # "done" /\ pc'[t] = "done"
    BY DEF TypeOK, CallTypeOK, Adds, Goto
  <1>3. Granted[t] = {} /\ Granted'[t] = Ids(sr'[t])
    BY <1>2 DEF Granted, Ids
  <1>4. \A u \in Threads \ {t} : Granted'[u] = Granted[u]
    BY <1>1 DEF Granted, Ids
  <1>5. \A u \in Threads : Granted'[u] \subseteq Own(u)'
    BY DEF Granted, Own, Ids
  <1>6. Granted'[t] \cap issued = {}
    BY <1>5 DEF NoDuplicateIds
  <1>7. \A u \in Threads \ {t} : Granted'[t] \cap Granted[u] = {}
    BY <1>4, <1>5 DEF NoDuplicateIds
  <1>8. Granted'[t] \subseteq Int
    <2>1. sr'[t].min \in Int /\ sr'[t].max \in Int
      BY DEF TypeOK, CallTypeOK
    <2> QED
      BY <1>3, <2>1 DEF Ids
  <1>9. Granted' = [Granted EXCEPT ![t] = Granted'[t]]
    BY <1>4 DEF Granted
  <1>10. Abstract!Grant(t)
    BY <1>3, <1>6, <1>7, <1>8, <1>9 DEF Abstract!Grant
  <1> QED
    BY <1>10 DEF Abstract!Next

\* A call that returns its range returns what it was granted.
LEMMA ReturnReturns ==
    ASSUME TypeOK, NEW t \in Threads, Return(t)
    PROVE  Abstract!Next
  <1>1. pc[t] = "done" /\ issued' = issued \cup Ids(sr[t]) /\ Leave({t})
    BY DEF Return
  <1>2. Granted[t] = Ids(sr[t])
    BY <1>1 DEF Granted
  <1>3. \A u \in Threads : Granted'[u] = IF u = t THEN {} ELSE Granted[u]
    BY <1>1 DEF Leave, Granted, Ids
  <1>4. Granted' = [Granted EXCEPT ![t] = {}]
    BY <1>3 DEF Granted
  <1>5. Abstract!Return(t)
    BY <1>1, <1>2, <1>4 DEF Abstract!Return
  <1> QED
    BY <1>5 DEF Abstract!Next

\* Until somebody asks for a negative step, every step is a step of UniqueRanges
\* or a stutter.
LEMMA StepRefines ==
    ASSUME TypeOK, TypeOK', NoDuplicateIds', back' = 0, Ample, [Next]_vars
    PROVE  [Abstract!Next]_(Abstract!vars)
  <1> USE ConstantsAssumption
  <1>1. ASSUME NEW t \in Threads, NEW n \in Steps, Call(t, n)
        PROVE  UNCHANGED Abstract!vars
    BY <1>1, MoveGranted DEF Call
  <1>2. ASSUME NEW t \in Threads, Walk(t)
        PROVE  UNCHANGED Abstract!vars
    <2>1. PICK l \in PCs \ {"reply", "done"} : Goto(t, l)
      BY <1>2, WalkMoves
    <2>2. UNCHANGED <<sr, issued>>
      BY <1>2, WalkMoves DEF history
    <2>3. pc[t] # "done"
      BY <1>2 DEF Walk, Find, Build, ReadCfg, Connect, RLock, RCheck, WLock, WCheck
    <2> QED
      BY <2>1, <2>2, <2>3, MoveGranted
  <1>3. ASSUME NEW t \in Threads, Throw(t)
        PROVE  Abstract!Next
    BY <1>3, LeaveLoses DEF Throw
  <1>4. ASSUME NEW s \in Services, Down(s)
        PROVE  Abstract!Next
    BY <1>4, LeaveLoses DEF Down
  <1>5. ASSUME NEW t \in Threads, Select(t), ~Throw(t)
        PROVE  UNCHANGED Abstract!vars
    <2>1. Goto(t, "update") /\ pc[t] = "select" /\ UNCHANGED <<sr, issued>>
      BY <1>5 DEF Select, history
    <2> QED
      BY <2>1, MoveGranted
  <1>6. ASSUME NEW t \in Threads, Update(t)
        PROVE  UNCHANGED Abstract!vars
    <2>1. PICK l \in {"select", "reply"} : Goto(t, l)
      BY <1>6 DEF Update
    <2>2. pc[t] = "update" /\ UNCHANGED <<sr, issued>>
      BY <1>6 DEF Update, history
    <2> QED
      BY <2>1, <2>2, MoveGranted
  <1>7. ASSUME NEW t \in Threads, Reply(t), Accept(t)
        PROVE  UNCHANGED Abstract!vars
    <2>1. PICK l \in {"wadd", "rlock"} : Goto(t, l)
      BY <1>7 DEF Accept
    <2>2. pc[t] = "reply" /\ UNCHANGED <<sr, issued>>
      BY <1>7 DEF Reply, Accept, history
    <2> QED
      BY <2>1, <2>2, MoveGranted
  <1>8. ASSUME NEW t \in Threads, RInc(t)
        PROVE  [Abstract!Next]_(Abstract!vars)
    <2>1. issued' = issued
      BY <1>8 DEF RInc, history
    <2>2. CASE Served(value[ServiceOf[t]], max[ServiceOf[t]], step[t])
      <3>1. Adds(t)
        BY <1>8, <2>2 DEF RInc, Adds, dbVars, history
      <3> QED
        BY <2>1, <3>1, AddsGrants
    <2>3. CASE ~Served(value[ServiceOf[t]], max[ServiceOf[t]], step[t])
      <3>1. Goto(t, "wlock") /\ pc[t] = "rinc" /\ sr' = sr
        BY <1>8, <2>3 DEF RInc
      <3> QED
        BY <2>1, <3>1, MoveGranted
    <2> QED
      BY <2>2, <2>3
  <1>9. ASSUME NEW t \in Threads, WAdd(t)
        PROVE  Abstract!Next
    <2>1. Adds(t)
      BY <1>9, WAddKind
    <2>2. issued' = issued
      BY <1>9 DEF WAdd, Throw, history
    <2> QED
      BY <2>1, <2>2, AddsGrants
  <1>10. ASSUME NEW t \in Threads, Return(t)
         PROVE  Abstract!Next
    BY <1>10, ReturnReturns
  <1>11. CASE Orphan \/ UNCHANGED vars
    BY <1>11, SameGranted DEF Orphan, vars, callVars, history
  <1>12. ASSUME NEW t \in Threads, Reply(t)
         PROVE  [Abstract!Next]_(Abstract!vars)
    BY <1>3, <1>4, <1>7, <1>12 DEF Reply
  <1> QED
    BY <1>1, <1>2, <1>3, <1>4, <1>5, <1>6, <1>8, <1>9, <1>10, <1>11, <1>12
    DEF Next, Proceed, Fail, Walk, Refused, SqlError, Crash

\* As long as nobody asks for a negative step, the services and the database
\* implement UniqueRanges, for any number of services and threads: every call
\* returns ids of its own (nextValue, getAndIncrement and seq_nextval_v2).
THEOREM Refinement == Spec => GrantsUniqueRanges
  <1>1. Init => Abstract!Init
    BY DEF Init, Abstract!Init, Granted
  <1>2. OInv /\ OInv' /\ NoDuplicateIds' /\ [Next]_vars => GrantStep
    BY StepRefines DEF OInv, IInv, GrantStep
  <1> QED
    BY <1>1, <1>2, OrderInvariant, Uniqueness, PTL DEF Spec, GrantsUniqueRanges
=============================================================================
