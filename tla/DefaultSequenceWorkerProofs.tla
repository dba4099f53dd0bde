--------------------- MODULE DefaultSequenceWorkerProofs ---------------------
(***************************************************************************)
(* Proofs about DefaultSequenceWorker, for every set of services, threads  *)
(* and steps and every block length.                                       *)
(*                                                                         *)
(* The inductive invariant is TypeOK with two parts.  LoopBound bounds the *)
(* loop of seq_nextval_v2.  Exclusive says of each single id that at most  *)
(* one holder has it and that the row has passed it; a new block starts at *)
(* the row's value, so it is new to all.  Exclusive holds until a call     *)
(* asks for a negative step, which Forward says nobody has done.           *)
(***************************************************************************)
EXTENDS DefaultSequenceWorker, TLAPS

\* seq_nextval_v2 is inside its loop until it answers.
LoopBound == \A t \in Threads : pc[t] # "reply" => tries[t] < DbTries

\* Thread t holds id x: it is in an answer on its way, or about to be returned.
Holds(t, x) ==
    \/ pc[t] = "reply" /\ nv[t] # -1 /\ nv[t] < x /\ x <= nv[t] + Inc
    \/ pc[t] = "done" /\ sr[t].min <= x /\ x <= sr[t].max

\* Id x is left in the block of service s.
HasLeft(s, x) == value[s] < x /\ x <= max[s]

\* An id has one holder, and the row is past it.
Exclusive ==
    /\ \A x \in issued : x <= db
    /\ \A x \in Int, t \in Threads : Holds(t, x) => x \notin issued /\ x <= db
    /\ \A x \in Int, s \in Services : HasLeft(s, x) => x \notin issued /\ x <= db
    /\ \A x \in Int, t, u \in Threads : Holds(t, x) /\ Holds(u, x) => t = u
    /\ \A x \in Int, s, r \in Services : HasLeft(s, x) /\ HasLeft(r, x) => s = r
    /\ \A x \in Int, t \in Threads, s \in Services : ~(Holds(t, x) /\ HasLeft(s, x))

\* No call under way asks for a negative step.
Forward == \A t \in Threads : step[t] >= 0

\* The invariant behind NoDuplicateIds.
IInv == TypeOK /\ LoopBound /\ (back = 0 => Forward /\ Exclusive)

-----------------------------------------------------------------------------
(* Types.                                                                   *)

\* The initial state has its types, and nothing is handed out.
LEMMA InitIInv == Init => IInv
  <1> SUFFICES ASSUME Init PROVE IInv
    OBVIOUS
  <1> USE ConstantsAssumption
  <1>1. TypeOK
    BY DEF Init, TypeOK, StoreTypeOK, CallTypeOK, NoRange, PCs
  <1>2. LoopBound
    BY DEF Init, LoopBound
  <1>3. Forward /\ Exclusive
    BY DEF Init, Forward, Exclusive, Holds, HasLeft
  <1> QED
    BY <1>1, <1>2, <1>3 DEF IInv

\* Leaving threads keep the types of the call variables.
LEMMA LeaveType ==
    ASSUME CallTypeOK, LoopBound, NEW T, Leave(T)
    PROVE  CallTypeOK' /\ LoopBound'
  BY ConstantsAssumption DEF CallTypeOK, LoopBound, Leave, NoRange, PCs

\* A call that ends with an exception keeps all types.
LEMMA ThrowType ==
    ASSUME TypeOK, LoopBound, NEW t \in Threads, Throw(t),
           db' \in Int, orphans' \in Nat, UNCHANGED <<ready, max>>,
           value' \in [Services -> Int]
    PROVE  TypeOK' /\ LoopBound'
  <1>1. CallTypeOK' /\ LoopBound'
    BY LeaveType DEF Throw, TypeOK
  <1>2. StoreTypeOK'
    BY DEF Throw, TypeOK, StoreTypeOK
  <1> QED
    BY <1>1, <1>2 DEF TypeOK

\* The end of a process keeps all types.
LEMMA DownType ==
    ASSUME TypeOK, LoopBound, NEW s \in Services, Down(s), db' = db, orphans' \in Nat
    PROVE  TypeOK' /\ LoopBound'
  <1>1. Leave(Of(s)) /\ CallTypeOK
    BY DEF Down, TypeOK
  <1>2. CallTypeOK' /\ LoopBound'
    BY <1>1, LeaveType
  <1>3. ready' \in [Services -> BOOLEAN]
    BY DEF Down, TypeOK, StoreTypeOK
  <1>4. value' \in [Services -> Int] /\ max' \in [Services -> Int]
    BY DEF Down, TypeOK, StoreTypeOK
  <1>5. StoreTypeOK'
    BY <1>3, <1>4 DEF Down, TypeOK, StoreTypeOK
  <1> QED
    BY <1>2, <1>5 DEF TypeOK

\* Every step keeps the types, and the loop of seq_nextval_v2 its bound.
LEMMA TypeStep ==
    ASSUME TypeOK, LoopBound, [Next]_vars
    PROVE  TypeOK' /\ LoopBound'
  <1> USE ConstantsAssumption
  <1>1. ASSUME NEW t \in Threads, NEW n \in Steps, Call(t, n)
        PROVE  TypeOK' /\ LoopBound'
    BY <1>1 DEF TypeOK, StoreTypeOK, CallTypeOK, LoopBound, Call, Goto, dbVars,
                workerVars, PCs
  <1>2. ASSUME NEW t \in Threads, Find(t)
        PROVE  TypeOK' /\ LoopBound'
    BY <1>2 DEF TypeOK, StoreTypeOK, CallTypeOK, LoopBound, Find, Goto, dbVars,
                workerVars, history, PCs, WriteHeld, ReadHeld, Fetch
  <1>3. ASSUME NEW t \in Threads, Build(t)
        PROVE  TypeOK' /\ LoopBound'
    BY <1>3 DEF TypeOK, StoreTypeOK, CallTypeOK, LoopBound, Build, Goto, dbVars,
                workerVars, history, PCs, WriteHeld, ReadHeld, Fetch
  <1>4. ASSUME NEW t \in Threads, ReadCfg(t)
        PROVE  TypeOK' /\ LoopBound'
    BY <1>4 DEF TypeOK, StoreTypeOK, CallTypeOK, LoopBound, ReadCfg, Goto, dbVars,
                workerVars, history, PCs, WriteHeld, ReadHeld, Fetch
  <1>5. ASSUME NEW t \in Threads, Connect(t)
        PROVE  TypeOK' /\ LoopBound'
    BY <1>5 DEF TypeOK, StoreTypeOK, CallTypeOK, LoopBound, Connect, Goto, dbVars,
                workerVars, history, PCs, WriteHeld, ReadHeld, Fetch
  <1>6. ASSUME NEW t \in Threads, RLock(t)
        PROVE  TypeOK' /\ LoopBound'
    BY <1>6 DEF TypeOK, StoreTypeOK, CallTypeOK, LoopBound, RLock, Goto, dbVars,
                workerVars, history, PCs, WriteHeld, ReadHeld, Fetch
  <1>7. ASSUME NEW t \in Threads, RCheck(t)
        PROVE  TypeOK' /\ LoopBound'
    BY <1>7 DEF TypeOK, StoreTypeOK, CallTypeOK, LoopBound, RCheck, Goto, dbVars,
                workerVars, history, PCs, WriteHeld, ReadHeld, Fetch
  <1>8. ASSUME NEW t \in Threads, WLock(t)
        PROVE  TypeOK' /\ LoopBound'
    BY <1>8 DEF TypeOK, StoreTypeOK, CallTypeOK, LoopBound, WLock, Goto, dbVars,
                workerVars, history, PCs, WriteHeld, ReadHeld, Fetch
  <1>9. ASSUME NEW t \in Threads, WCheck(t)
        PROVE  TypeOK' /\ LoopBound'
    BY <1>9 DEF TypeOK, StoreTypeOK, CallTypeOK, LoopBound, WCheck, Goto, dbVars,
                workerVars, history, PCs, WriteHeld, ReadHeld, Fetch
  <1>10. ASSUME NEW t \in Threads, Refused(t)
         PROVE  TypeOK' /\ LoopBound'
    BY <1>10, ThrowType DEF TypeOK, StoreTypeOK, Refused, dbVars, workerVars
  <1>11. ASSUME NEW t \in Threads, SqlError(t)
         PROVE  TypeOK' /\ LoopBound'
    <2>1. orphans' \in Nat
      BY <1>11 DEF TypeOK, StoreTypeOK, SqlError
    <2> QED
      BY <1>11, <2>1, ThrowType DEF TypeOK, StoreTypeOK, SqlError, workerVars
  <1>12. ASSUME NEW t \in Threads, Select(t)
         PROVE  TypeOK' /\ LoopBound'
    <2>1. CASE Throw(t)
      BY <1>12, <2>1, ThrowType DEF TypeOK, StoreTypeOK, Select, dbVars, workerVars
    <2>2. CASE ~Throw(t)
      <3>1. PICK v \in {db} \cup (IF tries[t] > 0 THEN {rd[t]} ELSE {}) :
              /\ rd' = [rd EXCEPT ![t] = v]
              /\ Goto(t, "update")
              /\ UNCHANGED <<step, attempt, tries, nv, sr, history>>
        BY <1>12, <2>2 DEF Select
      <3>2. v \in Int
        BY DEF TypeOK, StoreTypeOK, CallTypeOK
      <3>3. UNCHANGED <<dbVars, workerVars>>
        BY <1>12 DEF Select
      <3>4. pc[t] = "select"
        BY <1>12 DEF Select
      <3> QED
        BY <3>1, <3>2, <3>3, <3>4
        DEF TypeOK, StoreTypeOK, CallTypeOK, LoopBound, Goto, dbVars, workerVars,
            history, PCs, WriteHeld, Fetch
    <2> QED
      BY <2>1, <2>2
  <1>13. ASSUME NEW t \in Threads, Update(t)
         PROVE  TypeOK' /\ LoopBound'
    <2>1. tries[t] \in Nat /\ tries[t] < DbTries /\ pc[t] = "update"
      BY <1>13 DEF Update, TypeOK, CallTypeOK, LoopBound
    <2>2. UNCHANGED <<orphans, ready, value, max, step, attempt, rd, sr, issued, last,
                      floor, clean, back>>
      BY <1>13 DEF Update, workerVars, history
    <2>3. db' \in Int
      BY <1>13 DEF Update, TypeOK, StoreTypeOK, CallTypeOK
    <2>4. nv' \in [Threads -> Int]
      BY <1>13 DEF Update, TypeOK, CallTypeOK
    <2>5. pc' \in [Threads -> PCs]
      BY <1>13 DEF Update, Goto, TypeOK, CallTypeOK, PCs, WriteHeld, Fetch
    <2>6. tries' \in [Threads -> 0 .. DbTries]
      BY <1>13, <2>1 DEF Update, TypeOK, CallTypeOK
    <2>7. LoopBound'
      BY <1>13, <2>1 DEF Update, Goto, Again, LoopBound, TypeOK, CallTypeOK
    <2> QED
      BY <2>2, <2>3, <2>4, <2>5, <2>6, <2>7 DEF TypeOK, StoreTypeOK, CallTypeOK
  <1>14. ASSUME NEW t \in Threads, Reply(t)
         PROVE  TypeOK' /\ LoopBound'
    <2>0. UNCHANGED <<db, orphans>>
      BY <1>14 DEF Reply, dbVars
    <2>1. CASE Throw(t) /\ UNCHANGED workerVars
      BY <2>0, <2>1, ThrowType DEF TypeOK, StoreTypeOK, workerVars
    <2>2. CASE Accept(t)
      BY <2>0, <2>2 DEF TypeOK, StoreTypeOK, CallTypeOK, LoopBound, Accept, Goto,
                        history, PCs, WriteHeld, Fetch
    <2>3. CASE Down(ServiceOf[t])
      BY <2>0, <2>3, DownType DEF TypeOK, StoreTypeOK
    <2> QED
      BY <1>14, <2>1, <2>2, <2>3 DEF Reply
  <1>15. ASSUME NEW t \in Threads, RInc(t)
         PROVE  TypeOK' /\ LoopBound'
    <2>1. value' \in [Services -> Int]
      BY <1>15 DEF TypeOK, StoreTypeOK, CallTypeOK, RInc
    <2>2. Range(value[ServiceOf[t]], max[ServiceOf[t]], step[t]) \in [min : Int, max : Int]
      BY DEF TypeOK, StoreTypeOK, CallTypeOK, Range
    <2>3. sr' \in [Threads -> [min : Int, max : Int]]
      BY <1>15, <2>2 DEF TypeOK, CallTypeOK, RInc
    <2>4. pc' \in [Threads -> PCs] /\ LoopBound'
      BY <1>15 DEF TypeOK, CallTypeOK, LoopBound, RInc, Goto, PCs
    <2> QED
      BY <1>15, <2>1, <2>3, <2>4
      DEF TypeOK, StoreTypeOK, CallTypeOK, RInc, dbVars, history
  <1>16. ASSUME NEW t \in Threads, WAdd(t)
         PROVE  TypeOK' /\ LoopBound'
    <2>1. value' \in [Services -> Int]
      BY <1>16 DEF TypeOK, StoreTypeOK, CallTypeOK, WAdd
    <2>2. CASE Throw(t)
      BY <1>16, <2>1, <2>2, ThrowType DEF TypeOK, StoreTypeOK, WAdd, dbVars
    <2>3. CASE ~Throw(t)
      <3>1. Range(value[ServiceOf[t]], max[ServiceOf[t]], step[t]) \in [min : Int, max : Int]
        BY DEF TypeOK, StoreTypeOK, CallTypeOK, Range
      <3>2. sr' \in [Threads -> [min : Int, max : Int]]
        BY <1>16, <2>3, <3>1 DEF TypeOK, CallTypeOK, WAdd
      <3>3. pc' \in [Threads -> PCs] /\ LoopBound'
        BY <1>16, <2>3 DEF TypeOK, CallTypeOK, LoopBound, WAdd, Goto, PCs
      <3>4. attempt' \in [Threads -> 0 .. RetryTimes]
        BY <1>16, <2>3 DEF TypeOK, CallTypeOK, WAdd
      <3>5. UNCHANGED <<step, tries, rd, nv, history, dbVars, ready, max>>
        BY <1>16, <2>3 DEF WAdd
      <3> QED
        BY <2>1, <3>2, <3>3, <3>4, <3>5
        DEF TypeOK, StoreTypeOK, CallTypeOK, dbVars, history
    <2> QED
      BY <2>2, <2>3
  <1>17. ASSUME NEW t \in Threads, Return(t)
         PROVE  TypeOK' /\ LoopBound'
    <2>1. CallTypeOK' /\ LoopBound'
      BY <1>17, LeaveType DEF TypeOK, Return
    <2>2. StoreTypeOK'
      <3>0. sr[t].min \in Int /\ sr[t].max \in Int
        BY DEF TypeOK, CallTypeOK
      <3>1. issued' \subseteq Int
        <4>1. Ids(sr[t]) \subseteq Int
          BY <3>0 DEF Ids
        <4> QED
          BY <1>17, <4>1 DEF TypeOK, StoreTypeOK, Return
      <3>2. last' \in [Services -> Int]
        BY <1>17, <3>0 DEF TypeOK, StoreTypeOK, Return
      <3> QED
        BY <1>17, <3>1, <3>2 DEF TypeOK, StoreTypeOK, Return, dbVars, workerVars
    <2> QED
      BY <2>1, <2>2 DEF TypeOK
  <1>18. ASSUME NEW s \in Services, Crash(s)
         PROVE  TypeOK' /\ LoopBound'
    <2>1. orphans' \in Nat /\ db' = db /\ Down(s)
      BY <1>18 DEF TypeOK, StoreTypeOK, Crash
    <2> QED
      BY <2>1, DownType
  <1>19. CASE Orphan
    BY <1>19 DEF TypeOK, StoreTypeOK, CallTypeOK, LoopBound, Orphan, workerVars,
                 callVars, history
  <1>20. CASE UNCHANGED vars
    BY <1>20 DEF TypeOK, StoreTypeOK, CallTypeOK, LoopBound, vars, dbVars,
                 workerVars, callVars, history
  <1> QED
    BY <1>1, <1>2, <1>3, <1>4, <1>5, <1>6, <1>7, <1>8, <1>9, <1>10, <1>11, <1>12,
       <1>13, <1>14, <1>15, <1>16, <1>17, <1>18, <1>19, <1>20
    DEF Next, Proceed, Fail

-----------------------------------------------------------------------------
(* No id is handed out twice.                                               *)

\* If nobody gains an id, ids keep their one holder.
LEMMA NoGain ==
    ASSUME TypeOK, Exclusive, TypeOK',
           issued' = issued, db <= db',
           \A x \in Int, t \in Threads : Holds(t, x)' => Holds(t, x),
           \A x \in Int, s \in Services : HasLeft(s, x)' => HasLeft(s, x)
    PROVE  Exclusive'
  <1>1. \A x \in issued : x <= db'
    BY DEF TypeOK, StoreTypeOK, Exclusive
  <1>2. \A x \in Int, t \in Threads : Holds(t, x)' => x \notin issued' /\ x <= db'
    BY DEF TypeOK, StoreTypeOK, Exclusive
  <1>3. \A x \in Int, s \in Services : HasLeft(s, x)' => x \notin issued' /\ x <= db'
    BY DEF TypeOK, StoreTypeOK, Exclusive
  <1>4. \A x \in Int, t, u \in Threads : Holds(t, x)' /\ Holds(u, x)' => t = u
    BY DEF Exclusive
  <1>5. \A x \in Int, s, r \in Services : HasLeft(s, x)' /\ HasLeft(r, x)' => s = r
    BY DEF Exclusive
  <1>6. \A x \in Int, t \in Threads, s \in Services : ~(Holds(t, x)' /\ HasLeft(s, x)')
    BY DEF Exclusive
  <1> QED
    BY <1>1, <1>2, <1>3, <1>4, <1>5, <1>6 DEF Exclusive

\* Threads that leave gain no id.
LEMMA LeaveHolds ==
    ASSUME TypeOK, NEW T, Leave(T)
    PROVE  \A x \in Int, t \in Threads : Holds(t, x)' => Holds(t, x)
  BY DEF TypeOK, CallTypeOK, Leave, Holds

\* A thread that moves to a place where it holds no id gains none.
LEMMA MoveHolds ==
    ASSUME TypeOK, NEW t \in Threads, NEW l \in PCs \ {"reply", "done"},
           Goto(t, l),
           \A u \in Threads \ {t} : nv'[u] = nv[u] /\ sr'[u] = sr[u]
    PROVE  \A x \in Int, u \in Threads : Holds(u, x)' => Holds(u, x)
  BY DEF TypeOK, CallTypeOK, Goto, Holds

\* A worker that keeps its block has no id more left.
LEMMA SameLeft ==
    ASSUME UNCHANGED <<value, max>>
    PROVE  \A x \in Int, s \in Services : HasLeft(s, x)' => HasLeft(s, x)
  BY DEF HasLeft

\* A process that ends leaves nobody an id more.
LEMMA DownExclusive ==
    ASSUME TypeOK, Exclusive, TypeOK', NEW s \in Services, Down(s), db' = db
    PROVE  Exclusive'
  <1>1. Leave(Of(s)) /\ issued' = issued
    BY DEF Down
  <1>2. \A x \in Int, r \in Services : HasLeft(r, x)' => HasLeft(r, x)
    BY DEF Down, HasLeft, TypeOK, StoreTypeOK
  <1>3. db <= db'
    BY DEF TypeOK, StoreTypeOK
  <1> QED
    BY <1>1, <1>2, <1>3, LeaveHolds, NoGain

\* A call that ends with an exception leaves nobody an id more.
LEMMA ThrowExclusive ==
    ASSUME TypeOK, Exclusive, TypeOK', NEW t \in Threads, Throw(t),
           db' = db, UNCHANGED <<value, max>>
    PROVE  Exclusive'
  <1>1. Leave({t}) /\ issued' = issued
    BY DEF Throw
  <1>2. db <= db'
    BY DEF TypeOK, StoreTypeOK
  <1> QED
    BY <1>1, <1>2, LeaveHolds, SameLeft, NoGain

\* A fetch-and-add splits what is left of a block between the thread and the
\* worker.
LEMMA AddExclusive ==
    ASSUME TypeOK, Forward, Exclusive, TypeOK', NEW t \in Threads,
           pc[t] \notin {"reply", "done"},
           value' = [value EXCEPT ![ServiceOf[t]] = @ + step[t]],
           Served(value[ServiceOf[t]], max[ServiceOf[t]], step[t]),
           sr' = [sr EXCEPT ![t] = Range(value[ServiceOf[t]], max[ServiceOf[t]], step[t])],
           Goto(t, "done"),
           UNCHANGED <<db, max, nv, issued>>
    PROVE  Exclusive'
  <1> DEFINE s == ServiceOf[t]
  <1> USE ConstantsAssumption
  <1>1. s \in Services /\ step[t] \in Nat /\ value[s] \in Int /\ max[s] \in Int
    BY DEF TypeOK, StoreTypeOK, CallTypeOK, Forward
  <1>2. \A x \in Int : Holds(t, x)' => HasLeft(s, x) /\ x <= value[s] + step[t]
    BY <1>1 DEF TypeOK, CallTypeOK, Holds, HasLeft, Goto, Range
  <1>3. \A x \in Int, u \in Threads : u # t => (Holds(u, x)' <=> Holds(u, x))
    BY DEF TypeOK, CallTypeOK, Holds, Goto
  <1>4. \A x \in Int : HasLeft(s, x)' => HasLeft(s, x) /\ x > value[s] + step[t]
    BY <1>1 DEF TypeOK, StoreTypeOK, HasLeft
  <1>5. \A x \in Int, r \in Services : r # s => (HasLeft(r, x)' <=> HasLeft(r, x))
    BY DEF TypeOK, StoreTypeOK, HasLeft
  <1>6. \A x \in Int : ~(Holds(t, x)' /\ HasLeft(s, x)')
    BY <1>1, <1>2, <1>4
  <1> HIDE DEF s
  <1>7. \A x \in Int, u \in Threads : Holds(u, x)' => x \notin issued' /\ x <= db'
    BY <1>1, <1>2, <1>3 DEF Exclusive
  <1>8. \A x \in Int, r \in Services : HasLeft(r, x)' => x \notin issued' /\ x <= db'
    BY <1>1, <1>4, <1>5 DEF Exclusive
  <1>9. \A x \in Int, u, v \in Threads : Holds(u, x)' /\ Holds(v, x)' => u = v
    BY <1>1, <1>2, <1>3 DEF Exclusive
  <1>10. \A x \in Int, q, r \in Services : HasLeft(q, x)' /\ HasLeft(r, x)' => q = r
    BY <1>1, <1>4, <1>5 DEF Exclusive
  <1>11. \A x \in Int, u \in Threads, r \in Services : ~(Holds(u, x)' /\ HasLeft(r, x)')
    BY <1>1, <1>2, <1>3, <1>4, <1>5, <1>6 DEF Exclusive
  <1>12. \A x \in issued' : x <= db'
    BY DEF Exclusive
  <1> QED
    BY <1>7, <1>8, <1>9, <1>10, <1>11, <1>12 DEF Exclusive

\* A thread that only moves, to where it holds no id, changes no holder.
LEMMA MoveExclusive ==
    ASSUME TypeOK, Exclusive, TypeOK', NEW t \in Threads,
           NEW l \in PCs \ {"reply", "done"}, Goto(t, l),
           \A u \in Threads \ {t} : nv'[u] = nv[u] /\ sr'[u] = sr[u],
           UNCHANGED <<db, value, max, issued>>
    PROVE  Exclusive'
  <1>1. db <= db'
    BY DEF TypeOK, StoreTypeOK
  <1> QED
    BY <1>1, MoveHolds, SameLeft, NoGain

\* The steps of a thread that take it to a place where it holds no id.
Walk(t) ==
    \/ Find(t) \/ Build(t) \/ ReadCfg(t) \/ Connect(t)
    \/ RLock(t) \/ RCheck(t) \/ WLock(t) \/ WCheck(t)

\* Each of them is a move.
LEMMA WalkMoves ==
    ASSUME NEW t \in Threads, Walk(t)
    PROVE  /\ \E l \in PCs \ {"reply", "done"} : Goto(t, l)
           /\ UNCHANGED <<dbVars, workerVars, step, attempt, tries, rd, nv, sr, history>>
  <1>1. \A l \in {"rlock", "build", "cfg", "conn", "select", "radd", "wlock", "rinc",
                  "wcheck", "wadd"} : l \in PCs \ {"reply", "done"}
    BY DEF PCs, WriteHeld, ReadHeld, Fetch
  <1>2. UNCHANGED <<dbVars, workerVars, step, attempt, tries, rd, nv, sr, history>>
    BY DEF Walk, Find, Build, ReadCfg, Connect, RLock, RCheck, WLock, WCheck
  <1>3. \E l \in {"rlock", "build", "cfg", "conn", "select", "radd", "wlock", "rinc",
                  "wcheck", "wadd"} : Goto(t, l)
    BY DEF Walk, Find, Build, ReadCfg, Connect, RLock, RCheck, WLock, WCheck
  <1> QED
    BY <1>1, <1>2, <1>3

\* A successful compare-and-set gives its thread a block above everything.
LEMMA UpdateExclusive ==
    ASSUME TypeOK, Exclusive, TypeOK', NEW t \in Threads, Update(t)
    PROVE  Exclusive'
  <1> USE ConstantsAssumption
  <1>1. CASE db = rd[t]
    <2>1. /\ db' = db + Inc /\ nv' = [nv EXCEPT ![t] = db] /\ Goto(t, "reply")
          /\ UNCHANGED <<sr, value, max, issued>>
      BY <1>1 DEF Update, workerVars, history
    <2>2. \A x \in Int : Holds(t, x)' => x > db /\ x <= db'
      BY <2>1 DEF TypeOK, StoreTypeOK, CallTypeOK, Holds, Goto
    <2>3. \A x \in Int, u \in Threads : u # t => (Holds(u, x)' <=> Holds(u, x))
      BY <2>1 DEF TypeOK, CallTypeOK, Holds, Goto
    <2>4. \A x \in Int, s \in Services : HasLeft(s, x)' <=> HasLeft(s, x)
      BY <2>1 DEF HasLeft
    <2>5. db \in Int /\ db' \in Int /\ db < db'
      BY <2>1 DEF TypeOK, StoreTypeOK
    <2>6. \A x \in issued' : x <= db'
      BY <2>1, <2>5 DEF Exclusive, TypeOK, StoreTypeOK
    <2>7. \A x \in Int, u \in Threads : Holds(u, x)' => x \notin issued' /\ x <= db'
      BY <2>1, <2>2, <2>3, <2>5 DEF Exclusive
    <2>8. \A x \in Int, s \in Services : HasLeft(s, x)' => x \notin issued' /\ x <= db'
      BY <2>1, <2>4, <2>5 DEF Exclusive
    <2>9. \A x \in Int, u, v \in Threads : Holds(u, x)' /\ Holds(v, x)' => u = v
      BY <2>2, <2>3, <2>5 DEF Exclusive
    <2>10. \A x \in Int, r, s \in Services : HasLeft(r, x)' /\ HasLeft(s, x)' => r = s
      BY <2>4 DEF Exclusive
    <2>11. \A x \in Int, u \in Threads, s \in Services : ~(Holds(u, x)' /\ HasLeft(s, x)')
      BY <2>2, <2>3, <2>4, <2>5 DEF Exclusive
    <2> QED
      BY <2>6, <2>7, <2>8, <2>9, <2>10, <2>11 DEF Exclusive
  <1>2. CASE db # rd[t]
    <2>1. UNCHANGED <<db, sr, value, max, issued>>
      BY <1>2 DEF Update, workerVars, history
    <2>2. \/ Goto(t, "select") /\ nv' = nv
          \/ Goto(t, "reply") /\ nv' = [nv EXCEPT ![t] = -1]
      BY <1>2 DEF Update
    <2>3. \A x \in Int, u \in Threads : Holds(u, x)' => Holds(u, x)
      BY <2>1, <2>2 DEF TypeOK, CallTypeOK, Holds, Goto
    <2>4. db <= db'
      BY <2>1 DEF TypeOK, StoreTypeOK
    <2> QED
      BY <2>1, <2>3, <2>4, SameLeft, NoGain
  <1> QED
    BY <1>1, <1>2

\* The block of an answer goes from the thread to its worker.
LEMMA AcceptExclusive ==
    ASSUME TypeOK, Exclusive, TypeOK', NEW t \in Threads,
           pc[t] = "reply", nv[t] # -1, Accept(t), db' = db
    PROVE  Exclusive'
  <1> DEFINE s == ServiceOf[t]
  <1> USE ConstantsAssumption
  <1>1. s \in Services /\ issued' = issued
    BY DEF TypeOK, Accept, history
  <1>2. \A x \in Int : ~Holds(t, x)'
    BY DEF TypeOK, CallTypeOK, Accept, Goto, Holds
  <1>3. \A x \in Int, u \in Threads : u # t => (Holds(u, x)' <=> Holds(u, x))
    BY DEF TypeOK, CallTypeOK, Accept, Goto, Holds
  <1>4. \A x \in Int : HasLeft(s, x)' => Holds(t, x)
    BY DEF TypeOK, StoreTypeOK, Accept, HasLeft, Holds
  <1>5. \A x \in Int, r \in Services : r # s => (HasLeft(r, x)' <=> HasLeft(r, x))
    BY DEF TypeOK, StoreTypeOK, Accept, HasLeft
  <1> HIDE DEF s
  <1>6. \A x \in issued' : x <= db'
    BY <1>1 DEF Exclusive
  <1>7. \A x \in Int, u \in Threads : Holds(u, x)' => x \notin issued' /\ x <= db'
    BY <1>1, <1>2, <1>3 DEF Exclusive
  <1>8. \A x \in Int, r \in Services : HasLeft(r, x)' => x \notin issued' /\ x <= db'
    BY <1>1, <1>4, <1>5 DEF Exclusive
  <1>9. \A x \in Int, u, v \in Threads : Holds(u, x)' /\ Holds(v, x)' => u = v
    BY <1>2, <1>3 DEF Exclusive
  <1>10. \A x \in Int, q, r \in Services : HasLeft(q, x)' /\ HasLeft(r, x)' => q = r
    BY <1>4, <1>5 DEF Exclusive
  <1>11. \A x \in Int, u \in Threads, r \in Services : ~(Holds(u, x)' /\ HasLeft(r, x)')
    BY <1>2, <1>3, <1>4, <1>5 DEF Exclusive
  <1> QED
    BY <1>6, <1>7, <1>8, <1>9, <1>10, <1>11 DEF Exclusive

\* What a call returns goes from the thread to the client.
LEMMA ReturnExclusive ==
    ASSUME TypeOK, Exclusive, TypeOK', NEW t \in Threads, Return(t)
    PROVE  Exclusive'
  <1>1. pc[t] = "done" /\ Leave({t}) /\ UNCHANGED <<db, value, max>>
    BY DEF Return, dbVars, workerVars
  <1>2. \A x \in issued' : x \in issued \/ (x \in Int /\ Holds(t, x))
    BY <1>1 DEF Return, Ids, Holds, TypeOK, CallTypeOK
  <1>3. \A x \in Int : ~Holds(t, x)'
    BY <1>1 DEF Leave, Holds
  <1>4. \A x \in Int, u \in Threads : Holds(u, x)' => Holds(u, x)
    BY <1>1, LeaveHolds
  <1>5. \A x \in Int, s \in Services : HasLeft(s, x)' => HasLeft(s, x)
    BY <1>1, SameLeft
  <1>6. \A x \in issued' : x <= db'
    BY <1>1, <1>2 DEF Exclusive
  <1>7. \A x \in Int, u \in Threads : Holds(u, x)' => x \notin issued' /\ x <= db'
    BY <1>1, <1>2, <1>3, <1>4 DEF Exclusive
  <1>8. \A x \in Int, s \in Services : HasLeft(s, x)' => x \notin issued' /\ x <= db'
    BY <1>1, <1>2, <1>5 DEF Exclusive
  <1>9. \A x \in Int, u, v \in Threads : Holds(u, x)' /\ Holds(v, x)' => u = v
    BY <1>4 DEF Exclusive
  <1>10. \A x \in Int, r, s \in Services : HasLeft(r, x)' /\ HasLeft(s, x)' => r = s
    BY <1>5 DEF Exclusive
  <1>11. \A x \in Int, u \in Threads, s \in Services : ~(Holds(u, x)' /\ HasLeft(s, x)')
    BY <1>4, <1>5 DEF Exclusive
  <1> QED
    BY <1>6, <1>7, <1>8, <1>9, <1>10, <1>11 DEF Exclusive

\* A worker whose value grows has no id more left.
LEMMA GrownLeft ==
    ASSUME TypeOK, Forward, NEW t \in Threads, max' = max,
           value' = value \/ value' = [value EXCEPT ![ServiceOf[t]] = @ + step[t]]
    PROVE  \A x \in Int, s \in Services : HasLeft(s, x)' => HasLeft(s, x)
  BY ConstantsAssumption DEF TypeOK, StoreTypeOK, CallTypeOK, Forward, HasLeft

\* While nobody has asked for a negative step, nobody is asking for one.
LEMMA ForwardStep ==
    ASSUME TypeOK, TypeOK', back = 0 => Forward, [Next]_vars, back' = 0
    PROVE  back = 0 /\ Forward'
  <1>0. back \in Nat
    BY DEF TypeOK, StoreTypeOK
  <1>1. ASSUME back' = back, NEW T, Leave(T)
        PROVE  back = 0 /\ Forward'
    BY <1>1 DEF Leave, Forward
  <1>2. ASSUME back' = back, step' = step
        PROVE  back = 0 /\ Forward'
    BY <1>2 DEF Forward
  <1>3. ASSUME NEW t \in Threads, NEW n \in Steps, Call(t, n)
        PROVE  back = 0 /\ Forward'
    <2>1. n >= 0 /\ back = 0
      BY <1>0, <1>3, ConstantsAssumption DEF Call
    <2> QED
      BY <1>3, <2>1 DEF Call, Forward, TypeOK, CallTypeOK
  <1>4. ASSUME NEW t \in Threads, Walk(t)
        PROVE  back = 0 /\ Forward'
    BY <1>2, <1>4, WalkMoves DEF history
  <1>5. ASSUME NEW t \in Threads, Throw(t)
        PROVE  back = 0 /\ Forward'
    BY <1>1, <1>5 DEF Throw
  <1>6. ASSUME NEW s \in Services, Down(s)
        PROVE  back = 0 /\ Forward'
    BY <1>1, <1>6 DEF Down
  <1>7. ASSUME NEW t \in Threads, Select(t)
        PROVE  back = 0 /\ Forward'
    BY <1>2, <1>5, <1>7 DEF Select, history
  <1>8. ASSUME NEW t \in Threads, Update(t) \/ RInc(t)
        PROVE  back = 0 /\ Forward'
    BY <1>2, <1>8 DEF Update, RInc, history
  <1>9. ASSUME NEW t \in Threads, Reply(t)
        PROVE  back = 0 /\ Forward'
    <2>1. CASE Accept(t)
      BY <1>2, <2>1 DEF Accept, history
    <2> QED
      BY <1>5, <1>6, <1>9, <2>1, ConstantsAssumption DEF Reply
  <1>10. ASSUME NEW t \in Threads, WAdd(t)
         PROVE  back = 0 /\ Forward'
    BY <1>2, <1>5, <1>10 DEF WAdd, history
  <1>11. ASSUME NEW t \in Threads, Return(t)
         PROVE  back = 0 /\ Forward'
    BY <1>1, <1>11 DEF Return
  <1>12. CASE Orphan \/ UNCHANGED vars
    BY <1>2, <1>12 DEF Orphan, vars, callVars, history
  <1> QED
    BY <1>3, <1>4, <1>5, <1>6, <1>7, <1>8, <1>9, <1>10, <1>11, <1>12
    DEF Next, Proceed, Fail, Walk, Refused, SqlError, Crash

\* Every step keeps ids to one holder.
LEMMA ExclusiveStep ==
    ASSUME TypeOK, Forward, Exclusive, TypeOK', [Next]_vars
    PROVE  Exclusive'
  <1> USE ConstantsAssumption
  <1>0. db \in Int /\ db' \in Int
    BY DEF TypeOK, StoreTypeOK
  <1>1. ASSUME NEW t \in Threads, NEW n \in Steps, Call(t, n)
        PROVE  Exclusive'
    <2>1. "find" \in PCs \ {"reply", "done"}
      BY DEF PCs
    <2> QED
      BY <1>1, <2>1, MoveExclusive DEF Call, dbVars, workerVars
  <1>2. ASSUME NEW t \in Threads, Walk(t)
        PROVE  Exclusive'
    <2>1. PICK l \in PCs \ {"reply", "done"} : Goto(t, l)
      BY <1>2, WalkMoves
    <2>2. UNCHANGED <<db, value, max, nv, sr, issued>>
      BY <1>2, WalkMoves DEF dbVars, workerVars, history
    <2> QED
      BY <2>1, <2>2, MoveExclusive
  <1>3. ASSUME NEW t \in Threads, Refused(t) \/ SqlError(t)
        PROVE  Exclusive'
    BY <1>3, ThrowExclusive DEF Refused, SqlError, dbVars, workerVars
  <1>4. ASSUME NEW t \in Threads, Select(t)
        PROVE  Exclusive'
    <2>1. UNCHANGED <<db, value, max>>
      BY <1>4 DEF Select, dbVars, workerVars
    <2>2. CASE Throw(t)
      BY <2>1, <2>2, ThrowExclusive
    <2>3. CASE ~Throw(t)
      <3>1. Goto(t, "update") /\ UNCHANGED <<nv, sr, issued>>
        BY <1>4, <2>3 DEF Select, history
      <3>2. "update" \in PCs \ {"reply", "done"}
        BY DEF PCs, WriteHeld, Fetch
      <3> QED
        BY <2>1, <3>1, <3>2, MoveExclusive
    <2> QED
      BY <2>2, <2>3
  <1>5. ASSUME NEW t \in Threads, Update(t)
        PROVE  Exclusive'
    BY <1>5, UpdateExclusive
  <1>6. ASSUME NEW t \in Threads, Reply(t)
        PROVE  Exclusive'
    <2>0. pc[t] = "reply" /\ db' = db
      BY <1>6 DEF Reply, dbVars
    <2>1. CASE Throw(t) /\ UNCHANGED workerVars
      BY <2>0, <2>1, ThrowExclusive DEF workerVars
    <2>2. CASE nv[t] # -1 /\ Accept(t)
      BY <2>0, <2>2, AcceptExclusive
    <2>3. CASE Down(ServiceOf[t])
      BY <2>0, <2>3, DownExclusive
    <2> QED
      BY <1>6, <2>1, <2>2, <2>3 DEF Reply
  <1>7. ASSUME NEW t \in Threads, RInc(t)
        PROVE  Exclusive'
    <2>0. /\ pc[t] = "rinc" /\ UNCHANGED <<db, max, nv, issued>>
          /\ value' = [value EXCEPT ![ServiceOf[t]] = @ + step[t]]
      BY <1>7 DEF RInc, dbVars, history
    <2>1. CASE Served(value[ServiceOf[t]], max[ServiceOf[t]], step[t])
      BY <1>7, <2>0, <2>1, AddExclusive DEF RInc
    <2>2. CASE ~Served(value[ServiceOf[t]], max[ServiceOf[t]], step[t])
      <3>1. Goto(t, "wlock") /\ sr' = sr
        BY <1>7, <2>2 DEF RInc
      <3>2. "wlock" \in PCs \ {"reply", "done"}
        BY DEF PCs
      <3> QED
        <4>1. \A x \in Int, u \in Threads : Holds(u, x)' => Holds(u, x)
          BY <2>0, <3>1, <3>2, MoveHolds
        <4>2. \A x \in Int, s \in Services : HasLeft(s, x)' => HasLeft(s, x)
          BY <2>0, GrownLeft
        <4>3. issued' = issued /\ db <= db'
          BY <1>0, <2>0
        <4> QED
          BY <4>1, <4>2, <4>3, NoGain
    <2> QED
      BY <2>1, <2>2
  <1>8. ASSUME NEW t \in Threads, WAdd(t)
        PROVE  Exclusive'
    <2>0. /\ pc[t] = "wadd" /\ UNCHANGED <<db, max>>
          /\ value' = value \/ value' = [value EXCEPT ![ServiceOf[t]] = @ + step[t]]
      BY <1>8 DEF WAdd, dbVars
    <2>1. CASE Throw(t)
      <3>1. Leave({t}) /\ issued' = issued /\ db <= db'
        BY <1>0, <2>0, <2>1 DEF Throw
      <3>2. \A x \in Int, s \in Services : HasLeft(s, x)' => HasLeft(s, x)
        BY <2>0, GrownLeft
      <3> QED
        BY <3>1, <3>2, LeaveHolds, NoGain
    <2>2. CASE Goto(t, "rlock") /\ UNCHANGED <<nv, sr, issued>>
      <3>1. "rlock" \in PCs \ {"reply", "done"}
        BY DEF PCs
      <3> QED
        <4>1. \A x \in Int, u \in Threads : Holds(u, x)' => Holds(u, x)
          BY <2>2, <3>1, MoveHolds
        <4>2. \A x \in Int, s \in Services : HasLeft(s, x)' => HasLeft(s, x)
          BY <2>0, GrownLeft
        <4>3. issued' = issued /\ db <= db'
          BY <1>0, <2>0, <2>2
        <4> QED
          BY <4>1, <4>2, <4>3, NoGain
    <2>3. CASE /\ value[ServiceOf[t]] < max[ServiceOf[t]]
               /\ Served(value[ServiceOf[t]], max[ServiceOf[t]], step[t])
      BY <1>8, <2>0, <2>3, AddExclusive DEF WAdd, history
    <2> QED
      BY <1>8, <2>1, <2>2, <2>3 DEF WAdd, history
  <1>9. ASSUME NEW t \in Threads, Return(t)
        PROVE  Exclusive'
    BY <1>9, ReturnExclusive
  <1>10. ASSUME NEW s \in Services, Crash(s)
         PROVE  Exclusive'
    BY <1>10, DownExclusive DEF Crash
  <1>11. CASE Orphan
    <2>1. db <= db'
      BY <1>0, <1>11 DEF Orphan
    <2>2. UNCHANGED <<pc, nv, sr, value, max, issued>>
      BY <1>11 DEF Orphan, workerVars, callVars, history
    <2>3. \A x \in Int, t \in Threads : Holds(t, x)' => Holds(t, x)
      BY <2>2 DEF Holds
    <2> QED
      BY <2>1, <2>2, <2>3, SameLeft, NoGain
  <1>12. CASE UNCHANGED vars
    <2>1. UNCHANGED <<db, pc, nv, sr, value, max, issued>>
      BY <1>12 DEF vars, dbVars, workerVars, callVars, history
    <2>2. \A x \in Int, t \in Threads : Holds(t, x)' => Holds(t, x)
      BY <2>1 DEF Holds
    <2> QED
      BY <1>0, <2>1, <2>2, SameLeft, NoGain
  <1> QED
    BY <1>1, <1>2, <1>3, <1>4, <1>5, <1>6, <1>7, <1>8, <1>9, <1>10, <1>11, <1>12
    DEF Next, Proceed, Fail, Walk

\* Exclusive, id by id, is NoDuplicateIds.
LEMMA ExclusiveUnique ==
    ASSUME TypeOK, back = 0 => Exclusive
    PROVE  NoDuplicateIds
  <1> SUFFICES ASSUME Exclusive PROVE NoDuplicateIds
    BY DEF NoDuplicateIds
  <1> USE ConstantsAssumption
  <1>1. \A t \in Threads : \A x \in Own(t) : x \in Int /\ Holds(t, x)
    <2> SUFFICES ASSUME NEW t \in Threads, NEW x \in Own(t)
                 PROVE  x \in Int /\ Holds(t, x)
      OBVIOUS
    <2>1. nv[t] \in Int /\ sr[t].min \in Int /\ sr[t].max \in Int
      BY DEF TypeOK, CallTypeOK
    <2> QED
      BY <2>1 DEF Own, Ids, Holds
  <1>2. \A s \in Services : \A x \in Left(s) : x \in Int /\ HasLeft(s, x)
    BY DEF TypeOK, StoreTypeOK, Left, HasLeft
  <1>3. \A t \in Threads : Own(t) \cap issued = {}
    BY <1>1 DEF Exclusive
  <1>4. \A s \in Services : Left(s) \cap issued = {}
    BY <1>2 DEF Exclusive
  <1>5. \A t, u \in Threads : t # u => Own(t) \cap Own(u) = {}
    BY <1>1 DEF Exclusive
  <1>6. \A s, r \in Services : s # r => Left(s) \cap Left(r) = {}
    BY <1>2 DEF Exclusive
  <1>7. \A t \in Threads, s \in Services : Own(t) \cap Left(s) = {}
    BY <1>1, <1>2 DEF Exclusive
  <1> QED
    BY <1>3, <1>4, <1>5, <1>6, <1>7 DEF NoDuplicateIds

\* Every step keeps IInv.
LEMMA InvariantStep ==
    ASSUME IInv, [Next]_vars
    PROVE  IInv'
  <1>1. TypeOK /\ LoopBound /\ TypeOK' /\ LoopBound'
    BY TypeStep DEF IInv
  <1>2. back' = 0 => Forward' /\ Exclusive'
    BY <1>1, ForwardStep, ExclusiveStep DEF IInv
  <1> QED
    BY <1>1, <1>2 DEF IInv

\* IInv is an invariant of the services and the database.
LEMMA Invariant == Spec => []IInv
  BY InitIInv, InvariantStep, PTL DEF Spec

\* Every variable keeps its type in every behaviour of the services, and the
\* retry and compare-and-set loops their bounds.
THEOREM TypeCorrect == Spec => []TypeOK
  <1>1. IInv => TypeOK
    BY DEF IInv
  <1> QED
    BY Invariant, <1>1, PTL

\* As long as nobody asks for a negative step, no id is handed out twice, by any
\* number of services and threads, for any other steps and any block length,
\* whatever fails, times out or restarts.
THEOREM Uniqueness == Spec => []NoDuplicateIds
  <1>1. IInv => NoDuplicateIds
    BY ExclusiveUnique DEF IInv
  <1> QED
    BY Invariant, <1>1, PTL

-----------------------------------------------------------------------------
(* The datacenter's bits.                                                   *)

\* The mask adds a multiple of SequenceRange to a value that fits.
LEMMA MaskedFits ==
    ASSUME NEW d \in Nat, NEW x \in 0 .. SequenceRange-1
    PROVE  Masked(d, x) = x + SequenceRange * d
  <1>1. x % SequenceRange = x /\ x \div SequenceRange = 0
    BY LayoutAssumption
  <1>2. Or(0, d) = d
    BY DEF Or
  <1> QED
    BY <1>1, <1>2 DEF Masked

\* Values that fit keep apart, within a datacenter and between two.
LEMMA LayoutApart ==
    ASSUME NEW d \in Nat, NEW e \in Nat,
           NEW x \in 0 .. SequenceRange-1, NEW y \in 0 .. SequenceRange-1,
           x + SequenceRange * d = y + SequenceRange * e
    PROVE  d = e /\ x = y
  <1>1. ASSUME NEW a \in Nat, NEW b \in Nat, a < b
        PROVE  SequenceRange * a + SequenceRange <= SequenceRange * b
    <2>1. a + 1 <= b
      BY <1>1
    <2>2. SequenceRange * (a + 1) <= SequenceRange * b
      BY <2>1, LayoutAssumption
    <2>3. SequenceRange * (a + 1) = SequenceRange * a + SequenceRange
      BY LayoutAssumption
    <2> QED
      BY <2>2, <2>3
  <1> DEFINE p == SequenceRange * d
             q == SequenceRange * e
  <1>2. p \in Nat /\ q \in Nat
    BY LayoutAssumption
  <1>3. ~(d < e)
    <2>1. SUFFICES ASSUME d < e PROVE FALSE
      OBVIOUS
    <2>2. p + SequenceRange <= q
      BY <1>1, <2>1
    <2> HIDE DEF p, q
    <2>3. x + p = y + q
      BY DEF p, q
    <2> QED
      BY <1>2, <2>2, <2>3, LayoutAssumption
  <1>4. ~(e < d)
    <2>1. SUFFICES ASSUME e < d PROVE FALSE
      OBVIOUS
    <2>2. q + SequenceRange <= p
      BY <1>1, <2>1
    <2> HIDE DEF p, q
    <2>3. x + p = y + q
      BY DEF p, q
    <2> QED
      BY <1>2, <2>2, <2>3, LayoutAssumption
  <1>5. d = e
    BY <1>3, <1>4
  <1>6. p = q
    BY <1>5
  <1> HIDE DEF p, q
  <1>7. x + p = y + q
    BY DEF p, q
  <1> QED
    BY <1>2, <1>5, <1>6, <1>7

\* Each id a client reads from a range that fits is the mask of an id in it.
LEMMA ClientIdsMasked ==
    ASSUME NEW r \in [min : Int, max : Int], Fits(r), NEW z \in ClientIds(r)
    PROVE  \E x \in Ids(r) \cap (0 .. SequenceRange-1) :
               z = x + SequenceRange * Datacenter
  <1>1. Datacenter \in Nat /\ SequenceRange \in Nat
    BY LayoutAssumption
  <1> DEFINE p == SequenceRange * Datacenter
  <1>2. p \in Nat
    BY <1>1
  <1>3. r.min \in 0 .. SequenceRange-1 /\ r.max \in 0 .. SequenceRange-1
    BY DEF Fits
  <1>4. Masked(Datacenter, r.min) = r.min + p /\ Masked(Datacenter, r.max) = r.max + p
    BY <1>1, <1>3, MaskedFits
  <1> HIDE DEF p
  <1>5. z \in r.min + p .. r.max + p
    BY <1>4 DEF ClientIds
  <1>6. z - p \in r.min .. r.max /\ z = (z - p) + p
    BY <1>2, <1>3, <1>5
  <1>7. z - p \in Ids(r) \cap (0 .. SequenceRange-1)
    BY <1>1, <1>3, <1>6 DEF Ids
  <1> QED
    BY <1>6, <1>7 DEF p

\* Distinct values give distinct ids to clients.
LEMMA ClientsApart == TypeOK /\ NoDuplicateIds => DistinctForClients
  <1> SUFFICES ASSUME TypeOK, NoDuplicateIds, back = 0,
                      NEW t \in Threads, pc[t] = "done", Fits(sr[t])
               PROVE  /\ \A x \in issued \cap (0 .. SequenceRange-1) :
                             Masked(Datacenter, x) \notin ClientIds(sr[t])
                      /\ \A u \in Threads \ {t} : pc[u] = "done" /\ Fits(sr[u]) =>
                             ClientIds(sr[t]) \cap ClientIds(sr[u]) = {}
                      /\ \A d \in Datacenters \ {Datacenter}, x \in 0 .. SequenceRange-1 :
                             Masked(d, x) \notin ClientIds(sr[t])
    BY DEF DistinctForClients
  <1>1. Datacenter \in Nat
    BY LayoutAssumption
  <1>2. \A u \in Threads : sr[u] \in [min : Int, max : Int]
    BY DEF TypeOK, CallTypeOK
  <1>3. \A u \in Threads : pc[u] = "done" => Own(u) = Ids(sr[u])
    BY DEF Own
  <1>4. ASSUME NEW x \in issued \cap (0 .. SequenceRange-1),
               Masked(Datacenter, x) \in ClientIds(sr[t])
        PROVE  FALSE
    <2>1. PICK y \in Ids(sr[t]) \cap (0 .. SequenceRange-1) :
              Masked(Datacenter, x) = y + SequenceRange * Datacenter
      BY <1>2, <1>4, ClientIdsMasked
    <2>2. x + SequenceRange * Datacenter = y + SequenceRange * Datacenter
      BY <1>1, <2>1, MaskedFits
    <2>3. x = y
      BY <1>1, <2>2, LayoutApart
    <2> QED
      BY <1>3, <2>3 DEF NoDuplicateIds
  <1>5. ASSUME NEW u \in Threads \ {t}, pc[u] = "done", Fits(sr[u]),
               NEW z \in ClientIds(sr[t]), z \in ClientIds(sr[u])
        PROVE  FALSE
    <2>1. PICK x \in Ids(sr[t]) \cap (0 .. SequenceRange-1) :
              z = x + SequenceRange * Datacenter
      BY <1>2, ClientIdsMasked
    <2>2. PICK y \in Ids(sr[u]) \cap (0 .. SequenceRange-1) :
              z = y + SequenceRange * Datacenter
      BY <1>2, <1>5, ClientIdsMasked
    <2>3. x = y
      BY <1>1, <2>1, <2>2, LayoutApart
    <2> QED
      BY <1>3, <1>5, <2>3 DEF NoDuplicateIds
  <1>6. ASSUME NEW d \in Datacenters \ {Datacenter}, NEW x \in 0 .. SequenceRange-1,
               Masked(d, x) \in ClientIds(sr[t])
        PROVE  FALSE
    <2>1. d \in Nat
      BY LayoutAssumption
    <2>2. PICK y \in Ids(sr[t]) \cap (0 .. SequenceRange-1) :
              Masked(d, x) = y + SequenceRange * Datacenter
      BY <1>2, <1>6, ClientIdsMasked
    <2>3. x + SequenceRange * d = y + SequenceRange * Datacenter
      BY <2>1, <2>2, MaskedFits
    <2>4. d = Datacenter
      BY <1>1, <2>1, <2>3, LayoutApart
    <2> QED
      BY <2>4
  <1>7. \A x \in issued \cap (0 .. SequenceRange-1) :
            Masked(Datacenter, x) \notin ClientIds(sr[t])
    BY <1>4
  <1>8. \A u \in Threads \ {t} : pc[u] = "done" /\ Fits(sr[u]) =>
            ClientIds(sr[t]) \cap ClientIds(sr[u]) = {}
    BY <1>5
  <1>9. \A d \in Datacenters \ {Datacenter}, x \in 0 .. SequenceRange-1 :
            Masked(d, x) \notin ClientIds(sr[t])
    BY <1>6
  <1> QED
    BY <1>7, <1>8, <1>9

\* Under the datacenter's mask clients get ids of their own, for any number of
\* datacenters and any width of the sequence, as long as values fit it and nobody
\* asks for a negative step.
THEOREM ClientUniqueness == Spec => []DistinctForClients
  <1> QED
    BY TypeCorrect, Uniqueness, ClientsApart, PTL
=============================================================================
