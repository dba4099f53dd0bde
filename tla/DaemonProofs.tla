---------------------------- MODULE DaemonProofs ----------------------------
(***************************************************************************)
(* Proofs about Daemon, for any number of pids and commands.               *)
(*                                                                         *)
(* OneWorker is not inductive: forkWork looks only at the pid in the       *)
(* shared memory.  The inductive invariant says where a live child is      *)
(* recorded: a worker in `forked' from its fork to RecordWorker, and in    *)
(* shm.wp at any other time, whatever the handlers of SIGCHLD and SIGTERM  *)
(* do; a master likewise in `forked' or mpid.                              *)
(***************************************************************************)
EXTENDS Daemon, FiniteSetTheorems, TLAPS

\* Child p has not died.
Lives(p) == kid[p].st \in {"run", "told", "hung"}

\* A live child is recorded.
Recorded ==
    /\ \A p \in Pid : Lives(p) /\ kid[p].role = "worker"
                          => p = IF pc = "worker" THEN forked ELSE shm.wp
    /\ \A p \in Pid : Lives(p) /\ kid[p].role = "master"
                          => p = IF pc = "master" THEN forked ELSE mpid
    /\ pc = "worker" => shm.wp = 0
    /\ pc = "master" => mpid <= 0

\* What the handler of SIGCHLD waits for is the recorded worker, or anyone
\* when none is recorded.
WaitsForWorker ==
    /\ wait = Anyone => shm.wp = 0
    /\ wait > 0 => wait = shm.wp

\* A daemon that has ended has no children.
NoneLeft == pc = "gone" => wait = Nobody /\ \A p \in Pid : kid[p] = NoKid

\* The invariant behind OneWorker and OneMaster.
WInv == TypeOK /\ Recorded /\ WaitsForWorker /\ NoneLeft

-----------------------------------------------------------------------------
(* Types.                                                                   *)

KidType ==
    [Pid -> [role : {"master", "worker"}, st : {"none", "run", "told", "hung", "zombie"}]]

ShmRecord == [status : 0..1, mp : 0..MaxPid, wp : 0..MaxPid]

\* Telling children to stop keeps the table of children.
LEMMA TellType ==
    ASSUME TypeOK, NEW ps
    PROVE  Tell(ps) \in KidType
  BY DEF TypeOK, Tell, KidType

\* NoKid is an entry of the table.
LEMMA NoKidType ==
    NoKid \in [role : {"master", "worker"}, st : {"none", "run", "told", "hung", "zombie"}]
  BY DEF NoKid

\* forkMaster forks a master into a free pid, when none is known,
LEMMA LoopForks ==
    ASSUME Loop, mpid <= 0, ~ForkFails, TypeOK
    PROVE  \E p \in Pid : /\ kid' = [kid EXCEPT ![p] = [role |-> "master", st |-> "run"]]
                          /\ forked' = p /\ pc' = "master" /\ wait' = wait
  BY DEF Loop, Fork, Fresh, Kids, TypeOK

\* and forkWork a worker, when none is recorded.
LEMMA PickForks ==
    ASSUME Pick, shm.wp <= 0, ~ForkFails, TypeOK
    PROVE  \E p \in Pid : /\ kid' = [kid EXCEPT ![p] = [role |-> "worker", st |-> "run"]]
                          /\ forked' = p /\ pc' = "worker" /\ wait' = wait
  BY DEF Pick, Fork, Fresh, Kids, TypeOK

\* The daemon starts with nothing recorded.
LEMMA InitType == Init => TypeOK
  <1> SUFFICES ASSUME Init PROVE TypeOK
    OBVIOUS
  <1>1. /\ shutdown \in BOOLEAN /\ sigterm \in BOOLEAN /\ missed \in BOOLEAN
        /\ pidfile \in BOOLEAN /\ target \in [Cmd -> BOOLEAN]
    BY DEF Init
  <1>2. forked \in 0..MaxPid /\ mpid \in -1..MaxPid /\ wpid \in -1..MaxPid /\ wait \in -1..MaxPid
    BY ConstantsAssumption DEF Init, Nobody
  <1>3. shm \in ShmRecord
    BY ConstantsAssumption DEF Init, ShmRecord
  <1> QED
    BY <1>1, <1>2, <1>3, NoKidType DEF Init, TypeOK, ShmRecord

\* A step of the main loop keeps the types.
LEMMA MainType ==
    ASSUME TypeOK, Main
    PROVE  TypeOK'
  <1> USE ConstantsAssumption DEF TypeOK, sigVars, cmdVars, Pid
  <1>1. CASE Loop
    <2>1. CASE mpid <= 0
      <3>1. /\ kid' \in KidType /\ forked' \in 0..MaxPid /\ wait' \in -1..MaxPid
            /\ pc' \in {"master", "gone"}
        <4>1. CASE ForkFails
          BY <4>1, NoKidType DEF ForkFails, Ends, KidType, Nobody
        <4>2. CASE ~ForkFails
          <5>1. PICK p \in Pid : /\ kid' = [kid EXCEPT ![p] = [role |-> "master", st |-> "run"]]
                                 /\ forked' = p /\ pc' = "master" /\ wait' = wait
            BY <1>1, <2>1, <4>2, LoopForks
          <5> QED
            BY <5>1 DEF KidType
        <4> QED
          BY <4>1, <4>2
      <3>2. shm' \in ShmRecord
        <4>1. shm' = [[shm EXCEPT !.status = 1] EXCEPT !.mp = 0]
          BY <1>1, <2>1 DEF Loop
        <4>2. [shm EXCEPT !.status = 1] \in ShmRecord
          BY DEF ShmRecord
        <4>3. PICK r \in ShmRecord : r = [shm EXCEPT !.status = 1]
          BY <4>2
        <4>4. shm' = [r EXCEPT !.mp = 0]
          BY <4>1, <4>3
        <4> HIDE DEF TypeOK
        <4> QED
          BY <4>4 DEF ShmRecord
      <3> QED
        BY <1>1, <3>1, <3>2 DEF Loop, ShmRecord, KidType
    <2>2. CASE mpid > 0
      BY <1>1, <2>2 DEF Loop
    <2> QED
      BY <2>1, <2>2
  <1>2. CASE SetMaster
    BY <1>2 DEF SetMaster
  <1>3. CASE Wait
    BY <1>3 DEF Wait
  <1>4. CASE Pick
    <2>1. CASE ForkFails
      BY <1>4, <2>1, NoKidType DEF Pick, ForkFails, Ends, Nobody
    <2>2. CASE ~ForkFails
      BY <1>4, <2>2 DEF Pick, Fork, Fresh, Kids
    <2> QED
      BY <2>1, <2>2
  <1>5. CASE RecordWorker
    BY <1>5 DEF RecordWorker
  <1>9. CASE SetWorker
    BY <1>9 DEF SetWorker
  <1>6. CASE Check
    BY <1>6 DEF Check, Again
  <1>7. CASE Kill
    <2>1. kid' \in KidType
      BY <1>7, TellType DEF Kill
    <2> QED
      BY <1>7, <2>1 DEF Kill, Again, KidType
  <1>8. CASE End
    BY <1>8, NoKidType DEF End, Ends, Nobody
  <1> QED
    BY <1>1, <1>2, <1>3, <1>4, <1>5, <1>6, <1>7, <1>8, <1>9 DEF Main

\* So does the handler of SIGCHLD,
LEMMA SigchldType ==
    ASSUME TypeOK, sigchld_handler
    PROVE  TypeOK'
  <1> USE ConstantsAssumption, NoKidType DEF TypeOK, cmdVars, Pid
  <1>0. PICK p \in Pid :
          \/ wait = Nobody /\ (ReapMaster(p) \/ ReapWorker(p) \/ ReapOther(p))
          \/ wait # Nobody /\ Waited(p)
    BY DEF sigchld_handler
  <1>1. UNCHANGED <<pc, shutdown, timer, cmdVars>>
    BY DEF sigchld_handler
  <1>2. CASE ReapMaster(p)
    <2>1. kid' \in KidType
      BY <1>2, TellType DEF ReapMaster, KidType
    <2>2. sigterm' \in BOOLEAN
      BY <1>2 DEF ReapMaster
    <2>3. mpid' \in -1..MaxPid /\ wait' \in -1..MaxPid /\ wpid' \in -1..MaxPid
      BY <1>2 DEF ReapMaster, Nobody, Anyone
    <2>4. shm' \in ShmRecord
      <3>1. \/ shm' = [shm EXCEPT !.mp = 0]
            \/ shm' = [[shm EXCEPT !.mp = 0] EXCEPT !.wp = 0]
        BY <1>2 DEF ReapMaster
      <3>2. [shm EXCEPT !.mp = 0] \in ShmRecord
        BY DEF ShmRecord
      <3> QED
        BY <3>1, <3>2 DEF ShmRecord
    <2> QED
      BY <1>1, <1>2, <2>1, <2>2, <2>3, <2>4 DEF ReapMaster, KidType, ShmRecord
  <1>3. CASE ReapWorker(p)
    <2>1. shm' \in ShmRecord
      BY <1>3 DEF ReapWorker, ShmRecord
    <2> QED
      BY <1>1, <1>3, <2>1 DEF ReapWorker, ShmRecord
  <1>4. CASE ReapOther(p)
    BY <1>1, <1>4 DEF ReapOther
  <1>5. CASE Waited(p)
    <2>1. shm' \in ShmRecord
      <3>1. shm' = [shm EXCEPT !.wp = 0]
        BY <1>5 DEF Waited
      <3>2. shm \in ShmRecord /\ 0 \in 0..MaxPid
        BY DEF ShmRecord
      <3> HIDE DEF TypeOK
      <3> QED
        BY <3>1, <3>2 DEF ShmRecord
    <2> QED
      BY <1>1, <1>5, <2>1 DEF Waited, Nobody, ShmRecord
  <1> QED
    BY <1>0, <1>2, <1>3, <1>4, <1>5

\* and the handler of SIGTERM,
LEMMA SigtermType ==
    ASSUME TypeOK, sigterm_handler
    PROVE  TypeOK'
  <1> USE ConstantsAssumption, NoKidType DEF TypeOK, cmdVars, Pid
  <1>1. kid' \in KidType /\ timer' \in {"off", "on", "late"}
    <2>1. CASE timer # "late"
      BY <2>1, TellType DEF sigterm_handler, Late
    <2>2. CASE Late /\ shm.wp = 0
      BY <2>2 DEF sigterm_handler, Late, Ends, KidType
    <2>3. CASE Late /\ shm.wp # 0
      <3>1. /\ kid' = [kid EXCEPT ![shm.wp].st = IF @ = "none" THEN @ ELSE "zombie"]
            /\ shm.wp \in Pid /\ timer' = timer
        BY <2>3 DEF sigterm_handler, Late
      <3> QED
        BY <3>1 DEF KidType
    <2> QED
      BY <2>1, <2>2, <2>3 DEF sigterm_handler
  <1>2. shutdown' \in BOOLEAN /\ sigterm' \in BOOLEAN
    BY DEF sigterm_handler
  <1>3. wait' \in -1..MaxPid
    BY DEF sigterm_handler, Late, Ends, Nobody
  <1>4. pc' = pc \/ pc' = "gone"
    BY DEF sigterm_handler, Late, Ends
  <1> QED
    BY <1>1, <1>2, <1>3, <1>4 DEF sigterm_handler, KidType

\* the children,
LEMMA ChildType ==
    ASSUME TypeOK, NEW p \in Pid, Die(p) \/ Hang(p) \/ notifydp(p)
    PROVE  TypeOK'
  <1> USE ConstantsAssumption DEF TypeOK, Pid, sigVars, cmdVars
  <1>1. CASE Die(p)
    <2>1. shm' \in ShmRecord
      BY <1>1 DEF Die, ShmRecord
    <2> QED
      BY <1>1, <2>1 DEF Die, ShmRecord
  <1>2. CASE Hang(p)
    BY <1>2 DEF Hang, mainVars
  <1>3. CASE notifydp(p)
    <2>1. shm' \in ShmRecord
      BY <1>3 DEF notifydp, ShmRecord
    <2> QED
      BY <1>3, <2>1 DEF notifydp, ShmRecord
  <1> QED
    BY <1>1, <1>2, <1>3

\* and the commands.
LEMMA CommandType ==
    ASSUME TypeOK, NEW c \in Cmd, Command(c) \/ Start(c) \/ Ending(c)
    PROVE  TypeOK'
  <1> USE ConstantsAssumption DEF TypeOK, sigVars, mainVars
  <1>1. CASE Command(c)
    BY <1>1 DEF Command, Running
  <1>2. CASE Start(c) \/ Restart(c)
    <2>1. Begin(c)
      BY <1>2 DEF Start, Restart
    <2>2. /\ shutdown' \in BOOLEAN /\ sigterm' \in BOOLEAN /\ missed' \in BOOLEAN
          /\ pidfile' \in BOOLEAN /\ target' \in [Cmd -> BOOLEAN]
      BY <2>1 DEF Begin, Launch
    <2>3. shm' \in ShmRecord
      BY <2>1 DEF Begin, Launch, ShmRecord
    <2>4. /\ forked' \in 0..MaxPid /\ mpid' \in -1..MaxPid /\ wpid' \in -1..MaxPid
          /\ wait' \in -1..MaxPid
      BY <2>1 DEF Begin, Launch, Nobody
    <2> QED
      BY <2>1, <2>2, <2>3, <2>4 DEF Begin, Launch, ShmRecord
  <1>3. CASE Signal(c)
    BY <1>3 DEF Signal, cmdVars
  <1>4. CASE Stopped(c)
    BY <1>4 DEF Stopped
  <1>5. CASE Refused(c) \/ Return(c)
    BY <1>5 DEF Refused, Return
  <1> QED
    BY <1>1, <1>2, <1>3, <1>4, <1>5 DEF Ending

\* Every step keeps the types.
LEMMA TypeStep ==
    ASSUME TypeOK, [Next]_vars
    PROVE  TypeOK'
  <1>1. CASE TimePasses
    BY <1>1 DEF TypeOK, TimePasses, mainVars, cmdVars
  <1>2. CASE UNCHANGED vars
    BY <1>2 DEF TypeOK, vars, mainVars, sigVars, cmdVars
  <1> QED
    BY <1>1, <1>2, MainType, SigchldType, SigtermType, ChildType, CommandType DEF Next

\* The pids the daemon keeps and the table of its children have their shape,
\* whatever handler interrupts the main loop where.
THEOREM TypeCorrect == Spec => []TypeOK
  <1>1. TypeOK /\ [Next]_vars => TypeOK'
    BY TypeStep
  <1> QED
    BY InitType, <1>1, PTL DEF Spec

-----------------------------------------------------------------------------
(* Where live children are recorded.                                        *)

\* At the start there are no children.
LEMMA InitWInv == Init => WInv
  <1> SUFFICES ASSUME Init PROVE WInv
    OBVIOUS
  <1>1. Recorded /\ WaitsForWorker /\ NoneLeft
    BY DEF Init, Recorded, WaitsForWorker, NoneLeft, Lives, NoKid, Nobody, Anyone
  <1> QED
    BY <1>1, InitType DEF WInv

\* Telling children to stop brings none to life and changes no role.
LEMMA TellLives ==
    ASSUME TypeOK, NEW ps, NEW p \in Pid
    PROVE  /\ Tell(ps)[p].role = kid[p].role
           /\ Tell(ps)[p].st \in {"run", "told", "hung"} <=> Lives(p)
  BY DEF TypeOK, Tell, Lives

\* The main loop forks a child only when none of its kind is recorded, and
\* records it before it looks again.
LEMMA MainRecorded ==
    ASSUME WInv, Main
    PROVE  Recorded' /\ WaitsForWorker' /\ NoneLeft'
  <1> USE ConstantsAssumption DEF WInv, Recorded, WaitsForWorker, NoneLeft, At, Nobody, Anyone
  <1>0. wait = 0 /\ pc # "gone" /\ \A p \in Pid : p \in Nat \ {0}
    BY DEF Main, Loop, SetMaster, Wait, Pick, RecordWorker, SetWorker, Check, Kill, End, Pid
  <1>10. CASE ForkFails /\ UNCHANGED mpid /\ shm'.wp \in {0, shm.wp}
    BY <1>0, <1>10 DEF ForkFails, Ends, Lives, NoKid
  <1>1. CASE Loop /\ ~ForkFails
    <2>1. CASE mpid <= 0
      <3>1. PICK p \in Pid : /\ kid' = [kid EXCEPT ![p] = [role |-> "master", st |-> "run"]]
                             /\ forked' = p /\ pc' = "master" /\ wait' = wait
        BY <1>1, <2>1, LoopForks
      <3>2. shm'.wp = shm.wp /\ pc = "loop" /\ UNCHANGED mpid
        BY <1>1, <2>1 DEF Loop, TypeOK
      <3> QED
        BY <1>0, <2>1, <3>1, <3>2 DEF Lives, TypeOK
    <2>2. CASE mpid > 0
      BY <1>0, <1>1, <2>2 DEF Loop, Lives, TypeOK
    <2> QED
      BY <2>1, <2>2 DEF TypeOK
  <1>2. CASE SetMaster
    BY <1>0, <1>2 DEF SetMaster, Lives, TypeOK
  <1>3. CASE Wait
    BY <1>0, <1>3 DEF Wait, Lives
  <1>4. CASE Pick /\ ~ForkFails
    <2>1. CASE shm.wp <= 0
      <3>1. PICK p \in Pid : /\ kid' = [kid EXCEPT ![p] = [role |-> "worker", st |-> "run"]]
                             /\ forked' = p /\ pc' = "worker" /\ wait' = wait
        BY <1>4, <2>1, PickForks
      <3>2. shm'.wp = 0 /\ pc = "pick" /\ UNCHANGED mpid
        BY <1>4, <2>1 DEF Pick, TypeOK
      <3> QED
        BY <1>0, <2>1, <3>1, <3>2 DEF Lives, TypeOK
    <2>2. CASE shm.wp > 0
      BY <1>0, <1>4, <2>2 DEF Pick, Lives, TypeOK
    <2> QED
      BY <2>1, <2>2 DEF TypeOK
  <1>5. CASE RecordWorker
    BY <1>0, <1>5 DEF RecordWorker, Lives, TypeOK
  <1>9. CASE SetWorker
    BY <1>0, <1>9 DEF SetWorker, Lives, TypeOK
  <1>6. CASE Check
    BY <1>0, <1>6 DEF Check, Again, Lives
  <1>7. CASE Kill
    <2>1. PICK ps : kid' = Tell(ps)
      BY <1>7 DEF Kill
    <2>2. \A p \in Pid : kid'[p].role = kid[p].role /\ (Lives(p)' <=> Lives(p))
      BY <2>1, TellLives DEF Lives
    <2> QED
      BY <1>0, <1>7, <2>2 DEF Kill, Again
  <1>8. CASE End
    BY <1>0, <1>8 DEF End, Ends, Lives, NoKid
  <1>11. CASE ForkFails /\ (Loop \/ Pick)
    BY <1>10, <1>11 DEF Loop, Pick, TypeOK
  <1> QED
    BY <1>1, <1>2, <1>3, <1>4, <1>5, <1>6, <1>7, <1>8, <1>9, <1>11 DEF Main

\* The handler of SIGCHLD forgets a worker only when it has been waited for.
LEMMA SigchldRecorded ==
    ASSUME WInv, sigchld_handler
    PROVE  Recorded' /\ WaitsForWorker' /\ NoneLeft'
  <1> USE ConstantsAssumption DEF WInv, Recorded, WaitsForWorker, NoneLeft, Nobody, Anyone
  <1>0. PICK p \in Pid :
          \/ wait = Nobody /\ (ReapMaster(p) \/ ReapWorker(p) \/ ReapOther(p))
          \/ wait # Nobody /\ Waited(p)
    BY DEF sigchld_handler
  <1>1. pc' = pc /\ pc # "gone" /\ \A q \in Pid : q \in Nat \ {0}
    BY DEF sigchld_handler, Running, Pid
  <1>2. CASE wait = Nobody /\ ReapMaster(p)
    <2>1. PICK ps : kid' = [Tell(ps) EXCEPT ![p] = NoKid]
      BY <1>2 DEF ReapMaster
    <2>2. ~Lives(p) /\ p = mpid /\ mpid' = -1 /\ forked' = forked
      BY <1>2 DEF ReapMaster, Lives
    <2>3. Tell(ps) \in KidType
      BY TellType
    <2>4. \A q \in Pid : Lives(q)' => Lives(q) /\ q # p /\ kid'[q].role = kid[q].role
      BY <2>1, <2>3, TellLives DEF Lives, KidType, NoKid
    <2>5. CASE {q \in Pid \ {p} : kid[q].st # "none" /\ shm.wp \in {0, q}} = {}
      <3>1. wait' = 0 /\ shm'.wp = 0
        BY <1>2, <2>5 DEF ReapMaster, TypeOK
      <3>2. \A q \in Pid : q = shm.wp /\ q # p => ~Lives(q)
        BY <2>5 DEF Lives
      <3> QED
        BY <1>1, <2>2, <2>4, <3>1, <3>2 DEF TypeOK
    <2>6. CASE {q \in Pid \ {p} : kid[q].st # "none" /\ shm.wp \in {0, q}} # {}
      <3>1. wait' = (IF shm.wp = 0 THEN -1 ELSE shm.wp) /\ shm'.wp = shm.wp
        BY <1>2, <2>6 DEF ReapMaster, TypeOK
      <3> QED
        BY <1>1, <2>2, <2>4, <3>1 DEF TypeOK
    <2> QED
      BY <2>5, <2>6
  <1>3. CASE wait = Nobody /\ ReapWorker(p)
    BY <1>1, <1>3 DEF ReapWorker, Lives, NoKid, TypeOK
  <1>4. CASE wait = Nobody /\ ReapOther(p)
    BY <1>1, <1>4 DEF ReapOther, Lives, NoKid, TypeOK
  <1>5. CASE wait # Nobody /\ Waited(p)
    BY <1>1, <1>5 DEF Waited, Lives, NoKid, TypeOK
  <1> QED
    BY <1>0, <1>2, <1>3, <1>4, <1>5

\* The handler of SIGTERM records nothing: it tells, kills or ends.
LEMMA SigtermRecorded ==
    ASSUME WInv, sigterm_handler
    PROVE  Recorded' /\ WaitsForWorker' /\ NoneLeft'
  <1> USE DEF WInv, Recorded, WaitsForWorker, NoneLeft, Nobody, Anyone
  <1>1. pc # "gone" /\ UNCHANGED <<forked, mpid, shm>>
    BY DEF sigterm_handler, Running
  <1>2. CASE kid' = Tell({shm.wp}) /\ UNCHANGED <<pc, wait>>
    BY <1>1, <1>2, TellLives DEF Lives
  <1>3. CASE Late /\ shm.wp = 0
    BY <1>1, <1>3 DEF Late, Ends, Lives, NoKid
  <1>4. CASE Late /\ shm.wp # 0
    <2>1. \A p \in Pid : Lives(p)' => Lives(p) /\ kid'[p].role = kid[p].role
      BY <1>4 DEF Late, Lives, TypeOK
    <2> QED
      BY <1>1, <1>4, <2>1 DEF Late
  <1> QED
    BY <1>2, <1>3, <1>4 DEF sigterm_handler

\* The children only die, hang and notify.
LEMMA ChildRecorded ==
    ASSUME WInv, NEW p \in Pid, Die(p) \/ Hang(p) \/ notifydp(p)
    PROVE  Recorded' /\ WaitsForWorker' /\ NoneLeft'
  <1> USE DEF WInv
  <1>1. \A q \in Pid : Lives(q)' => Lives(q) /\ kid'[q].role = kid[q].role
    BY DEF Die, Hang, notifydp, Lives, TypeOK
  <1>2. UNCHANGED <<pc, forked, mpid, wait>> /\ shm'.wp = shm.wp
    BY DEF Die, Hang, notifydp, mainVars, TypeOK
  <1>3. pc = "gone" => UNCHANGED kid
    BY DEF NoneLeft, NoKid, Die, Hang, notifydp
  <1> QED
    BY <1>1, <1>2, <1>3 DEF Recorded, WaitsForWorker, NoneLeft

\* A daemon is started only when there is none, and so no child.
LEMMA CommandRecorded ==
    ASSUME WInv, NEW c \in Cmd, Command(c) \/ Start(c) \/ Ending(c)
    PROVE  Recorded' /\ WaitsForWorker' /\ NoneLeft'
  <1> USE DEF WInv, Recorded, WaitsForWorker, NoneLeft, Lives
  <1>1. CASE Begin(c)
    BY <1>1 DEF Begin, Launch, Running, Nobody, Anyone, NoKid
  <1>2. CASE Command(c) \/ Signal(c) \/ Stopped(c) \/ Refused(c) \/ Return(c)
    BY <1>2 DEF Command, Signal, Stopped, Refused, Return, mainVars
  <1> QED
    BY <1>1, <1>2 DEF Start, Restart, Ending

\* Every step keeps the invariant.
LEMMA WStep ==
    ASSUME WInv, [Next]_vars
    PROVE  WInv'
  <1>1. TypeOK'
    BY TypeStep DEF WInv
  <1>2. CASE TimePasses
    BY <1>1, <1>2
    DEF WInv, Recorded, WaitsForWorker, NoneLeft, Lives, TimePasses, mainVars
  <1>3. CASE UNCHANGED vars
    BY <1>1, <1>3 DEF WInv, Recorded, WaitsForWorker, NoneLeft, Lives, vars, mainVars
  <1> QED
    BY <1>1, <1>2, <1>3, MainRecorded, SigchldRecorded, SigtermRecorded, ChildRecorded,
       CommandRecorded DEF WInv, Next

\* Of elements that are all equal there is one at most.
LEMMA AtMostOne ==
    ASSUME NEW S, NEW x, S \subseteq {x}
    PROVE  Cardinality(S) <= 1
  <1>1. S = {} \/ S = {x}
    OBVIOUS
  <1>2. Cardinality({}) = 0
    BY FS_EmptySet
  <1>3. Cardinality({x}) = 1
    BY FS_Singleton
  <1> QED
    BY <1>1, <1>2, <1>3

\* The daemon never has two workers, however the main loop and the handlers of
\* SIGCHLD and SIGTERM interleave with deaths, hangs and commands.
THEOREM WorkerUnique == Spec => []OneWorker
  <1>1. WInv /\ [Next]_vars => WInv'
    BY WStep
  <1>2. ASSUME WInv PROVE OneWorker
    <2>1. {p \in Kids({"run", "told", "hung"}) : kid[p].role = "worker"}
            \subseteq {IF pc = "worker" THEN forked ELSE shm.wp}
      BY <1>2 DEF WInv, Recorded, Lives, Kids
    <2> QED
      BY <2>1, AtMostOne DEF OneWorker
  <1>3. WInv => OneWorker
    BY <1>2
  <1> QED
    BY InitWInv, <1>1, <1>3, PTL DEF Spec

\* Nor does it have two masters.
THEOREM MasterUnique == Spec => []OneMaster
  <1>1. WInv /\ [Next]_vars => WInv'
    BY WStep
  <1>2. ASSUME WInv PROVE OneMaster
    <2>1. {p \in Kids({"run", "told", "hung"}) : kid[p].role = "master"}
            \subseteq {IF pc = "master" THEN forked ELSE mpid}
      BY <1>2 DEF WInv, Recorded, Lives, Kids
    <2> QED
      BY <2>1, AtMostOne DEF OneMaster
  <1>3. WInv => OneMaster
    BY <1>2
  <1> QED
    BY InitWInv, <1>1, <1>3, PTL DEF Spec
=============================================================================
