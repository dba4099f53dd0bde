--------------------- MODULE Glacier2CommunicatorProofs ---------------------
(***************************************************************************)
(* Proofs about Glacier2Communicator, for every set of callers and any     *)
(* number of faults of the router.                                         *)
(*                                                                         *)
(* TypeOK is inductive as it stands.  Its last part is what matters: the   *)
(* flag initialized, which callers test and the destructor clears without  *)
(* the mutex, is set only over a session that was pinged since the last    *)
(* reconnection began.                                                     *)
(***************************************************************************)
EXTENDS Glacier2Communicator, TLAPS

\* The client starts without a session, and initialized is not set.
LEMMA InitType == Init => TypeOK
  <1> SUFFICES ASSUME Init PROVE TypeOK
    OBVIOUS
  <1>1. /\ runing \in BOOLEAN /\ initialized \in BOOLEAN /\ communicator \in BOOLEAN
        /\ recent \in BOOLEAN /\ pinged \in BOOLEAN /\ ~initialized
    BY DEF Init
  <1>2. faults \in 0..MaxFaults
    BY ConstantsAssumption DEF Init
  <1> QED
    BY <1>1, <1>2 DEF Init, TypeOK

\* A step of the session thread keeps the types, and sets initialized only
\* with a ping that came back.
LEMMA RunType ==
    ASSUME TypeOK, run
    PROVE  TypeOK'
  <1> USE DEF TypeOK, callVars, envVars
  <1>1. CASE Begin
    BY <1>1 DEF Begin
  <1>2. CASE Reset
    BY <1>2 DEF Reset
  <1>3. CASE createSession
    BY <1>3 DEF createSession
  <1>4. CASE Loop
    BY <1>4 DEF Loop
  <1>5. CASE Ping
    <2>1. call' \in [Caller -> {"idle", "enter", "wait", "woken"}]
      BY <1>5 DEF Ping
    <2>2. initialized' \in BOOLEAN /\ pinged' \in BOOLEAN
      BY <1>5 DEF Ping
    <2> QED
      BY <1>5, <2>1, <2>2 DEF Ping
  <1>6. CASE Sleep
    BY <1>6 DEF Sleep
  <1> QED
    BY <1>1, <1>2, <1>3, <1>4, <1>5, <1>6 DEF run

\* A step of a caller keeps the types.
LEMMA CallerType ==
    ASSUME TypeOK, NEW c \in Caller, Call(c) \/ stringToProxy(c)
    PROVE  TypeOK'
  <1> USE DEF TypeOK, threadVars, envVars
  <1>1. CASE Call(c)
    BY <1>1 DEF Call
  <1>2. CASE Enter(c)
    BY <1>2 DEF Enter, Proxy, Return
  <1>3. CASE Timeout(c)
    BY <1>3 DEF Timeout
  <1>4. CASE Recheck(c)
    BY <1>4 DEF Recheck, Proxy, Return
  <1> QED
    BY <1>1, <1>2, <1>3, <1>4 DEF stringToProxy

\* Time, the destructor and the router keep the types.
LEMMA OutsideType ==
    ASSUME TypeOK, Quiet \/ Destroy \/ Destroyed \/ Lose \/ Fails \/ Recovers
    PROVE  TypeOK'
  <1> USE DEF TypeOK, threadVars, callVars, envVars
  <1>1. faults' \in 0..MaxFaults
    BY ConstantsAssumption DEF Quiet, Destroy, Destroyed, Lose, Fails, Recovers, Fault
  <1>2. CASE Quiet
    BY <1>2 DEF Quiet
  <1>6. CASE Recovers
    BY <1>6 DEF Recovers
  <1>3. CASE Destroy
    BY <1>3 DEF Destroy
  <1>4. CASE Destroyed
    BY <1>4 DEF Destroyed
  <1>5. CASE Lose \/ Fails
    BY <1>1, <1>5 DEF Lose, Fails
  <1> QED
    BY <1>2, <1>3, <1>4, <1>5, <1>6

\* Every step keeps the types.
LEMMA TypeStep ==
    ASSUME TypeOK, [Next]_vars
    PROVE  TypeOK'
  <1>1. CASE Next
    BY <1>1, RunType, CallerType, OutsideType DEF Next
  <1>2. CASE UNCHANGED vars
    BY <1>2 DEF TypeOK, vars, threadVars, callVars, envVars
  <1> QED
    BY <1>1, <1>2

\* The state keeps its shape, and initialized is set only over a session that
\* exists and was pinged: what stringToProxy relies on when it tests the flag.
THEOREM TypeCorrect == Spec => []TypeOK
  <1>1. TypeOK /\ [Next]_vars => TypeOK'
    BY TypeStep
  <1> QED
    BY InitType, <1>1, PTL DEF Spec

\* stringToProxy returns a proxy only over a session that was pinged since the
\* last reconnection of run began, for callers that found the session up and
\* for those that were woken alike.
THEOREM ProxyPinged == Spec => ProxyOverPingedSession
  <1>1. ASSUME TypeOK, [Next]_vars, NEW c \in Caller,
               got'[c] = "proxy", got[c] # "proxy"
        PROVE  pinged
    <2>1. CASE \E d \in Caller : Enter(d) \/ Recheck(d)
      <3>1. PICK d \in Caller : Enter(d) \/ Recheck(d)
        BY <2>1
      <3>2. Proxy(d)
        BY <1>1, <3>1 DEF TypeOK, Enter, Recheck, Return
      <3>3. initialized
        BY <3>2 DEF Proxy
      <3> QED
        BY <1>1, <3>3 DEF TypeOK
    <2>2. CASE ~ \E d \in Caller : Enter(d) \/ Recheck(d)
      BY <1>1, <2>2
      DEF TypeOK, Next, run, Begin, Reset, createSession, Loop, Ping, Sleep, Call,
          stringToProxy, Timeout, Quiet, Destroy, Destroyed, Lose, Fails, Recovers,
          callVars, vars
    <2> QED
      BY <2>1, <2>2
  <1>2. TypeOK /\ [Next]_vars
          => [\A c \in Caller : got'[c] = "proxy" /\ got[c] # "proxy" => pinged]_vars
    BY <1>1
  <1> QED
    BY TypeCorrect, <1>2, PTL DEF Spec, ProxyOverPingedSession
=============================================================================
