------------------------ MODULE Glacier2Communicator ------------------------
(***************************************************************************)
(* The client's session with a Glacier2 router.  A thread creates the      *)
(* session and pings it; callers of stringToProxy get a proxy while the    *)
(* session is taken to be up, and otherwise wait up to 30 seconds for the  *)
(* thread's notice.  The monitor's mutex is held by the thread over its    *)
(* remote calls; what callers do under it is one step.                     *)
(*                                                                         *)
(* The session server of the repository answers for the router: it may be  *)
(* down, refuse the password for a while, or lose the session.  The        *)
(* object's memory stays readable after its destructor; in the code it is  *)
(* freed while the thread may still use it.                                *)
(***************************************************************************)
EXTENDS Naturals

CONSTANTS
    Caller,    \* the threads that ask for proxies
    MaxFaults  \* bound: the faults of the router

ASSUME ConstantsAssumption == MaxFaults \in Nat

VARIABLES
    runing,
    initialized,
    communicator,  \* whether _communicator is set
    session,       \* of the current router: none, live or lost
    recent,        \* whether the last call is at most 60 seconds ago
    pc,            \* of the session thread
    call,          \* of each caller: where it stands
    got,           \* of each caller: what its last call returned
    stop,          \* of the destructor: no, begun or done
    router,        \* up, down or denying
    pinged,        \* auxiliary: the current session has been pinged
    faults

threadVars == <<runing, initialized, session, pc, pinged>>
callVars   == <<recent, call, got>>
envVars    == <<router, faults>>
vars       == <<threadVars, callVars, envVars, communicator, stop>>

Init ==
    /\ runing = FALSE /\ initialized = FALSE /\ communicator = TRUE
    /\ session = "none" /\ pinged = FALSE
    /\ recent \in BOOLEAN  \* last_time is not initialised
    /\ pc = "start"
    /\ call = [c \in Caller |-> "idle"]
    /\ got = [c \in Caller |-> "nothing"]
    /\ stop = "no"
    /\ router \in {"up", "down", "denying"}
    /\ faults = 0

\* The thread gives the mutex up between its remote calls.
LockFree == pc \notin {"create", "ping", "reping"}

-----------------------------------------------------------------------------
(* run.                                                                     *)

Begin ==
    /\ pc = "start"
    /\ runing' = TRUE
    /\ pc' = "reset"
    /\ UNCHANGED <<initialized, session, pinged, callVars, envVars, communicator, stop>>

\* Mutant: the session of before counts as up until the new one is pinged.
ResetKept ==
    /\ pc = "reset"
    /\ pc' = IF communicator THEN "create" ELSE "retry"
    /\ session' = "none" /\ pinged' = FALSE
    /\ UNCHANGED <<runing, initialized, callVars, envVars, communicator, stop>>

\* The router's proxy is built anew; without a communicator that throws.
Reset ==
    /\ pc = "reset"
    /\ initialized' = FALSE
    /\ pc' = IF communicator THEN "create" ELSE "retry"
    /\ session' = "none" /\ pinged' = FALSE
    /\ UNCHANGED <<runing, callVars, envVars, communicator, stop>>

\* createSession tries again at once while it is refused, and throws when the
\* router cannot be reached.
createSession ==
    /\ pc = "create"
    /\ \/ ~runing /\ pc' = "done" /\ UNCHANGED session
       \/ runing /\ router = "up" /\ communicator /\ pc' = "loop" /\ session' = "live"
       \/ runing /\ (router = "down" \/ ~communicator) /\ pc' = "retry" /\ UNCHANGED session
       \/ runing /\ router = "denying" /\ communicator /\ UNCHANGED <<pc, session>>
    /\ UNCHANGED <<runing, initialized, pinged, callVars, envVars, communicator, stop>>

\* Mutant: only a new session is pinged.
LoopNewOnly ==
    /\ pc = "loop"
    /\ pc' = IF ~runing THEN "done" ELSE IF ~initialized THEN "ping" ELSE "sleep"
    /\ UNCHANGED <<runing, initialized, session, pinged, callVars, envVars, communicator, stop>>

\* The session is pinged when it is new, or when there were no calls lately.
Loop ==
    /\ pc = "loop"
    /\ pc' = IF ~runing THEN "done"
             ELSE IF ~initialized THEN "ping" ELSE IF recent THEN "sleep" ELSE "reping"
    /\ UNCHANGED <<runing, initialized, session, pinged, callVars, envVars, communicator, stop>>

\* A ping that fails leaves _initialized as it is until the reconnection.
Ping ==
    /\ pc \in {"ping", "reping"}
    /\ \/ /\ session = "live" /\ router # "down" /\ communicator
          /\ pc' = "sleep" /\ pinged' = TRUE
          /\ initialized' = (initialized \/ pc = "ping")
          /\ call' = [c \in Caller |-> IF call[c] = "wait" THEN "woken" ELSE call[c]]
       \/ /\ session # "live" \/ router = "down" \/ ~communicator
          /\ pc' = "retry"
          /\ UNCHANGED <<initialized, pinged, call>>
    /\ UNCHANGED <<runing, session, recent, got, envVars, communicator, stop>>

\* Mutant: after a failure the thread goes on whether or not the client runs.
SleepOn ==
    /\ pc \in {"sleep", "retry"}
    /\ pc' = IF pc = "sleep" THEN "loop" ELSE "reset"
    /\ UNCHANGED <<runing, initialized, session, pinged, callVars, envVars, communicator, stop>>

\* 60 seconds, or 10 after a failure.
Sleep ==
    /\ pc \in {"sleep", "retry"}
    /\ pc' = IF pc = "sleep" THEN "loop" ELSE IF runing THEN "reset" ELSE "done"
    /\ UNCHANGED <<runing, initialized, session, pinged, callVars, envVars, communicator, stop>>

run == Begin \/ Reset \/ createSession \/ Loop \/ Ping \/ Sleep

-----------------------------------------------------------------------------
(* stringToProxy.                                                           *)

Call(c) ==
    /\ call[c] = "idle" /\ stop = "no"
    /\ recent' = TRUE
    /\ call' = [call EXCEPT ![c] = "enter"]
    /\ got' = [got EXCEPT ![c] = "nothing"]
    /\ UNCHANGED <<threadVars, envVars, communicator, stop>>

Return(c, what) ==
    /\ call' = [call EXCEPT ![c] = "idle"]
    /\ got' = [got EXCEPT ![c] = what]

\* A proxy, or the exception of a null handle.
Proxy(c) == initialized /\ Return(c, IF communicator THEN "proxy" ELSE "exception")

Enter(c) ==
    /\ call[c] = "enter" /\ LockFree
    /\ \/ Proxy(c)
       \/ ~initialized /\ call' = [call EXCEPT ![c] = "wait"] /\ UNCHANGED got
    /\ UNCHANGED <<threadVars, recent, envVars, communicator, stop>>

\* Mutant: callers wait without a limit.
TimeoutNever(c) ==
    /\ call[c] = "wait" /\ FALSE
    /\ call' = [call EXCEPT ![c] = "woken"]
    /\ UNCHANGED <<threadVars, recent, got, envVars, communicator, stop>>

Timeout(c) ==
    /\ call[c] = "wait"
    /\ call' = [call EXCEPT ![c] = "woken"]
    /\ UNCHANGED <<threadVars, recent, got, envVars, communicator, stop>>

\* Mutant: a caller that was woken takes the session to be up.
RecheckNot(c) ==
    /\ call[c] = "woken" /\ LockFree
    /\ Return(c, IF communicator THEN "proxy" ELSE "exception")
    /\ UNCHANGED <<threadVars, recent, envVars, communicator, stop>>

\* Notified or not, the caller tests once more.
Recheck(c) ==
    /\ call[c] = "woken" /\ LockFree
    /\ Proxy(c) \/ (~initialized /\ Return(c, "null"))
    /\ UNCHANGED <<threadVars, recent, envVars, communicator, stop>>

stringToProxy(c) == Enter(c) \/ Timeout(c) \/ Recheck(c)

\* 60 seconds without a new call.
Quiet ==
    /\ recent
    /\ recent' = FALSE
    /\ UNCHANGED <<threadVars, call, got, envVars, communicator, stop>>

-----------------------------------------------------------------------------
(* The destructor, which takes no lock and does not wait for the thread: it *)
(* may come before run has set runing, which then stays set.                *)

Destroy ==
    /\ stop = "no"
    /\ stop' = "begun" /\ runing' = FALSE /\ initialized' = FALSE
    /\ UNCHANGED <<session, pc, pinged, callVars, envVars, communicator>>

Destroyed ==
    /\ stop = "begun"
    /\ stop' = "done" /\ communicator' = FALSE
    /\ session' = IF session = "live" /\ router # "down" THEN "lost" ELSE session
    /\ UNCHANGED <<runing, initialized, pc, pinged, callVars, envVars>>

-----------------------------------------------------------------------------
(* The router and the session server.                                       *)

Fault == faults < MaxFaults /\ faults' = faults + 1

Lose ==
    /\ session = "live" /\ Fault
    /\ session' = "lost"
    /\ UNCHANGED <<runing, initialized, pc, pinged, callVars, router, communicator, stop>>

\* checkPermissions refuses when its own request for the token fails.
Fails ==
    /\ router = "up" /\ Fault
    /\ router' \in {"down", "denying"}
    /\ session' = IF session = "live" /\ router' = "down" THEN "lost" ELSE session
    /\ UNCHANGED <<runing, initialized, pc, pinged, callVars, communicator, stop>>

Recovers ==
    /\ router # "up"
    /\ router' = "up"
    /\ UNCHANGED <<threadVars, callVars, faults, communicator, stop>>

Next ==
    \/ run \/ Quiet \/ Destroy \/ Destroyed
    \/ \E c \in Caller : Call(c) \/ stringToProxy(c)
    \/ Lose \/ Fails \/ Recovers

\* The threads run, the router comes back, and the mutex, free for the 60 or
\* 10 seconds the session thread sleeps, is got by a caller that waits for it.
Fairness ==
    /\ WF_vars(run) /\ WF_vars(Destroyed) /\ WF_vars(Recovers)
    /\ \A c \in Caller : SF_vars(stringToProxy(c))

Spec == Init /\ [][Next]_vars /\ Fairness

-----------------------------------------------------------------------------
(* Properties.                                                              *)

TypeOK ==
    /\ runing \in BOOLEAN /\ initialized \in BOOLEAN /\ communicator \in BOOLEAN
    /\ recent \in BOOLEAN /\ pinged \in BOOLEAN
    /\ session \in {"none", "live", "lost"}
    /\ pc \in {"start", "reset", "create", "loop", "ping", "reping", "sleep", "retry", "done"}
    /\ call \in [Caller -> {"idle", "enter", "wait", "woken"}]
    /\ got \in [Caller -> {"nothing", "proxy", "null", "exception"}]
    /\ stop \in {"no", "begun", "done"} /\ router \in {"up", "down", "denying"}
    /\ faults \in 0..MaxFaults
    /\ initialized => pinged /\ session # "none"

\* A caller gets a proxy only over a session that was pinged since the last
\* reconnection began, whether it found the session up or waited for it.
ProxyOverPingedSession ==
    [][\A c \in Caller : got'[c] = "proxy" /\ got[c] # "proxy" => pinged]_vars

\* stringToProxy returns, though the thread keeps the mutex over remote calls
\* and over every refusal, as long as the router recovers.
CallsReturn == \A c \in Caller : call[c] # "idle" ~> call[c] = "idle"

\* A session that was lost is made again once the faults are over, provided
\* the callers pause: while they call, the session is not pinged.
SessionRestored ==
    <>[]~recent => <>[](stop # "no" \/ (initialized /\ session = "live"))

\* The session thread ends after the destructor, also out of a refusal, when
\* run had set runing before the destructor cleared it.  When run sets it
\* after, nothing clears it again and the thread goes on for ever.
ThreadEnds == (stop # "no" /\ pc # "start" /\ ~runing) ~> pc = "done"
=============================================================================
