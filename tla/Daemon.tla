------------------------------- MODULE Daemon -------------------------------
(***************************************************************************)
(* The supervisor: a daemon that forks a master and, once the master has   *)
(* notified it, a worker, and replaces them when they die.  The main loop  *)
(* and the handlers of SIGCHLD and SIGTERM run on one thread: a handler    *)
(* interrupts the loop between any two of its steps, and SIGTERM also      *)
(* interrupts the handler of SIGCHLD while it waits for a child.           *)
(*                                                                         *)
(* The JVMs in the children are external: they may die at any time, hang,  *)
(* or exit when they are told to.  A pid is not used again while the       *)
(* daemon remembers it.  Children that outlive the daemon get SIGHUP from  *)
(* the kernel and are not followed further.                                *)
(***************************************************************************)
EXTENDS Integers, FiniteSets

CONSTANTS
    MaxPid,  \* bound: the pids in use at once
    Cmd      \* the processes that run `-s stop', `-s restart' or start it

ASSUME ConstantsAssumption == MaxPid \in Nat

VARIABLES
    pc,       \* of the main loop
    forked,   \* the pid fork returned, until it is recorded
    mpid,     \* the master's pid, as the daemon knows it
    wpid,     \* the worker's, in the daemon's own variable
    shm,      \* the shared memory: dp.status, mp.pid and wp.pid
    shutdown,
    timer,    \* since the first SIGTERM: off, on, or late (past jvmExitTimeout)
    sigterm,  \* whether SIGTERM is pending
    wait,     \* what the handler of SIGCHLD waits for
    kid,      \* the role and the state of the child of each pid
    pidfile,  \* whether wrapper.pid exists
    cmd,      \* of each command: what it does
    target,   \* whether the pid a command read is the daemon's
    missed    \* auxiliary: a child died before its pid was recorded

sigVars  == <<shutdown, timer, sigterm>>
cmdVars  == <<pidfile, cmd, target>>
mainVars == <<pc, forked, mpid, wpid, shm, wait, missed>>
vars     == <<mainVars, sigVars, kid, cmdVars>>

Pid == 1..MaxPid
Nobody == 0   \* wait: no child
Anyone == -1  \* wait: any child of the process group

NoKid == [role |-> "worker", st |-> "none"]

Kids(st) == {p \in Pid : kid[p].st \in st}

\* SIGTERM to the children in ps that still react to it.
Tell(ps) ==
    [p \in Pid |-> IF p \in ps /\ kid[p].st = "run"
                   THEN [kid[p] EXCEPT !.st = "told"] ELSE kid[p]]

\* A pid for fork: one that is free and that the daemon does not remember.
Fresh ==
    LET free == Kids({"none"}) \ {forked, mpid, wpid, shm.mp, shm.wp}
    IN  {p \in free : \A q \in free : p <= q}

\* The daemon as main leaves it before the loop.
Launch ==
    /\ pc' = "loop" /\ forked' = 0 /\ mpid' = -1 /\ wpid' = -1
    /\ shm' = [status |-> 0, mp |-> 0, wp |-> 0]
    /\ shutdown' = FALSE /\ timer' = "off" /\ sigterm' = FALSE
    /\ wait' = Nobody /\ missed' = FALSE
    /\ pidfile' = TRUE

Init ==
    /\ pc = "loop" /\ forked = 0 /\ mpid = -1 /\ wpid = -1
    /\ shm = [status |-> 0, mp |-> 0, wp |-> 0]
    /\ shutdown = FALSE /\ timer = "off" /\ sigterm = FALSE
    /\ wait = Nobody /\ missed = FALSE
    /\ pidfile = TRUE
    /\ kid = [p \in Pid |-> NoKid]
    /\ cmd = [c \in Cmd |-> "idle"]
    /\ target = [c \in Cmd |-> FALSE]

\* The process ends: its children are left to the kernel.
Ends ==
    /\ pc' = "gone" /\ wait' = Nobody
    /\ kid' = [p \in Pid |-> NoKid]

-----------------------------------------------------------------------------
(* The main loop: a pending signal is handled before its next step.         *)

Running == pc # "gone"

At(l) == pc = l /\ wait = Nobody /\ ~sigterm /\ Kids({"zombie"}) = {}

Fork(role, l) ==
    \E p \in Fresh :
        /\ kid' = [kid EXCEPT ![p] = [role |-> role, st |-> "run"]]
        /\ forked' = p
        /\ pc' = l /\ UNCHANGED wait

\* The daemon exits when it cannot fork.
ForkFails == Ends /\ UNCHANGED forked

\* forkMaster, up to the fork; a master that is known is kept.
Loop ==
    /\ At("loop")
    /\ \/ /\ mpid <= 0
          /\ Fork("master", "master") \/ ForkFails
          /\ shm' = [shm EXCEPT !.status = 1, !.mp = 0]
       \/ /\ mpid > 0
          /\ pc' = "wait"
          /\ UNCHANGED <<kid, forked, shm, wait>>
    /\ UNCHANGED <<mpid, wpid, missed, sigVars, cmdVars>>

\* Mutant: the master's pid is recorded in the shared memory only.
SetMasterShared ==
    /\ At("master")
    /\ shm' = [shm EXCEPT !.mp = forked]
    /\ forked' = 0
    /\ pc' = "wait"
    /\ UNCHANGED <<mpid, wpid, wait, missed, sigVars, kid, cmdVars>>

\* forkMaster and its caller record the master: no handler reads the pid in the
\* shared memory, so the two assignments are one step.
SetMaster ==
    /\ At("master")
    /\ shm' = [shm EXCEPT !.mp = forked]
    /\ mpid' = forked
    /\ forked' = 0
    /\ pc' = "wait"
    /\ UNCHANGED <<wpid, wait, missed, sigVars, kid, cmdVars>>

Wait ==
    /\ At("wait")
    /\ shm.status # 1 \/ shutdown
    /\ pc' = IF shutdown THEN "end" ELSE "pick"
    /\ UNCHANGED <<forked, mpid, wpid, shm, wait, missed, sigVars, kid, cmdVars>>

\* forkWork, up to the fork, when no worker is recorded.
Pick ==
    /\ At("pick")
    /\ \/ /\ shm.wp <= 0
          /\ Fork("worker", "worker") \/ ForkFails
          /\ shm' = [shm EXCEPT !.wp = 0]
       \/ /\ shm.wp > 0
          /\ pc' = "check"
          /\ UNCHANGED <<kid, forked, shm, wait>>
    /\ wpid' = shm.wp
    /\ UNCHANGED <<mpid, missed, sigVars, cmdVars>>

\* forkWork records the worker in the shared memory,
RecordWorker ==
    /\ At("worker")
    /\ shm' = [shm EXCEPT !.wp = forked]
    /\ pc' = "forked"
    /\ UNCHANGED <<forked, mpid, wpid, wait, missed, sigVars, kid, cmdVars>>

\* and its caller in wpid, also when the worker has been waited for since.
SetWorker ==
    /\ At("forked")
    /\ wpid' = forked
    /\ forked' = 0
    /\ pc' = "check"
    /\ UNCHANGED <<mpid, shm, wait, missed, sigVars, kid, cmdVars>>

Again == pc' = IF shutdown THEN "end" ELSE "loop"

\* checkJVM, after its retries: healthy, or the worker is to be stopped.
Check ==
    /\ At("check")
    /\ Again \/ (wpid > 0 /\ pc' = "kill")
    /\ UNCHANGED <<forked, mpid, wpid, shm, wait, missed, sigVars, kid, cmdVars>>

\* The handler may have set wpid to -1 since: then everyone is told.
Kill ==
    /\ At("kill")
    /\ kid' = Tell(IF wpid = -1 THEN Pid ELSE {wpid})
    /\ Again
    /\ UNCHANGED <<forked, mpid, wpid, shm, wait, missed, sigVars, cmdVars>>

\* The master is killed; the worker is not waited for.
End ==
    /\ At("end")
    /\ Ends
    /\ UNCHANGED <<forked, mpid, wpid, shm, missed, sigVars, cmdVars>>

Main == Loop \/ SetMaster \/ Wait \/ Pick \/ RecordWorker \/ SetWorker \/ Check \/ Kill \/ End

-----------------------------------------------------------------------------
(* sigchld_handler.                                                         *)

\* Mutant: the worker is told to stop and forgotten at once.
ReapMasterHasty(p) ==
    /\ kid[p].st = "zombie" /\ p = mpid
    /\ mpid' = -1
    /\ kid' = [Tell(IF shm.wp = 0 THEN Pid ELSE {shm.wp}) EXCEPT ![p] = NoKid]
    /\ sigterm' = (sigterm \/ shm.wp = 0)
    /\ shm' = [shm EXCEPT !.mp = 0, !.wp = 0]
    /\ wpid' = -1
    /\ wait' = Nobody
    /\ UNCHANGED <<forked, missed>>

\* The master died.  It takes the worker with it: the worker is told to stop
\* and waited for.  With no worker recorded, kill(0) reaches the whole group,
\* the daemon too, and any child is waited for.
ReapMaster(p) ==
    /\ kid[p].st = "zombie" /\ p = mpid
    /\ mpid' = -1
    /\ kid' = [Tell(IF shm.wp = 0 THEN Pid ELSE {shm.wp}) EXCEPT ![p] = NoKid]
    /\ sigterm' = (sigterm \/ shm.wp = 0)
    /\ LET there == {q \in Pid \ {p} : kid[q].st # "none" /\ shm.wp \in {0, q}}
       IN  IF there = {}
           THEN /\ wait' = Nobody
                /\ shm' = [shm EXCEPT !.mp = 0, !.wp = 0]
                /\ wpid' = -1
           ELSE /\ wait' = IF shm.wp = 0 THEN Anyone ELSE shm.wp
                /\ shm' = [shm EXCEPT !.mp = 0]
                /\ wpid' = shm.wp
    /\ UNCHANGED <<forked, missed>>

\* Mutant: the worker stays recorded.
ReapWorkerKept(p) ==
    /\ kid[p].st = "zombie" /\ p # mpid /\ p = shm.wp
    /\ kid' = [kid EXCEPT ![p] = NoKid]
    /\ wpid' = -1
    /\ UNCHANGED <<shm, forked, mpid, wait, missed, sigterm>>

\* Mutant: the worker's pid is reset to -1 in the shared memory too.
ReapWorkerMinus(p) ==
    /\ kid[p].st = "zombie" /\ p # mpid /\ p = shm.wp
    /\ kid' = [kid EXCEPT ![p] = NoKid]
    /\ shm' = [shm EXCEPT !.wp = -1]
    /\ wpid' = -1
    /\ UNCHANGED <<forked, mpid, wait, missed, sigterm>>

ReapWorker(p) ==
    /\ kid[p].st = "zombie" /\ p # mpid /\ p = shm.wp
    /\ kid' = [kid EXCEPT ![p] = NoKid]
    /\ shm' = [shm EXCEPT !.wp = 0]
    /\ wpid' = -1
    /\ UNCHANGED <<forked, mpid, wait, missed, sigterm>>

\* A child whose pid is not recorded.
ReapOther(p) ==
    /\ kid[p].st = "zombie" /\ p \notin {mpid, shm.wp}
    /\ kid' = [kid EXCEPT ![p] = NoKid]
    /\ wpid' = shm.wp
    /\ missed' = TRUE
    /\ UNCHANGED <<shm, forked, mpid, wait, sigterm>>

\* The child the handler waits for has died.
Waited(p) ==
    /\ kid[p].st = "zombie" /\ wait \in {p, Anyone}
    /\ kid' = [kid EXCEPT ![p] = NoKid]
    /\ shm' = [shm EXCEPT !.wp = 0]
    /\ wpid' = -1
    /\ wait' = Nobody
    /\ UNCHANGED <<forked, mpid, missed, sigterm>>

sigchld_handler ==
    /\ Running
    /\ \E p \in Pid :
          \/ wait = Nobody /\ (ReapMaster(p) \/ ReapWorker(p) \/ ReapOther(p))
          \/ wait # Nobody /\ Waited(p)
    /\ UNCHANGED <<pc, shutdown, timer, cmdVars>>

-----------------------------------------------------------------------------
(* sigterm_handler.                                                         *)

\* Mutant: a worker that does not stop is told again, however late it is.
LateTold ==
    /\ timer = "late"
    /\ kid' = Tell({shm.wp})
    /\ UNCHANGED <<pc, wait>>

\* Past the timeout the worker is killed; with none recorded, the group is.
Late ==
    /\ timer = "late"
    /\ IF shm.wp = 0 THEN Ends
       ELSE /\ kid' = [kid EXCEPT ![shm.wp].st = IF @ = "none" THEN @ ELSE "zombie"]
            /\ UNCHANGED <<pc, wait>>

sigterm_handler ==
    /\ Running /\ sigterm
    /\ sigterm' = FALSE
    /\ \/ /\ timer # "late"
          /\ timer' = "on"
          /\ kid' = Tell({shm.wp})
          /\ UNCHANGED <<pc, wait>>
       \/ Late /\ UNCHANGED timer
    /\ shutdown' = TRUE
    /\ UNCHANGED <<forked, mpid, wpid, shm, missed, cmdVars>>

TimePasses ==
    /\ Running /\ timer = "on"
    /\ timer' = "late"
    /\ UNCHANGED <<mainVars, shutdown, sigterm, kid, cmdVars>>

-----------------------------------------------------------------------------
(* The children: their JVMs, and LibC.notifydp.                             *)

\* A master whose main method returns clears the status as it exits.
Die(p) ==
    /\ kid[p].st \in {"run", "told"}
    /\ kid' = [kid EXCEPT ![p].st = "zombie"]
    /\ \/ UNCHANGED shm
       \/ kid[p].role = "master" /\ shm' = [shm EXCEPT !.status = 0]
    /\ UNCHANGED <<pc, forked, mpid, wpid, wait, missed, sigVars, cmdVars>>

DieTold(p) == kid[p].st = "told" /\ Die(p)

Hang(p) ==
    /\ kid[p].st \in {"run", "told"} /\ kid[p].role = "worker"
    /\ kid' = [kid EXCEPT ![p].st = "hung"]
    /\ UNCHANGED <<mainVars, sigVars, cmdVars>>

notifydp(p) ==
    /\ kid[p] = [role |-> "master", st |-> "run"]
    /\ shm.status = 1
    /\ shm' = [shm EXCEPT !.status = 0]
    /\ UNCHANGED <<pc, forked, mpid, wpid, wait, missed, sigVars, kid, cmdVars>>

-----------------------------------------------------------------------------
(* The commands, which read the pid in wrapper.pid.                         *)

Command(c) ==
    /\ cmd[c] = "idle" /\ pidfile
    /\ \E what \in {"stop", "restart"} : cmd' = [cmd EXCEPT ![c] = what]
    /\ target' = [target EXCEPT ![c] = Running]
    /\ UNCHANGED <<mainVars, sigVars, kid, pidfile>>

Reaches(c) == target[c] /\ Running

Signal(c) ==
    /\ cmd[c] \in {"stop", "restart"} /\ Reaches(c)
    /\ sigterm' = TRUE
    /\ UNCHANGED <<mainVars, shutdown, timer, kid, cmdVars>>

\* The signal finds nobody: the file is removed.
Stopped(c) ==
    /\ cmd[c] = "stop" /\ ~Reaches(c)
    /\ pidfile' = FALSE
    /\ cmd' = [cmd EXCEPT ![c] = "idle"]
    /\ UNCHANGED <<mainVars, sigVars, kid, target>>

\* restart goes on like a start, which the file forbids.
Refused(c) ==
    /\ cmd[c] = "restart" /\ ~Reaches(c) /\ pidfile
    /\ cmd' = [cmd EXCEPT ![c] = "refused"]
    /\ UNCHANGED <<mainVars, sigVars, kid, pidfile, target>>

\* A start with no file; the model has one daemon at a time.
Begin(c) ==
    /\ ~pidfile /\ ~Running
    /\ Launch
    /\ cmd' = [cmd EXCEPT ![c] = "launched"]
    /\ target' = [d \in Cmd |-> FALSE]
    /\ UNCHANGED kid

Start(c) == cmd[c] = "idle" /\ Begin(c)

\* The restart goes through when a stop has removed the file meanwhile.
Restart(c) == cmd[c] = "restart" /\ ~Reaches(c) /\ Begin(c)

Return(c) ==
    /\ cmd[c] \in {"refused", "launched"}
    /\ cmd' = [cmd EXCEPT ![c] = "idle"]
    /\ UNCHANGED <<mainVars, sigVars, kid, pidfile, target>>

Ending(c) == Signal(c) \/ Stopped(c) \/ Refused(c) \/ Restart(c) \/ Return(c)

-----------------------------------------------------------------------------
Next ==
    \/ Main \/ sigchld_handler \/ sigterm_handler \/ TimePasses
    \/ \E p \in Pid : Die(p) \/ Hang(p) \/ notifydp(p)
    \/ \E c \in Cmd : Command(c) \/ Start(c) \/ Ending(c)

\* The daemon runs, signals are delivered, a master notifies or dies, a JVM
\* that does not hang exits when told, and commands repeat their signal, once
\* a second: between two of them the main loop gets to run.
Fairness ==
    /\ SF_vars(Main) /\ WF_vars(sigchld_handler) /\ WF_vars(sigterm_handler)
    /\ WF_vars(TimePasses)
    /\ \A p \in Pid : WF_vars(DieTold(p)) /\ WF_vars(notifydp(p))
    /\ \A c \in Cmd : WF_vars(Ending(c))

Spec == Init /\ [][Next]_vars /\ Fairness

-----------------------------------------------------------------------------
(* Properties.                                                              *)

TypeOK ==
    /\ pc \in {"loop", "master", "wait", "pick", "worker", "forked", "check",
            "kill", "end", "gone"}
    /\ forked \in 0..MaxPid /\ mpid \in -1..MaxPid /\ wpid \in -1..MaxPid
    /\ shm \in [status : 0..1, mp : 0..MaxPid, wp : 0..MaxPid]
    /\ wait \in -1..MaxPid /\ timer \in {"off", "on", "late"}
    /\ shutdown \in BOOLEAN /\ sigterm \in BOOLEAN /\ missed \in BOOLEAN
    /\ kid \in [Pid -> [role : {"master", "worker"},
                        st : {"none", "run", "told", "hung", "zombie"}]]
    /\ cmd \in [Cmd -> {"idle", "stop", "restart", "refused", "launched"}]
    /\ target \in [Cmd -> BOOLEAN] /\ pidfile \in BOOLEAN

\* However master, worker and signals interleave, the daemon never has two
\* workers: a worker is replaced only when it has been waited for.
OneWorker ==
    Cardinality({p \in Kids({"run", "told", "hung"}) : kid[p].role = "worker"}) <= 1

\* Nor does it have two masters: forkMaster makes one only when none is known,
\* and one that dies unrecorded is never replaced.
OneMaster ==
    Cardinality({p \in Kids({"run", "told", "hung"}) : kid[p].role = "master"}) <= 1

\* A master that died without a notice: the daemon goes on waiting for it.
Abandoned == shm.status = 1 /\ \A p \in Kids({"run", "told", "zombie"}) : kid[p].role = "worker"

\* A worker that died is replaced or the daemon stops, on a signal or because
\* it cannot fork, unless a child died between its fork and the recording of
\* its pid, or the master that is waited for dies.
WorkerReplaced ==
    (Running /\ shm.wp > 0 /\ kid[shm.wp].st = "zombie")
        ~> (\/ \E p \in Kids({"run"}) : kid[p].role = "worker"
            \/ shutdown \/ ~Running \/ missed \/ Abandoned)

\* The stop command returns, whatever the daemon was doing and even when the
\* worker hangs: a hung worker is killed after the timeout.
StopCompletes == \A c \in Cmd : cmd[c] = "stop" ~> cmd[c] = "idle"

\* "-s stop|restart": a restart brings the daemon up again.  Violated: the
\* file of the daemon it stopped is still there, and forbids the start.
RestartComesUp == \A c \in Cmd : cmd[c] = "restart" ~> cmd[c] = "launched"
=============================================================================
