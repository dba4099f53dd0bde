------------------------ MODULE OrderSequenceAdapter ------------------------
(***************************************************************************)
(* Which process answers for the order sequence.  Every process keeps a    *)
(* ZooKeeper session and an ephemeral, sequential node below a watched     *)
(* node; the one whose node is the least activates its adapter             *)
(* (isregister), and one that finds another node before its own exits and  *)
(* is started again.  A process has an election thread and the completion  *)
(* threads of its ZooKeeper handles, which the helper's recursive lock     *)
(* keeps apart: `watcher' is the step of the one that holds it.            *)
(*                                                                         *)
(* ZooKeeper is external: sessions, their nodes, one-shot watches and the  *)
(* events still to be delivered.  A call may fail, with its effect or      *)
(* without it; the client then reconnects and reports CONNECTED again.     *)
(***************************************************************************)
EXTENDS Integers, FiniteSets

CONSTANTS
    Proc,        \* the processes
    Faulty,      \* the processes whose calls fail, sessions expire, that crash or stop
    MaxSessions, \* bound: the sessions of one process that exist at once
    MaxHandles,  \* bound: the handles a process can have open
    MaxNodes,    \* bound: the nodes ever created
    MaxFaults,   \* bound: failed calls, lost sessions, crashes and stops
    MaxLate      \* bound: sessions that end between a read and what is done on it

ASSUME ConstantsAssumption ==
    /\ Faulty \subseteq Proc
    /\ MaxSessions \in Nat /\ MaxHandles \in Nat /\ MaxNodes \in Nat
    /\ MaxFaults \in Nat /\ MaxLate \in Nat

VARIABLES
    proc,   \* the state of each process, a record
    live,   \* the sessions ZooKeeper keeps
    nodes,  \* the children of the watched node: sequence number and session
    seq,    \* the sequence number of the newest node
    watch,  \* the sessions with a child watch
    child,  \* the sessions with a child event to be delivered
    conn,   \* the sessions with a CONNECTED event to be delivered
    faults, \* the faults so far
    late    \* the sessions of dead processes that ended between a read and its use

zkVars == <<live, nodes, seq, watch, child>>
faultVars == <<faults, late>>
vars   == <<proc, zkVars, conn, faultVars>>

\* Sessions by the process that asked for them; <<p, 0>> is no session.
Session == Proc \X (1..MaxSessions)

\* election_node: none yet, and the uuid of the process in its place.
Empty == 0
Uuid  == -1

\* create_zookeeper_helper, and the statics of the adapter.
Fresh(p, up) ==
    [up |-> up, isregister |-> FALSE, election_node |-> Empty,
     mode |-> "CONNECTION", reconnection_flag |-> FALSE,
     zoo_path_list |-> FALSE, zoo_event_list |-> FALSE,
     zhandle |-> <<p, 0>>, handles |-> {},
     thread |-> "connect", index |-> "none",
     watcher |-> "idle", windex |-> "none",
     lost |-> FALSE]  \* auxiliary: a session ended since the process was first

Init ==
    /\ proc = [p \in Proc |-> Fresh(p, TRUE)]
    /\ live = {} /\ nodes = {} /\ seq = 0 /\ watch = {} /\ child = {}
    /\ conn = {} /\ faults = 0 /\ late = 0

-----------------------------------------------------------------------------
(* ZooKeeper.                                                               *)

Children == {n.seq : n \in nodes}

\* The session a new handle gets: the first of the free numbers.
Opened(p) ==
    LET used == {k \in 1..MaxSessions : <<p, k>> \in live \cup proc[p].handles}
        free == (1..MaxSessions) \ used
    IN  {<<p, k>> : k \in {k \in free : \A j \in free : k <= j}}

CanFail(p) == p \in Faulty /\ faults < MaxFaults

Fault(p) == CanFail(p) /\ faults' = faults + 1 /\ UNCHANGED late

NoFault == UNCHANGED faultVars

\* Sessions end, sessions begin and nodes are made; a change of the children
\* uses up the watches.
ZooKeeper(ended, opened, made) ==
    /\ live' = (live \ ended) \cup opened
    /\ nodes' = {n \in nodes : n.session \notin ended} \cup made
    /\ seq' = seq + Cardinality(made)
    /\ IF nodes' = nodes
       THEN watch' = watch \ ended /\ child' = child \ ended
       ELSE watch' = {} /\ child' = (child \cup watch) \ ended

\* Mutant: a process takes any node it has for the first one.
node_indexofAny(p) ==
    IF proc[p].election_node \in Children THEN "leader" ELSE "none"

\* Mutant: the first position is counted as one.
node_indexofFromOne(p) ==
    IF proc[p].election_node \in Children THEN "follower" ELSE "none"

\* The position of the process's node among the children it was given.
node_indexof(p) ==
    IF proc[p].election_node \notin Children THEN "none"
    ELSE IF \A n \in Children : proc[p].election_node <= n THEN "leader"
    ELSE "follower"

\* The process leads, or found that it is to lead.
First(p) ==
    proc[p].isregister \/ proc[p].index = "leader" \/ proc[p].windex = "leader"

-----------------------------------------------------------------------------
(* add_tmp_node, down to create_node: what becomes of election_node, the    *)
(* node made, and whether 0 is returned.                                    *)

Mine(p) == {n \in nodes : n.session \in proc[p].handles}

\* How: failed, kept, renamed or made.
Outcome(how, node, made, fault) ==
    [how |-> how, node |-> node, made |-> made, fault |-> fault]

Failed(p, made, fault) == Outcome("failed", proc[p].election_node, made, fault)

Renamed(fault) == Outcome("renamed", Uuid, {}, fault)

New(p) == {[seq |-> seq + 1, session |-> proc[p].zhandle]}

Made(p, fault) == Outcome("made", seq + 1, New(p), fault)

\* A node of the known name is kept, and the answer is -1; a node with the
\* process's uuid is taken to be named by it, and the answer is -1; otherwise
\* a node is made.
create_node(p) ==
    IF proc[p].election_node \in Children
    THEN Outcome("kept", proc[p].election_node, {}, 0)
    ELSE IF Mine(p) # {} THEN Renamed(0) ELSE Made(p, 0)

\* Calls of it that fail: before the creation, at the creation with the node
\* made or not, or when it looks for its node, which it then makes again.
FailedCreations(p) ==
    {Failed(p, {}, 1), Failed(p, New(p), 1), Made(p, 1)}
    \cup {Renamed(1) : n \in Mine(p)}

Creations(p) ==
    IF proc[p].zhandle \in live
    THEN {create_node(p)} \cup {o \in FailedCreations(p) : CanFail(p)}
    ELSE {Failed(p, {}, 0)}

\* What an outcome of add_tmp_node leaves; u is the process otherwise.
add_tmp_node(p, o, u) ==
    /\ seq + Cardinality(o.made) <= MaxNodes
    /\ proc' = [proc EXCEPT ![p] =
          [u EXCEPT !.election_node = o.node,
                    !.mode = "REGISTER",
                    !.zoo_path_list = @ \/ o.how = "made"]]
    /\ ZooKeeper({}, {}, o.made)
    /\ faults' = faults + o.fault /\ UNCHANGED late
    /\ conn' = IF o.fault = 1 THEN conn \cup {proc[p].zhandle} ELSE conn

-----------------------------------------------------------------------------
(* A call on the current handle is answered or fails; cs are the CONNECTED  *)
(* events that stay to be delivered.                                        *)

Answered(p, cs) == proc[p].zhandle \in live /\ NoFault /\ conn' = cs

Unanswered(p, cs) ==
    \/ proc[p].zhandle \notin live /\ NoFault /\ conn' = cs
    \/ proc[p].zhandle \in live /\ Fault(p) /\ conn' = cs \cup {proc[p].zhandle}

LockFree(p) == proc[p].up /\ proc[p].watcher = "idle"

\* unregister_4_registry of a registered process: exit(0).
Exit(p) == proc' = [proc EXCEPT ![p] = Fresh(p, FALSE)]

-----------------------------------------------------------------------------
(* The election thread: start_leader_election.                              *)

At(p, l) == proc[p].up /\ proc[p].thread = l

\* register_to_zookeeper; a handle that is given up stays open.
Connect(p) ==
    /\ At(p, "connect")
    /\ Cardinality(proc[p].handles) < MaxHandles
    /\ \E s \in Opened(p), l \in {"connect", "add"} :
          /\ IF l = "add" THEN NoFault ELSE Fault(p)
          /\ proc' = [proc EXCEPT ![p].zhandle = s, ![p].handles = @ \cup {s},
                                  ![p].mode = "CONNECTION", ![p].thread = l]
          /\ ZooKeeper({}, {s}, {})
          /\ conn' = conn \cup {s}

AddNode(p) ==
    /\ At(p, "add") /\ LockFree(p)
    /\ \E o \in Creations(p) :
          add_tmp_node(p, o, [proc[p] EXCEPT !.thread =
                                 IF o.how = "made" THEN "event" ELSE "connect"])

\* add_zookeeper_event: the event is listed, and the watch set.
AddEvent(p) ==
    /\ At(p, "event") /\ LockFree(p)
    /\ \/ /\ Answered(p, conn)
          /\ watch' = watch \cup {proc[p].zhandle}
          /\ proc' = [proc EXCEPT ![p].zoo_event_list = TRUE, ![p].thread = "loop"]
       \/ /\ Unanswered(p, conn)
          /\ proc' = [proc EXCEPT ![p].zoo_event_list = TRUE, ![p].thread = "connect"]
          /\ UNCHANGED watch
    /\ UNCHANGED <<live, nodes, seq, child>>

\* The sessions of processes that are no more.
Leftover == {s \in live : s \notin proc[s[1]].handles}

\* test_event: the children are read, and acted on without the lock.  "wait" is
\* the pause of 100 minutes before the next round.
TestRead(p) ==
    /\ At(p, "loop") \/ At(p, "wait")
    /\ LockFree(p)
    /\ \/ /\ Answered(p, conn)
          /\ proc' = [proc EXCEPT ![p].thread = "act", ![p].index = node_indexof(p)]
       \/ Unanswered(p, conn) /\ proc' = [proc EXCEPT ![p].thread = "wait"]
    /\ UNCHANGED zkVars

TestAct(p) ==
    LET back == [proc[p] EXCEPT !.thread = "wait", !.index = "none"] IN
    /\ At(p, "act")
    /\ \/ /\ proc[p].index = "leader"
          /\ proc' = [proc EXCEPT ![p] = [back EXCEPT !.isregister = TRUE]]
          /\ UNCHANGED <<zkVars, conn, faultVars>>
       \/ /\ proc[p].index # "leader" /\ proc[p].isregister
          /\ Exit(p)
          /\ UNCHANGED <<zkVars, conn, faultVars>>
       \/ /\ proc[p].index = "follower" /\ ~proc[p].isregister
          /\ proc' = [proc EXCEPT ![p] = back]
          /\ UNCHANGED <<zkVars, conn, faultVars>>
       \/ /\ proc[p].index = "none" /\ ~proc[p].isregister
          /\ LockFree(p)
          /\ \E o \in Creations(p) : add_tmp_node(p, o, back)

Thread(p) ==
    Connect(p) \/ AddNode(p) \/ AddEvent(p) \/ TestRead(p) \/ TestAct(p)

-----------------------------------------------------------------------------
(* The completion threads: watcher.                                         *)

\* The watch is set again and then child_event reads the children, which are
\* acted on later; a read that fails gives none.
WatchAndRead(p, cs) ==
    \/ /\ Answered(p, cs)
       /\ watch' = watch \cup {proc[p].zhandle}
       /\ proc' = [proc EXCEPT ![p].watcher = "act", ![p].windex = node_indexof(p)]
    \/ /\ Unanswered(p, cs)
       /\ watch' = watch \cup ({proc[p].zhandle} \cap live)
       /\ proc' = [proc EXCEPT ![p].watcher = "act", ![p].windex = "none"]

\* The watch cannot be set; i is what is known of the children afterwards.
WatchFails(p, cs, l, i) ==
    /\ Unanswered(p, cs)
    /\ proc' = [proc EXCEPT ![p].watcher = l, ![p].windex = i]
    /\ UNCHANGED watch

\* CONNECTED after an expired session: the listed nodes are made again.
Recreates(p) == proc[p].mode = "REGISTER" /\ proc[p].reconnection_flag

\* There is no buffer for the name, which ends the process when the creation
\* succeeds or its old node is still there.
Recreate(p, s) ==
    /\ LockFree(p) /\ s \in conn \cap proc[p].handles
    /\ Recreates(p)
    /\ \E o \in IF proc[p].zoo_path_list THEN Creations(p) ELSE {Failed(p, {}, 0)} :
          /\ seq + Cardinality(o.made) <= MaxNodes
          /\ ZooKeeper({}, {}, o.made)
          /\ faults' = faults + o.fault /\ UNCHANGED late
          /\ conn' = (conn \ {s}) \cup {t \in {proc[p].zhandle} : o.fault = 1}
          /\ IF o.how \in {"made", "kept"}
             THEN Exit(p)
             ELSE proc' = [proc EXCEPT ![p].election_node = o.node,
                                       ![p].reconnection_flag = FALSE,
                                       ![p].watcher = "connected"]

\* re_set_event, whose failure leaves the event without its handler.
re_set_event(p, cs) == WatchAndRead(p, cs) \/ WatchFails(p, cs, "idle", "none")

Connected(p) ==
    /\ \/ /\ proc[p].watcher = "connected"
          /\ IF proc[p].zoo_event_list
             THEN re_set_event(p, conn)
             ELSE proc' = [proc EXCEPT ![p].watcher = "idle"] /\ UNCHANGED <<watch, conn, faultVars>>
       \/ /\ LockFree(p) /\ ~Recreates(p)
          /\ \E s \in conn \cap proc[p].handles :
                IF proc[p].zoo_event_list
                THEN re_set_event(p, conn \ {s})
                ELSE conn' = conn \ {s} /\ UNCHANGED <<proc, watch, faultVars>>
    /\ UNCHANGED <<live, nodes, seq, child>>

\* handle_event of a child event, which goes on without a watch: child_event's
\* own read may still be answered.
ChildEvent(p, s) ==
    /\ LockFree(p) /\ s \in child \cap proc[p].handles
    /\ \/ WatchAndRead(p, conn)
       \/ WatchFails(p, conn, "act", "none")
       \/ proc[p].zhandle \in live /\ WatchFails(p, conn, "act", node_indexof(p))
    /\ child' = child \ {s}
    /\ UNCHANGED <<live, nodes, seq>>

\* Mutant: the event is only logged.
ExpiredLogged(p, s) ==
    /\ LockFree(p) /\ s \in proc[p].handles \ live
    /\ proc' = [proc EXCEPT ![p].handles = @ \ ({s} \ {proc[p].zhandle}),
                            ![p].lost = First(p)]
    /\ UNCHANGED <<zkVars, conn, faultVars>>

\* Mutant: the handle that was closed stays the current one.
ExpiredKept(p, s) ==
    /\ LockFree(p) /\ s \in proc[p].handles \ live
    /\ ZooKeeper({proc[p].zhandle}, {}, {})
    /\ conn' = conn \ {proc[p].zhandle, s}
    /\ proc' = [proc EXCEPT ![p].handles = @ \ {s, proc[p].zhandle},
                            ![p].reconnection_flag = TRUE, ![p].lost = First(p)]
    /\ NoFault

\* EXPIRED, of any handle: re_connect closes the current one.
Expired(p, s) ==
    /\ LockFree(p) /\ s \in proc[p].handles \ live
    /\ \E t \in Opened(p) :
          /\ ZooKeeper({proc[p].zhandle}, {t}, {})
          /\ conn' = (conn \ {proc[p].zhandle, s}) \cup {t}
          /\ proc' = [proc EXCEPT
                ![p].handles = (@ \ {s, proc[p].zhandle}) \cup {t},
                ![p].zhandle = t, ![p].reconnection_flag = TRUE,
                ![p].lost = First(p)]
    /\ NoFault

\* child_event, from the position on.
Act(p) ==
    LET back == [proc[p] EXCEPT !.watcher = "idle", !.windex = "none"] IN
    /\ proc[p].watcher = "act"
    /\ \/ /\ proc[p].windex = "leader"
          /\ proc' = [proc EXCEPT ![p] = [back EXCEPT !.isregister = TRUE]]
          /\ UNCHANGED <<zkVars, conn, faultVars>>
       \/ /\ proc[p].windex = "follower" /\ proc[p].isregister
          /\ Exit(p)
          /\ UNCHANGED <<zkVars, conn, faultVars>>
       \/ /\ proc[p].windex # "leader" /\ ~proc[p].isregister
          /\ proc' = [proc EXCEPT ![p] = back]
          /\ UNCHANGED <<zkVars, conn, faultVars>>
       \/ /\ proc[p].windex = "none" /\ proc[p].isregister
          /\ \E o \in Creations(p) : add_tmp_node(p, o, back)

Watcher(p) ==
    \/ \E s \in proc[p].handles : Recreate(p, s) \/ ChildEvent(p, s) \/ Expired(p, s)
    \/ Connected(p) \/ Act(p)

-----------------------------------------------------------------------------
(* The surroundings.                                                        *)

\* ZooKeeper gives up a session of a running process.
Expire(p, s) ==
    /\ s \in live \cap proc[p].handles
    /\ Fault(p)
    /\ ZooKeeper({s}, {}, {})
    /\ conn' = conn \ {s}
    /\ proc' = [proc EXCEPT ![p].lost = First(p)]

\* A process dies; its sessions are left to expire.
Crash(p) ==
    /\ proc[p].up
    /\ Fault(p)
    /\ Exit(p)
    /\ UNCHANGED <<zkVars, conn>>

\* stopOrderSequence closes the current session, and the process ends.
stopOrderSequence(p) ==
    /\ LockFree(p)
    /\ Fault(p)
    /\ Exit(p)
    /\ ZooKeeper({proc[p].zhandle}, {}, {})
    /\ conn' = conn \ {proc[p].zhandle}

\* Some process has read the children and not yet acted on what it read.
Between == \E p \in Proc : proc[p].thread = "act" \/ proc[p].watcher = "act"

\* The sessions a dead process left expire, 30 seconds later, which may be
\* between the read of another process and its act.
Reap(s) ==
    /\ s \in Leftover
    /\ Between => late < MaxLate
    /\ late' = IF Between THEN late + 1 ELSE late
    /\ ZooKeeper({s}, {}, {})
    /\ conn' = conn \ {s}
    /\ UNCHANGED <<proc, faults>>

\* IceGrid starts a server that has ended.
Restart(p) ==
    /\ ~proc[p].up
    /\ proc' = [proc EXCEPT ![p] = Fresh(p, TRUE)]
    /\ UNCHANGED <<zkVars, conn, faultVars>>

Next ==
    \/ \E p \in Proc : Thread(p) \/ Watcher(p) \/ Crash(p) \/ stopOrderSequence(p) \/ Restart(p)
    \/ \E p \in Proc, s \in Session : Expire(p, s)
    \/ \E s \in Session : Reap(s)

\* Threads that can run do, IceGrid restarts, ZooKeeper drops dead sessions.
Fairness ==
    /\ \A p \in Proc : WF_vars(Thread(p)) /\ WF_vars(Watcher(p)) /\ WF_vars(Restart(p))
    /\ SF_vars(\E s \in Session : Reap(s))

Spec == Init /\ [][Next]_vars /\ Fairness

-----------------------------------------------------------------------------
(* Properties.                                                              *)

\* The states of a process.
States ==
    [up : BOOLEAN, isregister : BOOLEAN, election_node : Uuid..MaxNodes,
     mode : {"CONNECTION", "REGISTER"}, reconnection_flag : BOOLEAN,
     zoo_path_list : BOOLEAN, zoo_event_list : BOOLEAN,
     zhandle : Proc \X (0..MaxSessions), handles : SUBSET Session,
     thread : {"connect", "add", "event", "loop", "wait", "act"},
     index : {"none", "leader", "follower"},
     watcher : {"idle", "connected", "act"},
     windex : {"none", "leader", "follower"}, lost : BOOLEAN]

ElectionTypeOK ==
    /\ proc \in [Proc -> States]
    /\ \A p \in Proc :
          /\ proc[p].zhandle \in proc[p].handles \cup {<<p, 0>>}
          /\ proc[p].isregister => proc[p].up
    /\ live \subseteq Session
    /\ nodes \subseteq [seq : 1..seq, session : live]
    /\ seq \in 0..MaxNodes
    /\ watch \subseteq live /\ child \subseteq live /\ conn \subseteq Session
    /\ faults \in 0..MaxFaults

TypeOK == ElectionTypeOK /\ late \in 0..MaxLate

\* Two processes answer for the order sequence only when one of them has lost
\* a ZooKeeper session since it found its node to be the first.
OneLeader ==
    \A p, q \in Proc :
        p # q /\ proc[p].isregister /\ proc[q].isregister
            => proc[p].lost \/ proc[q].lost

\* Once the faults are over at most one process stays registered.
SettlesOnOne ==
    <>[](\A p, q \in Proc : proc[p].isregister /\ proc[q].isregister => p = q)

\* A node a process holds but does not know as its own.
Orphan(p) == \E n \in Mine(p) : n.seq # proc[p].election_node

\* Once the faults and the late ends of sessions are over, one process registers
\* and stays, unless a process keeps for ever a node under a name it does not
\* know, or there is always some thread between its read and its act: the code
\* sleeps 100 minutes after each round.
LeaderElected ==
    <>[](\A p \in Proc : ~Orphan(p)) /\ []<>(~Between)
        => <>[](\E p \in Proc : proc[p].isregister)

\* A process that reconnects after its session expired goes on: "auto
\* reconnect" in the helper's handler of the event.  Violated: the node is
\* made again with no buffer for its name.
ReconnectKeepsRunning ==
    [][\A p \in Proc :
          proc[p].reconnection_flag /\ ~proc[p].isregister /\ faults' = faults
              => proc'[p].up]_vars
=============================================================================
