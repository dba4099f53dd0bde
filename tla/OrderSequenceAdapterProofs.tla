---------------------- MODULE OrderSequenceAdapterProofs ----------------------
(***************************************************************************)
(* Proofs about OrderSequenceAdapter, for any processes, any of which may  *)
(* be faulty, and any numbers of sessions, nodes and faults.               *)
(*                                                                         *)
(* A registered process need not know its node any more: a creation that   *)
(* fails half-way gives it another name while the old node stays.  So the  *)
(* invariant does not speak of election_node: the first of all nodes       *)
(* belongs to a session of the process (Leads).  That a process which      *)
(* finds its name first owns that node is Known.                           *)
(***************************************************************************)
EXTENDS OrderSequenceAdapter, FiniteSetTheorems, TLAPS

\* Handles are of sessions the process asked for; the name of its node is not
\* newer than the newest node; a process that is down has lost its state.
Attached ==
    \A p \in Proc :
        /\ \A s \in proc[p].handles : s[1] = p
        /\ proc[p].election_node <= seq
        /\ proc[p].up \/ proc[p] = Fresh(p, FALSE)

\* A node with the name a process knows as its own belongs to one of its
\* sessions.
Known ==
    \A p \in Proc, n \in nodes :
        n.seq = proc[p].election_node => n.session \in proc[p].handles

\* No two nodes have the same number.
Numbered == \A n, m \in nodes : n.seq = m.seq => n = m

\* The first node belongs to process p.
HoldsFirst(p) ==
    \E n \in nodes : n.session \in proc[p].handles /\ \A m \in nodes : n.seq <= m.seq

\* It does if p leads or found that it is to lead, and lost no session since.
Leads == \A p \in Proc : First(p) /\ ~proc[p].lost => HoldsFirst(p)

\* The invariant behind OneLeader.
EInv == ElectionTypeOK /\ Attached /\ Known /\ Numbered /\ Leads

-----------------------------------------------------------------------------
(* What a step does to the state, in terms of the process it is of.         *)

\* The other processes stay as they are.
OthersKept(p) == \A q \in Proc : q # p => proc'[q] = proc[q]

\* Sessions end, sessions begin and nodes are made, at most one.
Changed(ended, opened, made) ==
    /\ live' = (live \ ended) \cup opened
    /\ nodes' = {n \in nodes : n.session \notin ended} \cup made
    /\ seq' = IF made = {} THEN seq ELSE seq + 1

\* The node a creation of process p may make.
Makes(p, made) == made = {} \/ (made = New(p) /\ proc[p].zhandle \in live)

\* A process that knows its node to be the first one owns it.
LEMMA LeaderHolds ==
    ASSUME EInv, NEW p \in Proc, node_indexof(p) = "leader"
    PROVE  HoldsFirst(p)
  <1>1. /\ proc[p].election_node \in Children
        /\ \A n \in Children : proc[p].election_node <= n
    BY DEF node_indexof
  <1>2. PICK n \in nodes : n.seq = proc[p].election_node
    BY <1>1 DEF Children
  <1>3. n.session \in proc[p].handles
    BY <1>2 DEF EInv, Known
  <1>4. \A m \in nodes : n.seq <= m.seq
    BY <1>1, <1>2 DEF Children
  <1> QED
    BY <1>3, <1>4 DEF HoldsFirst

\* The current handle, when its session lives, is one of the process's.
LEMMA Current ==
    ASSUME EInv, NEW p \in Proc, proc[p].zhandle \in live
    PROVE  proc[p].zhandle \in proc[p].handles
  <1>1. live \subseteq Session /\ proc[p].zhandle \in proc[p].handles \cup {<<p, 0>>}
    BY DEF EInv, ElectionTypeOK
  <1>2. <<p, 0>> \notin Session
    BY DEF Session
  <1> QED
    BY <1>1, <1>2

\* Node and session numbers.
LEMMA NodeTypes ==
    ASSUME EInv
    PROVE  /\ seq \in Nat
           /\ \A n \in nodes : n.seq \in Nat /\ n.seq >= 1 /\ n.seq <= seq /\ n.session \in live
           /\ \A p \in Proc : proc[p].election_node \in Int /\ proc[p].election_node <= seq
  <1>1. seq \in 0..MaxNodes /\ MaxNodes \in Nat /\ nodes \subseteq [seq : 1..seq, session : live]
    BY ConstantsAssumption DEF EInv, ElectionTypeOK
  <1>2. \A p \in Proc : proc[p].election_node \in Uuid..MaxNodes
    BY DEF EInv, ElectionTypeOK, States
  <1>3. \A p \in Proc : proc[p].election_node <= seq
    BY DEF EInv, Attached
  <1>4. \A n \in nodes : n.seq \in 1..seq /\ n.session \in live
    BY <1>1
  <1> QED
    BY <1>1, <1>2, <1>3, <1>4 DEF Uuid

\* A step keeps Known and Leads if the sessions that end are not of other
\* processes than its own p, and p starts again or else: it keeps the handles
\* of living sessions, the name of its node stays, is void or is the one of the
\* node made, and it is first only if it was or finds itself to be.
LEMMA Keeps ==
    ASSUME EInv, NEW p \in Proc, NEW ended, NEW opened, NEW made,
           OthersKept(p), Changed(ended, opened, made), Makes(p, made),
           \A q \in Proc : q # p => proc[q].handles \cap ended = {},
           \/ proc'[p].election_node = Empty /\ ~First(p)'
           \/ /\ \A s \in proc[p].handles : s \in live /\ s \notin ended => s \in proc'[p].handles
              /\ \A n \in made : n.session \in proc'[p].handles
              /\ \/ proc'[p].election_node = proc[p].election_node
                 \/ proc'[p].election_node = Uuid
                 \/ made # {} /\ proc'[p].election_node = seq + 1
              /\ First(p)' /\ ~proc'[p].lost =>
                    /\ \A s \in proc[p].handles : s \notin ended
                    /\ (First(p) /\ ~proc[p].lost) \/ node_indexof(p) = "leader"
    PROVE  Known' /\ Numbered' /\ Leads'
  <1>1. /\ seq \in Nat
        /\ \A n \in nodes : n.seq \in Nat /\ n.seq >= 1 /\ n.seq <= seq /\ n.session \in live
        /\ \A q \in Proc : proc[q].election_node \in Int /\ proc[q].election_node <= seq
    BY NodeTypes
  <1>2. \A m \in made : m.seq = seq + 1 /\ m.session = proc[p].zhandle
    BY DEF Makes, New
  <1>3. \A n \in nodes' : (n \in nodes /\ n.session \notin ended) \/ n \in made
    BY DEF Changed
  <1>4. Known'
    <2> SUFFICES ASSUME NEW q \in Proc, NEW n \in nodes', n.seq = proc'[q].election_node
                 PROVE  n.session \in proc'[q].handles
      BY DEF Known
    <2>1. CASE q # p
      <3>1. proc'[q] = proc[q]
        BY <2>1 DEF OthersKept
      <3>2. n \in nodes
        BY <1>1, <1>2, <1>3, <3>1
      <3> QED
        BY <3>1, <3>2 DEF EInv, Known
    <2>2. CASE q = p /\ n \in made
      BY <1>1, <1>2, <2>2 DEF Empty
    <2>3. CASE q = p /\ n \in nodes /\ n.session \notin ended
      <3>1. n.seq = proc[p].election_node
        BY <1>1, <2>3 DEF Empty, Uuid
      <3>2. n.session \in proc[p].handles
        BY <2>3, <3>1 DEF EInv, Known
      <3>3. proc'[p].election_node # Empty
        BY <1>1, <2>3 DEF Empty
      <3> QED
        BY <1>1, <2>3, <3>2, <3>3
    <2> QED
      BY <1>3, <2>1, <2>2, <2>3
  <1>5. Leads'
    <2> SUFFICES ASSUME NEW q \in Proc, First(q)', ~proc'[q].lost
                 PROVE  HoldsFirst(q)'
      BY DEF Leads
    <2>1. HoldsFirst(q) /\ \A s \in proc[q].handles : s \notin ended
      <3>1. CASE q # p
        <4>1. proc'[q] = proc[q]
          BY <3>1 DEF OthersKept
        <4> QED
          BY <3>1, <4>1 DEF EInv, Leads, First
      <3>2. CASE q = p
        BY <3>2, LeaderHolds DEF EInv, Leads
      <3> QED
        BY <3>1, <3>2
    <2>2. PICK n \in nodes : n.session \in proc[q].handles /\ \A m \in nodes : n.seq <= m.seq
      BY <2>1 DEF HoldsFirst
    <2>3. n \in nodes'
      BY <2>1, <2>2 DEF Changed
    <2>4. n.session \in proc'[q].handles
      BY <1>1, <2>1, <2>2 DEF OthersKept
    <2>5. \A m \in nodes' : n.seq <= m.seq
      BY <1>1, <1>2, <1>3, <2>2
    <2> QED
      BY <2>3, <2>4, <2>5 DEF HoldsFirst
  <1>6. Numbered'
    <2>1. \A n, m \in made : n = m
      BY DEF Makes, New
    <2>2. \A n \in nodes, m \in made : n.seq # m.seq
      BY <1>1, <1>2
    <2> QED
      BY <1>3, <2>1, <2>2 DEF EInv, Numbered
  <1> QED
    BY <1>4, <1>5, <1>6

-----------------------------------------------------------------------------
(* Types and handles.                                                       *)

\* What ZooKeeper does to its state.
LEMMA ZooKeeperStep ==
    ASSUME EInv, NEW ended, NEW opened, NEW made, made = {} \/ \E n : made = {n},
           ZooKeeper(ended, opened, made)
    PROVE  Changed(ended, opened, made) /\ watch' \subseteq live' /\ child' \subseteq live'
  <1>1. Cardinality(made) = IF made = {} THEN 0 ELSE 1
    BY FS_EmptySet, FS_Singleton
  <1>2. seq' = IF made = {} THEN seq ELSE seq + 1
    BY <1>1, NodeTypes DEF ZooKeeper
  <1>3. watch \subseteq live /\ child \subseteq live
    BY DEF EInv, ElectionTypeOK
  <1>4. watch' \subseteq live' /\ child' \subseteq live'
    BY <1>3 DEF ZooKeeper
  <1> QED
    BY <1>2, <1>4 DEF ZooKeeper, Changed

\* A step keeps the types and Attached if its process does.
LEMMA Typed ==
    ASSUME EInv, NEW p \in Proc, NEW ended, NEW opened, NEW made,
           OthersKept(p), proc' \in [Proc -> States],
           proc'[p].zhandle \in proc'[p].handles \cup {<<p, 0>>},
           proc'[p].isregister => proc'[p].up,
           \A s \in proc'[p].handles : s[1] = p,
           proc'[p].election_node <= seq',
           proc'[p].up \/ proc'[p] = Fresh(p, FALSE),
           Changed(ended, opened, made), Makes(p, made), opened \subseteq Session,
           made # {} => ended = {} /\ seq + 1 <= MaxNodes,
           watch' \subseteq live', child' \subseteq live', conn' \subseteq Session,
           faults' \in 0..MaxFaults
    PROVE  ElectionTypeOK' /\ Attached'
  <1>1. /\ seq \in Nat
        /\ \A n \in nodes : n.seq \in Nat /\ n.seq >= 1 /\ n.seq <= seq /\ n.session \in live
        /\ \A q \in Proc : proc[q].election_node \in Int /\ proc[q].election_node <= seq
    BY NodeTypes
  <1>2. seq \in 0..MaxNodes /\ MaxNodes \in Nat /\ live \subseteq Session
    BY ConstantsAssumption DEF EInv, ElectionTypeOK
  <1>3. seq' \in 0..MaxNodes /\ seq <= seq'
    BY <1>2 DEF Changed
  <1>4. live' \subseteq Session
    BY <1>2 DEF Changed
  <1>5. nodes' \subseteq [seq : 1..seq', session : live']
    <2> SUFFICES ASSUME NEW n \in nodes'
                 PROVE  n \in [seq : 1..seq', session : live']
      OBVIOUS
    <2>1. CASE n \in nodes /\ n.session \notin ended
      <3>1. n \in [seq : 1..seq, session : live]
        BY <2>1 DEF EInv, ElectionTypeOK
      <3>2. n.session \in live'
        BY <2>1, <3>1 DEF Changed
      <3>3. n.seq \in 1..seq'
        BY <1>2, <1>3, <3>1
      <3> QED
        BY <3>1, <3>2, <3>3
    <2>2. CASE n \in made
      <3>1. n = [seq |-> seq + 1, session |-> proc[p].zhandle] /\ proc[p].zhandle \in live
        BY <2>2 DEF Makes, New
      <3>2. seq' = seq + 1 /\ proc[p].zhandle \in live'
        BY <2>2, <3>1 DEF Changed
      <3>3. seq + 1 \in 1..seq'
        BY <1>1, <3>2
      <3> QED
        BY <3>1, <3>2, <3>3
    <2> QED
      BY <2>1, <2>2 DEF Changed
  <1>6. \A q \in Proc : proc'[q].zhandle \in proc'[q].handles \cup {<<q, 0>>}
                        /\ (proc'[q].isregister => proc'[q].up)
    <2> SUFFICES ASSUME NEW q \in Proc, q # p
                 PROVE  proc'[q].zhandle \in proc'[q].handles \cup {<<q, 0>>}
                        /\ (proc'[q].isregister => proc'[q].up)
      OBVIOUS
    <2>1. proc'[q] = proc[q]
      BY DEF OthersKept
    <2> QED
      BY <2>1 DEF EInv, ElectionTypeOK
  <1>7. ElectionTypeOK'
    BY <1>3, <1>4, <1>5, <1>6 DEF ElectionTypeOK
  <1>8. Attached'
    <2> SUFFICES ASSUME NEW q \in Proc
                 PROVE  /\ \A s \in proc'[q].handles : s[1] = q
                        /\ proc'[q].election_node <= seq'
                        /\ proc'[q].up \/ proc'[q] = Fresh(q, FALSE)
      BY DEF Attached, Fresh, Empty
    <2>1. CASE q = p
      BY <2>1
    <2>2. CASE q # p
      <3>1. proc'[q] = proc[q]
        BY <2>2 DEF OthersKept
      <3>2. /\ \A s \in proc[q].handles : s[1] = q
            /\ proc[q].up \/ proc[q] = Fresh(q, FALSE)
        BY DEF EInv, Attached
      <3>3. proc[q].election_node <= seq'
        BY <1>1, <1>2, <1>3
      <3> QED
        BY <3>1, <3>2, <3>3
    <2> QED
      BY <2>1, <2>2
  <1> QED
    BY <1>7, <1>8

\* The outcomes of a creation.
LEMMA CreationCases ==
    ASSUME EInv, NEW p \in Proc, NEW o \in Creations(p) \cup {Failed(p, {}, 0)}
    PROVE  /\ Makes(p, o.made)
           /\ o.fault \in {0, 1} /\ faults + o.fault \in 0..MaxFaults
           /\ o.fault = 1 => proc[p].zhandle \in live
           /\ \/ o.node = proc[p].election_node \/ o.node = Uuid
              \/ o.made # {} /\ o.node = seq + 1
  <1>1. faults \in 0..MaxFaults /\ MaxFaults \in Nat
    BY ConstantsAssumption DEF EInv, ElectionTypeOK
  <1>2. New(p) # {}
    BY DEF New
  <1>3. CASE o = Failed(p, {}, 0)
    BY <1>1, <1>3 DEF Failed, Outcome, Makes
  <1>4. CASE proc[p].zhandle \in live /\ o = create_node(p)
    BY <1>1, <1>2, <1>4 DEF create_node, Renamed, Made, Outcome, Makes
  <1>5. CASE proc[p].zhandle \in live /\ o \in FailedCreations(p) /\ CanFail(p)
    <2>1. faults + 1 \in 0..MaxFaults
      BY <1>1, <1>5 DEF CanFail
    <2> QED
      BY <1>1, <1>2, <1>5, <2>1 DEF FailedCreations, Failed, Made, Renamed, Outcome, Makes
  <1> QED
    BY <1>3, <1>4, <1>5 DEF Creations

-----------------------------------------------------------------------------
(* Kinds of steps.                                                          *)

\* A thread goes on, and may register or find itself first; of ZooKeeper only
\* watches and events change.
LEMMA Moves ==
    ASSUME EInv, NEW p \in Proc, OthersKept(p), proc' \in [Proc -> States],
           UNCHANGED <<live, nodes, seq>>,
           proc'[p].up, proc'[p].handles = proc[p].handles, proc'[p].zhandle = proc[p].zhandle,
           proc'[p].election_node = proc[p].election_node, proc'[p].lost = proc[p].lost,
           First(p)' => First(p) \/ node_indexof(p) = "leader",
           watch' \subseteq live, child' \subseteq live, conn' \subseteq Session,
           faults' \in 0..MaxFaults
    PROVE  EInv'
  <1>1. Changed({}, {}, {}) /\ Makes(p, {})
    BY DEF Changed, Makes
  <1>2. /\ proc'[p].zhandle \in proc'[p].handles \cup {<<p, 0>>}
        /\ \A s \in proc'[p].handles : s[1] = p
        /\ proc'[p].election_node <= seq'
        /\ watch' \subseteq live' /\ child' \subseteq live'
    BY DEF EInv, ElectionTypeOK, Attached
  <1>3. ElectionTypeOK' /\ Attached'
    <2>1. (proc'[p].isregister => proc'[p].up) /\ (proc'[p].up \/ proc'[p] = Fresh(p, FALSE))
      OBVIOUS
    <2> DEFINE none == {}
    <2>2. none \subseteq Session /\ none = {}
      OBVIOUS
    <2>3. Changed(none, none, none) /\ Makes(p, none)
      BY <1>1
    <2> HIDE DEF none
    <2> QED
      BY <1>2, <2>1, <2>2, <2>3, Typed
  <1>4. First(p)' /\ ~proc'[p].lost => (First(p) /\ ~proc[p].lost) \/ node_indexof(p) = "leader"
    OBVIOUS
  <1>5. Known' /\ Numbered' /\ Leads'
    BY <1>1, <1>4, Keeps
  <1> QED
    BY <1>3, <1>5 DEF EInv

\* The process ends, perhaps with a node made or its session closed, or is
\* started again.
LEMMA Resets ==
    ASSUME EInv, NEW p \in Proc, NEW up \in BOOLEAN, proc' = [proc EXCEPT ![p] = Fresh(p, up)],
           NEW ended, NEW made, Changed(ended, {}, made), Makes(p, made),
           \A q \in Proc : q # p => proc[q].handles \cap ended = {},
           made # {} => ended = {} /\ seq + 1 <= MaxNodes,
           watch' \subseteq live', child' \subseteq live', conn' \subseteq Session,
           faults' \in 0..MaxFaults
    PROVE  EInv'
  <1>1. proc'[p] = Fresh(p, up) /\ OthersKept(p)
    BY DEF EInv, ElectionTypeOK, OthersKept
  <1>2. Fresh(p, up) \in States
    <2>1. 0 \in Uuid..MaxNodes /\ <<p, 0>> \in Proc \X (0..MaxSessions)
      BY ConstantsAssumption DEF Uuid
    <2> QED
      BY <2>1 DEF Fresh, States, Empty
  <1>3. proc' \in [Proc -> States]
    BY <1>2 DEF EInv, ElectionTypeOK
  <1>4. /\ proc'[p].zhandle = <<p, 0>> /\ proc'[p].handles = {}
        /\ proc'[p].election_node = 0
    BY <1>1 DEF Fresh, Empty
  <1>5. ~proc'[p].isregister /\ (proc'[p].up \/ proc'[p] = Fresh(p, FALSE))
    <2>1. CASE up = TRUE
      BY <1>1, <2>1 DEF Fresh
    <2>2. CASE up = FALSE
      <3>1. proc'[p] = Fresh(p, FALSE)
        BY <1>1, <2>2
      <3> QED
        BY <3>1 DEF Fresh
    <2> QED
      BY <2>1, <2>2
  <1>6. ~First(p)'
    BY <1>1 DEF First, Fresh
  <1>7. 0 <= seq'
    BY NodeTypes DEF Changed
  <1>8. ElectionTypeOK' /\ Attached'
    BY <1>1, <1>3, <1>4, <1>5, <1>7, Typed
  <1>9. Known' /\ Numbered' /\ Leads'
    BY <1>1, <1>4, <1>6, Keeps DEF Empty
  <1> QED
    BY <1>8, <1>9 DEF EInv

\* add_tmp_node, for a process otherwise as before but for where its threads
\* are.
LEMMA Adds ==
    ASSUME EInv, NEW p \in Proc, NEW o \in Creations(p), NEW u \in States,
           u.up, u.handles = proc[p].handles, u.zhandle = proc[p].zhandle,
           u.lost = proc[p].lost,
           u.isregister \/ u.index = "leader" \/ u.windex = "leader" => First(p),
           add_tmp_node(p, o, u)
    PROVE  EInv'
  <1> DEFINE r == [u EXCEPT !.election_node = o.node, !.mode = "REGISTER",
                            !.zoo_path_list = @ \/ o.how = "made"]
  <1>1. /\ Makes(p, o.made)
        /\ o.fault \in {0, 1} /\ faults + o.fault \in 0..MaxFaults
        /\ o.fault = 1 => proc[p].zhandle \in live
        /\ \/ o.node = proc[p].election_node \/ o.node = Uuid
           \/ o.made # {} /\ o.node = seq + 1
    BY CreationCases
  <1>2. o.made = {} \/ \E n : o.made = {n}
    BY <1>1 DEF Makes, New
  <1>3. Changed({}, {}, o.made) /\ watch' \subseteq live' /\ child' \subseteq live'
    BY <1>2, ZooKeeperStep DEF add_tmp_node
  <1>4. o.made # {} => seq + 1 <= MaxNodes
    BY <1>2, FS_Singleton DEF add_tmp_node
  <1>5. o.node \in Uuid..MaxNodes /\ o.node <= seq'
    <2>1. proc[p].election_node \in Uuid..MaxNodes /\ proc[p].election_node <= seq /\ seq \in Nat
      BY NodeTypes DEF EInv, ElectionTypeOK, States
    <2>2. seq' = (IF o.made = {} THEN seq ELSE seq + 1)
      BY <1>3 DEF Changed
    <2> QED
      BY <1>1, <1>4, <2>1, <2>2, ConstantsAssumption DEF Uuid
  <1>6. r \in States
    BY <1>5 DEF States
  <1>7. /\ r.up /\ r.handles = proc[p].handles /\ r.zhandle = proc[p].zhandle
        /\ r.lost = proc[p].lost /\ r.election_node = o.node
        /\ r.isregister = u.isregister /\ r.index = u.index /\ r.windex = u.windex
    BY DEF States
  <1>8. proc' = [proc EXCEPT ![p] = r]
    BY DEF add_tmp_node
  <1> HIDE DEF r
  <1>9. proc'[p] = r /\ OthersKept(p) /\ proc' \in [Proc -> States]
    BY <1>6, <1>8 DEF EInv, ElectionTypeOK, OthersKept
  <1>10. conn' \subseteq Session /\ faults' \in 0..MaxFaults
    BY <1>1 DEF add_tmp_node, EInv, ElectionTypeOK
  <1>11. /\ proc'[p].zhandle \in proc'[p].handles \cup {<<p, 0>>}
         /\ \A s \in proc'[p].handles : s[1] = p
    BY <1>7, <1>9 DEF EInv, ElectionTypeOK, Attached
  <1>12. ElectionTypeOK' /\ Attached'
    <2>1. (proc'[p].isregister => proc'[p].up) /\ (proc'[p].up \/ proc'[p] = Fresh(p, FALSE))
      BY <1>7, <1>9
    <2> DEFINE none == {}
    <2>2. none \subseteq Session /\ none = {} /\ proc'[p].election_node <= seq'
      BY <1>5, <1>7, <1>9
    <2>3. Changed(none, none, o.made)
      BY <1>3
    <2> HIDE DEF none
    <2> QED
      BY <1>1, <1>3, <1>4, <1>9, <1>10, <1>11, <2>1, <2>2, <2>3, Typed
  <1>13. First(p)' => First(p)
    BY <1>7, <1>9 DEF First
  <1>14. \A n \in o.made : n.session \in proc'[p].handles
    BY <1>1, <1>7, <1>9, Current DEF Makes, New
  <1>15. Known' /\ Numbered' /\ Leads'
    BY <1>1, <1>3, <1>7, <1>9, <1>13, <1>14, Keeps
  <1> QED
    BY <1>12, <1>15 DEF EInv

\* The same, for a step that gives the process state r.
LEMMA MovesTo ==
    ASSUME EInv, NEW p \in Proc, NEW r \in States, proc' = [proc EXCEPT ![p] = r],
           UNCHANGED <<live, nodes, seq>>,
           r.up, r.handles = proc[p].handles, r.zhandle = proc[p].zhandle,
           r.election_node = proc[p].election_node, r.lost = proc[p].lost,
           r.isregister \/ r.index = "leader" \/ r.windex = "leader" =>
              First(p) \/ node_indexof(p) = "leader",
           watch' \subseteq live, child' \subseteq live, conn' \subseteq Session,
           faults' \in 0..MaxFaults
    PROVE  EInv'
  <1>1. proc'[p] = r /\ OthersKept(p) /\ proc' \in [Proc -> States]
    BY DEF EInv, ElectionTypeOK, OthersKept
  <1>2. First(p)' => First(p) \/ node_indexof(p) = "leader"
    BY <1>1 DEF First
  <1> QED
    BY <1>1, <1>2, Moves

\* A fault is counted.
LEMMA FaultType ==
    ASSUME EInv, NEW p, Fault(p)
    PROVE  faults' \in 0..MaxFaults
  BY ConstantsAssumption DEF Fault, CanFail, EInv, ElectionTypeOK

\* What a call leaves of the events and the faults.
LEMMA CallTypes ==
    ASSUME EInv, NEW p \in Proc, NEW cs, cs \subseteq Session,
           Answered(p, cs) \/ Unanswered(p, cs)
    PROVE  conn' \subseteq Session /\ faults' \in 0..MaxFaults
  <1>1. faults \in 0..MaxFaults /\ live \subseteq Session
    BY DEF EInv, ElectionTypeOK
  <1> QED
    BY <1>1, FaultType DEF Answered, Unanswered, NoFault, faultVars

\* The positions a process may find.
LEMMA IndexType ==
    ASSUME NEW p
    PROVE  node_indexof(p) \in {"none", "leader", "follower"}
  BY DEF node_indexof

\* A process that does something is up.
LEMMA IsUp ==
    ASSUME EInv, NEW p \in Proc,
           proc[p].watcher # "idle" \/ proc[p].handles # {} \/ proc[p].isregister
    PROVE  proc[p].up
  <1>1. proc[p].up \/ proc[p] = Fresh(p, FALSE)
    BY DEF EInv, Attached
  <1>2. CASE proc[p] = Fresh(p, FALSE)
    BY <1>2 DEF Fresh
  <1> QED
    BY <1>1, <1>2

-----------------------------------------------------------------------------
(* The election thread.                                                     *)

\* The session of a new handle.
LEMMA OpenedType ==
    ASSUME NEW p \in Proc, NEW s \in Opened(p)
    PROVE  s \in Session /\ s[1] = p /\ s \in Proc \X (0..MaxSessions)
  <1>1. PICK k \in 1..MaxSessions : s = <<p, k>>
    BY DEF Opened
  <1>2. k \in 0..MaxSessions
    BY ConstantsAssumption
  <1> QED
    BY <1>1, <1>2 DEF Session

\* register_to_zookeeper.
LEMMA ConnectStep ==
    ASSUME EInv, NEW p \in Proc, Connect(p)
    PROVE  EInv'
  <1>1. PICK s \in Opened(p), l \in {"connect", "add"} :
          /\ IF l = "add" THEN NoFault ELSE Fault(p)
          /\ proc' = [proc EXCEPT ![p].zhandle = s, ![p].handles = @ \cup {s},
                                  ![p].mode = "CONNECTION", ![p].thread = l]
          /\ ZooKeeper({}, {s}, {})
          /\ conn' = conn \cup {s}
    BY DEF Connect
  <1> DEFINE r == [proc[p] EXCEPT !.zhandle = s, !.handles = @ \cup {s},
                                  !.mode = "CONNECTION", !.thread = l]
  <1>2. proc[p] \in States /\ proc \in [Proc -> States] /\ proc[p].up
    BY DEF EInv, ElectionTypeOK, Connect, At
  <1>3. s \in Session /\ s[1] = p /\ s \in Proc \X (0..MaxSessions)
    BY OpenedType
  <1>4. r \in States
    BY <1>2, <1>3 DEF States
  <1>5. /\ r.zhandle = s /\ r.handles = proc[p].handles \cup {s}
        /\ r.election_node = proc[p].election_node /\ r.lost = proc[p].lost /\ r.up = proc[p].up
        /\ r.isregister = proc[p].isregister /\ r.index = proc[p].index
        /\ r.windex = proc[p].windex
    BY <1>2 DEF States
  <1>6. proc' = [proc EXCEPT ![p] = r]
    BY <1>1, <1>2
  <1> HIDE DEF r
  <1>7. proc'[p] = r /\ OthersKept(p) /\ proc' \in [Proc -> States]
    BY <1>2, <1>4, <1>6 DEF OthersKept
  <1> DEFINE none == {}
  <1>8. Changed(none, {s}, none) /\ watch' \subseteq live' /\ child' \subseteq live' /\ none = {}
    BY <1>1, ZooKeeperStep
  <1>9. Makes(p, none) /\ {s} \subseteq Session
    BY <1>3 DEF Makes
  <1> HIDE DEF none
  <1>10. conn' \subseteq Session /\ faults' \in 0..MaxFaults
    BY <1>1, <1>3, FaultType DEF EInv, ElectionTypeOK, NoFault, faultVars
  <1>11. /\ proc'[p].zhandle \in proc'[p].handles \cup {<<p, 0>>}
         /\ \A x \in proc'[p].handles : x[1] = p
         /\ proc'[p].election_node <= seq'
    <2>1. /\ \A x \in proc[p].handles : x[1] = p
          /\ proc[p].election_node <= seq
      BY DEF EInv, Attached
    <2>2. seq' = seq
      BY <1>8 DEF Changed
    <2> QED
      BY <1>3, <1>5, <1>7, <2>1, <2>2
  <1>12. (proc'[p].isregister => proc'[p].up) /\ (proc'[p].up \/ proc'[p] = Fresh(p, FALSE))
    BY <1>2, <1>5, <1>7
  <1>13. ElectionTypeOK' /\ Attached'
    BY <1>7, <1>8, <1>9, <1>10, <1>11, <1>12, Typed
  <1>14. First(p)' /\ ~proc'[p].lost => First(p) /\ ~proc[p].lost
    BY <1>5, <1>7 DEF First
  <1>15. Known' /\ Numbered' /\ Leads'
    BY <1>5, <1>7, <1>8, <1>9, <1>14, Keeps
  <1> QED
    BY <1>13, <1>15 DEF EInv

\* The first creation of the node.
LEMMA AddNodeStep ==
    ASSUME EInv, NEW p \in Proc, AddNode(p)
    PROVE  EInv'
  <1>1. PICK o \in Creations(p) :
          add_tmp_node(p, o, [proc[p] EXCEPT !.thread =
                                 IF o.how = "made" THEN "event" ELSE "connect"])
    BY DEF AddNode
  <1> DEFINE l == IF o.how = "made" THEN "event" ELSE "connect"
             u == [proc[p] EXCEPT !.thread = l]
  <1>2. proc[p] \in States /\ proc[p].up
    BY DEF EInv, ElectionTypeOK, AddNode, At
  <1>3. u \in States
    BY <1>2 DEF States
  <1>4. /\ u.up = proc[p].up /\ u.handles = proc[p].handles /\ u.zhandle = proc[p].zhandle
        /\ u.lost = proc[p].lost
        /\ u.isregister = proc[p].isregister /\ u.index = proc[p].index
        /\ u.windex = proc[p].windex
    BY <1>2 DEF States
  <1>5. add_tmp_node(p, o, u)
    BY <1>1
  <1> HIDE DEF u
  <1>6. u.isregister \/ u.index = "leader" \/ u.windex = "leader" => First(p)
    BY <1>4 DEF First
  <1>7. u.up
    BY <1>2, <1>4
  <1> QED
    BY <1>3, <1>4, <1>5, <1>6, <1>7, Adds

\* The watch is set.
LEMMA AddEventStep ==
    ASSUME EInv, NEW p \in Proc, AddEvent(p)
    PROVE  EInv'
  <1>1. PICK l \in {"loop", "connect"} :
           /\ proc' = [proc EXCEPT ![p].zoo_event_list = TRUE, ![p].thread = l]
           /\ Answered(p, conn) \/ Unanswered(p, conn)
           /\ watch' \subseteq live
    BY DEF AddEvent, Answered, EInv, ElectionTypeOK
  <1> DEFINE r == [proc[p] EXCEPT !.zoo_event_list = TRUE, !.thread = l]
  <1>2. proc[p] \in States /\ proc \in [Proc -> States] /\ proc[p].up
    BY DEF EInv, ElectionTypeOK, AddEvent, At
  <1>3. r \in States
    BY <1>2 DEF States
  <1>4. /\ r.up = proc[p].up /\ r.handles = proc[p].handles /\ r.zhandle = proc[p].zhandle
        /\ r.election_node = proc[p].election_node /\ r.lost = proc[p].lost
        /\ r.isregister = proc[p].isregister /\ r.index = proc[p].index
        /\ r.windex = proc[p].windex
    BY <1>2 DEF States
  <1>5. proc' = [proc EXCEPT ![p] = r]
    BY <1>1, <1>2
  <1> HIDE DEF r
  <1>6. UNCHANGED <<live, nodes, seq>> /\ child' \subseteq live
    BY DEF AddEvent, EInv, ElectionTypeOK
  <1>7. conn' \subseteq Session /\ faults' \in 0..MaxFaults
    BY <1>1, CallTypes DEF EInv, ElectionTypeOK
  <1>8. r.up /\ (r.isregister \/ r.index = "leader" \/ r.windex = "leader" => First(p))
    BY <1>2, <1>4 DEF First
  <1> QED
    BY <1>1, <1>3, <1>4, <1>5, <1>6, <1>7, <1>8, MovesTo

\* A round reads the children.
LEMMA TestReadStep ==
    ASSUME EInv, NEW p \in Proc, TestRead(p)
    PROVE  EInv'
  <1> DEFINE i == node_indexof(p)
             r1 == [proc[p] EXCEPT !.thread = "act", !.index = i]
             r2 == [proc[p] EXCEPT !.thread = "wait"]
  <1>1. proc[p] \in States /\ proc \in [Proc -> States] /\ proc[p].up
    BY DEF EInv, ElectionTypeOK, TestRead, LockFree
  <1>2. i \in {"none", "leader", "follower"}
    BY IndexType
  <1>3. \/ Answered(p, conn) /\ proc' = [proc EXCEPT ![p].thread = "act", ![p].index = i]
        \/ Unanswered(p, conn) /\ proc' = [proc EXCEPT ![p].thread = "wait"]
    BY DEF TestRead
  <1>4. UNCHANGED <<live, nodes, seq>> /\ watch' \subseteq live /\ child' \subseteq live
    BY DEF TestRead, zkVars, EInv, ElectionTypeOK
  <1>5. conn' \subseteq Session /\ faults' \in 0..MaxFaults
    BY <1>3, CallTypes DEF EInv, ElectionTypeOK
  <1>6. CASE proc' = [proc EXCEPT ![p].thread = "act", ![p].index = i]
    <2> HIDE DEF i
    <2>1. r1 \in States
      BY <1>1, <1>2 DEF States
    <2>2. /\ r1.up = proc[p].up /\ r1.handles = proc[p].handles /\ r1.zhandle = proc[p].zhandle
          /\ r1.election_node = proc[p].election_node /\ r1.lost = proc[p].lost
          /\ r1.isregister = proc[p].isregister /\ r1.index = i
          /\ r1.windex = proc[p].windex
      BY <1>1 DEF States
    <2>3. proc' = [proc EXCEPT ![p] = r1]
      BY <1>1, <1>6
    <2> HIDE DEF r1
    <2>4. r1.up /\ (r1.isregister \/ r1.index = "leader" \/ r1.windex = "leader" =>
                       First(p) \/ node_indexof(p) = "leader")
      BY <1>1, <2>2 DEF First, i
    <2> QED
      BY <1>4, <1>5, <2>1, <2>2, <2>3, <2>4, MovesTo
  <1>7. CASE proc' = [proc EXCEPT ![p].thread = "wait"]
    <2>1. r2 \in States
      BY <1>1 DEF States
    <2>2. /\ r2.up = proc[p].up /\ r2.handles = proc[p].handles /\ r2.zhandle = proc[p].zhandle
          /\ r2.election_node = proc[p].election_node /\ r2.lost = proc[p].lost
          /\ r2.isregister = proc[p].isregister /\ r2.index = proc[p].index
          /\ r2.windex = proc[p].windex
      BY <1>1 DEF States
    <2>3. proc' = [proc EXCEPT ![p] = r2]
      BY <1>1, <1>7
    <2> HIDE DEF r2
    <2>4. r2.up /\ (r2.isregister \/ r2.index = "leader" \/ r2.windex = "leader" => First(p))
      BY <1>1, <2>2 DEF First
    <2> QED
      BY <1>4, <1>5, <2>1, <2>2, <2>3, <2>4, MovesTo
  <1> QED
    BY <1>3, <1>6, <1>7

\* A step of a process that ends or begins, and changes nothing else.
LEMMA Ends ==
    ASSUME EInv, NEW p \in Proc, NEW up \in BOOLEAN, proc' = [proc EXCEPT ![p] = Fresh(p, up)],
           UNCHANGED zkVars, conn' \subseteq Session, faults' \in 0..MaxFaults
    PROVE  EInv'
  <1> DEFINE none == {}
  <1>1. /\ Changed(none, {}, none) /\ Makes(p, none) /\ none = {}
        /\ \A q \in Proc : q # p => proc[q].handles \cap none = {}
    BY DEF Changed, Makes, zkVars
  <1>2. watch' \subseteq live' /\ child' \subseteq live'
    BY DEF EInv, ElectionTypeOK, zkVars
  <1> HIDE DEF none
  <1> QED
    BY <1>1, <1>2, Resets

\* A thread acts on the position it found: it goes back, and is registered if
\* the position is the first or it was before.
LEMMA Registers ==
    ASSUME EInv, NEW p \in Proc, proc[p].up, NEW b \in States,
           b.up = proc[p].up, b.handles = proc[p].handles, b.zhandle = proc[p].zhandle,
           b.election_node = proc[p].election_node, b.lost = proc[p].lost,
           b.isregister = proc[p].isregister,
           b.index = "leader" \/ b.windex = "leader" => First(p),
           UNCHANGED <<zkVars, conn, faultVars>>,
           \/ proc' = [proc EXCEPT ![p] = b]
           \/ First(p) /\ proc' = [proc EXCEPT ![p] = [b EXCEPT !.isregister = TRUE]]
    PROVE  EInv'
  <1>1. /\ UNCHANGED <<live, nodes, seq>> /\ watch' \subseteq live /\ child' \subseteq live
        /\ conn' \subseteq Session /\ faults' \in 0..MaxFaults
    BY DEF EInv, ElectionTypeOK, zkVars, faultVars
  <1>2. CASE proc' = [proc EXCEPT ![p] = b]
    <2>1. b.up /\ (b.isregister \/ b.index = "leader" \/ b.windex = "leader" => First(p))
      BY DEF First
    <2> QED
      BY <1>1, <1>2, <2>1, MovesTo
  <1>3. CASE First(p) /\ proc' = [proc EXCEPT ![p] = [b EXCEPT !.isregister = TRUE]]
    <2> DEFINE r == [b EXCEPT !.isregister = TRUE]
    <2>1. r \in States
      BY DEF States
    <2>2. /\ r.up = b.up /\ r.handles = b.handles /\ r.zhandle = b.zhandle
          /\ r.election_node = b.election_node /\ r.lost = b.lost
      BY DEF States
    <2> HIDE DEF r
    <2>3. r.up
      BY <2>2
    <2>4. proc' = [proc EXCEPT ![p] = r]
      BY <1>3 DEF r
    <2> QED
      BY <1>1, <1>3, <2>1, <2>2, <2>3, <2>4, MovesTo
  <1> QED
    BY <1>2, <1>3

\* It acts on the position it found.
LEMMA TestActStep ==
    ASSUME EInv, NEW p \in Proc, TestAct(p)
    PROVE  EInv'
  <1> DEFINE b == [proc[p] EXCEPT !.thread = "wait", !.index = "none"]
  <1>1. proc[p] \in States /\ proc[p].up /\ conn \subseteq Session /\ faults \in 0..MaxFaults
    BY DEF EInv, ElectionTypeOK, TestAct, At
  <1>2. b \in States
    BY <1>1 DEF States
  <1>3. /\ b.up = proc[p].up /\ b.handles = proc[p].handles /\ b.zhandle = proc[p].zhandle
        /\ b.election_node = proc[p].election_node /\ b.lost = proc[p].lost
        /\ b.isregister = proc[p].isregister /\ b.index = "none" /\ b.windex = proc[p].windex
    BY <1>1 DEF States
  <1>4. \/ /\ proc[p].index = "leader"
           /\ proc' = [proc EXCEPT ![p] = [b EXCEPT !.isregister = TRUE]]
           /\ UNCHANGED <<zkVars, conn, faultVars>>
        \/ Exit(p) /\ UNCHANGED <<zkVars, conn, faultVars>>
        \/ proc' = [proc EXCEPT ![p] = b] /\ UNCHANGED <<zkVars, conn, faultVars>>
        \/ \E o \in Creations(p) : add_tmp_node(p, o, b)
    BY DEF TestAct
  <1> HIDE DEF b
  <1>5. (b.index = "leader" \/ b.windex = "leader" => First(p)) /\ b.up
        /\ (b.isregister \/ b.index = "leader" \/ b.windex = "leader" => First(p))
        /\ (proc[p].index = "leader" => First(p))
    BY <1>1, <1>3 DEF First
  <1>6. CASE \/ /\ proc[p].index = "leader"
                /\ proc' = [proc EXCEPT ![p] = [b EXCEPT !.isregister = TRUE]]
                /\ UNCHANGED <<zkVars, conn, faultVars>>
             \/ proc' = [proc EXCEPT ![p] = b] /\ UNCHANGED <<zkVars, conn, faultVars>>
    BY <1>1, <1>2, <1>3, <1>5, <1>6, Registers
  <1>7. CASE Exit(p) /\ UNCHANGED <<zkVars, conn, faultVars>>
    BY <1>1, <1>7, Ends DEF Exit, faultVars
  <1>8. CASE \E o \in Creations(p) : add_tmp_node(p, o, b)
    BY <1>2, <1>3, <1>5, <1>8, Adds
  <1> QED
    BY <1>4, <1>6, <1>7, <1>8

-----------------------------------------------------------------------------
(* The completion threads.                                                  *)

\* child_event acts on the position it found.
LEMMA ActStep ==
    ASSUME EInv, NEW p \in Proc, Act(p)
    PROVE  EInv'
  <1> DEFINE b == [proc[p] EXCEPT !.watcher = "idle", !.windex = "none"]
  <1>1. proc[p] \in States /\ proc[p].up /\ conn \subseteq Session /\ faults \in 0..MaxFaults
    BY IsUp DEF EInv, ElectionTypeOK, Act
  <1>2. b \in States
    BY <1>1 DEF States
  <1>3. /\ b.up = proc[p].up /\ b.handles = proc[p].handles /\ b.zhandle = proc[p].zhandle
        /\ b.election_node = proc[p].election_node /\ b.lost = proc[p].lost
        /\ b.isregister = proc[p].isregister /\ b.index = proc[p].index /\ b.windex = "none"
    BY <1>1 DEF States
  <1>4. \/ /\ proc[p].windex = "leader"
           /\ proc' = [proc EXCEPT ![p] = [b EXCEPT !.isregister = TRUE]]
           /\ UNCHANGED <<zkVars, conn, faultVars>>
        \/ Exit(p) /\ UNCHANGED <<zkVars, conn, faultVars>>
        \/ proc' = [proc EXCEPT ![p] = b] /\ UNCHANGED <<zkVars, conn, faultVars>>
        \/ \E o \in Creations(p) : add_tmp_node(p, o, b)
    BY DEF Act
  <1> HIDE DEF b
  <1>5. (b.index = "leader" \/ b.windex = "leader" => First(p)) /\ b.up
        /\ (b.isregister \/ b.index = "leader" \/ b.windex = "leader" => First(p))
        /\ (proc[p].windex = "leader" => First(p))
    BY <1>1, <1>3 DEF First
  <1>6. CASE \/ /\ proc[p].windex = "leader"
                /\ proc' = [proc EXCEPT ![p] = [b EXCEPT !.isregister = TRUE]]
                /\ UNCHANGED <<zkVars, conn, faultVars>>
             \/ proc' = [proc EXCEPT ![p] = b] /\ UNCHANGED <<zkVars, conn, faultVars>>
    BY <1>1, <1>2, <1>3, <1>5, <1>6, Registers
  <1>7. CASE Exit(p) /\ UNCHANGED <<zkVars, conn, faultVars>>
    BY <1>1, <1>7, Ends DEF Exit, faultVars
  <1>8. CASE \E o \in Creations(p) : add_tmp_node(p, o, b)
    BY <1>2, <1>3, <1>5, <1>8, Adds
  <1> QED
    BY <1>4, <1>6, <1>7, <1>8

\* The completion thread goes to l with position i.
LEMMA WatcherMoves ==
    ASSUME EInv, NEW p \in Proc, proc[p].up,
           NEW l \in {"idle", "act"}, NEW i \in {"none", node_indexof(p)},
           proc' = [proc EXCEPT ![p].watcher = l, ![p].windex = i],
           UNCHANGED <<live, nodes, seq>>,
           watch' \subseteq live, child' \subseteq live, conn' \subseteq Session,
           faults' \in 0..MaxFaults
    PROVE  EInv'
  <1> DEFINE r == [proc[p] EXCEPT !.watcher = l, !.windex = i]
  <1>1. proc[p] \in States /\ proc \in [Proc -> States]
    BY DEF EInv, ElectionTypeOK
  <1>2. i \in {"none", "leader", "follower"} /\ (i = "leader" => node_indexof(p) = "leader")
    BY IndexType
  <1>3. r \in States
    BY <1>1, <1>2 DEF States
  <1>4. /\ r.up = proc[p].up /\ r.handles = proc[p].handles /\ r.zhandle = proc[p].zhandle
        /\ r.election_node = proc[p].election_node /\ r.lost = proc[p].lost
        /\ r.isregister = proc[p].isregister /\ r.index = proc[p].index
        /\ r.windex = i
    BY <1>1 DEF States
  <1>5. proc' = [proc EXCEPT ![p] = r]
    BY <1>1
  <1> HIDE DEF r
  <1>6. r.up /\ (r.isregister \/ r.index = "leader" \/ r.windex = "leader" =>
                    First(p) \/ node_indexof(p) = "leader")
    BY <1>2, <1>4 DEF First
  <1> QED
    BY <1>3, <1>4, <1>5, <1>6, MovesTo

\* It sets the watch and reads the children, or fails to.
LEMMA WatchStep ==
    ASSUME EInv, NEW p \in Proc, proc[p].up, NEW cs, cs \subseteq Session,
           NEW l \in {"idle", "act"}, NEW x \in {"none", node_indexof(p)},
           WatchAndRead(p, cs) \/ WatchFails(p, cs, l, x),
           UNCHANGED <<live, nodes, seq>>, child' \subseteq live
    PROVE  EInv'
  <1>1. conn' \subseteq Session /\ faults' \in 0..MaxFaults
    BY CallTypes DEF WatchAndRead, WatchFails
  <1>2. watch' \subseteq live
    BY DEF WatchAndRead, WatchFails, Answered, EInv, ElectionTypeOK
  <1>3. PICK k \in {"idle", "act"}, i \in {"none", node_indexof(p)} :
           proc' = [proc EXCEPT ![p].watcher = k, ![p].windex = i]
    BY DEF WatchAndRead, WatchFails
  <1> QED
    BY <1>1, <1>2, <1>3, WatcherMoves

\* A child event.
LEMMA ChildEventStep ==
    ASSUME EInv, NEW p \in Proc, NEW s, ChildEvent(p, s)
    PROVE  EInv'
  <1>1. /\ proc[p].up /\ conn \subseteq Session /\ "act" \in {"idle", "act"}
        /\ child' \subseteq live /\ UNCHANGED <<live, nodes, seq>>
    BY DEF ChildEvent, LockFree, EInv, ElectionTypeOK
  <1>2. PICK x \in {"none", node_indexof(p)} :
            WatchAndRead(p, conn) \/ WatchFails(p, conn, "act", x)
    BY DEF ChildEvent
  <1> QED
    BY <1>1, <1>2, WatchStep

\* A CONNECTED event.
LEMMA ConnectedStep ==
    ASSUME EInv, NEW p \in Proc, Connected(p)
    PROVE  EInv'
  <1>1. /\ UNCHANGED <<live, nodes, seq>> /\ child' \subseteq live /\ watch \subseteq live
        /\ conn \subseteq Session /\ faults \in 0..MaxFaults
        /\ proc[p] \in States /\ proc \in [Proc -> States]
    BY DEF Connected, EInv, ElectionTypeOK
  <1>2. proc[p].up
    BY IsUp DEF Connected, LockFree
  <1>3. ASSUME NEW cs, cs \subseteq Session, re_set_event(p, cs)
        PROVE  EInv'
    <2>1. "idle" \in {"idle", "act"}
      OBVIOUS
    <2> QED
      BY <1>1, <1>2, <1>3, <2>1, WatchStep DEF re_set_event
  <1>4. CASE /\ proc' = [proc EXCEPT ![p].watcher = "idle"]
             /\ UNCHANGED <<watch, conn, faultVars>>
    <2> DEFINE r == [proc[p] EXCEPT !.watcher = "idle"]
    <2>1. r \in States
      BY <1>1 DEF States
    <2>2. /\ r.up = proc[p].up /\ r.handles = proc[p].handles /\ r.zhandle = proc[p].zhandle
          /\ r.election_node = proc[p].election_node /\ r.lost = proc[p].lost
          /\ r.isregister = proc[p].isregister /\ r.index = proc[p].index
          /\ r.windex = proc[p].windex
      BY <1>1 DEF States
    <2>3. proc' = [proc EXCEPT ![p] = r]
      BY <1>1, <1>4
    <2> HIDE DEF r
    <2>4. r.up /\ (r.isregister \/ r.index = "leader" \/ r.windex = "leader" => First(p))
      BY <1>2, <2>2 DEF First
    <2>5. watch' \subseteq live /\ conn' \subseteq Session /\ faults' \in 0..MaxFaults
      BY <1>1, <1>4 DEF faultVars
    <2> QED
      BY <1>1, <2>1, <2>2, <2>3, <2>4, <2>5, MovesTo
  <1>5. ASSUME NEW s, conn' = conn \ {s}, UNCHANGED <<proc, watch, faultVars>>
        PROVE  EInv'
    <2>1. watch' \subseteq live /\ conn' \subseteq Session /\ faults' \in 0..MaxFaults
      BY <1>1, <1>5 DEF faultVars
    <2>2. /\ OthersKept(p) /\ proc' \in [Proc -> States] /\ proc'[p].up
          /\ proc'[p] = proc[p] /\ (First(p)' => First(p))
      BY <1>1, <1>2, <1>5 DEF OthersKept, First
    <2>3. /\ proc'[p].handles = proc[p].handles /\ proc'[p].zhandle = proc[p].zhandle
          /\ proc'[p].election_node = proc[p].election_node /\ proc'[p].lost = proc[p].lost
      BY <2>2
    <2> QED
      BY <1>1, <2>1, <2>2, <2>3, Moves
  <1>6. \A s : conn \ {s} \subseteq Session
    BY <1>1
  <1> QED
    BY <1>1, <1>3, <1>4, <1>5, <1>6 DEF Connected

\* A CONNECTED event after an expired session.
LEMMA RecreateStep ==
    ASSUME EInv, NEW p \in Proc, NEW s, Recreate(p, s)
    PROVE  EInv'
  <1>1. PICK o \in Creations(p) \cup {Failed(p, {}, 0)} :
          /\ seq + Cardinality(o.made) <= MaxNodes
          /\ ZooKeeper({}, {}, o.made)
          /\ faults' = faults + o.fault
          /\ conn' = (conn \ {s}) \cup {t \in {proc[p].zhandle} : o.fault = 1}
          /\ IF o.how \in {"made", "kept"}
             THEN Exit(p)
             ELSE proc' = [proc EXCEPT ![p].election_node = o.node,
                                       ![p].reconnection_flag = FALSE,
                                       ![p].watcher = "connected"]
    BY DEF Recreate
  <1>2. /\ Makes(p, o.made)
        /\ o.fault \in {0, 1} /\ faults + o.fault \in 0..MaxFaults
        /\ o.fault = 1 => proc[p].zhandle \in live
        /\ \/ o.node = proc[p].election_node \/ o.node = Uuid
           \/ o.made # {} /\ o.node = seq + 1
    BY CreationCases
  <1>3. o.made = {} \/ \E n : o.made = {n}
    BY <1>2 DEF Makes, New
  <1>4. o.made # {} => seq + 1 <= MaxNodes
    BY <1>1, <1>3, FS_Singleton
  <1> DEFINE none == {}
  <1>5. /\ Changed(none, {}, o.made) /\ watch' \subseteq live' /\ child' \subseteq live'
        /\ none = {} /\ \A q \in Proc : q # p => proc[q].handles \cap none = {}
    BY <1>1, <1>3, ZooKeeperStep
  <1> HIDE DEF none
  <1>6. conn' \subseteq Session /\ faults' \in 0..MaxFaults
    <2>1. conn \subseteq Session /\ live \subseteq Session
      BY DEF EInv, ElectionTypeOK
    <2> QED
      BY <1>1, <1>2, <2>1
  <1>7. CASE Exit(p)
    BY <1>2, <1>4, <1>5, <1>6, <1>7, Resets DEF Exit
  <1>8. CASE proc' = [proc EXCEPT ![p].election_node = o.node,
                                  ![p].reconnection_flag = FALSE,
                                  ![p].watcher = "connected"]
    <2> DEFINE r == [proc[p] EXCEPT !.election_node = o.node, !.reconnection_flag = FALSE,
                                    !.watcher = "connected"]
    <2>1. proc[p] \in States /\ proc \in [Proc -> States] /\ proc[p].up
      BY DEF EInv, ElectionTypeOK, Recreate, LockFree
    <2>2. o.node \in Uuid..MaxNodes /\ o.node <= seq'
      <3>1. /\ proc[p].election_node \in Uuid..MaxNodes
            /\ proc[p].election_node <= seq /\ seq \in Nat
        BY NodeTypes DEF EInv, ElectionTypeOK, States
      <3>2. seq' = (IF o.made = {} THEN seq ELSE seq + 1)
        BY <1>5 DEF Changed
      <3> QED
        BY <1>2, <1>4, <3>1, <3>2, ConstantsAssumption DEF Uuid
    <2>3. r \in States
      BY <2>1, <2>2 DEF States
    <2>4. /\ r.up = proc[p].up /\ r.handles = proc[p].handles /\ r.zhandle = proc[p].zhandle
          /\ r.election_node = o.node /\ r.lost = proc[p].lost
          /\ r.isregister = proc[p].isregister /\ r.index = proc[p].index
          /\ r.windex = proc[p].windex
      BY <2>1 DEF States
    <2>5. proc' = [proc EXCEPT ![p] = r]
      BY <1>8, <2>1
    <2> HIDE DEF r
    <2>6. proc'[p] = r /\ OthersKept(p) /\ proc' \in [Proc -> States]
      BY <2>1, <2>3, <2>5 DEF OthersKept
    <2>7. /\ proc'[p].zhandle \in proc'[p].handles \cup {<<p, 0>>}
          /\ \A x \in proc'[p].handles : x[1] = p
      BY <2>4, <2>6 DEF EInv, ElectionTypeOK, Attached
    <2>8. /\ proc'[p].election_node <= seq'
          /\ proc'[p].isregister => proc'[p].up
          /\ proc'[p].up \/ proc'[p] = Fresh(p, FALSE)
      BY <2>1, <2>2, <2>4, <2>6
    <2>9. {} \subseteq Session
      OBVIOUS
    <2>10. ElectionTypeOK' /\ Attached'
      BY <1>2, <1>4, <1>5, <1>6, <2>6, <2>7, <2>8, <2>9, Typed
    <2>11. First(p)' /\ ~proc'[p].lost => First(p) /\ ~proc[p].lost
      BY <2>4, <2>6 DEF First
    <2>12. \A n \in o.made : n.session \in proc'[p].handles
      BY <1>2, <2>4, <2>6, Current DEF Makes, New
    <2>13. Known' /\ Numbered' /\ Leads'
      BY <1>2, <1>5, <2>4, <2>6, <2>11, <2>12, Keeps
    <2> QED
      BY <2>10, <2>13 DEF EInv
  <1> QED
    BY <1>1, <1>7, <1>8

\* Sessions with the number of p are no other process's.
LEMMA NoOthers ==
    ASSUME EInv, NEW p \in Proc, NEW s, s[1] = p
    PROVE  \A q \in Proc : q # p => proc[q].handles \cap {s} = {}
  BY DEF EInv, Attached

\* The current handle is the process's own.
LEMMA HandleOwn ==
    ASSUME EInv, NEW p \in Proc
    PROVE  proc[p].zhandle[1] = p
  <1>1. /\ proc[p].zhandle \in proc[p].handles \cup {<<p, 0>>}
        /\ \A s \in proc[p].handles : s[1] = p
    BY DEF EInv, ElectionTypeOK, Attached
  <1> QED
    BY <1>1

\* An EXPIRED event: the process is told of a loss.
LEMMA ExpiredStep ==
    ASSUME EInv, NEW p \in Proc, NEW s, Expired(p, s)
    PROVE  EInv'
  <1> DEFINE z == proc[p].zhandle
  <1>1. PICK t \in Opened(p) :
          /\ ZooKeeper({z}, {t}, {})
          /\ conn' = (conn \ {z, s}) \cup {t}
          /\ proc' = [proc EXCEPT
                ![p].handles = (@ \ {s, proc[p].zhandle}) \cup {t},
                ![p].zhandle = t, ![p].reconnection_flag = TRUE,
                ![p].lost = First(p)]
    BY DEF Expired
  <1> DEFINE r == [proc[p] EXCEPT !.handles = (@ \ {s, z}) \cup {t},
                                  !.zhandle = t, !.reconnection_flag = TRUE,
                                  !.lost = First(p)]
  <1>2. proc[p] \in States /\ proc \in [Proc -> States] /\ proc[p].up /\ s \notin live
        /\ conn \subseteq Session /\ faults' \in 0..MaxFaults
    BY DEF EInv, ElectionTypeOK, Expired, LockFree, NoFault, faultVars
  <1>3. t \in Session /\ t[1] = p /\ t \in Proc \X (0..MaxSessions)
    BY OpenedType
  <1>4. First(p) \in BOOLEAN
    BY DEF First
  <1>5. r \in States
    BY <1>2, <1>3, <1>4 DEF States
  <1>6. /\ r.up = proc[p].up /\ r.handles = (proc[p].handles \ {s, z}) \cup {t}
        /\ r.zhandle = t /\ r.election_node = proc[p].election_node
        /\ r.isregister = proc[p].isregister /\ r.index = proc[p].index
        /\ r.windex = proc[p].windex
    BY <1>2 DEF States
  <1>7. r.lost = First(p)
    BY <1>2 DEF States
  <1>8. proc' = [proc EXCEPT ![p] = r]
    BY <1>1, <1>2
  <1> HIDE DEF r
  <1>9. proc'[p] = r /\ OthersKept(p) /\ proc' \in [Proc -> States]
    BY <1>2, <1>5, <1>8 DEF OthersKept
  <1> DEFINE none == {}
  <1>10. /\ Changed({z}, {t}, none) /\ watch' \subseteq live' /\ child' \subseteq live'
         /\ none = {} /\ Makes(p, none)
    BY <1>1, ZooKeeperStep DEF Makes
  <1> HIDE DEF none
  <1>11. conn' \subseteq Session /\ {t} \subseteq Session
    BY <1>1, <1>2, <1>3
  <1>12. /\ \A x \in proc[p].handles : x[1] = p
         /\ proc[p].election_node <= seq /\ seq' = seq
    BY <1>10 DEF EInv, Attached, Changed
  <1>13. /\ proc'[p].zhandle \in proc'[p].handles \cup {<<p, 0>>}
         /\ \A x \in proc'[p].handles : x[1] = p
         /\ proc'[p].election_node <= seq'
    BY <1>3, <1>6, <1>9, <1>12
  <1>14. (proc'[p].isregister => proc'[p].up) /\ (proc'[p].up \/ proc'[p] = Fresh(p, FALSE))
    BY <1>2, <1>6, <1>9
  <1>15. ElectionTypeOK' /\ Attached'
    <2> DEFINE e == {z}
               n == {t}
    <2>1. Changed(e, n, none) /\ n \subseteq Session
      BY <1>10, <1>11
    <2>2. none # {} => e = {} /\ seq + 1 <= MaxNodes
      BY <1>10
    <2> HIDE DEF e, n
    <2> QED
      BY <1>2, <1>9, <1>10, <1>11, <1>13, <1>14, <2>1, <2>2, Typed
  <1>16. ~(First(p)' /\ ~proc'[p].lost)
    BY <1>6, <1>7, <1>9 DEF First
  <1>17. \A x \in proc[p].handles : x \in live /\ x \notin {z} => x \in proc'[p].handles
    BY <1>2, <1>6, <1>9
  <1>18. \A q \in Proc : q # p => proc[q].handles \cap {z} = {}
    BY HandleOwn, NoOthers
  <1>19. Known' /\ Numbered' /\ Leads'
    BY <1>6, <1>9, <1>10, <1>16, <1>17, <1>18, Keeps
  <1> QED
    BY <1>15, <1>19 DEF EInv

-----------------------------------------------------------------------------
(* The surroundings.                                                        *)

\* A session of a running process is lost.
LEMMA ExpireStep ==
    ASSUME EInv, NEW p \in Proc, NEW s, Expire(p, s)
    PROVE  EInv'
  <1> DEFINE r == [proc[p] EXCEPT !.lost = First(p)]
  <1>1. proc[p] \in States /\ proc \in [Proc -> States] /\ conn \subseteq Session
    BY DEF EInv, ElectionTypeOK
  <1>2. s \in proc[p].handles /\ s[1] = p /\ proc[p].up
    BY IsUp DEF Expire, EInv, Attached
  <1>3. First(p) \in BOOLEAN
    BY DEF First
  <1>4. r \in States
    BY <1>1, <1>3 DEF States
  <1>5. /\ r.up = proc[p].up /\ r.handles = proc[p].handles
        /\ r.zhandle = proc[p].zhandle /\ r.election_node = proc[p].election_node
        /\ r.isregister = proc[p].isregister /\ r.index = proc[p].index
        /\ r.windex = proc[p].windex
    BY <1>1 DEF States
  <1>6. r.lost = First(p)
    BY <1>1 DEF States
  <1>7. proc' = [proc EXCEPT ![p] = r]
    BY <1>1 DEF Expire
  <1> HIDE DEF r
  <1>8. proc'[p] = r /\ OthersKept(p) /\ proc' \in [Proc -> States]
    BY <1>1, <1>4, <1>7 DEF OthersKept
  <1> DEFINE none == {}
             e == {s}
  <1>9. /\ Changed(e, none, none) /\ watch' \subseteq live' /\ child' \subseteq live'
        /\ none = {} /\ Makes(p, none) /\ none \subseteq Session
    BY ZooKeeperStep DEF Makes, Expire
  <1>10. \A q \in Proc : q # p => proc[q].handles \cap e = {}
    BY <1>2, NoOthers
  <1> HIDE DEF none, e
  <1>11. conn' \subseteq Session /\ faults' \in 0..MaxFaults
    BY <1>1, FaultType DEF Expire
  <1>12. /\ proc[p].zhandle \in proc[p].handles \cup {<<p, 0>>}
         /\ \A x \in proc[p].handles : x[1] = p
         /\ proc[p].election_node <= seq /\ seq' = seq
    BY <1>9 DEF EInv, ElectionTypeOK, Attached, Changed
  <1>13. /\ proc'[p].zhandle \in proc'[p].handles \cup {<<p, 0>>}
         /\ \A x \in proc'[p].handles : x[1] = p
         /\ proc'[p].election_node <= seq'
    BY <1>5, <1>8, <1>12
  <1>14. (proc'[p].isregister => proc'[p].up) /\ (proc'[p].up \/ proc'[p] = Fresh(p, FALSE))
    BY <1>2, <1>5, <1>8
  <1>15. none # {} => e = {} /\ seq + 1 <= MaxNodes
    BY <1>9
  <1>16. ElectionTypeOK' /\ Attached'
    BY <1>8, <1>9, <1>11, <1>13, <1>14, <1>15, Typed
  <1>17. ~(First(p)' /\ ~proc'[p].lost)
    BY <1>5, <1>6, <1>8 DEF First
  <1>18. Known' /\ Numbered' /\ Leads'
    BY <1>5, <1>8, <1>9, <1>10, <1>17, Keeps
  <1> QED
    BY <1>16, <1>18 DEF EInv

\* A process stops.
LEMMA StopStep ==
    ASSUME EInv, NEW p \in Proc, stopOrderSequence(p)
    PROVE  EInv'
  <1> DEFINE none == {}
             e == {proc[p].zhandle}
  <1>1. /\ Changed(e, {}, none) /\ watch' \subseteq live' /\ child' \subseteq live'
        /\ none = {} /\ Makes(p, none)
    BY ZooKeeperStep DEF Makes, stopOrderSequence
  <1>2. \A q \in Proc : q # p => proc[q].handles \cap e = {}
    BY HandleOwn, NoOthers
  <1>3. conn' \subseteq Session /\ faults' \in 0..MaxFaults
    BY FaultType DEF stopOrderSequence, EInv, ElectionTypeOK
  <1>4. none # {} => e = {} /\ seq + 1 <= MaxNodes
    OBVIOUS
  <1>5. proc' = [proc EXCEPT ![p] = Fresh(p, FALSE)]
    BY DEF stopOrderSequence, Exit
  <1> HIDE DEF none, e
  <1> QED
    BY <1>1, <1>2, <1>3, <1>4, <1>5, Resets

\* A session of a dead process ends, which is nobody's.
LEMMA ReapStep ==
    ASSUME EInv, NEW s \in Session, Reap(s)
    PROVE  EInv'
  <1> DEFINE p == s[1]
             none == {}
             e == {s}
  <1>1. p \in Proc /\ s \notin proc[p].handles
    BY DEF Session, Reap, Leftover
  <1>2. /\ Changed(e, none, none) /\ watch' \subseteq live' /\ child' \subseteq live'
        /\ none = {} /\ Makes(p, none) /\ none \subseteq Session
    BY ZooKeeperStep DEF Makes, Reap
  <1>3. /\ \A q \in Proc : proc[q].handles \cap e = {}
        /\ \A x \in proc[p].handles : x \notin e
    BY <1>1 DEF EInv, Attached
  <1> HIDE DEF none, e, p
  <1>4. proc' = proc /\ conn' \subseteq Session /\ faults' \in 0..MaxFaults
    BY DEF Reap, EInv, ElectionTypeOK
  <1>5. OthersKept(p) /\ proc' \in [Proc -> States] /\ proc'[p] = proc[p]
    BY <1>4 DEF OthersKept, EInv, ElectionTypeOK
  <1>6. /\ proc[p].zhandle \in proc[p].handles \cup {<<p, 0>>}
        /\ \A x \in proc[p].handles : x[1] = p
        /\ proc[p].election_node <= seq /\ seq' = seq
        /\ proc[p].isregister => proc[p].up
        /\ proc[p].up \/ proc[p] = Fresh(p, FALSE)
    BY <1>1, <1>2 DEF EInv, ElectionTypeOK, Attached, Changed
  <1>7. /\ proc'[p].zhandle \in proc'[p].handles \cup {<<p, 0>>}
        /\ \A x \in proc'[p].handles : x[1] = p
        /\ proc'[p].election_node <= seq'
        /\ proc'[p].isregister => proc'[p].up
        /\ proc'[p].up \/ proc'[p] = Fresh(p, FALSE)
    BY <1>5, <1>6
  <1>8. none # {} => e = {} /\ seq + 1 <= MaxNodes
    BY <1>2
  <1>9. ElectionTypeOK' /\ Attached'
    BY <1>1, <1>2, <1>4, <1>5, <1>7, <1>8, Typed
  <1>10. First(p)' /\ ~proc'[p].lost => First(p) /\ ~proc[p].lost
    BY <1>5 DEF First
  <1>11. /\ \A x \in proc[p].handles : x \in live /\ x \notin e => x \in proc'[p].handles
         /\ proc'[p].election_node = proc[p].election_node
    BY <1>5
  <1>12. Known' /\ Numbered' /\ Leads'
    BY <1>1, <1>2, <1>3, <1>5, <1>10, <1>11, Keeps
  <1> QED
    BY <1>9, <1>12 DEF EInv

-----------------------------------------------------------------------------
(* The theorems.                                                            *)

\* Every step keeps the invariant.
LEMMA EStep ==
    ASSUME EInv, [Next]_vars
    PROVE  EInv'
  <1>1. ASSUME NEW p \in Proc, Thread(p)
        PROVE  EInv'
    BY <1>1, ConnectStep, AddNodeStep, AddEventStep, TestReadStep, TestActStep DEF Thread
  <1>2. ASSUME NEW p \in Proc, Watcher(p)
        PROVE  EInv'
    BY <1>2, RecreateStep, ChildEventStep, ExpiredStep, ConnectedStep, ActStep DEF Watcher
  <1>3. ASSUME NEW p \in Proc, Crash(p)
        PROVE  EInv'
    <2>1. conn' \subseteq Session /\ faults' \in 0..MaxFaults /\ UNCHANGED zkVars
      BY <1>3, FaultType DEF Crash, EInv, ElectionTypeOK
    <2>2. proc' = [proc EXCEPT ![p] = Fresh(p, FALSE)]
      BY <1>3 DEF Crash, Exit
    <2> QED
      BY <2>1, <2>2, Ends
  <1>4. ASSUME NEW p \in Proc, Restart(p)
        PROVE  EInv'
    <2>1. conn' \subseteq Session /\ faults' \in 0..MaxFaults /\ UNCHANGED zkVars
      BY <1>4 DEF Restart, faultVars, EInv, ElectionTypeOK
    <2>2. proc' = [proc EXCEPT ![p] = Fresh(p, TRUE)]
      BY <1>4 DEF Restart
    <2> QED
      BY <2>1, <2>2, Ends
  <1>5. CASE UNCHANGED vars
    <2>1. ElectionTypeOK'
      BY <1>5 DEF vars, zkVars, faultVars, EInv, ElectionTypeOK
    <2>2. Attached'
      BY <1>5 DEF vars, zkVars, EInv, Attached, Fresh
    <2>3. Known' /\ Numbered' /\ Leads'
      BY <1>5 DEF vars, zkVars, EInv, Known, Numbered, Leads, First, HoldsFirst
    <2> QED
      BY <2>1, <2>2, <2>3 DEF EInv
  <1> QED
    BY <1>1, <1>2, <1>3, <1>4, <1>5, StopStep, ExpireStep, ReapStep DEF Next

\* So do the initial states.
LEMMA EStart == Init => EInv
  <1> SUFFICES ASSUME Init PROVE EInv
    OBVIOUS
  <1>1. \A p \in Proc : proc[p] = Fresh(p, TRUE)
    BY DEF Init
  <1>2. \A p \in Proc : Fresh(p, TRUE) \in States
    <2> SUFFICES ASSUME NEW p \in Proc PROVE Fresh(p, TRUE) \in States
      OBVIOUS
    <2>1. 0 \in Uuid..MaxNodes /\ <<p, 0>> \in Proc \X (0..MaxSessions)
      BY ConstantsAssumption DEF Uuid
    <2> QED
      BY <2>1 DEF Fresh, States, Empty
  <1>3. \A p \in Proc :
           /\ proc[p].zhandle = <<p, 0>> /\ proc[p].handles = {}
           /\ proc[p].election_node = 0
           /\ proc[p].up /\ ~First(p)
    <2> SUFFICES ASSUME NEW p \in Proc
                 PROVE  /\ proc[p].zhandle = <<p, 0>> /\ proc[p].handles = {}
                        /\ proc[p].election_node = 0
                        /\ proc[p].up /\ ~First(p)
      OBVIOUS
    <2>1. proc[p] = Fresh(p, TRUE)
      BY <1>1
    <2>2. proc[p].zhandle = <<p, 0>> /\ proc[p].handles = {} /\ proc[p].election_node = 0
      BY <2>1 DEF Fresh, Empty
    <2>3. proc[p].up /\ ~proc[p].isregister /\ proc[p].index = "none" /\ proc[p].windex = "none"
      BY <2>1 DEF Fresh
    <2> QED
      BY <2>2, <2>3 DEF First
  <1>4. proc \in [Proc -> States]
    BY <1>2 DEF Init
  <1>5. /\ live \subseteq Session /\ nodes \subseteq [seq : 1..seq, session : live]
        /\ seq \in 0..MaxNodes
        /\ watch \subseteq live /\ child \subseteq live /\ conn \subseteq Session
        /\ faults \in 0..MaxFaults
    BY ConstantsAssumption DEF Init
  <1>6. ElectionTypeOK
    BY <1>3, <1>4, <1>5 DEF ElectionTypeOK
  <1>7. Attached
    <2>1. seq = 0
      BY DEF Init
    <2>2. ASSUME NEW p \in Proc
          PROVE  /\ \A s \in proc[p].handles : s[1] = p
                 /\ proc[p].election_node <= seq
                 /\ proc[p].up \/ proc[p] = Fresh(p, FALSE)
      <3>1. proc[p].handles = {} /\ proc[p].election_node = 0 /\ proc[p].up
        BY <1>3
      <3>2. proc[p].election_node <= seq
        BY <2>1, <3>1
      <3> QED
        BY <3>1, <3>2
    <2> QED
      BY <2>2 DEF Attached
  <1>8. Known /\ Numbered /\ Leads
    BY <1>3 DEF Known, Numbered, Leads, Init
  <1> QED
    BY <1>6, <1>7, <1>8 DEF EInv

\* Every step keeps late in its bound.
LEMMA LateStep ==
    ASSUME late \in 0..MaxLate, [Next]_vars
    PROVE  late' \in 0..MaxLate
  <1>1. ASSUME NEW p \in Proc, Thread(p)
        PROVE  late' = late
    BY <1>1 DEF Thread, Connect, AddNode, AddEvent, TestRead, TestAct, add_tmp_node,
                Answered, Unanswered, Fault, NoFault, faultVars
  <1>2. ASSUME NEW p \in Proc, Watcher(p)
        PROVE  late' = late
    BY <1>2 DEF Watcher, Recreate, ChildEvent, Expired, Connected, Act, re_set_event,
                WatchAndRead, WatchFails, add_tmp_node, Answered, Unanswered, Fault,
                NoFault, faultVars
  <1>3. ASSUME NEW p \in Proc, Crash(p) \/ stopOrderSequence(p) \/ Restart(p)
        PROVE  late' = late
    BY <1>3 DEF Crash, stopOrderSequence, Restart, Fault, faultVars
  <1>4. ASSUME NEW p \in Proc, NEW s \in Session, Expire(p, s)
        PROVE  late' = late
    BY <1>4 DEF Expire, Fault
  <1>5. ASSUME NEW s \in Session, Reap(s)
        PROVE  late' \in 0..MaxLate
    BY <1>5, ConstantsAssumption DEF Reap
  <1>6. CASE UNCHANGED vars
    BY <1>6 DEF vars, faultVars
  <1> QED
    BY <1>1, <1>2, <1>3, <1>4, <1>5, <1>6 DEF Next


\* The state of the processes and of ZooKeeper keeps its shape: what the
\* helper's lists, flags and handles hold, and that only a running process is
\* registered (OrderSequenceAdapter.cpp, zookeeper_helper.cpp).
THEOREM TypeCorrect == Spec => []TypeOK
  <1>1. Init => EInv /\ late \in 0..MaxLate
    BY EStart, ConstantsAssumption DEF Init
  <1>2. (EInv /\ late \in 0..MaxLate) /\ [Next]_vars => (EInv /\ late \in 0..MaxLate)'
    BY EStep, LateStep
  <1>3. EInv /\ late \in 0..MaxLate => TypeOK
    BY DEF EInv, TypeOK
  <1> QED
    BY <1>1, <1>2, <1>3, PTL DEF Spec

\* Two processes are registered for the order sequence at once only when one
\* of them has lost a ZooKeeper session since it found its node first: however
\* the election threads and the watchers interleave, creations fail half-way,
\* events come late and processes die, among any number of processes.
THEOREM LeaderUnique == Spec => []OneLeader
  <1>1. Init => EInv
    BY EStart
  <1>2. EInv /\ [Next]_vars => EInv'
    BY EStep
  <1>3. EInv => OneLeader
    <2> SUFFICES ASSUME EInv, NEW p \in Proc, NEW q \in Proc, p # q,
                        proc[p].isregister, proc[q].isregister,
                        ~proc[p].lost, ~proc[q].lost
                 PROVE  FALSE
      BY DEF OneLeader
    <2>1. HoldsFirst(p) /\ HoldsFirst(q)
      BY DEF EInv, Leads, First
    <2>2. PICK n \in nodes : n.session \in proc[p].handles /\ \A k \in nodes : n.seq <= k.seq
      BY <2>1 DEF HoldsFirst
    <2>3. PICK m \in nodes : m.session \in proc[q].handles /\ \A k \in nodes : m.seq <= k.seq
      BY <2>1 DEF HoldsFirst
    <2>4. n.seq = m.seq
      BY <2>2, <2>3, NodeTypes
    <2>5. n = m
      BY <2>4 DEF EInv, Numbered
    <2> QED
      BY <2>2, <2>3, <2>5 DEF EInv, Attached
  <1> QED
    BY <1>1, <1>2, <1>3, PTL DEF Spec

=============================================================================
