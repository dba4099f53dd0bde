-------------------------- MODULE MySQLDBPoolProofs --------------------------
(***************************************************************************)
(* Proofs about MySQLDBPool, for any finite set of connections, any users, *)
(* any sizes of the pool and any number of maintenance rounds.             *)
(*                                                                         *)
(* OneOwner is not inductive by itself: that a connection is not pushed    *)
(* twice, or dropped while it is queued, needs that queues, users and the  *)
(* maintenance thread hold disjoint sets of connections, which make up     *)
(* `open' (Disjoint, Complete).  NoBrokenIdle needs that the connections   *)
(* about to be pushed are without error too (Sound).                       *)
(***************************************************************************)
EXTENDS MySQLDBPool, FiniteSetTheorems, SequenceTheorems, TLAPS

\* The idle connections, and those taken out by the maintenance thread.
Free == ToSet(freeQueue)
Tmp  == ToSet(tmpQueue)

\* The types, without the counts of held connections.
Shape ==
    /\ open \subseteq Conns
    /\ freeQueue \in Seq(Conns) /\ tmpQueue \in Seq(Conns)
    /\ usedConns \in Int
    /\ runing \in BOOLEAN
    /\ old \subseteq Free
    /\ pc \in [Users -> {"idle", "ask", "have", "put", "close", "closed"}]
    /\ held \in [Users -> SUBSET Conns]
    /\ cpc \in {"sleep", "close", "expired", "probe", "push", "drop", "dropped"}
    /\ cpc \in {"sleep", "expired"} => tmpQueue = <<>>
    /\ cpc \in {"close", "probe", "push", "drop"} => tmpQueue # <<>>
    /\ checks \in 0 .. MaxChecks

\* A user holds one connection from GetConnection to FreeConnection, and none
\* at other times.
Holding ==
    \A u \in Users :
        IF pc[u] \in {"have", "put", "close"}
        THEN \E c \in Conns : held[u] = {c}
        ELSE held[u] = {}

\* No connection is in two places,
Disjoint ==
    /\ IsInjective(freeQueue) /\ IsInjective(tmpQueue)
    /\ Free \cap Tmp = {}
    /\ \A u \in Users : held[u] \cap Free = {} /\ held[u] \cap Tmp = {}
    /\ \A u, v \in Users : u # v => held[u] \cap held[v] = {}

\* and those that are somewhere are the open ones.
Complete ==
    \A c \in Conns :
        c \in open <=> c \in Free \/ c \in Tmp \/ \E u \in Users : c \in held[u]

\* A connection with an error is about to be closed.
Sound ==
    /\ isErr \subseteq open
    /\ isErr \cap Free = {}
    /\ \A u \in Users : pc[u] \in {"have", "put"} => held[u] \cap isErr = {}
    /\ tmpQueue # <<>> =>
          Tmp \cap isErr \subseteq (IF cpc = "drop" THEN {Head(tmpQueue)} ELSE {})

\* The count does not exceed the connections in use.
Counted == IsFiniteSet(InUse) /\ usedConns <= Cardinality(InUse)

\* The invariant behind the four theorems.
PInv == Shape /\ Holding /\ Disjoint /\ Complete /\ Sound /\ Counted

-----------------------------------------------------------------------------
(* Sequences without repetition, as the sets of their elements.             *)

\* Appending a new element.
LEMMA AppendSet ==
    ASSUME NEW S, NEW s \in Seq(S), NEW x \in S, IsInjective(s), x \notin ToSet(s)
    PROVE  /\ Append(s, x) \in Seq(S)
           /\ IsInjective(Append(s, x))
           /\ ToSet(Append(s, x)) = ToSet(s) \cup {x}
  <1> DEFINE a == Append(s, x)
  <1>1. /\ Len(s) \in Nat /\ DOMAIN s = 1 .. Len(s)
        /\ a \in Seq(S) /\ DOMAIN a = 1 .. Len(s) + 1
        /\ \A i \in 1 .. Len(s) : a[i] = s[i]
        /\ a[Len(s) + 1] = x
    BY AppendProperties, LenProperties
  <1> HIDE DEF a
  <1>2. \A i \in 1 .. Len(s) + 1 : i \in 1 .. Len(s) \/ i = Len(s) + 1
    BY <1>1
  <1>3. IsInjective(a)
    BY <1>1, <1>2 DEF ToSet, IsInjective
  <1>4. ToSet(a) = ToSet(s) \cup {x}
    <2>1. \A y : y \in ToSet(a) <=> \E i \in 1 .. Len(s) + 1 : a[i] = y
      BY <1>1 DEF ToSet
    <2>2. \A y : y \in ToSet(s) <=> \E i \in 1 .. Len(s) : s[i] = y
      BY <1>1 DEF ToSet
    <2>3. \A y : y \in ToSet(a) <=> y \in ToSet(s) \cup {x}
      BY <1>1, <1>2, <2>1, <2>2
    <2> QED
      BY <2>3
  <1> QED
    BY <1>1, <1>3, <1>4 DEF a

\* Removing the first one.
LEMMA TailSet ==
    ASSUME NEW S, NEW s \in Seq(S), s # <<>>, IsInjective(s)
    PROVE  /\ Tail(s) \in Seq(S)
           /\ IsInjective(Tail(s))
           /\ Head(s) \in ToSet(s)
           /\ ToSet(Tail(s)) = ToSet(s) \ {Head(s)}
  <1> DEFINE a == Tail(s)
  <1>1. /\ Len(s) \in Nat \ {0} /\ DOMAIN s = 1 .. Len(s)
        /\ a \in Seq(S) /\ DOMAIN a = 1 .. Len(s) - 1
        /\ \A i \in 1 .. Len(s) - 1 : a[i] = s[i + 1]
        /\ Head(s) = s[1]
    BY HeadTailProperties, LenProperties, EmptySeq
  <1> HIDE DEF a
  <1>2. /\ \A i \in 1 .. Len(s) : i = 1 \/ i - 1 \in 1 .. Len(s) - 1
        /\ \A i \in 1 .. Len(s) - 1 : i + 1 \in 1 .. Len(s) /\ i + 1 # 1
    BY <1>1
  <1>3. IsInjective(a)
    <2> SUFFICES ASSUME NEW i \in 1 .. Len(s) - 1, NEW j \in 1 .. Len(s) - 1, a[i] = a[j]
                 PROVE  i = j
      BY <1>1 DEF IsInjective
    <2>1. i + 1 \in DOMAIN s /\ j + 1 \in DOMAIN s /\ s[i + 1] = s[j + 1]
      BY <1>1, <1>2
    <2>2. i + 1 = j + 1
      BY <2>1 DEF IsInjective
    <2> QED
      BY <1>1, <2>2
  <1>4. ToSet(a) = ToSet(s) \ {Head(s)}
    <2>1. \A y : y \in ToSet(a) <=> \E i \in 1 .. Len(s) - 1 : a[i] = y
      BY <1>1 DEF ToSet
    <2>2. \A y : y \in ToSet(s) <=> \E i \in 1 .. Len(s) : s[i] = y
      BY <1>1 DEF ToSet
    <2>3. ASSUME NEW y \in ToSet(a)
          PROVE  y \in ToSet(s) \ {Head(s)}
      BY <1>1, <1>2, <2>1, <2>2 DEF IsInjective
    <2>4. ASSUME NEW y \in ToSet(s), y # Head(s)
          PROVE  y \in ToSet(a)
      <3>1. PICK i \in 1 .. Len(s) : s[i] = y
        BY <2>2
      <3>2. i - 1 \in 1 .. Len(s) - 1 /\ a[i - 1] = s[i - 1 + 1] /\ i - 1 + 1 = i
        BY <1>1, <1>2, <2>4, <3>1
      <3> QED
        BY <2>1, <3>1, <3>2
    <2> QED
      BY <2>3, <2>4
  <1>5. Head(s) \in ToSet(s)
    BY <1>1 DEF ToSet
  <1> QED
    BY <1>1, <1>3, <1>4, <1>5 DEF a

\* Splitting after the first n.
LEMMA SplitSet ==
    ASSUME NEW S, NEW s \in Seq(S), NEW n \in 0 .. Len(s), IsInjective(s)
    PROVE  /\ SubSeq(s, 1, n) \in Seq(S)
           /\ SubSeq(s, n + 1, Len(s)) \in Seq(S)
           /\ IsInjective(SubSeq(s, 1, n))
           /\ IsInjective(SubSeq(s, n + 1, Len(s)))
           /\ ToSet(SubSeq(s, 1, n)) \subseteq ToSet(s)
           /\ ToSet(SubSeq(s, n + 1, Len(s))) = ToSet(s) \ ToSet(SubSeq(s, 1, n))
  <1> DEFINE a == SubSeq(s, 1, n)
             b == SubSeq(s, n + 1, Len(s))
  <1>1. Len(s) \in Nat /\ DOMAIN s = 1 .. Len(s) /\ \A i \in 1 .. Len(s) : s[i] \in S
    BY LenProperties, ElementOfSeq
  <1>2. /\ a \in Seq(S) /\ Len(a) = n
        /\ \A i \in 1 .. n : a[i] = s[i]
    <2>1. \A i \in 1 .. n : s[i] \in S
      BY <1>1
    <2>2. /\ a \in Seq(S)
          /\ Len(a) = IF 1 <= n THEN n - 1 + 1 ELSE 0
          /\ \A i \in 1 .. n - 1 + 1 : a[i] = s[1 + i - 1]
      BY <2>1, SubSeqProperties
    <2> HIDE DEF a
    <2> QED
      BY <1>1, <2>2
  <1>3. /\ b \in Seq(S) /\ Len(b) = Len(s) - n
        /\ \A i \in 1 .. Len(s) - n : b[i] = s[n + i]
    <2>1. \A i \in n + 1 .. Len(s) : s[i] \in S
      BY <1>1
    <2>2. /\ b \in Seq(S)
          /\ Len(b) = IF n + 1 <= Len(s) THEN Len(s) - (n + 1) + 1 ELSE 0
          /\ \A i \in 1 .. Len(s) - (n + 1) + 1 : b[i] = s[n + 1 + i - 1]
      BY <1>1, <2>1, SubSeqProperties
    <2> HIDE DEF b
    <2>3. Len(b) = Len(s) - n
      <3>1. Len(b) = IF n + 1 <= Len(s) THEN Len(s) - (n + 1) + 1 ELSE 0
        BY <2>2
      <3>2. Len(s) \in Nat /\ n \in Nat /\ n <= Len(s)
        BY <1>1
      <3> QED
        BY <3>1, <3>2
    <2>4. ASSUME NEW i \in 1 .. Len(s) - n
          PROVE  b[i] = s[n + i]
      <3>1. i \in 1 .. Len(s) - (n + 1) + 1 /\ n + 1 + i - 1 = n + i
        BY <1>1
      <3>2. b[i] = s[n + 1 + i - 1]
        BY <2>2, <3>1
      <3> QED
        BY <3>1, <3>2
    <2> QED
      BY <2>2, <2>3, <2>4
  <1>4. DOMAIN a = 1 .. n /\ DOMAIN b = 1 .. Len(s) - n
    BY <1>2, <1>3, LenProperties
  <1> HIDE DEF a, b
  <1>5. IsInjective(a) /\ IsInjective(b)
    <2>1. IsInjective(a)
      BY <1>1, <1>2, <1>4 DEF IsInjective
    <2>2. ASSUME NEW i \in 1 .. Len(s) - n, NEW j \in 1 .. Len(s) - n, b[i] = b[j]
          PROVE  i = j
      <3>1. n + i \in DOMAIN s /\ n + j \in DOMAIN s /\ s[n + i] = s[n + j]
        BY <1>1, <1>3, <2>2
      <3>2. n + i = n + j
        BY <3>1 DEF IsInjective
      <3> QED
        BY <1>1, <3>2
    <2> QED
      BY <1>4, <2>1, <2>2 DEF IsInjective
  <1>6. /\ \A y : y \in ToSet(a) <=> \E i \in 1 .. n : s[i] = y
        /\ \A y : y \in ToSet(b) <=> \E i \in 1 .. Len(s) - n : s[n + i] = y
        /\ \A y : y \in ToSet(s) <=> \E i \in 1 .. Len(s) : s[i] = y
    <2>1. \A y : y \in ToSet(a) <=> \E i \in 1 .. n : a[i] = y
      BY <1>4 DEF ToSet
    <2>2. \A y : y \in ToSet(b) <=> \E i \in 1 .. Len(s) - n : b[i] = y
      BY <1>4 DEF ToSet
    <2>3. \A y : y \in ToSet(s) <=> \E i \in 1 .. Len(s) : s[i] = y
      BY <1>1 DEF ToSet
    <2>4. \A y : y \in ToSet(a) <=> \E i \in 1 .. n : s[i] = y
      BY <1>2, <2>1
    <2>5. \A y : y \in ToSet(b) <=> \E i \in 1 .. Len(s) - n : s[n + i] = y
      BY <1>3, <2>2
    <2> QED
      BY <2>3, <2>4, <2>5
  <1>7. ToSet(a) \subseteq ToSet(s)
    BY <1>1, <1>6
  <1>8. ASSUME NEW y \in ToSet(b)
        PROVE  y \in ToSet(s) \ ToSet(a)
    <2>1. PICK i \in 1 .. Len(s) - n : s[n + i] = y
      BY <1>6
    <2>2. n + i \in 1 .. Len(s) /\ n + i \notin 1 .. n
      BY <1>1
    <2>3. \A j \in 1 .. n : s[j] # s[n + i]
      BY <1>1, <2>2 DEF IsInjective
    <2> QED
      BY <1>6, <2>1, <2>2, <2>3
  <1>9. ASSUME NEW y \in ToSet(s), y \notin ToSet(a)
        PROVE  y \in ToSet(b)
    <2>1. PICK i \in 1 .. Len(s) : s[i] = y
      BY <1>6
    <2>2. i - n \in 1 .. Len(s) - n /\ n + (i - n) = i
      BY <1>1, <1>6, <1>9, <2>1
    <2> QED
      BY <1>6, <2>1, <2>2
  <1> QED
    BY <1>2, <1>3, <1>5, <1>7, <1>8, <1>9 DEF a, b

\* An element is at one index at most.
LEMMA CountSet ==
    ASSUME NEW S, NEW s \in Seq(S), NEW x, IsInjective(s)
    PROVE  Cardinality({i \in DOMAIN s : s[i] = x}) = IF x \in ToSet(s) THEN 1 ELSE 0
  <1>1. CASE x \in ToSet(s)
    <2>1. PICK i \in DOMAIN s : s[i] = x
      BY <1>1 DEF ToSet
    <2>2. {j \in DOMAIN s : s[j] = x} = {i}
      BY <2>1 DEF IsInjective
    <2> QED
      BY <1>1, <2>2, FS_Singleton
  <1>2. CASE x \notin ToSet(s)
    <2>1. {j \in DOMAIN s : s[j] = x} = {}
      BY <1>2 DEF ToSet
    <2> QED
      BY <1>2, <2>1, FS_EmptySet
  <1> QED
    BY <1>1, <1>2

\* A set of numbers up to n has a largest one.
LEMMA MaxOf ==
    ASSUME NEW n \in Nat, NEW S, S \subseteq 0 .. n, S # {}
    PROVE  Max(S) \in S
  <1> DEFINE T == {n - k : k \in S}
  <1>0. \A k \in S : k \in Int /\ 0 <= k /\ k <= n
    OBVIOUS
  <1>1. T \subseteq Nat /\ T # {}
    <2>1. \A k \in S : n - k \in Nat
      BY <1>0
    <2>2. T \subseteq Nat
      BY <2>1
    <2>3. T # {}
      OBVIOUS
    <2> QED
      BY <2>2, <2>3
  <1>2. PICK m \in T : \A y \in T : <<y, m>> \notin OpToRel(<, Nat)
    <2> HIDE DEF T
    <2> QED
      BY <1>1, NatLessThanWellFounded, WFMin
  <1>3. \A y \in T : ~(y < m)
    BY <1>1, <1>2 DEF OpToRel
  <1>4. PICK x \in S : m = n - x
    OBVIOUS
  <1>5. \A y \in S : x >= y
    <2> SUFFICES ASSUME NEW y \in S PROVE x >= y
      OBVIOUS
    <2>1. ~(n - y < n - x)
      BY <1>3, <1>4
    <2>2. n \in Int /\ x \in Int /\ y \in Int
      BY <1>0
    <2> HIDE DEF T
    <2> QED
      BY <2>1, <2>2
  <1> QED
    BY <1>4, <1>5 DEF Max

\* No more connections look expired than are idle.
LEMMA ExpiredRange ==
    ASSUME freeQueue \in Seq(Conns), NEW keep \in Int
    PROVE  Expired(keep) \in 0 .. Len(freeQueue)
  <1> DEFINE S == {k \in 0 .. Len(freeQueue) :
                     k = 0 \/ /\ k <= Len(freeQueue) - keep
                              /\ \A i \in 1 .. k : freeQueue[i] \in old}
  <1>1. Len(freeQueue) \in Nat
    BY LenProperties
  <1>2. S \subseteq 0 .. Len(freeQueue) /\ 0 \in S
    BY <1>1
  <1> HIDE DEF S
  <1>3. Max(S) \in 0 .. Len(freeQueue)
    BY <1>1, <1>2, MaxOf
  <1> QED
    BY <1>3 DEF Expired, S

-----------------------------------------------------------------------------
(* The invariant.                                                           *)

\* InitPool puts each of the connections it opened into the queue once.
LEMMA InitPInv == Init => PInv
  <1> SUFFICES ASSUME Init PROVE PInv
    OBVIOUS
  <1>1. /\ open \subseteq Conns /\ Cardinality(open) = MinSize /\ IsFiniteSet(open)
        /\ MinSize \in Nat
    BY ConstantsAssumption, FS_Subset DEF Init, kSubset
  <1>2. /\ freeQueue \in [1 .. MinSize -> open]
        /\ \A i, j \in 1 .. MinSize : i # j => freeQueue[i] # freeQueue[j]
    BY <1>1 DEF Init, SetToSeqs
  <1>3. IsInjective(freeQueue)
    BY <1>2 DEF IsInjective
  <1>4. freeQueue \in Seq(Conns)
    BY <1>1, <1>2, SeqDef
  <1>5. Free = open
    <2>1. freeQueue \in Injection(1 .. MinSize, open)
      BY <1>2 DEF Injection, IsInjective
    <2>2. Cardinality(1 .. MinSize) = MinSize
      BY <1>1, FS_Interval
    <2>3. freeQueue \in Surjection(1 .. MinSize, open)
      BY <1>1, <2>1, <2>2, FS_Injection
    <2> QED
      BY <1>2, <2>3 DEF Surjection, Free, ToSet
  <1>6. tmpQueue = <<>> /\ tmpQueue \in Seq(Conns) /\ Tmp = {} /\ IsInjective(tmpQueue)
    BY DEF Init, Tmp, ToSet, IsInjective
  <1>7. InUse = {} /\ IsFiniteSet(InUse) /\ Cardinality(InUse) = 0
    BY FS_EmptySet DEF Init, InUse
  <1>8. checks \in 0 .. MaxChecks
    BY ConstantsAssumption DEF Init
  <1>9. Shape
    BY <1>1, <1>4, <1>5, <1>6, <1>8 DEF Init, Shape
  <1>10. Holding /\ Disjoint /\ Complete /\ Sound
    BY <1>1, <1>3, <1>5, <1>6 DEF Init, Holding, Disjoint, Complete, Sound
  <1>11. Counted
    BY <1>7 DEF Init, Counted
  <1> QED
    BY <1>9, <1>10, <1>11 DEF PInv

\* Steps that leave the pool's places alone keep what was said of them.
LEMMA PlacesKept ==
    ASSUME UNCHANGED <<freeQueue, tmpQueue, held>>
    PROVE  /\ Free' = Free /\ Tmp' = Tmp
           /\ Disjoint => Disjoint'
  BY DEF Free, Tmp, Disjoint

\* Steps of other threads keep the threads that are using a connection.
LEMMA InUseKept ==
    ASSUME UNCHANGED pc
    PROVE  InUse' = InUse
  BY DEF InUse

\* GetConnection begins, or fails.
LEMMA AskFailStep ==
    ASSUME PInv, NEW u \in Users, Ask(u) \/ Fail(u)
    PROVE  PInv'
  <1>1. UNCHANGED <<poolVars, runing, held, checkVars>>
    BY DEF Ask, Fail
  <1>2. /\ Free' = Free /\ Tmp' = Tmp /\ Disjoint'
    BY <1>1, PlacesKept DEF PInv, poolVars, checkVars
  <1>3. pc[u] \in {"idle", "ask"} /\ pc' = [pc EXCEPT ![u] = IF pc[u] = "idle" THEN "ask" ELSE "idle"]
    BY DEF Ask, Fail, Goto
  <1>7. InUse' = InUse
    BY <1>3 DEF PInv, Shape, InUse
  <1>4. Shape'
    BY <1>1, <1>2, <1>3 DEF PInv, Shape, poolVars, checkVars
  <1>5. Holding' /\ Sound'
    BY <1>1, <1>2, <1>3 DEF PInv, Shape, Holding, Sound, poolVars, checkVars
  <1>6. Complete' /\ Counted'
    BY <1>1, <1>2, <1>7 DEF PInv, Complete, Counted, poolVars
  <1> QED
    BY <1>2, <1>4, <1>5, <1>6 DEF PInv

\* A user that gets a connection is one more in use.
LEMMA InUseGrows ==
    ASSUME PInv, NEW u \in Users, pc[u] = "ask", pc' = [pc EXCEPT ![u] = "have"],
           usedConns' = usedConns + 1
    PROVE  Counted'
  <1>1. InUse' = InUse \cup {u} /\ u \notin InUse
    BY DEF PInv, Shape, InUse
  <1>2. IsFiniteSet(InUse) /\ Cardinality(InUse) \in Nat
    BY FS_CardinalityType DEF PInv, Counted
  <1>3. IsFiniteSet(InUse') /\ Cardinality(InUse') = Cardinality(InUse) + 1
    BY <1>1, <1>2, FS_AddElement
  <1> QED
    BY <1>2, <1>3 DEF PInv, Shape, Counted

\* GetConnection takes the head of the queue.
LEMMA TakeStep ==
    ASSUME PInv, NEW u \in Users, Take(u)
    PROVE  PInv'
  <1> DEFINE c == Head(freeQueue)
  <1>1. /\ freeQueue' \in Seq(Conns) /\ IsInjective(freeQueue')
        /\ c \in Free /\ c \in Conns /\ Free' = Free \ {c}
    BY TailSet, HeadTailProperties DEF PInv, Shape, Disjoint, Take, Free
  <1>2. /\ pc[u] = "ask" /\ pc' = [pc EXCEPT ![u] = "have"]
        /\ held' = [held EXCEPT ![u] = {c}]
        /\ old' = old \ {c} /\ usedConns' = usedConns + 1
        /\ UNCHANGED <<open, isErr, runing, cpc, tmpQueue, checks>>
    BY DEF Take, Goto, checkVars
  <1>3. Tmp' = Tmp
    BY <1>2 DEF Tmp
  <1> HIDE DEF c
  <1>4. Shape'
    BY <1>1, <1>2, <1>3 DEF PInv, Shape
  <1>5. held[u] = {}
    BY <1>2 DEF PInv, Holding
  <1>6. Holding'
    BY <1>1, <1>2 DEF PInv, Shape, Holding
  <1>7. Disjoint'
    BY <1>1, <1>2, <1>3, <1>5 DEF PInv, Shape, Disjoint
  <1>8. Complete'
    BY <1>1, <1>2, <1>3, <1>5 DEF PInv, Shape, Complete
  <1>9. Sound'
    BY <1>1, <1>2, <1>3 DEF PInv, Shape, Sound
  <1>10. Counted'
    BY <1>2, InUseGrows
  <1> QED
    BY <1>4, <1>6, <1>7, <1>8, <1>9, <1>10 DEF PInv

\* GetConnection opens a new connection.
LEMMA GrowStep ==
    ASSUME PInv, NEW u \in Users, Grow(u)
    PROVE  PInv'
  <1>1. PICK c \in Conns \ open : open' = open \cup {c} /\ held' = [held EXCEPT ![u] = {c}]
    BY DEF Grow
  <1>2. /\ pc[u] = "ask" /\ pc' = [pc EXCEPT ![u] = "have"]
        /\ usedConns' = usedConns + 1
        /\ UNCHANGED <<freeQueue, old, isErr, runing, cpc, tmpQueue, checks>>
    BY DEF Grow, Goto, checkVars
  <1>3. Free' = Free /\ Tmp' = Tmp
    BY <1>2 DEF Free, Tmp
  <1>4. Shape'
    BY <1>1, <1>2, <1>3 DEF PInv, Shape
  <1>5. c \notin Free /\ c \notin Tmp /\ (\A v \in Users : c \notin held[v]) /\ held[u] = {}
    BY <1>2 DEF PInv, Complete, Holding
  <1>6. Holding'
    BY <1>1, <1>2 DEF PInv, Shape, Holding
  <1>7. Disjoint'
    BY <1>1, <1>2, <1>3, <1>5 DEF PInv, Shape, Disjoint
  <1>8. Complete'
    BY <1>1, <1>3, <1>5 DEF PInv, Shape, Complete
  <1>9. Sound'
    BY <1>1, <1>2, <1>3, <1>5 DEF PInv, Shape, Sound
  <1>10. Counted'
    BY <1>1, <1>2, InUseGrows
  <1> QED
    BY <1>4, <1>6, <1>7, <1>8, <1>9, <1>10 DEF PInv

\* The statement ends; after an error the connection is to be closed.
LEMMA FinishStep ==
    ASSUME PInv, NEW u \in Users, NEW err \in BOOLEAN, Finish(u, err)
    PROVE  PInv'
  <1>1. /\ pc[u] = "have"
        /\ UNCHANGED <<open, freeQueue, usedConns, old, runing, held, cpc, tmpQueue, checks>>
    BY DEF Finish, checkVars
  <1>2. /\ isErr' = IF err THEN isErr \cup held[u] ELSE isErr
        /\ pc' = [pc EXCEPT ![u] = IF runing /\ ~err THEN "put" ELSE "close"]
    BY DEF Finish, Goto, Reusable
  <1>3. Free' = Free /\ Tmp' = Tmp /\ Disjoint'
    BY <1>1, PlacesKept DEF PInv
  <1>4. Shape'
    BY <1>1, <1>2, <1>3 DEF PInv, Shape
  <1>5. Holding'
    BY <1>1, <1>2 DEF PInv, Shape, Holding
  <1>8. InUse' = InUse
    BY <1>1, <1>2 DEF PInv, Shape, InUse
  <1>6. Complete' /\ Counted'
    BY <1>1, <1>3, <1>8 DEF PInv, Complete, Counted
  <1>7. Sound'
    <2>1. CASE err
      <3>1. isErr' = isErr \cup held[u] /\ pc' = [pc EXCEPT ![u] = "close"]
        BY <1>2, <2>1
      <3>2. held[u] \subseteq open /\ held[u] \cap Free = {} /\ held[u] \cap Tmp = {}
        BY DEF PInv, Shape, Disjoint, Complete
      <3>3. \A v \in Users : v # u => held[v] \cap held[u] = {}
        BY DEF PInv, Disjoint
      <3> QED
        BY <1>1, <1>3, <3>1, <3>2, <3>3 DEF PInv, Shape, Sound
    <2>2. CASE ~err
      <3>1. isErr' = isErr /\ \E l : pc' = [pc EXCEPT ![u] = l]
        BY <1>2, <2>2
      <3> QED
        BY <1>1, <1>3, <3>1 DEF PInv, Shape, Sound
    <2> QED
      BY <2>1, <2>2
  <1> QED
    BY <1>3, <1>4, <1>5, <1>6, <1>7 DEF PInv

\* A connection that nobody else has goes back to the queue.
LEMMA PushFree ==
    ASSUME PInv, NEW c \in Conns, c \notin Free, Push(c)
    PROVE  /\ freeQueue' \in Seq(Conns) /\ IsInjective(freeQueue')
           /\ Free' = Free \cup {c}
           /\ usedConns' = usedConns - 1
           /\ UNCHANGED <<open, old, isErr>>
  BY AppendSet DEF PInv, Shape, Disjoint, Free, Push

\* A user that has given its connection back is one less in use.
LEMMA InUseShrinks ==
    ASSUME PInv, NEW u \in Users, pc[u] \in {"put", "closed"},
           pc' = [pc EXCEPT ![u] = "idle"], usedConns' = usedConns - 1
    PROVE  Counted'
  <1>1. InUse' = InUse \ {u} /\ u \in InUse
    BY DEF PInv, Shape, InUse
  <1>2. IsFiniteSet(InUse) /\ Cardinality(InUse) \in Nat
    BY FS_CardinalityType DEF PInv, Counted
  <1>3. IsFiniteSet(InUse') /\ Cardinality(InUse') = Cardinality(InUse) - 1
    BY <1>1, <1>2, FS_RemoveElement
  <1> QED
    BY <1>2, <1>3 DEF PInv, Shape, Counted

\* FreeConnection queues or closes the connection.
LEMMA ReleaseStep ==
    ASSUME PInv, NEW u \in Users, Release(u)
    PROVE  PInv'
  <1>1. PICK c \in held[u] : \/ pc[u] = "put" /\ Push(c) /\ Goto(u, "idle")
                             \/ pc[u] = "close" /\ Close(c) /\ Goto(u, "closed")
    BY DEF Release
  <1>2. held' = [held EXCEPT ![u] = {}] /\ UNCHANGED <<runing, cpc, tmpQueue, checks>>
    BY DEF Release, checkVars
  <1>3. /\ c \in Conns /\ c \in open /\ c \notin Free /\ c \notin Tmp /\ held[u] = {c}
        /\ \A v \in Users : v # u => c \notin held[v]
    BY <1>1 DEF PInv, Shape, Holding, Disjoint, Complete
  <1>4. Tmp' = Tmp
    BY <1>2 DEF Tmp
  <1>8. CASE pc[u] = "put" /\ Push(c) /\ Goto(u, "idle")
    <2>1. /\ freeQueue' \in Seq(Conns) /\ IsInjective(freeQueue')
          /\ Free' = Free \cup {c} /\ UNCHANGED <<open, old, isErr>>
          /\ usedConns' = usedConns - 1
      BY <1>3, <1>8, PushFree
    <2>7. pc' = [pc EXCEPT ![u] = "idle"]
      BY <1>8 DEF Goto
    <2>2. Shape'
      BY <1>2, <1>4, <2>1, <2>7 DEF PInv, Shape
    <2>3. Disjoint'
      BY <1>2, <1>3, <1>4, <2>1 DEF PInv, Shape, Disjoint
    <2>4. Complete'
      BY <1>2, <1>3, <1>4, <2>1 DEF PInv, Shape, Complete
    <2>5. c \notin isErr
      BY <1>3, <1>8 DEF PInv, Sound
    <2>6. Sound'
      BY <1>2, <1>4, <2>1, <2>5, <2>7 DEF PInv, Shape, Sound
    <2>8. Holding'
      BY <1>2, <2>7 DEF PInv, Shape, Holding
    <2>9. Counted'
      BY <1>8, <2>1, <2>7, InUseShrinks
    <2> QED
      BY <2>2, <2>3, <2>4, <2>6, <2>8, <2>9 DEF PInv
  <1>9. CASE pc[u] = "close" /\ Close(c) /\ Goto(u, "closed")
    <2>1. /\ open' = open \ {c} /\ isErr' = isErr \ {c}
          /\ UNCHANGED <<freeQueue, usedConns, old>>
      BY <1>9 DEF Close
    <2>2. Free' = Free
      BY <2>1 DEF Free
    <2>7. pc' = [pc EXCEPT ![u] = "closed"]
      BY <1>9 DEF Goto
    <2>3. Shape'
      BY <1>2, <1>4, <2>1, <2>2, <2>7 DEF PInv, Shape
    <2>4. Disjoint'
      BY <1>2, <1>4, <2>1, <2>2 DEF PInv, Shape, Disjoint
    <2>5. Complete'
      BY <1>2, <1>3, <1>4, <2>1, <2>2 DEF PInv, Shape, Complete
    <2>6. Sound'
      BY <1>2, <1>4, <2>1, <2>2, <2>7 DEF PInv, Shape, Sound
    <2>8. Holding'
      BY <1>2, <2>7 DEF PInv, Shape, Holding
    <2>9. InUse' = InUse
      BY <1>9, <2>7 DEF PInv, Shape, InUse
    <2> QED
      BY <2>1, <2>3, <2>4, <2>5, <2>6, <2>8, <2>9 DEF PInv, Counted
  <1> QED
    BY <1>1, <1>8, <1>9

\* The count follows the close.
LEMMA ReleasedStep ==
    ASSUME PInv, NEW u \in Users, Released(u)
    PROVE  PInv'
  <1>1. /\ pc[u] = "closed" /\ pc' = [pc EXCEPT ![u] = "idle"]
        /\ usedConns' = usedConns - 1
        /\ UNCHANGED <<open, freeQueue, old, isErr, runing, held, cpc, tmpQueue, checks>>
    BY DEF Released, CountDown, Goto, checkVars
  <1>2. Free' = Free /\ Tmp' = Tmp /\ Disjoint'
    BY <1>1, PlacesKept DEF PInv
  <1>3. Shape'
    BY <1>1, <1>2 DEF PInv, Shape
  <1>4. Holding' /\ Sound'
    BY <1>1, <1>2 DEF PInv, Shape, Holding, Sound
  <1>5. Complete'
    BY <1>1, <1>2 DEF PInv, Complete
  <1>6. Counted'
    BY <1>1, InUseShrinks
  <1> QED
    BY <1>2, <1>3, <1>4, <1>5, <1>6 DEF PInv

\* The first n idle connections leave the queue.
LEMMA PopFree ==
    ASSUME PInv, NEW n \in 0 .. Len(freeQueue), Pop(n)
    PROVE  LET out == ToSet(SubSeq(freeQueue, 1, n))
           IN  /\ freeQueue' \in Seq(Conns) /\ IsInjective(freeQueue')
               /\ tmpQueue' \in Seq(Conns) /\ IsInjective(tmpQueue')
               /\ out \subseteq Free /\ Free' = Free \ out /\ Tmp' = out
               /\ old' = old \ out
               /\ usedConns' \in Int /\ usedConns' <= usedConns
  <1>1. freeQueue \in Seq(Conns) /\ IsInjective(freeQueue) /\ usedConns \in Int
    BY DEF PInv, Shape, Disjoint
  <1>2. Len(freeQueue) \in Nat /\ n \in Nat
    BY <1>1, LenProperties
  <1>3. usedConns' \in Int /\ usedConns' <= usedConns
    BY <1>1, <1>2 DEF Pop
  <1> QED
    BY <1>1, <1>3, SplitSet DEF Pop, Free, Tmp

\* The count is still at most the connections in use when it goes down.
LEMMA CountedDown ==
    ASSUME PInv, UNCHANGED pc, usedConns' \in Int, usedConns' <= usedConns
    PROVE  Counted'
  <1>1. InUse' = InUse
    BY InUseKept
  <1>2. Cardinality(InUse) \in Nat
    BY FS_CardinalityType DEF PInv, Counted
  <1> QED
    BY <1>1, <1>2 DEF PInv, Shape, Counted

\* The maintenance thread takes the first n idle connections out of the queue.
LEMMA TakeOut ==
    ASSUME PInv, cpc \in {"sleep", "expired"}, NEW n \in 0 .. Len(freeQueue), Pop(n),
           cpc' \in (IF n = 0 THEN {"sleep", "expired"} ELSE {"close", "probe"}),
           UNCHANGED <<runing, pc, held>>, checks' \in 0 .. MaxChecks
    PROVE  PInv'
  <1> DEFINE out == ToSet(SubSeq(freeQueue, 1, n))
  <1>2. /\ freeQueue' \in Seq(Conns) /\ IsInjective(freeQueue')
        /\ tmpQueue' \in Seq(Conns) /\ IsInjective(tmpQueue')
        /\ out \subseteq Free /\ Free' = Free \ out /\ Tmp' = out
        /\ old' = old \ out
        /\ usedConns' \in Int /\ usedConns' <= usedConns
    BY PopFree
  <1>3. UNCHANGED <<open, isErr>>
    BY DEF Pop
  <1>4. tmpQueue = <<>> /\ Tmp = {}
    BY DEF PInv, Shape, Tmp, ToSet
  <1>5. tmpQueue' = <<>> <=> n = 0
    <2>1. freeQueue \in Seq(Conns) /\ Len(freeQueue) \in Nat
      BY LenProperties DEF PInv, Shape
    <2>2. \A i \in 1 .. n : freeQueue[i] \in Conns
      BY <2>1, ElementOfSeq
    <2>3. Len(tmpQueue') = n
      <3>1. tmpQueue' = SubSeq(freeQueue, 1, n)
        BY DEF Pop
      <3>2. n \in Nat
        BY <2>1
      <3>3. Len(SubSeq(freeQueue, 1, n)) = IF 1 <= n THEN n - 1 + 1 ELSE 0
        BY <2>2, <3>2, SubSeqProperties
      <3> QED
        BY <3>1, <3>2, <3>3
    <2> QED
      BY <1>2, <2>3, EmptySeq
  <1> HIDE DEF out
  <1>6. Shape'
    <2>1. /\ cpc' \in {"sleep", "expired"} => tmpQueue' = <<>>
          /\ cpc' \in {"close", "probe", "push", "drop"} => tmpQueue' # <<>>
          /\ cpc' \in {"sleep", "close", "expired", "probe"}
      BY <1>5
    <2> QED
      BY <1>2, <1>3, <2>1 DEF PInv, Shape
  <1>7. Holding' /\ Disjoint'
    BY <1>2 DEF PInv, Holding, Disjoint
  <1>8. Complete'
    BY <1>2, <1>3, <1>4 DEF PInv, Complete
  <1>9. Sound'
    BY <1>2, <1>3 DEF PInv, Sound
  <1>10. Counted'
    BY <1>2, CountedDown
  <1> QED
    BY <1>6, <1>7, <1>8, <1>9, <1>10 DEF PInv

\* CheckConnection takes out what is idle beyond MinSize.
LEMMA CheckIdleStep ==
    ASSUME PInv, CheckIdle
    PROVE  PInv'
  <1>1. Expired(MinSize) \in 0 .. Len(freeQueue)
    BY ExpiredRange, ConstantsAssumption DEF PInv, Shape
  <1>2. /\ cpc = "sleep" /\ Pop(Expired(MinSize))
        /\ cpc' = IF Expired(MinSize) = 0 THEN "expired" ELSE "close"
        /\ UNCHANGED <<runing, pc, held>>
    BY DEF CheckIdle, userVars
  <1>3. checks' \in 0 .. MaxChecks
    BY ConstantsAssumption DEF PInv, Shape, CheckIdle
  <1> QED
    BY <1>1, <1>2, <1>3, TakeOut

\* CheckConnection takes out the others that look expired.
LEMMA CheckExpiredStep ==
    ASSUME PInv, CheckExpired
    PROVE  PInv'
  <1>1. Expired(0) \in 0 .. Len(freeQueue)
    BY ExpiredRange DEF PInv, Shape
  <1>2. /\ cpc = "expired" /\ Pop(Expired(0))
        /\ cpc' = IF Expired(0) = 0 THEN "sleep" ELSE "probe"
        /\ UNCHANGED <<runing, checks, pc, held>>
    BY DEF CheckExpired, userVars
  <1>3. checks' \in 0 .. MaxChecks
    BY <1>2 DEF PInv, Shape
  <1> QED
    BY <1>1, <1>2, <1>3, TakeOut

\* The connection the maintenance thread is at.
LEMMA TmpHead ==
    ASSUME PInv, cpc \in {"close", "probe", "push", "drop"}
    PROVE  LET c == Head(tmpQueue)
           IN  /\ tmpQueue # <<>>
               /\ c \in Conns /\ c \in Tmp /\ c \in open /\ c \notin Free
               /\ \A u \in Users : c \notin held[u]
  <1>1. tmpQueue # <<>> /\ tmpQueue \in Seq(Conns) /\ IsInjective(tmpQueue)
    BY DEF PInv, Shape, Disjoint
  <1>2. Head(tmpQueue) \in Conns /\ Head(tmpQueue) \in Tmp
    BY <1>1, TailSet, HeadTailProperties DEF Tmp
  <1> QED
    BY <1>1, <1>2 DEF PInv, Disjoint, Complete

\* SELECT 1 succeeds or fails on it.
LEMMA ProbeStep ==
    ASSUME PInv, NEW err \in BOOLEAN, Probe(err)
    PROVE  PInv'
  <1> DEFINE c == Head(tmpQueue)
  <1>1. /\ cpc = "probe"
        /\ UNCHANGED <<open, freeQueue, usedConns, old, runing, tmpQueue, checks, pc, held>>
        /\ isErr' = IF err THEN isErr \cup {c} ELSE isErr
        /\ cpc' = IF runing /\ ~err THEN "push" ELSE "drop"
    BY DEF Probe, Reusable, userVars
  <1>2. /\ tmpQueue # <<>>
        /\ c \in Conns /\ c \in Tmp /\ c \in open /\ c \notin Free
        /\ \A u \in Users : c \notin held[u]
    BY <1>1, TmpHead
  <1>3. Free' = Free /\ Tmp' = Tmp /\ InUse' = InUse /\ Disjoint'
    BY <1>1, PlacesKept, InUseKept DEF PInv
  <1>4. Shape'
    BY <1>1, <1>2, <1>3 DEF PInv, Shape
  <1>5. Holding' /\ Complete' /\ Counted'
    BY <1>1, <1>3 DEF PInv, Holding, Complete, Counted
  <1>6. Sound'
    <2>1. CASE err
      <3>1. cpc' = "drop" /\ isErr' = isErr \cup {c} /\ Head(tmpQueue') = c
        BY <1>1, <2>1
      <3> HIDE DEF c
      <3>2. Tmp \cap isErr = {}
        BY <1>1, <1>2 DEF PInv, Sound
      <3> QED
        BY <1>1, <1>2, <1>3, <3>1, <3>2 DEF PInv, Sound
    <2>2. CASE ~err
      <3>1. isErr' = isErr
        BY <1>1, <2>2
      <3> QED
        BY <1>1, <1>3, <3>1 DEF PInv, Sound
    <2> QED
      BY <2>1, <2>2
  <1> QED
    BY <1>3, <1>4, <1>5, <1>6 DEF PInv

\* It leaves the queue of the maintenance thread.
LEMMA TmpTail ==
    ASSUME PInv, cpc \in {"close", "probe", "push", "drop"}, tmpQueue' = Tail(tmpQueue)
    PROVE  /\ tmpQueue' \in Seq(Conns) /\ IsInjective(tmpQueue')
           /\ Tmp' = Tmp \ {Head(tmpQueue)}
           /\ tmpQueue' = <<>> <=> Len(tmpQueue) = 1
  <1>1. tmpQueue # <<>> /\ tmpQueue \in Seq(Conns) /\ IsInjective(tmpQueue)
    BY DEF PInv, Shape, Disjoint
  <1>2. /\ tmpQueue' \in Seq(Conns) /\ IsInjective(tmpQueue')
        /\ Tmp' = Tmp \ {Head(tmpQueue)}
    BY <1>1, TailSet DEF Tmp
  <1>3. Len(tmpQueue) \in Nat /\ Len(tmpQueue') = Len(tmpQueue) - 1
    BY <1>1, HeadTailProperties, LenProperties
  <1>4. tmpQueue' = <<>> <=> Len(tmpQueue') = 0
    BY <1>2, EmptySeq
  <1> QED
    BY <1>2, <1>3, <1>4

\* It is closed, because it is one too many or after a probe that failed.
LEMMA TmpClosed ==
    ASSUME PInv, cpc \in {"close", "drop"}, Close(Head(tmpQueue)), tmpQueue' = Tail(tmpQueue),
           cpc' = (IF cpc = "drop" THEN "dropped"
                   ELSE IF Len(tmpQueue) = 1 THEN "expired" ELSE "close"),
           UNCHANGED <<runing, checks, pc, held>>
    PROVE  PInv'
  <1> DEFINE c == Head(tmpQueue)
  <1>1. /\ tmpQueue # <<>>
        /\ c \in Conns /\ c \in Tmp /\ c \in open /\ c \notin Free
        /\ \A u \in Users : c \notin held[u]
    BY TmpHead
  <1>2. /\ tmpQueue' \in Seq(Conns) /\ IsInjective(tmpQueue') /\ Tmp' = Tmp \ {c}
        /\ tmpQueue' = <<>> <=> Len(tmpQueue) = 1
    BY TmpTail
  <1>3. /\ open' = open \ {c} /\ isErr' = isErr \ {c}
        /\ UNCHANGED <<freeQueue, usedConns, old>>
    BY DEF Close
  <1>4. Free' = Free /\ InUse' = InUse
    BY <1>3, InUseKept DEF Free
  <1>5. Tmp \cap isErr \subseteq {c}
    BY <1>1 DEF PInv, Sound
  <1> HIDE DEF c
  <1>6. Shape'
    <2>1. /\ cpc' \in {"sleep", "expired"} => tmpQueue' = <<>>
          /\ cpc' \in {"close", "probe", "push", "drop"} => tmpQueue' # <<>>
          /\ cpc' \in {"expired", "close", "dropped"}
      BY <1>2
    <2> QED
      BY <1>2, <1>3, <1>4, <2>1 DEF PInv, Shape
  <1>7. Disjoint'
    BY <1>2, <1>3, <1>4 DEF PInv, Disjoint
  <1>8. Complete'
    BY <1>1, <1>2, <1>3, <1>4 DEF PInv, Complete
  <1>9. Sound'
    BY <1>2, <1>3, <1>4, <1>5 DEF PInv, Sound
  <1>10. Holding' /\ Counted'
    BY <1>3, <1>4 DEF PInv, Holding, Counted
  <1> QED
    BY <1>6, <1>7, <1>8, <1>9, <1>10 DEF PInv

\* CheckConnection closes one that is idle beyond MinSize.
LEMMA CloseIdleStep ==
    ASSUME PInv, CloseIdle
    PROVE  PInv'
  BY TmpClosed DEF CloseIdle, userVars

\* The probed connection is released: queued again or closed.
LEMMA ProbedStep ==
    ASSUME PInv, Probed
    PROVE  PInv'
  <1> DEFINE c == Head(tmpQueue)
  <1>1. tmpQueue' = Tail(tmpQueue) /\ UNCHANGED <<runing, checks, pc, held>>
    BY DEF Probed, userVars
  <1>2. CASE cpc = "drop"
    BY <1>1, <1>2, TmpClosed DEF Probed
  <1>9. CASE cpc # "drop"
    <2>0. /\ cpc = "push" /\ Push(c)
          /\ cpc' = IF Len(tmpQueue) = 1 THEN "sleep" ELSE "probe"
      BY <1>9 DEF Probed
    <2>3. /\ tmpQueue # <<>>
          /\ c \in Conns /\ c \in Tmp /\ c \in open /\ c \notin Free
          /\ \A u \in Users : c \notin held[u]
      BY <2>0, TmpHead
    <2>4. /\ tmpQueue' \in Seq(Conns) /\ IsInjective(tmpQueue') /\ Tmp' = Tmp \ {c}
          /\ tmpQueue' = <<>> <=> Len(tmpQueue) = 1
      BY <1>1, <2>0, TmpTail
    <2>1. /\ freeQueue' \in Seq(Conns) /\ IsInjective(freeQueue')
          /\ Free' = Free \cup {c} /\ UNCHANGED <<open, old, isErr>>
          /\ usedConns' = usedConns - 1
      BY <2>0, <2>3, PushFree
    <2> HIDE DEF c
    <2>2. Shape'
      BY <1>1, <2>0, <2>1, <2>4 DEF PInv, Shape
    <2>5. Disjoint'
      BY <1>1, <2>1, <2>3, <2>4 DEF PInv, Disjoint
    <2>6. Complete'
      BY <1>1, <2>1, <2>3, <2>4 DEF PInv, Complete
    <2>7. Tmp \cap isErr = {}
      BY <2>0, <2>3 DEF PInv, Sound
    <2>8. Sound'
      BY <1>1, <2>1, <2>3, <2>4, <2>7 DEF PInv, Sound
    <2>9. Counted'
      <3>1. usedConns' \in Int /\ usedConns' <= usedConns
        BY <2>1 DEF PInv, Shape
      <3> QED
        BY <1>1, <3>1, CountedDown
    <2>10. Holding'
      BY <1>1 DEF PInv, Holding
    <2> QED
      BY <2>2, <2>5, <2>6, <2>8, <2>9, <2>10 DEF PInv
  <1> QED
    BY <1>2, <1>9

\* The count follows the close of a probed connection.
LEMMA DroppedStep ==
    ASSUME PInv, Dropped
    PROVE  PInv'
  <1>1. /\ cpc = "dropped" /\ cpc' = IF tmpQueue = <<>> THEN "sleep" ELSE "probe"
        /\ usedConns' = usedConns - 1
        /\ UNCHANGED <<open, freeQueue, old, isErr, runing, pc, held, tmpQueue, checks>>
    BY DEF Dropped, CountDown, userVars
  <1>2. Free' = Free /\ Tmp' = Tmp /\ Disjoint'
    BY <1>1, PlacesKept DEF PInv
  <1>3. usedConns' \in Int /\ usedConns' <= usedConns
    BY <1>1 DEF PInv, Shape
  <1>4. Shape'
    BY <1>1, <1>2, <1>3 DEF PInv, Shape
  <1>5. Holding' /\ Complete' /\ Sound'
    BY <1>1, <1>2 DEF PInv, Holding, Complete, Sound
  <1>6. Counted'
    BY <1>1, <1>3, CountedDown
  <1> QED
    BY <1>2, <1>4, <1>5, <1>6 DEF PInv

\* expiretime passes.
LEMMA AgeStep ==
    ASSUME PInv, NEW c \in Conns, Age(c)
    PROVE  PInv'
  <1>1. /\ c \in Free /\ old' = old \cup {c}
        /\ UNCHANGED <<open, freeQueue, usedConns, isErr, runing, pc, held, cpc, tmpQueue, checks>>
    BY DEF Age, Free, userVars, checkVars
  <1>2. Free' = Free /\ Tmp' = Tmp /\ InUse' = InUse /\ Disjoint'
    BY <1>1, PlacesKept, InUseKept DEF PInv
  <1>3. Shape'
    BY <1>1, <1>2 DEF PInv, Shape
  <1> QED
    BY <1>1, <1>2, <1>3 DEF PInv, Holding, Complete, Sound, Counted

\* ReleaseAll closes what is idle.
LEMMA StopStep ==
    ASSUME PInv, Stop
    PROVE  PInv'
  <1>1. /\ runing' = FALSE /\ open' = open \ Free /\ freeQueue' = <<>> /\ old' = {}
        /\ UNCHANGED <<usedConns, isErr, pc, held, cpc, tmpQueue, checks>>
    BY DEF Stop, Free, userVars, checkVars
  <1>2. /\ freeQueue' \in Seq(Conns) /\ IsInjective(freeQueue') /\ Free' = {}
        /\ Tmp' = Tmp
    BY <1>1 DEF Free, Tmp, ToSet, IsInjective
  <1>3. runing' \in BOOLEAN
    BY <1>1
  <1>4. Shape'
    BY <1>1, <1>2, <1>3 DEF PInv, Shape
  <1>5. Holding' /\ Disjoint'
    BY <1>1, <1>2 DEF PInv, Holding, Disjoint
  <1>6. Complete'
    BY <1>1, <1>2 DEF PInv, Complete, Disjoint
  <1>7. Sound'
    BY <1>1, <1>2 DEF PInv, Sound
  <1>8. Counted'
    BY <1>1, CountedDown DEF PInv, Shape
  <1> QED
    BY <1>4, <1>5, <1>6, <1>7, <1>8 DEF PInv

\* Every step keeps the invariant.
LEMMA PStep ==
    ASSUME PInv, [Next]_vars
    PROVE  PInv'
  <1>1. CASE UNCHANGED vars
    <2>1. UNCHANGED <<open, freeQueue, usedConns, old, isErr, runing, pc, held, cpc,
                      tmpQueue, checks>>
      BY <1>1 DEF vars, poolVars, userVars, checkVars
    <2>2. Free' = Free /\ Tmp' = Tmp /\ InUse' = InUse /\ Disjoint'
      BY <2>1, PlacesKept, InUseKept DEF PInv
    <2> QED
      BY <2>1, <2>2 DEF PInv, Shape, Holding, Complete, Sound, Counted
  <1>2. CASE Next
    BY <1>2, AskFailStep, TakeStep, GrowStep, FinishStep, ReleaseStep, ReleasedStep,
       CheckIdleStep, CloseIdleStep, CheckExpiredStep, ProbeStep, ProbedStep, DroppedStep,
       AgeStep, StopStep DEF Next
  <1> QED
    BY <1>1, <1>2

\* So it always holds.
LEMMA Invariance == Spec => []PInv
  <1>1. PInv /\ [Next]_vars => PInv'
    BY PStep
  <1> QED
    BY InitPInv, <1>1, PTL DEF Spec

-----------------------------------------------------------------------------
(* What follows from it.                                                    *)

\* The pool and its users keep their shape: a user holds one connection
\* exactly from GetConnection to FreeConnection, and an error is seen only on
\* an open connection.
THEOREM TypeCorrect == Spec => []TypeOK
  <1>1. ASSUME PInv PROVE TypeOK
    <2>1. ASSUME NEW u \in Users
          PROVE  Cardinality(held[u]) = IF pc[u] \in {"have", "put", "close"} THEN 1 ELSE 0
      BY <1>1, FS_EmptySet, FS_Singleton DEF PInv, Holding
    <2> QED
      BY <1>1, <2>1 DEF PInv, Shape, Sound, TypeOK, Free
  <1>2. PInv => TypeOK
    BY <1>1
  <1> QED
    BY Invariance, <1>2, PTL

\* An open connection has exactly one owner, the queue, the maintenance thread
\* or one user, and a closed one none, however GetConnection, FreeConnection,
\* CheckConnection and ReleaseAll interleave.
THEOREM Ownership == Spec => []OneOwner
  <1>1. ASSUME PInv, NEW c \in Conns
        PROVE  Places(c) = IF c \in open THEN 1 ELSE 0
    <2>1. Cardinality({i \in DOMAIN freeQueue : freeQueue[i] = c})
             = IF c \in Free THEN 1 ELSE 0
      BY <1>1, CountSet DEF PInv, Shape, Disjoint, Free
    <2>2. Cardinality({i \in DOMAIN tmpQueue : tmpQueue[i] = c})
             = IF c \in Tmp THEN 1 ELSE 0
      BY <1>1, CountSet DEF PInv, Shape, Disjoint, Tmp
    <2>3. Cardinality({u \in Users : c \in held[u]})
             = IF \E u \in Users : c \in held[u] THEN 1 ELSE 0
      <3>1. CASE \E u \in Users : c \in held[u]
        <4>1. PICK u \in Users : c \in held[u]
          BY <3>1
        <4>2. {v \in Users : c \in held[v]} = {u}
          BY <1>1, <4>1 DEF PInv, Disjoint
        <4> QED
          BY <3>1, <4>2, FS_Singleton
      <3>2. CASE ~ \E u \in Users : c \in held[u]
        <4>1. {v \in Users : c \in held[v]} = {}
          BY <3>2
        <4> QED
          BY <3>2, <4>1, FS_EmptySet
      <3> QED
        BY <3>1, <3>2
    <2>4. /\ ~(c \in Free /\ c \in Tmp)
          /\ ~(c \in Free /\ \E u \in Users : c \in held[u])
          /\ ~(c \in Tmp /\ \E u \in Users : c \in held[u])
      BY <1>1 DEF PInv, Disjoint
    <2>5. c \in open <=> c \in Free \/ c \in Tmp \/ \E u \in Users : c \in held[u]
      BY <1>1 DEF PInv, Complete
    <2> QED
      BY <2>1, <2>2, <2>3, <2>4, <2>5 DEF Places
  <1>2. PInv => OneOwner
    BY <1>1 DEF OneOwner
  <1> QED
    BY Invariance, <1>2, PTL

\* A connection on which FreeConnection or the maintenance thread saw an error
\* never comes back to the queue.
THEOREM NoReuseOfBroken == Spec => []NoBrokenIdle
  <1>1. PInv => NoBrokenIdle
    BY DEF PInv, Sound, NoBrokenIdle, Free
  <1> QED
    BY Invariance, <1>1, PTL

\* usedConns, which CheckConnection and its releases take down once too often,
\* never exceeds the connections in use: GetConnection refuses only when more
\* than MaxSize are in use or about to be counted out.
THEOREM CountBelowUse == Spec => []NeverOvercounted
  <1>1. PInv => NeverOvercounted
    BY DEF PInv, Counted, NeverOvercounted
  <1> QED
    BY Invariance, <1>1, PTL
=============================================================================
