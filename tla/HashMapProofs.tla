---------------------------- MODULE HashMapProofs ----------------------------
(***************************************************************************)
(* The hash map gives back what was put in, for every set of keys, every   *)
(* hash function, every chain length and every table size.                 *)
(*                                                                         *)
(* A pair that a client put in is at exactly one place: a slot of the      *)
(* table, a slot that a copy under way has still to move, or a call that   *)
(* is moving it (Unique, Complete); and a pair in the table is within the  *)
(* ChainLength slots that a search for its key visits (Chained).  Every    *)
(* step moves at most one pair between places, or all of the table to the  *)
(* old table of a copy.                                                    *)
(***************************************************************************)
EXTENDS HashMap, TLAPS, FiniteSetTheorems, SequenceTheorems

-----------------------------------------------------------------------------
(* Slots.                                                                   *)

\* The probes of a search stay within the table (_find_hash_index).
LEMMA SlotRange ==
    ASSUME NEW n \in Nat, ChainLength <= n, NEW k \in Key, NEW i \in Probes,
           hash \in [Key -> HashValues]
    PROVE  Slot(n, k, i) \in 0..n-1
<1>1. ChainLength \in Nat /\ HashValues \subseteq Nat /\ ChainLength > 0
    BY ConstantsAssumption
<1>2. hash[k] \in Nat
    BY <1>1
<1>3. hash[k] % n \in 0..n-1
    BY <1>1, <1>2
<1>4. i \in Nat /\ i < n
    BY <1>1 DEF Probes
<1> QED
    BY <1>3, <1>4 DEF Slot

\* They visit no slot twice, because a chain is no longer than the table.
LEMMA SlotInjective ==
    ASSUME NEW n \in Nat, ChainLength <= n, NEW k \in Key, NEW i \in Probes,
           NEW j \in Probes, hash \in [Key -> HashValues],
           Slot(n, k, i) = Slot(n, k, j)
    PROVE  i = j
<1>1. ChainLength \in Nat /\ HashValues \subseteq Nat /\ ChainLength > 0
    BY ConstantsAssumption
<1>2. hash[k] \in Nat
    BY <1>1
<1>3. hash[k] % n \in 0..n-1
    BY <1>1, <1>2
<1>4. i \in Nat /\ i < n /\ j \in Nat /\ j < n
    BY <1>1 DEF Probes
<1> QED
    BY <1>3, <1>4 DEF Slot

\* The slot a search ends at is one that a probe visits.
LEMMA IndexProbe ==
    ASSUME NEW h, NEW k, NEW s \in Index(h, k)
    PROVE  \E i \in Probes : s = Slot(h.table_size, k, i)
BY DEF Index, First, Places

\* What a lookup finds: the slot of a probe, with the key in it.
LEMMA FoundProbe ==
    ASSUME NEW h, NEW k, NEW s \in Found(h, k)
    PROVE  \E i \in Probes : s = Slot(h.table_size, k, i) /\ Holds(h, k, s)
BY DEF Found, First

-----------------------------------------------------------------------------
(* The inductive invariant.                                                 *)

\* The places of the map: slot i of the table, slot i of the old table that
\* call d still has to copy, and, as i = -1, the call that moves an element.
\* The pair that the client's own call brings is not yet in the map.
At(h, cs, d, i) ==
    IF d = 0 THEN IF i \in 0..h.table_size-1 THEN h.elems[i] ELSE {}
    ELSE IF i = -1 THEN IF d = 1 THEN {} ELSE {cs[d].pair}
    ELSE IF cs[d].i <= i /\ i < cs[d].old_size THEN cs[d].curr[i] ELSE {}

\* No key is at two places.
Unique(h, cs) ==
    \A d, e \in 0..Len(cs), i, j \in Int :
        \A b \in At(h, cs, d, i), c \in At(h, cs, e, j) :
            b[1] = c[1] => d = e /\ i = j

\* The pairs at the places are the content.
Complete(h, cs, ct) ==
    /\ \A d \in 0..Len(cs), i \in Int : At(h, cs, d, i) \subseteq ct
    /\ \A c \in ct : \E d \in 0..Len(cs), i \in Int : c \in At(h, cs, d, i)

\* A pair in the table is where a search for its key comes past.
Chained ==
    \A s \in 0..m.table_size-1 : \A c \in m.elems[s] :
        \E i \in Probes : s = Slot(m.table_size, c[1], i)

Tables == {<<>>} \cup (UNION {[0..n-1 -> SlotSet] : n \in Nat})

Frames == [pair : Key \X Value, curr : Tables, old_size : Nat, i : Nat]

FrameOK(f) ==
    /\ f.i <= f.old_size
    /\ \A j \in 0..f.old_size-1 : f.curr[j] \in SlotSet

Shape ==
    /\ m = [elems |-> m.elems, table_size |-> m.table_size, size |-> m.size]
    /\ calls \in Seq(Frames)
    /\ \A d \in 1..Len(calls) : FrameOK(calls[d])
    /\ tainted \in BOOLEAN

Consistent == ~tainted => Unique(m, calls) /\ Complete(m, calls, content)

Inv == TypeOK /\ Shape /\ Chained /\ Consistent

-----------------------------------------------------------------------------
(* The stack of calls.                                                      *)

\* The stack without its innermost call.
LEMMA PopFacts ==
    ASSUME NEW S, NEW cs \in Seq(S), cs # <<>>
    PROVE  /\ Len(cs) \in Nat /\ Len(cs) >= 1
           /\ SubSeq(cs, 1, Len(cs) - 1) \in Seq(S)
           /\ Len(SubSeq(cs, 1, Len(cs) - 1)) = Len(cs) - 1
           /\ \A d \in 1..Len(cs)-1 : SubSeq(cs, 1, Len(cs) - 1)[d] = cs[d]
<1>1. Len(cs) \in Nat /\ Len(cs) >= 1
    OBVIOUS
<1> QED
    <2>1. 1 \in Int /\ Len(cs) - 1 \in Int
        BY <1>1
    <2>2. \A i \in 1..Len(cs)-1 : cs[i] \in S
        BY <1>1
    <2>3. /\ SubSeq(cs, 1, Len(cs) - 1) \in Seq(S)
          /\ Len(SubSeq(cs, 1, Len(cs) - 1)) =
                 IF 1 <= Len(cs) - 1 THEN Len(cs) - 1 - 1 + 1 ELSE 0
          /\ \A i \in 1..Len(cs)-1-1+1 : SubSeq(cs, 1, Len(cs) - 1)[i] = cs[1 + i - 1]
        BY <2>1, <2>2, SubSeqProperties
    <2>4. \A d \in 1..Len(cs)-1 : SubSeq(cs, 1, Len(cs) - 1)[d] = cs[d]
        BY <1>1, <2>3
    <2>5. Len(SubSeq(cs, 1, Len(cs) - 1)) = Len(cs) - 1
        <3> DEFINE n == Len(SubSeq(cs, 1, Len(cs) - 1))
                   l == Len(cs)
        <3>1. n = IF 1 <= l - 1 THEN l - 1 - 1 + 1 ELSE 0
            BY <2>3
        <3>2. l \in Nat /\ l >= 1
            BY <1>1
        <3> HIDE DEF n, l
        <3>3. n = l - 1
            BY <3>1, <3>2
        <3> QED
            BY <3>3 DEF n, l
    <2> QED
        BY <1>1, <2>3, <2>4, <2>5, Zenon

\* The stack with its innermost call changed.
LEMMA TopFacts ==
    ASSUME NEW S, NEW cs \in Seq(S), cs # <<>>, NEW f \in S
    PROVE  /\ [cs EXCEPT ![Len(cs)] = f] \in Seq(S)
           /\ Len([cs EXCEPT ![Len(cs)] = f]) = Len(cs)
           /\ [cs EXCEPT ![Len(cs)] = f][Len(cs)] = f
           /\ \A d \in 1..Len(cs)-1 : [cs EXCEPT ![Len(cs)] = f][d] = cs[d]
<1>1. Len(cs) \in Nat /\ Len(cs) >= 1
    OBVIOUS
<1> QED
    BY <1>1

\* A call that copies nothing yet.
LEMMA FrameFacts ==
    ASSUME NEW c \in Key \X Value
    PROVE  /\ Frame(c) \in Frames /\ FrameOK(Frame(c))
           /\ Frame(c).pair = c /\ Frame(c).i = 0 /\ Frame(c).old_size = 0
<1>1. <<>> \in Tables
    BY DEF Tables
<1> QED
    BY <1>1 DEF Frame, Frames, FrameOK

\* A slot holds pairs of keys and values, and two pairs in it are the same.
LEMMA SlotElements ==
    ASSUME NEW x \in SlotSet
    PROVE  /\ x \subseteq Key \X Value
           /\ \A b, c \in x : b = c
           /\ \A c \in x : x = {c}
BY DEF SlotSet, Unused

-----------------------------------------------------------------------------
(* The size of the map counts its used slots.                               *)

\* There are finitely many used slots.
LEMMA UsedFinite ==
    ASSUME NEW h, h.table_size \in Nat
    PROVE  IsFiniteSet(Used(h))
<1>1. IsFiniteSet(0..h.table_size-1)
    BY FS_Interval
<1> QED
    BY <1>1, FS_Subset DEF Used

\* No slot of a new table is used.
LEMMA BlankFacts ==
    ASSUME NEW n \in Nat
    PROVE  /\ Blank(n).table_size = n
           /\ Blank(n).elems \in [0..n-1 -> SlotSet]
           /\ \A s \in 0..n-1 : Blank(n).elems[s] = {}
           /\ Blank(n).size = Cardinality(Used(Blank(n)))
           /\ Blank(n) = [elems |-> Blank(n).elems, table_size |-> Blank(n).table_size,
                          size |-> Blank(n).size]
<1>1. /\ Blank(n).table_size = n
      /\ \A s \in 0..n-1 : Blank(n).elems[s] = {}
      /\ Blank(n).elems \in [0..n-1 -> SlotSet]
    BY DEF Blank, Unused, SlotSet
<1>2. Used(Blank(n)) = {}
    BY <1>1 DEF Used, Unused
<1>3. Cardinality({}) = 0
    BY FS_EmptySet
<1> QED
    BY <1>1, <1>2, <1>3 DEF Blank

-----------------------------------------------------------------------------
(* How the steps move pairs between the places.                             *)

\* Store: the pair of the innermost call moves to slot s, which was free; the
\* pair of a client's call is new.
LEMMA StorePlaces ==
    ASSUME NEW h, NEW cs, NEW ct, NEW h2, NEW cs2, NEW s \in Int,
           Unique(h, cs), Complete(h, cs, ct),
           Len(cs) \in Nat, Len(cs) >= 1, Len(cs2) = Len(cs) - 1,
           \A d \in 1..Len(cs)-1 : cs2[d] = cs[d],
           cs[Len(cs)].old_size \in Nat, cs[Len(cs)].i = cs[Len(cs)].old_size,
           h2.table_size = h.table_size, s \in 0..h.table_size-1, h.elems[s] = {},
           \A i \in 0..h.table_size-1 :
               h2.elems[i] = IF i = s THEN {cs[Len(cs)].pair} ELSE h.elems[i],
           Len(cs) = 1 => \A c \in ct : c[1] # cs[1].pair[1]
    PROVE  /\ Unique(h2, cs2)
           /\ Complete(h2, cs2, IF Len(cs) = 1 THEN ct \cup {cs[Len(cs)].pair} ELSE ct)
<1> DEFINE L == Len(cs)
           p == cs[L].pair
           A(d, i) == At(h, cs, d, i)
           B(d, i) == At(h2, cs2, d, i)
<1>1. ASSUME NEW d \in 0..L-1, NEW i \in Int
      PROVE  B(d, i) = IF d = 0 /\ i = s THEN {p} ELSE A(d, i)
    <2>1. CASE d = 0
        BY <2>1 DEF At
    <2>2. CASE d # 0
        <3>1. d \in 1..L-1 /\ cs2[d] = cs[d]
            BY <2>2
        <3> QED
            BY <2>2, <3>1 DEF At
    <2> QED
        BY <2>1, <2>2
<1>2. A(0, s) = {}
    BY DEF At
<1>3. L > 1 => A(L, -1) = {p}
    BY DEF At
<1>4. ASSUME NEW i \in Int, i # -1 \/ L = 1
      PROVE  A(L, i) = {}
    BY <1>4 DEF At
<1>5. /\ L \in Nat /\ L >= 1
      /\ \A d, e \in 0..L, i, j \in Int : \A b \in A(d, i), c \in A(e, j) :
             b[1] = c[1] => d = e /\ i = j
      /\ \A d \in 0..L, i \in Int : A(d, i) \subseteq ct
      /\ \A c \in ct : \E d \in 0..L, i \in Int : c \in A(d, i)
      /\ L = 1 => \A c \in ct : c[1] # p[1]
      /\ Len(cs2) = L - 1
    BY DEF Unique, Complete
<1> HIDE DEF L, p, A, B
<1>6. \A d, e \in 0..L-1, i, j \in Int : \A b \in B(d, i), c \in B(e, j) :
             b[1] = c[1] => d = e /\ i = j
    <2> SUFFICES ASSUME NEW d \in 0..L-1, NEW e \in 0..L-1, NEW i \in Int, NEW j \in Int,
                        NEW b \in B(d, i), NEW c \in B(e, j), b[1] = c[1]
                 PROVE  d = e /\ i = j
        OBVIOUS
    <2>0. d \in 0..L /\ e \in 0..L /\ L \in 0..L /\ -1 \in Int
        BY <1>5
    <2>1. ASSUME NEW f \in 0..L-1, NEW n \in Int, NEW x \in A(f, n), x[1] = p[1]
          PROVE  FALSE
        <3>1. f \in 0..L /\ f # L
            BY <1>5
        <3>2. CASE L = 1
            BY <1>5, <2>1, <3>1, <3>2
        <3>3. CASE L # 1
            <4>1. p \in A(L, -1)
                BY <1>3, <1>5, <3>3
            <4> QED
                BY <1>5, <2>0, <2>1, <3>1, <4>1
        <3> QED
            BY <3>2, <3>3
    <2>2. CASE d = 0 /\ i = s
        <3>1. b = p
            BY <1>1, <2>2
        <3> QED
            BY <1>1, <2>1, <2>2, <3>1
    <2>3. CASE e = 0 /\ j = s
        <3>1. c = p
            BY <1>1, <2>3
        <3> QED
            BY <1>1, <2>1, <2>3, <3>1
    <2>4. CASE ~(d = 0 /\ i = s) /\ ~(e = 0 /\ j = s)
        <3>1. b \in A(d, i) /\ c \in A(e, j)
            BY <1>1, <2>4
        <3> QED
            BY <1>5, <2>0, <3>1
    <2> QED
        BY <2>2, <2>3, <2>4
<1> DEFINE ct2 == IF L = 1 THEN ct \cup {p} ELSE ct
<1>7. p \in ct2
    <2>1. CASE L = 1
        BY <2>1
    <2>2. CASE L # 1
        <3>1. p \in A(L, -1)
            BY <1>3, <1>5, <2>2
        <3>2. L \in 0..L /\ -1 \in Int
            BY <1>5
        <3> QED
            BY <1>5, <2>2, <3>1, <3>2
    <2> QED
        BY <2>1, <2>2
<1>8. ct \subseteq ct2 /\ \A c \in ct2 : c \in ct \/ (c = p /\ L = 1)
    OBVIOUS
<1> HIDE DEF ct2
<1>9. \A d \in 0..L-1, i \in Int : B(d, i) \subseteq ct2
    <2> SUFFICES ASSUME NEW d \in 0..L-1, NEW i \in Int, NEW c \in B(d, i)
                 PROVE  c \in ct2
        OBVIOUS
    <2>1. c = p \/ c \in A(d, i)
        BY <1>1
    <2>2. d \in 0..L
        BY <1>5
    <2> QED
        BY <1>5, <1>7, <1>8, <2>1, <2>2
<1>10. \A c \in ct2 : \E d \in 0..L-1, i \in Int : c \in B(d, i)
    <2> SUFFICES ASSUME NEW c \in ct2
                 PROVE  \E d \in 0..L-1, i \in Int : c \in B(d, i)
        OBVIOUS
    <2>1. p \in B(0, s) /\ 0 \in 0..L-1
        BY <1>1, <1>5
    <2>2. CASE c = p
        BY <2>1, <2>2
    <2>3. CASE c # p
        <3>1. PICK d \in 0..L, i \in Int : c \in A(d, i)
            BY <1>5, <1>8, <2>3
        <3>2. d # L
            <4>1. CASE i = -1 /\ L # 1
                BY <1>3, <1>5, <2>3, <3>1, <4>1
            <4>2. CASE i # -1 \/ L = 1
                BY <1>4, <3>1, <4>2
            <4> QED
                BY <4>1, <4>2
        <3>3. d \in 0..L-1 /\ ~(d = 0 /\ i = s)
            BY <1>2, <1>5, <3>1, <3>2
        <3>4. c \in B(d, i)
            BY <1>1, <3>1, <3>3
        <3> QED
            BY <3>3, <3>4
    <2> QED
        BY <2>2, <2>3
<1> QED
    BY <1>5, <1>6, <1>9, <1>10 DEF Unique, Complete, B, L, p, ct2

\* Rehash: the table becomes the old table of the innermost call, which had
\* nothing left to copy.
LEMMA RehashPlaces ==
    ASSUME NEW h, NEW cs, NEW ct, NEW h2, NEW cs2,
           Unique(h, cs), Complete(h, cs, ct),
           Len(cs) \in Nat, Len(cs) >= 1, Len(cs2) = Len(cs),
           h.table_size \in Nat,
           \A d \in 1..Len(cs)-1 : cs2[d] = cs[d],
           cs[Len(cs)].old_size \in Nat, cs[Len(cs)].i = cs[Len(cs)].old_size,
           cs2[Len(cs)].pair = cs[Len(cs)].pair, cs2[Len(cs)].i = 0,
           cs2[Len(cs)].old_size = h.table_size, cs2[Len(cs)].curr = h.elems,
           \A i \in 0..h2.table_size-1 : h2.elems[i] = {}
    PROVE  Unique(h2, cs2) /\ Complete(h2, cs2, ct)
<1> DEFINE L == Len(cs)
           A(d, i) == At(h, cs, d, i)
           B(d, i) == At(h2, cs2, d, i)
<1>1. ASSUME NEW d \in 1..L-1, NEW i \in Int
      PROVE  B(d, i) = A(d, i)
    <2>1. d # 0 /\ cs2[d] = cs[d]
        OBVIOUS
    <2> QED
        BY <2>1 DEF At
<1>2. ASSUME NEW i \in Int
      PROVE  B(0, i) = {}
    BY DEF At
<1>3. B(L, -1) = A(L, -1) /\ A(0, -1) = {}
    <2>1. -1 \notin 0..h.table_size-1 /\ L # 0
        OBVIOUS
    <2>2. A(0, -1) = {}
        BY <2>1 DEF At
    <2>3. B(L, -1) = A(L, -1)
        BY <2>1 DEF At
    <2> QED
        BY <2>2, <2>3
<1>4. ASSUME NEW i \in Int, i # -1
      PROVE  B(L, i) = A(0, i) /\ A(L, i) = {}
    <2>1. A(L, i) = {}
        BY <1>4 DEF At
    <2>2. B(L, i) = A(0, i)
        BY <1>4 DEF At
    <2> QED
        BY <2>1, <2>2
<1>5. /\ L \in Nat /\ L >= 1
      /\ \A d, e \in 0..L, i, j \in Int : \A b \in A(d, i), c \in A(e, j) :
             b[1] = c[1] => d = e /\ i = j
      /\ \A d \in 0..L, i \in Int : A(d, i) \subseteq ct
      /\ \A c \in ct : \E d \in 0..L, i \in Int : c \in A(d, i)
      /\ Len(cs2) = L
    BY DEF Unique, Complete
<1> HIDE DEF L, A, B
\* Each new place has what one old place had, and no two have the same one's.
<1> DEFINE from(d, i) == IF d = L /\ i # -1 THEN 0 ELSE d
<1>6. ASSUME NEW d \in 0..L, NEW i \in Int, NEW c \in B(d, i)
      PROVE  /\ d # 0
             /\ from(d, i) \in 0..L
             /\ c \in A(from(d, i), i)
    <2>1. d # 0
        BY <1>2, <1>6
    <2>2. CASE d = L /\ i # -1
        BY <1>4, <1>5, <1>6, <2>1, <2>2
    <2>3. CASE d = L /\ i = -1
        BY <1>3, <1>5, <1>6, <2>1, <2>3
    <2>4. CASE d # L
        BY <1>1, <1>5, <1>6, <2>1, <2>4
    <2> QED
        BY <2>2, <2>3, <2>4
<1>7. \A d, e \in 0..L, i, j \in Int : \A b \in B(d, i), c \in B(e, j) :
             b[1] = c[1] => d = e /\ i = j
    <2> SUFFICES ASSUME NEW d \in 0..L, NEW e \in 0..L, NEW i \in Int, NEW j \in Int,
                        NEW b \in B(d, i), NEW c \in B(e, j), b[1] = c[1]
                 PROVE  d = e /\ i = j
        OBVIOUS
    <2>1. d # 0 /\ e # 0 /\ from(d, i) = from(e, j) /\ i = j
        BY <1>5, <1>6
    <2> QED
        BY <2>1
<1>8. \A d \in 0..L, i \in Int : B(d, i) \subseteq ct
    BY <1>5, <1>6
<1>9. \A c \in ct : \E d \in 0..L, i \in Int : c \in B(d, i)
    <2> SUFFICES ASSUME NEW c \in ct
                 PROVE  \E d \in 0..L, i \in Int : c \in B(d, i)
        OBVIOUS
    <2>1. PICK d \in 0..L, i \in Int : c \in A(d, i)
        BY <1>5
    <2>2. CASE d = 0
        <3>1. i # -1
            BY <1>3, <2>1, <2>2
        <3>2. c \in B(L, i) /\ L \in 0..L
            BY <1>4, <1>5, <2>1, <2>2, <3>1
        <3> QED
            BY <3>2
    <2>3. CASE d = L /\ d # 0
        <3>1. i = -1
            BY <1>4, <2>1, <2>3
        <3> QED
            BY <1>3, <2>1, <2>3, <3>1
    <2>4. CASE d # L /\ d # 0
        <3>1. d \in 1..L-1
            BY <1>5, <2>4
        <3> QED
            BY <1>1, <2>1, <3>1
    <2> QED
        BY <2>2, <2>3, <2>4
<1> QED
    BY <1>5, <1>7, <1>8, <1>9 DEF Unique, Complete, B, L

\* CopyNext: the slot of the old table is empty, and nothing moves.
LEMMA SkipPlaces ==
    ASSUME NEW h, NEW cs, NEW ct, NEW cs2,
           Unique(h, cs), Complete(h, cs, ct),
           Len(cs) \in Nat, Len(cs) >= 1, Len(cs2) = Len(cs),
           \A d \in 1..Len(cs)-1 : cs2[d] = cs[d],
           cs[Len(cs)].old_size \in Nat, cs[Len(cs)].i \in Nat,
           cs[Len(cs)].i < cs[Len(cs)].old_size,
           cs2[Len(cs)].pair = cs[Len(cs)].pair, cs2[Len(cs)].i = cs[Len(cs)].i + 1,
           cs2[Len(cs)].old_size = cs[Len(cs)].old_size,
           cs2[Len(cs)].curr = cs[Len(cs)].curr,
           cs[Len(cs)].curr[cs[Len(cs)].i] = {}
    PROVE  Unique(h, cs2) /\ Complete(h, cs2, ct)
<1> DEFINE L == Len(cs)
<1>1. ASSUME NEW d \in 0..L, NEW i \in Int
      PROVE  At(h, cs2, d, i) = At(h, cs, d, i)
    <2>1. CASE d = 0
        BY <2>1 DEF At
    <2>2. CASE d = L /\ d # 0
        <3>1. CASE i = cs[L].i
            BY <2>2, <3>1 DEF At
        <3>2. CASE i # cs[L].i
            <4>1. cs[L].i + 1 <= i <=> cs[L].i <= i
                BY <3>2
            <4>2. (cs2[L].i <= i /\ i < cs2[L].old_size)
                      <=> (cs[L].i <= i /\ i < cs[L].old_size)
                BY <4>1
            <4> QED
                BY <2>2, <3>2, <4>2 DEF At
        <3> QED
            BY <3>1, <3>2
    <2>3. CASE d # 0 /\ d # L
        <3>1. d \in 1..L-1 /\ cs2[d] = cs[d]
            BY <2>3
        <3> QED
            BY <2>3, <3>1 DEF At
    <2> QED
        BY <2>1, <2>2, <2>3
<1> QED
    BY <1>1 DEF Unique, Complete

\* CopyNext: the pair of the slot moves from the old table to a call of its own.
LEMMA MovePlaces ==
    ASSUME NEW h, NEW cs, NEW ct, NEW cs2, NEW p,
           Unique(h, cs), Complete(h, cs, ct),
           Len(cs) \in Nat, Len(cs) >= 1, Len(cs2) = Len(cs) + 1,
           \A d \in 1..Len(cs)-1 : cs2[d] = cs[d],
           cs[Len(cs)].old_size \in Nat, cs[Len(cs)].i \in Nat,
           cs[Len(cs)].i < cs[Len(cs)].old_size,
           cs2[Len(cs)].pair = cs[Len(cs)].pair, cs2[Len(cs)].i = cs[Len(cs)].i + 1,
           cs2[Len(cs)].old_size = cs[Len(cs)].old_size,
           cs2[Len(cs)].curr = cs[Len(cs)].curr,
           cs[Len(cs)].curr[cs[Len(cs)].i] = {p},
           cs2[Len(cs) + 1].pair = p, cs2[Len(cs) + 1].i = 0, cs2[Len(cs) + 1].old_size = 0
    PROVE  Unique(h, cs2) /\ Complete(h, cs2, ct)
<1> DEFINE L == Len(cs)
           n == cs[L].i
           A(d, i) == At(h, cs, d, i)
           B(d, i) == At(h, cs2, d, i)
<1>1. ASSUME NEW d \in 0..L, NEW i \in Int
      PROVE  B(d, i) = IF d = L /\ i = n THEN {} ELSE A(d, i)
    <2>1. CASE d = 0
        BY <2>1 DEF At
    <2>2. CASE d = L /\ d # 0
        <3>1. CASE i = n
            BY <2>2, <3>1 DEF At
        <3>2. CASE i # n
            <4>1. cs[L].i + 1 <= i <=> cs[L].i <= i
                BY <3>2
            <4>2. (cs2[L].i <= i /\ i < cs2[L].old_size)
                      <=> (cs[L].i <= i /\ i < cs[L].old_size)
                BY <4>1
            <4> QED
                BY <2>2, <3>2, <4>2 DEF At
        <3> QED
            BY <2>2, <3>1, <3>2
    <2>3. CASE d # 0 /\ d # L
        <3>1. d \in 1..L-1 /\ cs2[d] = cs[d]
            BY <2>3
        <3> QED
            BY <2>3, <3>1 DEF At
    <2> QED
        BY <2>1, <2>2, <2>3
<1>2. A(L, n) = {p}
    BY DEF At
<1>3. ASSUME NEW i \in Int
      PROVE  B(L + 1, i) = IF i = -1 THEN {p} ELSE {}
    <2>1. L + 1 # 0 /\ L + 1 # 1
        OBVIOUS
    <2>2. CASE i = -1
        BY <2>1, <2>2 DEF At
    <2>3. CASE i # -1
        BY <2>1, <2>3 DEF At
    <2> QED
        BY <2>2, <2>3
<1>5. /\ L \in Nat /\ L >= 1 /\ n \in Int
      /\ \A d, e \in 0..L, i, j \in Int : \A b \in A(d, i), c \in A(e, j) :
             b[1] = c[1] => d = e /\ i = j
      /\ \A d \in 0..L, i \in Int : A(d, i) \subseteq ct
      /\ \A c \in ct : \E d \in 0..L, i \in Int : c \in A(d, i)
      /\ Len(cs2) = L + 1
    BY DEF Unique, Complete
<1> HIDE DEF L, n, A, B
<1> DEFINE fromD(d) == IF d = L + 1 THEN L ELSE d
           fromI(d, i) == IF d = L + 1 THEN n ELSE i
<1>6. ASSUME NEW d \in 0..L+1, NEW i \in Int, NEW c \in B(d, i)
      PROVE  /\ fromD(d) \in 0..L /\ fromI(d, i) \in Int
             /\ c \in A(fromD(d), fromI(d, i))
             /\ d = L + 1 => i = -1
             /\ ~(d = L /\ i = n)
    <2>1. CASE d = L + 1
        BY <1>2, <1>3, <1>5, <1>6, <2>1
    <2>2. CASE d # L + 1
        <3>1. d \in 0..L
            BY <1>5, <2>2
        <3> QED
            BY <1>1, <1>5, <1>6, <2>2, <3>1
    <2> QED
        BY <2>1, <2>2
<1>7. \A d, e \in 0..L+1, i, j \in Int : \A b \in B(d, i), c \in B(e, j) :
             b[1] = c[1] => d = e /\ i = j
    <2> SUFFICES ASSUME NEW d \in 0..L+1, NEW e \in 0..L+1, NEW i \in Int, NEW j \in Int,
                        NEW b \in B(d, i), NEW c \in B(e, j), b[1] = c[1]
                 PROVE  d = e /\ i = j
        OBVIOUS
    <2>1. fromD(d) = fromD(e) /\ fromI(d, i) = fromI(e, j)
        BY <1>5, <1>6
    <2>2. /\ d = L + 1 => i = -1
          /\ e = L + 1 => j = -1
          /\ ~(d = L /\ i = n) /\ ~(e = L /\ j = n)
        BY <1>6
    <2> QED
        BY <1>5, <2>1, <2>2
<1>8. \A d \in 0..L+1, i \in Int : B(d, i) \subseteq ct
    <2> SUFFICES ASSUME NEW d \in 0..L+1, NEW i \in Int, NEW c \in B(d, i)
                 PROVE  c \in ct
        OBVIOUS
    <2>1. PICK e \in 0..L, j \in Int : c \in A(e, j)
        BY <1>6
    <2> QED
        BY <1>5, <2>1
<1>9. \A c \in ct : \E d \in 0..L+1, i \in Int : c \in B(d, i)
    <2> SUFFICES ASSUME NEW c \in ct
                 PROVE  \E d \in 0..L+1, i \in Int : c \in B(d, i)
        OBVIOUS
    <2>1. PICK d \in 0..L, i \in Int : c \in A(d, i)
        BY <1>5
    <2>2. CASE d = L /\ i = n
        <3>1. c \in B(L + 1, -1) /\ L + 1 \in 0..L+1 /\ -1 \in Int
            BY <1>2, <1>3, <1>5, <2>1, <2>2
        <3> QED
            BY <3>1
    <2>3. CASE ~(d = L /\ i = n)
        <3>1. d \in 0..L+1 /\ c \in B(d, i)
            BY <1>1, <1>5, <2>1, <2>3
        <3> QED
            BY <3>1
    <2> QED
        BY <2>2, <2>3
<1> QED
    BY <1>5, <1>7, <1>8, <1>9 DEF Unique, Complete, B, L

\* A client's put that begins, or ends without storing its pair, moves nothing.
LEMMA ClientPlaces ==
    ASSUME NEW h, NEW cs, NEW ct, NEW cs2,
           Unique(h, cs), Complete(h, cs, ct),
           Len(cs) \in 0..1, Len(cs2) \in 0..1,
           Len(cs) = 1 => cs[1].old_size \in Nat /\ cs[1].i = cs[1].old_size,
           Len(cs2) = 1 => cs2[1].old_size \in Nat /\ cs2[1].i = cs2[1].old_size
    PROVE  Unique(h, cs2) /\ Complete(h, cs2, ct)
<1>1. ASSUME NEW i \in Int
      PROVE  /\ At(h, cs2, 0, i) = At(h, cs, 0, i)
             /\ Len(cs) = 1 => At(h, cs, 1, i) = {}
             /\ Len(cs2) = 1 => At(h, cs2, 1, i) = {}
    BY DEF At
<1>2. /\ \A d \in 0..Len(cs), i \in Int : At(h, cs, d, i) # {} => d = 0
      /\ \A d \in 0..Len(cs2), i \in Int : At(h, cs2, d, i) # {} => d = 0
      /\ 0 \in 0..Len(cs) /\ 0 \in 0..Len(cs2)
    <2>1. ASSUME NEW d \in 0..Len(cs)
          PROVE  d = 0 \/ (d = 1 /\ Len(cs) = 1)
        <3> DEFINE l == Len(cs)
        <3>1. l \in 0..1 /\ d \in 0..l
            OBVIOUS
        <3> HIDE DEF l
        <3>2. d = 0 \/ (d = 1 /\ l = 1)
            BY <3>1
        <3> QED
            BY <3>2 DEF l
    <2>2. ASSUME NEW d \in 0..Len(cs2)
          PROVE  d = 0 \/ (d = 1 /\ Len(cs2) = 1)
        <3> DEFINE l == Len(cs2)
        <3>1. l \in 0..1 /\ d \in 0..l
            OBVIOUS
        <3> HIDE DEF l
        <3>2. d = 0 \/ (d = 1 /\ l = 1)
            BY <3>1
        <3> QED
            BY <3>2 DEF l
    <2> QED
        BY <1>1, <2>1, <2>2
<1> QED
    BY <1>1, <1>2 DEF Unique, Complete

\* hashmap_remove: the pair of a key leaves the table and the content.
LEMMA RemovePlaces ==
    ASSUME NEW h, NEW cs, NEW ct, NEW h2, NEW s \in Int, NEW k, Len(cs) = 0,
           NEW ct2, \A c : c \in ct2 <=> c \in ct /\ c[1] # k,
           Unique(h, cs), Complete(h, cs, ct),
           h2.table_size = h.table_size, s \in 0..h.table_size-1,
           h.elems[s] # {}, \A c \in h.elems[s] : c[1] = k,
           \A i \in 0..h.table_size-1 : h2.elems[i] = IF i = s THEN {} ELSE h.elems[i]
    PROVE  Unique(h2, cs) /\ Complete(h2, cs, ct2)
<1> DEFINE A(i) == At(h, cs, 0, i)
           B(i) == At(h2, cs, 0, i)
<1>1. \A i \in Int : B(i) = IF i = s THEN {} ELSE A(i)
    BY DEF At
<1>2. A(s) # {} /\ \A c \in A(s) : c[1] = k
    BY DEF At
<1>3. /\ Len(cs) = 0 /\ 0 \in 0..0 /\ \A d \in 0..0 : d = 0
    OBVIOUS
<1>4. /\ \A i, j \in Int : \A b \in A(i), c \in A(j) : b[1] = c[1] => i = j
      /\ \A i \in Int : A(i) \subseteq ct
      /\ \A c \in ct : \E i \in Int : c \in A(i)
    BY <1>3 DEF Unique, Complete
<1> HIDE DEF A, B
<1>5. /\ \A i, j \in Int : \A b \in B(i), c \in B(j) : b[1] = c[1] => i = j
      /\ \A i \in Int : B(i) \subseteq ct2
      /\ \A c \in ct2 : \E i \in Int : c \in B(i)
    <2>1. ASSUME NEW i \in Int, NEW j \in Int, NEW b \in B(i), NEW c \in B(j), b[1] = c[1]
          PROVE  i = j
        BY <1>1, <1>4, <2>1
    <2>2. ASSUME NEW i \in Int, NEW c \in B(i)
          PROVE  c \in ct2
        <3>1. c \in A(i) /\ i # s /\ c \in ct
            BY <1>1, <1>4, <2>2
        <3>2. PICK b \in A(s) : b[1] = k
            BY <1>2
        <3>3. c[1] # k
            BY <1>4, <3>1, <3>2
        <3> QED
            BY <3>1, <3>3
    <2>3. ASSUME NEW c \in ct2
          PROVE  \E i \in Int : c \in B(i)
        <3>1. PICK i \in Int : c \in A(i)
            BY <1>4
        <3>2. i # s
            BY <1>2, <3>1
        <3> QED
            BY <1>1, <3>1, <3>2
    <2> QED
        BY <2>1, <2>2, <2>3
<1> QED
    BY <1>3, <1>5 DEF Unique, Complete, B

-----------------------------------------------------------------------------
(* What the invariant says of the table and of the innermost call.          *)

\* The table has room for a chain, and its slots are slots.
LEMMA MapFacts ==
    ASSUME TypeOK
    PROVE  /\ m.table_size \in Nat /\ ChainLength <= m.table_size /\ m.table_size >= 1
           /\ \A s \in 0..m.table_size-1 : m.elems[s] \in SlotSet
BY ConstantsAssumption DEF TypeOK

\* The part of the invariant about the innermost call, unpacked.
LEMMA InnermostFacts ==
    ASSUME Shape, calls # <<>>
    PROVE  /\ Len(calls) \in Nat /\ Len(calls) >= 1
           /\ Top \in Frames /\ FrameOK(Top)
           /\ Top.pair \in Key \X Value /\ Top.pair[1] \in Key
           /\ Top.i \in Nat /\ Top.old_size \in Nat
           /\ ~Copying => Top.i = Top.old_size
<1>1. Len(calls) \in Nat /\ Len(calls) >= 1
    BY DEF Shape
<1>2. Top \in Frames /\ FrameOK(Top)
    BY <1>1 DEF Shape, Top
<1>3. Top.pair \in Key \X Value /\ Top.i \in Nat /\ Top.old_size \in Nat
    BY <1>2 DEF Frames
<1>4. ~Copying => Top.i = Top.old_size
    BY <1>2, <1>3 DEF FrameOK, Copying
<1> QED
    BY <1>1, <1>2, <1>3, <1>4

\* TypeOK's part about the calls, from the shape of the stack.
LEMMA CallsTyped ==
    ASSUME NEW cs \in Seq(Frames), \A d \in 1..Len(cs) : FrameOK(cs[d])
    PROVE  \A d \in DOMAIN cs : /\ cs[d].pair \in Key \X Value
                                /\ cs[d].i \in 0..cs[d].old_size
<1> SUFFICES ASSUME NEW d \in DOMAIN cs
             PROVE  cs[d].pair \in Key \X Value /\ cs[d].i \in 0..cs[d].old_size
    OBVIOUS
<1>1. d \in 1..Len(cs) /\ cs[d] \in Frames /\ FrameOK(cs[d])
    OBVIOUS
<1> QED
    BY <1>1 DEF Frames, FrameOK

\* One slot of a map changes, and its size with it.
LEMMA SlotChange ==
    ASSUME NEW h, h = [elems |-> h.elems, table_size |-> h.table_size, size |-> h.size],
           h.table_size \in Nat, h.elems \in [0..h.table_size-1 -> SlotSet],
           NEW s \in 0..h.table_size-1, NEW x \in SlotSet, NEW z,
           NEW h2, h2 = [h EXCEPT !.elems[s] = x, !.size = z]
    PROVE  /\ h2 = [elems |-> h2.elems, table_size |-> h2.table_size, size |-> h2.size]
           /\ h2.table_size = h.table_size /\ h2.size = z
           /\ h2.elems \in [0..h.table_size-1 -> SlotSet]
           /\ \A i \in 0..h.table_size-1 : h2.elems[i] = IF i = s THEN x ELSE h.elems[i]
<1>1. h2 = [elems |-> [h.elems EXCEPT ![s] = x], table_size |-> h.table_size, size |-> z]
    OBVIOUS
<1>2. h2.elems = [h.elems EXCEPT ![s] = x] /\ h2.table_size = h.table_size /\ h2.size = z
    BY <1>1
<1> QED
    BY <1>1, <1>2

\* The size grows with the used slots.
LEMMA UsedGrows ==
    ASSUME NEW h, NEW h2, h.table_size \in Nat, h2.table_size = h.table_size,
           NEW s \in 0..h.table_size-1, NEW c, h.elems[s] = {},
           \A i \in 0..h.table_size-1 : h2.elems[i] = IF i = s THEN {c} ELSE h.elems[i]
    PROVE  Cardinality(Used(h2)) = Cardinality(Used(h)) + 1
<1>1. s \notin Used(h)
    BY DEF Used, Unused
<1>2. \A i : i \in Used(h2) <=> i \in Used(h) \cup {s}
    BY DEF Used, Unused
<1>3. Used(h2) = Used(h) \cup {s}
    BY <1>2, Zenon
<1>4. IsFiniteSet(Used(h))
    BY UsedFinite
<1> QED
    BY <1>1, <1>3, <1>4, FS_AddElement

\* The size shrinks with the used slots.
LEMMA UsedShrinks ==
    ASSUME NEW h, NEW h2, h.table_size \in Nat, h2.table_size = h.table_size,
           NEW s \in 0..h.table_size-1, h.elems[s] # {},
           \A i \in 0..h.table_size-1 : h2.elems[i] = IF i = s THEN {} ELSE h.elems[i]
    PROVE  Cardinality(Used(h2)) = Cardinality(Used(h)) - 1
<1>1. s \in Used(h)
    BY DEF Used, Unused
<1>2. \A i : i \in Used(h2) <=> i \in Used(h) \ {s}
    BY DEF Used, Unused
<1>3. Used(h2) = Used(h) \ {s}
    BY <1>2, Zenon
<1>4. IsFiniteSet(Used(h))
    BY UsedFinite
<1> QED
    BY <1>1, <1>3, <1>4, FS_RemoveElement

-----------------------------------------------------------------------------
(* The invariant holds at the start and is kept by every step.              *)

\* hashmap_create establishes the invariant.
LEMMA InvInit == Init => Inv
<1> SUFFICES ASSUME Init PROVE Inv
    OBVIOUS
<1>1. InitialSize \in Nat /\ InitialSize \in InitialSize..MaxTable
    BY ConstantsAssumption
<1>2. /\ m = Blank(InitialSize) /\ calls = <<>> /\ content = {} /\ tainted = FALSE
      /\ hash \in [Key -> HashValues]
    BY DEF Init
<1>3. /\ m.table_size = InitialSize /\ m.elems \in [0..InitialSize-1 -> SlotSet]
      /\ \A s \in 0..InitialSize-1 : m.elems[s] = {}
      /\ m.size = Cardinality(Used(m))
      /\ m = [elems |-> m.elems, table_size |-> m.table_size, size |-> m.size]
    BY <1>1, <1>2, BlankFacts
<1>4. TypeOK
    BY <1>1, <1>2, <1>3 DEF TypeOK
<1>5. Shape
    <2>1. calls \in Seq(Frames) /\ \A d \in 1..Len(calls) : FrameOK(calls[d])
        BY <1>2
    <2>2. tainted \in BOOLEAN
        BY <1>2
    <2> QED
        BY <1>3, <2>1, <2>2, Zenon DEF Shape
<1>6. Chained
    BY <1>3 DEF Chained
<1>7. \A d \in 0..Len(calls), i \in Int : At(m, calls, d, i) = {}
    <2>1. \A d \in 0..Len(calls) : d = 0
        BY <1>2
    <2> QED
        BY <1>3, <2>1 DEF At
<1>8. Consistent
    BY <1>2, <1>7 DEF Consistent, Unique, Complete
<1> QED
    BY <1>4, <1>5, <1>6, <1>8 DEF Inv

\* A client's call adds a frame that copies nothing.
LEMMA PutKeeps == ASSUME Inv, NEW k \in Key, NEW v \in Value, hashmap_put(k, v)  PROVE Inv'
<1>1. /\ calls = <<>> /\ calls' = <<Frame(<<k, v>>)>>
      /\ hash' = hash /\ m' = m /\ content' = content /\ tainted' = tainted
    BY DEF hashmap_put
<1>2. TypeOK /\ Shape /\ Chained /\ Consistent
    BY DEF Inv
<1> DEFINE f == Frame(<<k, v>>)
<1>3. f \in Frames /\ FrameOK(f) /\ f.i = 0 /\ f.old_size = 0
    BY FrameFacts
<1> HIDE DEF f
<1>4. calls' = <<f>>
    BY <1>1 DEF f
<1>5. calls' \in Seq(Frames) /\ Len(calls') = 1 /\ calls'[1] = f
    BY <1>3, <1>4
<1>6. \A d \in 1..Len(calls') : FrameOK(calls'[d])
    BY <1>3, <1>5
<1>7. Shape'
    BY <1>1, <1>2, <1>5, <1>6 DEF Shape
<1>8. \A d \in DOMAIN calls' : /\ calls'[d].pair \in Key \X Value
                               /\ calls'[d].i \in 0..calls'[d].old_size
    BY <1>5, <1>6, CallsTyped
<1>9. TypeOK'
    BY <1>1, <1>2, <1>8 DEF TypeOK, Used
<1>10. Chained'
    BY <1>1, <1>2 DEF Chained, Slot
<1>11. Len(calls) = 0
    BY <1>1
<1>12. Unique(m, calls) /\ Complete(m, calls, content)
           => Unique(m, calls') /\ Complete(m, calls', content)
    BY <1>3, <1>5, <1>11, ClientPlaces
<1>13. Consistent'
    BY <1>1, <1>2, <1>12 DEF Consistent
<1> QED
    BY <1>7, <1>9, <1>10, <1>13 DEF Inv

\* Storing moves a pair from its call into the table.
LEMMA StoreKeeps == ASSUME Inv, Store PROVE Inv'
<1> DEFINE L == Len(calls)
           p == Top.pair
<1>1. TypeOK /\ Shape /\ Chained /\ Consistent
    BY DEF Inv
<1>2. /\ calls # <<>> /\ ~Copying
      /\ calls' = Pop /\ hash' = hash
      /\ content' = IF L = 1 THEN content \cup {p} ELSE content
      /\ tainted' = (tainted \/ (L = 1 /\ Present(p[1])))
    BY DEF Store
<1>3. PICK s \in Index(m, p[1]) :
          /\ m.elems[s] = Unused
          /\ m' = [m EXCEPT !.elems[s] = {p}, !.size = @ + 1]
    BY DEF Store
<1>4. /\ m.table_size \in Nat /\ ChainLength <= m.table_size
      /\ \A i \in 0..m.table_size-1 : m.elems[i] \in SlotSet
    BY <1>1, MapFacts
<1>5. /\ L \in Nat /\ L >= 1 /\ p \in Key \X Value /\ p[1] \in Key
      /\ Top.old_size \in Nat /\ Top.i = Top.old_size
    BY <1>1, <1>2, InnermostFacts
<1>6. hash \in [Key -> HashValues] /\ m.elems \in [0..m.table_size-1 -> SlotSet]
      /\ m.size = Cardinality(Used(m)) /\ content \subseteq Key \X Value
      /\ m.table_size \in InitialSize..MaxTable
    BY <1>1 DEF TypeOK
<1>7. PICK i \in Probes : s = Slot(m.table_size, p[1], i)
    BY <1>3, IndexProbe
<1>8. s \in 0..m.table_size-1
    BY <1>4, <1>5, <1>6, <1>7, SlotRange
<1>9. {p} \in SlotSet
    BY <1>5 DEF SlotSet
<1>10. m = [elems |-> m.elems, table_size |-> m.table_size, size |-> m.size]
    BY <1>1 DEF Shape
<1>11. /\ m' = [elems |-> m'.elems, table_size |-> m'.table_size, size |-> m'.size]
       /\ m'.table_size = m.table_size /\ m'.size = m.size + 1
       /\ m'.elems \in [0..m.table_size-1 -> SlotSet]
       /\ \A j \in 0..m.table_size-1 : m'.elems[j] = IF j = s THEN {p} ELSE m.elems[j]
    <2> DEFINE z == m.size + 1
    <2>1. m' = [m EXCEPT !.elems[s] = {p}, !.size = z]
        BY <1>3
    <2> HIDE DEF z, p
    <2>2. /\ m' = [elems |-> m'.elems, table_size |-> m'.table_size, size |-> m'.size]
          /\ m'.table_size = m.table_size /\ m'.size = z
          /\ m'.elems \in [0..m.table_size-1 -> SlotSet]
          /\ \A j \in 0..m.table_size-1 : m'.elems[j] = IF j = s THEN {p} ELSE m.elems[j]
        BY <1>4, <1>6, <1>8, <1>9, <1>10, <2>1, SlotChange
    <2> QED
        BY <2>2 DEF z
<1>12. m.elems[s] = {}
    BY <1>3 DEF Unused
<1>13. /\ calls \in Seq(Frames) /\ \A d \in 1..L : FrameOK(calls[d])
       /\ tainted \in BOOLEAN
    BY <1>1 DEF Shape
<1>14. /\ calls' \in Seq(Frames) /\ Len(calls') = L - 1
       /\ \A d \in 1..L-1 : calls'[d] = calls[d]
    BY <1>2, <1>13, PopFacts DEF Pop
<1>15. \A d \in 1..Len(calls') : FrameOK(calls'[d])
    BY <1>5, <1>13, <1>14
<1>16. tainted' \in BOOLEAN
    BY <1>2, <1>13
<1>17. Shape'
    BY <1>11, <1>14, <1>15, <1>16 DEF Shape
<1>18. TypeOK'
    <2>1. m'.size = Cardinality(Used(m'))
        <3> HIDE DEF p
        <3>1. Cardinality(Used(m')) = Cardinality(Used(m)) + 1
            BY <1>4, <1>8, <1>11, <1>12, UsedGrows
        <3> QED
            BY <1>6, <1>11, <3>1
    <2>2. \A d \in DOMAIN calls' : /\ calls'[d].pair \in Key \X Value
                                   /\ calls'[d].i \in 0..calls'[d].old_size
        BY <1>14, <1>15, CallsTyped
    <2>3. content' \subseteq Key \X Value
        BY <1>2, <1>5, <1>6
    <2>4. Used(m') = Used(m)'
        BY DEF Used
    <2> QED
        BY <1>2, <1>6, <1>11, <2>1, <2>2, <2>3, <2>4 DEF TypeOK
<1>19. Chained'
    <2>1. ASSUME NEW u \in 0..m.table_size-1, NEW c \in m'.elems[u]
          PROVE  \E j \in Probes : u = Slot(m.table_size, c[1], j)
        <3>1. CASE u = s
            <4>1. c = p
                BY <1>11, <2>1, <3>1
            <4> QED
                BY <1>7, <3>1, <4>1
        <3>2. CASE u # s
            <4>1. c \in m.elems[u]
                BY <1>11, <2>1, <3>2
            <4> QED
                BY <1>1, <4>1 DEF Chained
        <3> QED
            BY <3>1, <3>2
    <2> QED
        BY <1>2, <1>11, <2>1 DEF Chained, Slot
<1>20. Consistent'
    <2> SUFFICES ASSUME ~tainted'
                 PROVE  Unique(m', calls') /\ Complete(m', calls', content')
        BY DEF Consistent
    <2>1. ~tainted /\ (L = 1 => ~Present(p[1]))
        BY <1>2
    <2>2. Unique(m, calls) /\ Complete(m, calls, content)
        BY <1>1, <2>1 DEF Consistent
    <2>3. L = 1 => \A c \in content : c[1] # calls[1].pair[1]
        BY <2>1 DEF Present, Top
    <2>4. /\ Unique(m', calls')
          /\ Complete(m', calls', IF L = 1 THEN content \cup {calls[L].pair} ELSE content)
        <3>1. Top = calls[Len(calls)]
            BY DEF Top
        <3>2. s \in Int
            BY <1>4, <1>8
        <3>3. calls[Len(calls)].old_size \in Nat /\ calls[Len(calls)].i = calls[Len(calls)].old_size
            BY <1>5, <3>1
        <3>4. \A j \in 0..m.table_size-1 :
                  m'.elems[j] = IF j = s THEN {calls[Len(calls)].pair} ELSE m.elems[j]
            BY <1>11, <3>1
        <3> QED
            BY <1>5, <1>8, <1>11, <1>12, <1>14, <2>2, <2>3, <3>2, <3>3, <3>4, StorePlaces
    <2> QED
        BY <1>2, <2>4 DEF Top
<1> QED
    BY <1>17, <1>18, <1>19, <1>20 DEF Inv

\* In a copy, a key that is found would be at two places.
LEMMA KeyUsedByClient == ASSUME Inv, KeyUsed, ~tainted PROVE Len(calls) = 1
<1> DEFINE L == Len(calls)
           p == Top.pair
<1>1. TypeOK /\ Shape /\ Unique(m, calls)
    BY DEF Inv, Consistent
<1>2. calls # <<>> /\ ~Copying
    BY DEF KeyUsed
<1>3. PICK s \in Index(m, p[1]) : m.elems[s] # {}
    BY DEF KeyUsed, Unused
<1>4. L \in Nat /\ L >= 1 /\ p \in Key \X Value /\ p[1] \in Key
    BY <1>1, <1>2, InnermostFacts
<1>5. PICK i \in Probes : /\ s = Slot(m.table_size, p[1], i)
                          /\ m.elems[s] = {} \/ Holds(m, p[1], s)
    BY <1>3 DEF Index, First, Places, Unused
<1>6. PICK c \in m.elems[s] : c[1] = p[1]
    BY <1>3, <1>5 DEF Holds
<1>7. /\ m.table_size \in Nat /\ ChainLength <= m.table_size
      /\ hash \in [Key -> HashValues]
    BY <1>1, MapFacts DEF TypeOK
<1>8. s \in 0..m.table_size-1
    BY <1>4, <1>5, <1>7, SlotRange
<1>9. SUFFICES ASSUME L # 1 PROVE FALSE
    OBVIOUS
<1>10. c \in At(m, calls, 0, s) /\ s \in Int
    BY <1>6, <1>7, <1>8 DEF At
<1>11. p \in At(m, calls, L, -1) /\ -1 \in Int /\ L \in 0..L /\ 0 \in 0..L
    BY <1>4, <1>9 DEF At, Top
<1>12. 0 = L
    BY <1>1, <1>6, <1>10, <1>11 DEF Unique
<1> QED
    BY <1>4, <1>12

\* HMAP_E_KEYUSED, in a copy, means a tainted map.
LEMMA KeyUsedKeeps == ASSUME Inv, KeyUsed PROVE Inv'
<1> DEFINE L == Len(calls)
           p == Top.pair
           g(d) == IF d = L - 1 THEN [calls[d] EXCEPT !.i = calls[d].old_size] ELSE calls[d]
<1>1. TypeOK /\ Shape /\ Chained /\ Consistent
    BY DEF Inv
<1>2. /\ calls # <<>> /\ ~Copying
      /\ calls' = [d \in 1..L-1 |-> g(d)]
      /\ hash' = hash /\ m' = m /\ content' = content /\ tainted' = tainted
    BY DEF KeyUsed
<1>4. /\ L \in Nat /\ L >= 1 /\ p \in Key \X Value /\ p[1] \in Key
      /\ Top.old_size \in Nat /\ Top.i = Top.old_size
    BY <1>1, <1>2, InnermostFacts
<1>5. calls \in Seq(Frames) /\ \A d \in 1..L : FrameOK(calls[d])
    BY <1>1 DEF Shape
<1>6. ASSUME NEW d \in 1..L-1
      PROVE  g(d) \in Frames /\ FrameOK(g(d))
    <2>1. calls[d] \in Frames /\ FrameOK(calls[d])
        BY <1>4, <1>5
    <2>2. calls[d].old_size \in Nat
        BY <2>1 DEF Frames
    <2>3. [calls[d] EXCEPT !.i = calls[d].old_size] \in Frames
        BY <2>1, <2>2 DEF Frames
    <2>4. FrameOK([calls[d] EXCEPT !.i = calls[d].old_size])
        BY <2>1, <2>2 DEF Frames, FrameOK
    <2> QED
        BY <2>1, <2>3, <2>4
<1> HIDE DEF g
<1>7. L - 1 \in Nat
    BY <1>4
<1>8. /\ calls' \in Seq(Frames) /\ Len(calls') = L - 1
      /\ \A d \in 1..L-1 : calls'[d] = g(d)
    BY <1>2, <1>6, <1>7
<1>9. \A d \in 1..Len(calls') : FrameOK(calls'[d])
    BY <1>6, <1>8
<1>10. Shape'
    BY <1>1, <1>2, <1>8, <1>9 DEF Shape
<1>11. \A d \in DOMAIN calls' : /\ calls'[d].pair \in Key \X Value
                                /\ calls'[d].i \in 0..calls'[d].old_size
    BY <1>8, <1>9, CallsTyped
<1>12. TypeOK'
    BY <1>1, <1>2, <1>11 DEF TypeOK, Used
<1>13. Chained'
    BY <1>1, <1>2 DEF Chained, Slot
<1>14. Consistent'
    <2> SUFFICES ASSUME ~tainted
                 PROVE  Unique(m, calls') /\ Complete(m, calls', content)
        BY <1>2 DEF Consistent
    <2>1. Unique(m, calls) /\ Complete(m, calls, content)
        BY <1>1 DEF Consistent
    <2>2. L = 1
        BY KeyUsedByClient
    <2>3. Len(calls) = 1 /\ Len(calls') = 0
        BY <1>8, <2>2
    <2>4. calls[1].old_size \in Nat /\ calls[1].i = calls[1].old_size
        BY <1>4, <2>2 DEF Top
    <2> QED
        BY <2>1, <2>3, <2>4, ClientPlaces
<1> QED
    BY <1>10, <1>12, <1>13, <1>14 DEF Inv

\* A larger table: what was in the old one is still to be copied.
LEMMA RehashKeeps == ASSUME Inv, Rehash PROVE Inv'
<1> DEFINE L == Len(calls)
           n == 2 * m.table_size
           f == [Top EXCEPT !.curr = m.elems, !.old_size = m.table_size, !.i = 0]
<1>1. TypeOK /\ Shape /\ Chained /\ Consistent
    BY DEF Inv
<1>2. /\ calls # <<>> /\ ~Copying /\ n <= MaxTable
      /\ m' = Blank(n)
      /\ calls' = [calls EXCEPT ![L] = f]
      /\ hash' = hash /\ content' = content /\ tainted' = tainted
    BY DEF Rehash, Top
<1>3. /\ m.table_size \in Nat /\ m.table_size >= 1
      /\ \A i \in 0..m.table_size-1 : m.elems[i] \in SlotSet
    BY <1>1, MapFacts
<1>4. /\ L \in Nat /\ L >= 1 /\ Top \in Frames
      /\ Top.old_size \in Nat /\ Top.i = Top.old_size
    BY <1>1, <1>2, InnermostFacts
<1>5. /\ calls \in Seq(Frames) /\ \A d \in 1..L : FrameOK(calls[d])
    BY <1>1 DEF Shape
<1>6. /\ hash \in [Key -> HashValues] /\ m.elems \in [0..m.table_size-1 -> SlotSet]
      /\ content \subseteq Key \X Value /\ m.table_size \in InitialSize..MaxTable
    BY <1>1 DEF TypeOK
<1>7. m.elems \in Tables
    BY <1>3, <1>6 DEF Tables
<1>8. /\ f \in Frames /\ f.pair = Top.pair /\ f.curr = m.elems
      /\ f.old_size = m.table_size /\ f.i = 0
    BY <1>3, <1>4, <1>7 DEF Frames
<1>9. FrameOK(f)
    BY <1>3, <1>8 DEF FrameOK
<1> HIDE DEF f
<1>10. /\ calls' \in Seq(Frames) /\ Len(calls') = L /\ calls'[L] = f
       /\ \A d \in 1..L-1 : calls'[d] = calls[d]
    BY <1>2, <1>5, <1>8, TopFacts
<1>11. \A d \in 1..Len(calls') : FrameOK(calls'[d])
    <2> SUFFICES ASSUME NEW d \in 1..L
                 PROVE  FrameOK(calls'[d])
        BY <1>10
    <2>1. CASE d = L
        BY <1>9, <1>10, <2>1
    <2>2. CASE d # L
        <3>1. d \in 1..L-1
            BY <1>4, <2>2
        <3> QED
            BY <1>5, <1>10, <3>1
    <2> QED
        BY <2>1, <2>2
<1>12. n \in Nat /\ n \in InitialSize..MaxTable
    BY <1>2, <1>3, <1>6, ConstantsAssumption
<1> HIDE DEF n
<1>13. /\ m'.table_size = n /\ m'.elems \in [0..n-1 -> SlotSet]
       /\ \A s \in 0..n-1 : m'.elems[s] = {}
       /\ m'.size = Cardinality(Used(m'))
       /\ m' = [elems |-> m'.elems, table_size |-> m'.table_size, size |-> m'.size]
    BY <1>2, <1>12, BlankFacts
<1>14. Shape'
    BY <1>1, <1>2, <1>10, <1>11, <1>13 DEF Shape
<1>15. \A d \in DOMAIN calls' : /\ calls'[d].pair \in Key \X Value
                                /\ calls'[d].i \in 0..calls'[d].old_size
    BY <1>10, <1>11, CallsTyped
<1>16. TypeOK'
    <2>1. Used(m') = Used(m)'
        BY DEF Used
    <2> QED
        BY <1>2, <1>6, <1>12, <1>13, <1>15, <2>1 DEF TypeOK
<1>17. Chained'
    BY <1>13 DEF Chained
<1>18. Consistent'
    <2> SUFFICES ASSUME ~tainted
                 PROVE  Unique(m', calls') /\ Complete(m', calls', content)
        BY <1>2 DEF Consistent
    <2>1. Unique(m, calls) /\ Complete(m, calls, content)
        BY <1>1 DEF Consistent
    <2>2. Top = calls[Len(calls)]
        BY DEF Top
    <2>3. \A i \in 0..m'.table_size-1 : m'.elems[i] = {}
        BY <1>13
    <2>4. /\ calls'[Len(calls)].pair = calls[Len(calls)].pair
          /\ calls'[Len(calls)].i = 0
          /\ calls'[Len(calls)].old_size = m.table_size
          /\ calls'[Len(calls)].curr = m.elems
        BY <1>8, <1>10, <2>2
    <2>5. /\ calls[Len(calls)].old_size \in Nat
          /\ calls[Len(calls)].i = calls[Len(calls)].old_size
        BY <1>4, <2>2
    <2> QED
        BY <1>3, <1>4, <1>10, <2>1, <2>3, <2>4, <2>5, RehashPlaces
<1> QED
    BY <1>14, <1>16, <1>17, <1>18 DEF Inv

\* Without memory a client's call changes nothing; a nested one taints.
LEMMA OutOfMemoryKeeps == ASSUME Inv, OutOfMemory PROVE Inv'
<1>1. TypeOK /\ Shape /\ Chained /\ Consistent
    BY DEF Inv
<1>2. /\ calls # <<>> /\ ~Copying /\ calls' = <<>>
      /\ tainted' = (tainted \/ Len(calls) > 1)
      /\ hash' = hash /\ m' = m /\ content' = content
    BY DEF OutOfMemory
<1>3. /\ Len(calls) \in Nat /\ Len(calls) >= 1
      /\ Top.old_size \in Nat /\ Top.i = Top.old_size
    BY <1>1, <1>2, InnermostFacts
<1>4. calls' \in Seq(Frames) /\ Len(calls') = 0
    BY <1>2
<1>5. tainted' \in BOOLEAN
    BY <1>1, <1>2 DEF Shape
<1>6. Shape'
    BY <1>1, <1>2, <1>4, <1>5 DEF Shape
<1>7. TypeOK'
    BY <1>1, <1>2 DEF TypeOK, Used
<1>8. Chained'
    BY <1>1, <1>2 DEF Chained, Slot
<1>9. Consistent'
    <2> SUFFICES ASSUME ~tainted'
                 PROVE  Unique(m, calls') /\ Complete(m, calls', content)
        BY <1>2 DEF Consistent
    <2>1. ~tainted /\ ~(Len(calls) > 1)
        BY <1>2
    <2>2. Unique(m, calls) /\ Complete(m, calls, content)
        BY <1>1, <2>1 DEF Consistent
    <2>3. Len(calls) = 1
        <3> DEFINE l == Len(calls)
        <3>1. ~(l > 1) /\ l \in Nat /\ l >= 1
            BY <1>3, <2>1
        <3> HIDE DEF l
        <3>2. l = 1
            BY <3>1
        <3> QED
            BY <3>2 DEF l
    <2>4. calls[1].old_size \in Nat /\ calls[1].i = calls[1].old_size
        BY <1>3, <2>3 DEF Top
    <2> QED
        BY <1>4, <2>2, <2>3, <2>4, ClientPlaces
<1> QED
    BY <1>6, <1>7, <1>8, <1>9 DEF Inv

\* A step of the copy moves a pair from the old table into a call.
LEMMA CopyNextKeeps == ASSUME Inv, CopyNext PROVE Inv'
<1> DEFINE L == Len(calls)
           f == [Top EXCEPT !.i = @ + 1]
           rest == [calls EXCEPT ![L] = f]
<1>1. TypeOK /\ Shape /\ Chained /\ Consistent
    BY DEF Inv
<1>2. /\ calls # <<>> /\ Copying
      /\ \/ Top.curr[Top.i] = {} /\ calls' = rest
         \/ \E c \in Top.curr[Top.i] : calls' = Append(rest, Frame(c))
      /\ hash' = hash /\ m' = m /\ content' = content /\ tainted' = tainted
    <2>1. rest = [calls EXCEPT ![Len(calls)].i = @ + 1]
        BY DEF Top
    <2> HIDE DEF rest
    <2>2. calls # <<>> /\ Copying
        BY DEF CopyNext
    <2>3. hash' = hash /\ m' = m /\ content' = content /\ tainted' = tainted
        BY DEF CopyNext
    <2>4. \/ Top.curr[Top.i] = {} /\ calls' = rest
          \/ \E c \in Top.curr[Top.i] : calls' = Append(rest, Frame(c))
        BY <2>1, Zenon DEF CopyNext, Unused
    <2> QED
        BY <2>2, <2>3, <2>4, Zenon
<1>3. /\ L \in Nat /\ L >= 1 /\ Top \in Frames /\ FrameOK(Top)
      /\ Top.i \in Nat /\ Top.old_size \in Nat
    BY <1>1, <1>2, InnermostFacts
<1>4. Top.i < Top.old_size
    BY <1>2 DEF Copying
<1>5. Top.curr[Top.i] \in SlotSet
    BY <1>3, <1>4 DEF FrameOK
<1>6. calls \in Seq(Frames) /\ \A d \in 1..L : FrameOK(calls[d])
    BY <1>1 DEF Shape
<1>7. /\ f \in Frames /\ f.pair = Top.pair /\ f.curr = Top.curr
      /\ f.old_size = Top.old_size /\ f.i = Top.i + 1
    BY <1>3 DEF Frames
<1>8. FrameOK(f)
    BY <1>3, <1>4, <1>7 DEF FrameOK
<1> HIDE DEF f
<1>9. /\ rest \in Seq(Frames) /\ Len(rest) = L /\ rest[L] = f
      /\ \A d \in 1..L-1 : rest[d] = calls[d]
    BY <1>2, <1>6, <1>7, TopFacts
<1> HIDE DEF rest
<1>10. \A d \in 1..L : FrameOK(rest[d])
    <2> SUFFICES ASSUME NEW d \in 1..L
                 PROVE  FrameOK(rest[d])
        OBVIOUS
    <2>1. CASE d = L
        BY <1>8, <1>9, <2>1
    <2>2. CASE d # L
        <3>1. d \in 1..L-1
            BY <1>3, <2>2
        <3> QED
            BY <1>6, <1>9, <3>1
    <2> QED
        BY <2>1, <2>2
<1>11. Top = calls[Len(calls)]
    BY DEF Top
<1>12. ASSUME /\ calls' \in Seq(Frames)
              /\ \A d \in 1..Len(calls') : FrameOK(calls'[d])
              /\ ~tainted => Unique(m, calls') /\ Complete(m, calls', content)
       PROVE  Inv'
    <2>1. Shape'
        BY <1>1, <1>2, <1>12 DEF Shape
    <2>2. \A d \in DOMAIN calls' : /\ calls'[d].pair \in Key \X Value
                                   /\ calls'[d].i \in 0..calls'[d].old_size
        BY <1>12, CallsTyped
    <2>3. TypeOK'
        BY <1>1, <1>2, <2>2 DEF TypeOK, Used
    <2>4. Chained'
        BY <1>1, <1>2 DEF Chained, Slot
    <2>5. Consistent'
        BY <1>2, <1>12 DEF Consistent
    <2> QED
        BY <2>1, <2>3, <2>4, <2>5 DEF Inv
<1>13. /\ calls[Len(calls)].old_size \in Nat /\ calls[Len(calls)].i \in Nat
       /\ calls[Len(calls)].i < calls[Len(calls)].old_size
    BY <1>3, <1>4, <1>11
<1>14. CASE Top.curr[Top.i] = {} /\ calls' = rest
    <2>1. ASSUME ~tainted
          PROVE  Unique(m, calls') /\ Complete(m, calls', content)
        <3>1. Unique(m, calls) /\ Complete(m, calls, content)
            BY <1>1, <2>1 DEF Consistent
        <3>2. calls[Len(calls)].curr[calls[Len(calls)].i] = {}
            BY <1>11, <1>14
        <3>3. /\ rest[Len(calls)].pair = calls[Len(calls)].pair
              /\ rest[Len(calls)].i = calls[Len(calls)].i + 1
              /\ rest[Len(calls)].old_size = calls[Len(calls)].old_size
              /\ rest[Len(calls)].curr = calls[Len(calls)].curr
            BY <1>7, <1>9, <1>11
        <3>4. Unique(m, rest) /\ Complete(m, rest, content)
            BY <1>3, <1>9, <1>13, <3>1, <3>2, <3>3, SkipPlaces
        <3> QED
            BY <1>14, <3>4
    <2> QED
        BY <1>9, <1>10, <1>12, <1>14, <2>1
<1>15. CASE \E c \in Top.curr[Top.i] : calls' = Append(rest, Frame(c))
    <2>1. PICK c \in Top.curr[Top.i] : calls' = Append(rest, Frame(c))
        BY <1>15
    <2>2. c \in Key \X Value /\ Top.curr[Top.i] = {c}
        BY <1>5, SlotElements
    <2> DEFINE g == Frame(c)
    <2>3. g \in Frames /\ FrameOK(g) /\ g.pair = c /\ g.i = 0 /\ g.old_size = 0
        BY <2>2, FrameFacts
    <2> HIDE DEF g
    <2>4. calls' = Append(rest, g)
        BY <2>1 DEF g
    <2>5. /\ calls' \in Seq(Frames) /\ Len(calls') = L + 1 /\ calls'[L + 1] = g
          /\ \A d \in 1..L : calls'[d] = rest[d]
        BY <1>3, <1>9, <2>3, <2>4
    <2>6. \A d \in 1..Len(calls') : FrameOK(calls'[d])
        <3> SUFFICES ASSUME NEW d \in 1..L+1
                     PROVE  FrameOK(calls'[d])
            BY <2>5
        <3>1. CASE d = L + 1
            BY <2>3, <2>5, <3>1
        <3>2. CASE d # L + 1
            <4>1. d \in 1..L
                BY <1>3, <3>2
            <4> QED
                BY <1>10, <2>5, <4>1
        <3> QED
            BY <3>1, <3>2
    <2>7. ASSUME ~tainted
          PROVE  Unique(m, calls') /\ Complete(m, calls', content)
        <3>1. Unique(m, calls) /\ Complete(m, calls, content)
            BY <1>1, <2>7 DEF Consistent
        <3>2. calls[Len(calls)].curr[calls[Len(calls)].i] = {c}
            BY <1>11, <2>2
        <3>3. L \in 1..L /\ \A d \in 1..L-1 : calls'[d] = calls[d]
            <4>1. L \in 1..L /\ \A d \in 1..L-1 : d \in 1..L
                BY <1>3
            <4> QED
                BY <1>9, <2>5, <4>1
        <3>4. /\ calls'[Len(calls)].pair = calls[Len(calls)].pair
              /\ calls'[Len(calls)].i = calls[Len(calls)].i + 1
              /\ calls'[Len(calls)].old_size = calls[Len(calls)].old_size
              /\ calls'[Len(calls)].curr = calls[Len(calls)].curr
            BY <1>7, <1>9, <1>11, <2>5, <3>3
        <3>5. /\ calls'[Len(calls) + 1].pair = c
              /\ calls'[Len(calls) + 1].i = 0
              /\ calls'[Len(calls) + 1].old_size = 0
            BY <2>3, <2>5
        <3> QED
            BY <1>3, <1>13, <2>5, <3>1, <3>2, <3>3, <3>4, <3>5, MovePlaces
    <2> QED
        BY <1>12, <2>5, <2>6, <2>7
<1> QED
    BY <1>2, <1>14, <1>15

\* Between two operations a search for a key finds the pair that was put in:
\* the probe that sees it is the only one that sees its key.
LEMMA LookupFinds ==
    ASSUME Inv, calls = <<>>, ~tainted, NEW c \in content
    PROVE  \E s \in Found(m, c[1]) : c \in m.elems[s]
<1> DEFINE k == c[1]
<1>1. TypeOK /\ Chained /\ Unique(m, calls) /\ Complete(m, calls, content)
    BY DEF Inv, Consistent
<1>2. /\ m.table_size \in Nat /\ ChainLength <= m.table_size
      /\ hash \in [Key -> HashValues] /\ k \in Key
    BY <1>1, MapFacts DEF TypeOK
<1>3. Len(calls) = 0
    OBVIOUS
<1>4. PICK d \in 0..Len(calls), s \in Int : c \in At(m, calls, d, s)
    BY <1>1 DEF Complete
<1>5. d = 0
    BY <1>3
<1>6. s \in 0..m.table_size-1 /\ c \in m.elems[s]
    BY <1>4, <1>5 DEF At
<1>7. PICK i \in Probes : s = Slot(m.table_size, k, i)
    BY <1>1, <1>6 DEF Chained
<1>8. Holds(m, k, s)
    BY <1>6 DEF Holds
<1>9. ASSUME NEW j \in Probes, Holds(m, k, Slot(m.table_size, k, j))
      PROVE  j = i
    <2> DEFINE u == Slot(m.table_size, k, j)
    <2>1. PICK b \in m.elems[u] : b[1] = k
        BY <1>9 DEF Holds
    <2>2. u \in 0..m.table_size-1
        BY <1>2, SlotRange
    <2> HIDE DEF u
    <2>3. b \in At(m, calls, 0, u) /\ c \in At(m, calls, 0, s)
        BY <1>6, <2>1, <2>2 DEF At
    <2>4. u \in Int /\ s \in Int /\ 0 \in 0..Len(calls)
        BY <1>2, <1>3, <2>2
    <2>5. u = s
        BY <1>1, <2>1, <2>3, <2>4 DEF Unique
    <2> QED
        BY <1>2, <1>7, <2>5, SlotInjective DEF u
<1>10. i \in First({j \in Probes : Holds(m, k, Slot(m.table_size, k, j))})
    <2>1. i \in Int
        BY ConstantsAssumption DEF Probes
    <2> QED
        BY <1>7, <1>8, <1>9, <2>1 DEF First
<1>11. s \in Found(m, k)
    BY <1>7, <1>10 DEF Found
<1> QED
    BY <1>6, <1>11

\* A removal empties the one slot with the key.
LEMMA RemoveKeeps == ASSUME Inv, NEW k \in Key, hashmap_remove(k) PROVE Inv'
<1> DEFINE ct2 == {c \in content : c[1] # k}
<1>1. TypeOK /\ Shape /\ Chained /\ Consistent
    BY DEF Inv
<1>2. /\ calls = <<>> /\ calls' = <<>>
      /\ \/ Found(m, k) = {} /\ m' = m
         \/ \E s \in Found(m, k) : m' = [m EXCEPT !.elems[s] = Unused, !.size = @ - 1]
      /\ content' = ct2 /\ hash' = hash /\ tainted' = tainted
    BY DEF hashmap_remove
<1>3. /\ m.table_size \in Nat /\ ChainLength <= m.table_size
      /\ \A s \in 0..m.table_size-1 : m.elems[s] \in SlotSet
    BY <1>1, MapFacts
<1>4. /\ hash \in [Key -> HashValues] /\ m.elems \in [0..m.table_size-1 -> SlotSet]
      /\ m.size = Cardinality(Used(m)) /\ content \subseteq Key \X Value
      /\ m.table_size \in InitialSize..MaxTable
    BY <1>1 DEF TypeOK
<1>5. m = [elems |-> m.elems, table_size |-> m.table_size, size |-> m.size]
    BY <1>1 DEF Shape
<1>6. content' \subseteq Key \X Value
    BY <1>2, <1>4
<1>7. CASE Found(m, k) = {} /\ m' = m
    <2>1. Shape' /\ Chained'
        BY <1>1, <1>2, <1>7 DEF Shape, Chained, Slot
    <2>2. TypeOK'
        BY <1>1, <1>2, <1>6, <1>7 DEF TypeOK, Used
    <2>3. Consistent'
        <3> SUFFICES ASSUME ~tainted
                     PROVE  Unique(m, calls) /\ Complete(m, calls, ct2)
            BY <1>2, <1>7 DEF Consistent
        <3>1. Unique(m, calls) /\ Complete(m, calls, content)
            BY <1>1 DEF Consistent
        <3>2. ASSUME NEW c \in content, c[1] = k
              PROVE  FALSE
            BY <1>2, <1>7, <3>2, LookupFinds
        <3>3. ct2 = content
            <4>1. \A c : c \in ct2 <=> c \in content
                BY <3>2
            <4> QED
                BY <4>1, Zenon
        <3> QED
            BY <3>1, <3>3
    <2> QED
        BY <2>1, <2>2, <2>3 DEF Inv
<1>8. ASSUME NEW s \in Found(m, k), m' = [m EXCEPT !.elems[s] = Unused, !.size = @ - 1]
      PROVE  Inv'
    <2>1. PICK i \in Probes : s = Slot(m.table_size, k, i) /\ Holds(m, k, s)
        BY <1>8, FoundProbe
    <2>2. s \in 0..m.table_size-1 /\ s \in Int
        BY <1>3, <1>4, <2>1, SlotRange
    <2>3. PICK b \in m.elems[s] : b[1] = k
        BY <2>1 DEF Holds
    <2>4. m.elems[s] # {} /\ \A c \in m.elems[s] : c[1] = k
        BY <1>3, <2>2, <2>3, SlotElements
    <2> DEFINE z == m.size - 1
               x == Unused
    <2>5. m' = [m EXCEPT !.elems[s] = x, !.size = z] /\ x \in SlotSet /\ x = {}
        BY <1>8 DEF SlotSet, Unused
    <2> HIDE DEF z, x
    <2>6. /\ m' = [elems |-> m'.elems, table_size |-> m'.table_size, size |-> m'.size]
          /\ m'.table_size = m.table_size /\ m'.size = z
          /\ m'.elems \in [0..m.table_size-1 -> SlotSet]
          /\ \A j \in 0..m.table_size-1 : m'.elems[j] = IF j = s THEN x ELSE m.elems[j]
        BY <1>3, <1>4, <1>5, <2>2, <2>5, SlotChange
    <2>7. \A j \in 0..m.table_size-1 : m'.elems[j] = IF j = s THEN {} ELSE m.elems[j]
        BY <2>5, <2>6
    <2>8. Shape'
        BY <1>1, <1>2, <2>6 DEF Shape
    <2>9. TypeOK'
        <3>1. Cardinality(Used(m')) = Cardinality(Used(m)) - 1
            BY <1>3, <2>2, <2>4, <2>6, <2>7, UsedShrinks
        <3>2. m'.size = Cardinality(Used(m'))
            BY <1>4, <2>6, <3>1 DEF z
        <3>3. Used(m') = Used(m)'
            BY DEF Used
        <3> QED
            BY <1>1, <1>2, <1>4, <1>6, <2>6, <3>2, <3>3 DEF TypeOK
    <2>10. Chained'
        <3>1. ASSUME NEW u \in 0..m.table_size-1, NEW c \in m'.elems[u]
              PROVE  \E j \in Probes : u = Slot(m.table_size, c[1], j)
            <4>1. c \in m.elems[u]
                BY <2>7, <3>1
            <4> QED
                BY <1>1, <4>1 DEF Chained
        <3>2. m'.table_size = m.table_size /\ hash' = hash
            BY <1>2, <2>6
        <3> QED
            BY <3>1, <3>2 DEF Chained, Slot
    <2>11. Consistent'
        <3> SUFFICES ASSUME ~tainted
                     PROVE  Unique(m', calls') /\ Complete(m', calls', ct2)
            BY <1>2 DEF Consistent
        <3>1. calls' = calls /\ Len(calls) = 0
            BY <1>2
        <3>2. m'.table_size = m.table_size
            BY <2>6
        <3> HIDE DEF ct2
        <3>3. \A c : c \in ct2 <=> c \in content /\ c[1] # k
            BY DEF ct2
        <3>4. Unique(m, calls) /\ Complete(m, calls, content)
            BY <1>1 DEF Consistent
        <3> QED
            BY <2>2, <2>4, <2>7, <3>1, <3>2, <3>3, <3>4, RemovePlaces
    <2> QED
        BY <2>8, <2>9, <2>10, <2>11 DEF Inv
<1> QED
    BY <1>2, <1>7, <1>8

\* A new map is empty.
LEMMA DestroyKeeps == ASSUME Inv, hashmap_destroy PROVE Inv'
<1>1. /\ calls = <<>> /\ calls' = <<>> /\ m' = Blank(InitialSize)
      /\ content' = {} /\ tainted' = FALSE /\ hash' = hash
    BY DEF hashmap_destroy
<1>2. hash \in [Key -> HashValues]
    BY DEF Inv, TypeOK
<1>3. Init'
    BY <1>1, <1>2 DEF Init, Blank, Unused
<1> QED
    BY <1>3, InvInit, PTL

\* Every step keeps the invariant.
LEMMA InvStep == Inv /\ [Next]_vars => Inv'
<1> SUFFICES ASSUME Inv, [Next]_vars PROVE Inv'
    OBVIOUS
<1>1. CASE UNCHANGED vars
    <2>1. hash' = hash /\ m' = m /\ calls' = calls /\ content' = content /\ tainted' = tainted
        BY <1>1 DEF vars
    <2>2. TypeOK' /\ Chained'
        BY <2>1 DEF Inv, TypeOK, Chained, Used, Slot
    <2>3. Shape' /\ Consistent'
        BY <2>1 DEF Inv, Shape, Consistent
    <2> QED
        BY <2>2, <2>3 DEF Inv
<1>2. CASE Next
    BY <1>2, PutKeeps, StoreKeeps, KeyUsedKeeps, RehashKeeps, OutOfMemoryKeeps,
       CopyNextKeeps, RemoveKeeps, DestroyKeeps DEF Next
<1> QED
    BY <1>1, <1>2

-----------------------------------------------------------------------------
\* The slots hold at most one pair, size is the number of used slots at every
\* moment of a put, and the table stays within its bounds.
THEOREM TypeCorrect == Spec => []TypeOK
<1>1. Inv => TypeOK
    BY DEF Inv
<1> QED
    BY <1>1, InvInit, InvStep, PTL DEF Spec

\* Between two operations hashmap_get answers for every key what was put in and
\* not removed, and the table holds nothing else and no key twice: whatever the
\* hash function, the chain length and the sizes of the tables are.
THEOREM Agreement == Spec => []Agrees
<1>1. Inv => Agrees
    <2> SUFFICES ASSUME Inv, calls = <<>>, ~tainted
                 PROVE  /\ \A k \in Key : hashmap_get(m, k) = {v \in Value : <<k, v>> \in content}
                        /\ \A s \in Used(m) : m.elems[s] \subseteq content
                        /\ \A s, u \in Used(m) :
                              (\E k \in Key : Holds(m, k, s) /\ Holds(m, k, u)) => s = u
        BY DEF Agrees
    <2>1. TypeOK /\ Unique(m, calls) /\ Complete(m, calls, content)
        BY DEF Inv, Consistent
    <2>2. /\ m.table_size \in Nat /\ ChainLength <= m.table_size
          /\ \A s \in 0..m.table_size-1 : m.elems[s] \in SlotSet
          /\ hash \in [Key -> HashValues] /\ content \subseteq Key \X Value
        BY <2>1, MapFacts DEF TypeOK
    <2>3. \A s \in 0..m.table_size-1 : s \in Int /\ At(m, calls, 0, s) = m.elems[s]
        BY <2>2 DEF At
    <2>4. 0 \in 0..Len(calls)
        OBVIOUS
    <2>5. \A s \in 0..m.table_size-1 : m.elems[s] \subseteq content
        BY <2>1, <2>3, <2>4 DEF Complete
    <2>6. ASSUME NEW s \in 0..m.table_size-1, NEW u \in 0..m.table_size-1,
                 NEW k, Holds(m, k, s), Holds(m, k, u)
          PROVE  s = u
        <3>1. PICK b \in m.elems[s] : b[1] = k
            BY <2>6 DEF Holds
        <3>2. PICK c \in m.elems[u] : c[1] = k
            BY <2>6 DEF Holds
        <3> QED
            BY <2>1, <2>3, <2>4, <3>1, <3>2 DEF Unique
    <2>7. ASSUME NEW k \in Key
          PROVE  hashmap_get(m, k) = {v \in Value : <<k, v>> \in content}
        <3>1. ASSUME NEW v \in hashmap_get(m, k)
              PROVE  v \in Value /\ <<k, v>> \in content
            <4>0. PICK s \in Found(m, k) : \E c \in m.elems[s] : v = c[2]
                BY <3>1 DEF hashmap_get
            <4>1. PICK c \in m.elems[s] : v = c[2]
                BY <4>0
            <4>2. PICK i \in Probes : s = Slot(m.table_size, k, i) /\ Holds(m, k, s)
                BY FoundProbe
            <4>3. s \in 0..m.table_size-1
                BY <2>2, <4>2, SlotRange
            <4>4. c[1] = k
                BY <2>2, <4>2, <4>3, SlotElements DEF Holds
            <4>5. c \in content /\ c \in Key \X Value
                BY <2>2, <2>5, <4>3
            <4>6. c = <<k, v>>
                BY <4>1, <4>4, <4>5
            <4> QED
                BY <4>5, <4>6
        <3>2. ASSUME NEW v \in Value, <<k, v>> \in content
              PROVE  v \in hashmap_get(m, k)
            <4> DEFINE c == <<k, v>>
            <4>1. c[1] = k /\ c[2] = v
                OBVIOUS
            <4>2. PICK s \in Found(m, c[1]) : c \in m.elems[s]
                BY <3>2, LookupFinds
            <4> QED
                BY <4>1, <4>2 DEF hashmap_get
        <3>3. \A v : v \in hashmap_get(m, k) <=> v \in {w \in Value : <<k, w>> \in content}
            BY <3>1, <3>2
        <3> QED
            BY <3>3, Zenon
    <2> QED
        BY <2>5, <2>6, <2>7 DEF Used
<1> QED
    BY <1>1, InvInit, InvStep, PTL DEF Spec

\* A copy never ends with HMAP_E_KEYUSED, which hashmap_put would ignore,
\* however often it is copied again, unless a present key was stored twice.
THEOREM Copies == Spec => CopiesComplete
<1>1. Inv => (KeyUsed /\ ~tainted => Len(calls) = 1)
    BY KeyUsedByClient
<1> QED
    BY <1>1, InvInit, InvStep, PTL DEF Spec, CopiesComplete

=============================================================================
