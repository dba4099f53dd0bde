------------------------------ MODULE HashMap ------------------------------
(***************************************************************************)
(* The open-addressing hash map of the daemon.  A key is looked for in the *)
(* ChainLength slots that follow its hash; a map that is half full, or     *)
(* whose chain for a key is full, is copied into one twice as large.       *)
(*                                                                         *)
(* hashmap_put and _hashmap_rehash call each other: the copy puts every    *)
(* element of the old table into the new one, which may overflow again.    *)
(* `calls' is the stack of the puts under way, the client's call at its    *)
(* bottom; one step of the model is one iteration of a loop of theirs.     *)
(* The other operations are one step each, and none starts during a put.   *)
(*                                                                         *)
(* The hash function is any function, chosen once; the table size that     *)
(* calloc refuses is a bound of the model.                                 *)
(***************************************************************************)
EXTENDS Integers, Sequences, FiniteSets

CONSTANTS
    Key, Value,
    HashValues,   \* what the hash of a key may be, before the modulus
    InitialSize,  \* HMAP_INITIAL_SIZE
    ChainLength,  \* HMAP_CHAIN_LENGTH
    MaxTable      \* bound: the largest table there is memory for

ASSUME ConstantsAssumption ==
    /\ HashValues \subseteq Nat
    /\ InitialSize \in Nat /\ ChainLength \in Nat \ {0} /\ MaxTable \in Nat
    /\ ChainLength <= InitialSize /\ InitialSize <= MaxTable

VARIABLES
    hash,     \* of each key: crc32 and the two mixes
    m,        \* the map: elems, table_size and size
    calls,    \* the calls of hashmap_put under way, the client's first
    content,  \* auxiliary: the pairs a client put in and did not remove
    tainted   \* auxiliary: a present key was stored again, or a copy ran out of memory

vars == <<hash, m, calls, content, tainted>>

-----------------------------------------------------------------------------
(* A slot is the set of the pairs in it: none if unused, else one.          *)

Unused == {}

\* A map as calloc leaves it.
Blank(n) == [elems |-> [i \in 0..n-1 |-> Unused], table_size |-> n, size |-> 0]

Used(h) == {s \in 0..h.table_size-1 : h.elems[s] # Unused}

Holds(h, k, s) == \E c \in h.elems[s] : c[1] = k

\* The slot of the i-th probe for a key: (_find_hash_index + i) % table_size.
Slot(n, k, i) ==
    LET curr == (hash[k] % n) + i IN IF curr < n THEN curr ELSE curr - n

Probes == 0..ChainLength-1

First(P) == {i \in P : \A j \in P : i <= j}

\* The probes that end the search for a place: the slot is free or has the key.
Places(h, k) ==
    {i \in Probes : LET s == Slot(h.table_size, k, i)
                    IN  h.elems[s] = Unused \/ Holds(h, k, s)}

Overflows(h, k) == h.size >= h.table_size \div 2 \/ Places(h, k) = {}

\* Where _hashmap_hash puts a key, when the map does not overflow.
Index(h, k) == {Slot(h.table_size, k, i) : i \in First(Places(h, k))}

\* Mutant: the search ends at the first slot that is not used.
FoundToUnused(h, k) ==
    {Slot(h.table_size, k, i) : i \in
        {j \in First(Places(h, k)) : Holds(h, k, Slot(h.table_size, k, j))}}

\* hashmap_get and hashmap_remove: the first slot of the chain with the key.
Found(h, k) ==
    {Slot(h.table_size, k, i) : i \in
        First({j \in Probes : Holds(h, k, Slot(h.table_size, k, j))})}

\* The data of the key, or nothing.
hashmap_get(h, k) == {c[2] : c \in UNION {h.elems[s] : s \in Found(h, k)}}

-----------------------------------------------------------------------------
\* A call of hashmap_put with a pair.  While its _hashmap_rehash runs, curr is
\* the old table, of which the slots from i on are still to be copied.
Frame(c) == [pair |-> c, curr |-> <<>>, old_size |-> 0, i |-> 0]

Top == calls[Len(calls)]

Pop == SubSeq(calls, 1, Len(calls) - 1)

\* The loop of _hashmap_rehash that the innermost call runs.
Copying == Top.i < Top.old_size

Present(k) == \E c \in content : c[1] = k

-----------------------------------------------------------------------------
\* hashmap_create.
Init ==
    /\ hash \in [Key -> HashValues]
    /\ m = Blank(InitialSize)
    /\ calls = <<>>
    /\ content = {}
    /\ tainted = FALSE

\* A client calls hashmap_put.
hashmap_put(k, v) ==
    /\ calls = <<>>
    /\ calls' = <<Frame(<<k, v>>)>>
    /\ UNCHANGED <<hash, m, content, tainted>>

\* _hashmap_hash finds a free slot for the innermost call: the pair is stored
\* and the call returns HMAP_S_OK.  A client's put of a present key gets here
\* when a slot before the key's own was freed, and stores it a second time.
Store ==
    /\ calls # <<>> /\ ~Copying
    /\ ~Overflows(m, Top.pair[1])
    /\ \E s \in Index(m, Top.pair[1]) :
        /\ m.elems[s] = Unused
        /\ m' = [m EXCEPT !.elems[s] = {Top.pair}, !.size = @ + 1]
    /\ calls' = Pop
    /\ content' = IF Len(calls) = 1 THEN content \cup {Top.pair} ELSE content
    /\ tainted' = (tainted \/ (Len(calls) = 1 /\ Present(Top.pair[1])))
    /\ UNCHANGED hash

\* It finds the key: the call returns HMAP_E_KEYUSED, which ends the loop of
\* the copy it was made for.
KeyUsed ==
    /\ calls # <<>> /\ ~Copying
    /\ ~Overflows(m, Top.pair[1])
    /\ \E s \in Index(m, Top.pair[1]) : m.elems[s] # Unused
    /\ calls' = [d \in 1..Len(calls)-1 |->
                    IF d = Len(calls) - 1 THEN [calls[d] EXCEPT !.i = calls[d].old_size]
                                          ELSE calls[d]]
    /\ UNCHANGED <<hash, m, content, tainted>>

\* Mutant: the size is not reset for the copy.
RehashKeepsSize ==
    /\ calls # <<>> /\ ~Copying
    /\ Overflows(m, Top.pair[1])
    /\ 2 * m.table_size <= MaxTable
    /\ m' = [Blank(2 * m.table_size) EXCEPT !.size = m.size]
    /\ calls' = [calls EXCEPT ![Len(calls)] =
                    [@ EXCEPT !.curr = m.elems, !.old_size = m.table_size, !.i = 0]]
    /\ UNCHANGED <<hash, content, tainted>>

\* Mutant: the table is grown in place, its elements where they were.
RehashInPlace ==
    /\ calls # <<>> /\ ~Copying
    /\ Overflows(m, Top.pair[1])
    /\ 2 * m.table_size <= MaxTable
    /\ m' = [Blank(2 * m.table_size) EXCEPT
                !.elems = [i \in DOMAIN @ |-> IF i < m.table_size THEN m.elems[i] ELSE Unused],
                !.size = m.size]
    /\ calls' = [calls EXCEPT ![Len(calls)] =
                    [@ EXCEPT !.curr = m.elems, !.old_size = m.table_size, !.i = 0]]
    /\ UNCHANGED <<hash, content, tainted>>

\* It overflows: _hashmap_rehash sets up a table twice as large.
Rehash ==
    /\ calls # <<>> /\ ~Copying
    /\ Overflows(m, Top.pair[1])
    /\ 2 * m.table_size <= MaxTable
    /\ m' = Blank(2 * m.table_size)
    /\ calls' = [calls EXCEPT ![Len(calls)] =
                    [@ EXCEPT !.curr = m.elems, !.old_size = m.table_size, !.i = 0]]
    /\ UNCHANGED <<hash, content, tainted>>

\* There is no memory for it: HMAP_E_OUTMEM ends every call under way, and what
\* a copy has not yet moved is lost.
OutOfMemory ==
    /\ calls # <<>> /\ ~Copying
    /\ Overflows(m, Top.pair[1])
    /\ 2 * m.table_size > MaxTable
    /\ calls' = <<>>
    /\ tainted' = (tainted \/ Len(calls) > 1)
    /\ UNCHANGED <<hash, m, content>>

\* The next slot of the old table: its element, if any, is put into the new one.
CopyNext ==
    /\ calls # <<>> /\ Copying
    /\ LET rest == [calls EXCEPT ![Len(calls)].i = @ + 1]
       IN  \/ Top.curr[Top.i] = Unused /\ calls' = rest
           \/ \E c \in Top.curr[Top.i] : calls' = Append(rest, Frame(c))
    /\ UNCHANGED <<hash, m, content, tainted>>

\* hashmap_remove: the slot is blank again, with nothing to mark that it was
\* used.
hashmap_remove(k) ==
    /\ calls = <<>>
    /\ \/ Found(m, k) = {} /\ UNCHANGED m
       \/ \E s \in Found(m, k) : m' = [m EXCEPT !.elems[s] = Unused, !.size = @ - 1]
    /\ content' = {c \in content : c[1] # k}
    /\ UNCHANGED <<hash, calls, tainted>>

\* hashmap_destroy; a client may create another map.
hashmap_destroy ==
    /\ calls = <<>>
    /\ m' = Blank(InitialSize)
    /\ content' = {} /\ tainted' = FALSE
    /\ UNCHANGED <<hash, calls>>

Next ==
    \/ \E k \in Key : hashmap_remove(k) \/ \E v \in Value : hashmap_put(k, v)
    \/ Store \/ KeyUsed \/ Rehash \/ OutOfMemory \/ CopyNext
    \/ hashmap_destroy

Spec == Init /\ [][Next]_vars

-----------------------------------------------------------------------------
SlotSet == {Unused} \cup {{c} : c \in Key \X Value}

\* The slots hold at most one pair each and size counts the used ones, in the
\* middle of a copy too; the calls hold pairs and old tables.
TypeOK ==
    /\ hash \in [Key -> HashValues]
    /\ m.table_size \in InitialSize..MaxTable
    /\ m.elems \in [0..m.table_size-1 -> SlotSet]
    /\ m.size = Cardinality(Used(m))
    /\ content \subseteq Key \X Value
    /\ \A d \in DOMAIN calls : /\ calls[d].pair \in Key \X Value
                               /\ calls[d].i \in 0..calls[d].old_size

\* However keys collide, and through every removal and every copy into a
\* larger table, also one that overflows itself, the map gives back for each
\* key what a client put in and did not remove, and keeps nothing else and
\* nothing twice, unless a present key was stored a second time or a copy ran
\* out of memory half-way.
Agrees ==
    calls = <<>> /\ ~tainted =>
        /\ \A k \in Key : hashmap_get(m, k) = {v \in Value : <<k, v>> \in content}
        /\ \A s \in Used(m) : m.elems[s] \subseteq content
        /\ \A s, u \in Used(m) :
               (\E k \in Key : Holds(m, k, s) /\ Holds(m, k, u)) => s = u

\* hashmap_put tests what _hashmap_rehash returns only for HMAP_E_OUTMEM, so a
\* copy that ended with HMAP_E_KEYUSED would lose the rest of the old table
\* unnoticed.  It never does, even if it is copied again itself, unless a
\* present key was stored a second time: only a client is told KEYUSED.
CopiesComplete == [][KeyUsed /\ ~tainted => Len(calls) = 1]_vars
=============================================================================
