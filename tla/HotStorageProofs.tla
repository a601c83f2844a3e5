-------------------------- MODULE HotStorageProofs --------------------------
(***************************************************************************)
(* The books of the LSMIndex for any number of threads, keys and batches,  *)
(* the thread that is stuck for ever, the MemTable as a dictionary, and    *)
(* the SSTable that answers as the MemTable it was written from.           *)
(***************************************************************************)
EXTENDS HotStorage, FiniteSetTheorems, WellFoundedInduction, TLAPS

\* What a table's map gives a key.
Slot == [value : Nat, seq : Nat, deleted : BOOLEAN]

Maps == UNION {[K -> Slot] : K \in SUBSET Keys}

Memtable == [entries : Maps, size : 0 .. MaxSize]

\* The size of a table covers each of its live entries.
Covered(m) ==
    \A k \in DOMAIN m.entries :
        ~m.entries[k].deleted => EntrySize(k, m.entries[k].value) <= m.size

Statistics == [writes : Nat, total_keys : Nat, memtable_size : Nat, reads : Nat,
               range_queries : Nat]

\* Types, and that a number is drawn only for an entry that is to be put.
Typed ==
    /\ memtables \in [Threads -> Memtable] /\ shared \in Memtable
    /\ drawn \in [Threads -> Nat \cup {NoSeq}]
    /\ todo \in [Threads -> Seq(Keys \X Values)]
    /\ sequence_counter \in 0 .. MaxSeq /\ deletes \in Nat
    /\ stats \in Statistics
    /\ \A t \in Threads : Covered(memtables[t])
    /\ Covered(shared)
    /\ \A t \in Threads : drawn[t] # NoSeq => todo[t] # << >>

-----------------------------------------------------------------------------
(* MemTable's operations *)

\* Entering an entry changes one key and no other.
LEMMA EnteredMap ==
    ASSUME NEW f \in Maps, NEW k \in Keys, NEW e \in Slot
    PROVE  /\ Entered(f, k, e) \in Maps
           /\ DOMAIN Entered(f, k, e) = DOMAIN f \cup {k}
           /\ Entered(f, k, e)[k] = e
           /\ \A j \in DOMAIN f : j # k => Entered(f, k, e)[j] = f[j]
<1>1. PICK K \in SUBSET Keys : f \in [K -> Slot]  BY DEF Maps
<1>2. DOMAIN f = K /\ K \cup {k} \in SUBSET Keys  BY <1>1
<1>3. Entered(f, k, e) \in [K \cup {k} -> Slot]  BY <1>1, <1>2 DEF Entered
<1>4. QED  BY <1>2, <1>3 DEF Entered, Maps

\* A table's fields, and its map's keys and values.
LEMMA TableFields ==
    ASSUME NEW m \in Memtable
    PROVE  /\ m.entries \in Maps /\ m.size \in 0 .. MaxSize /\ m.size \in Int
           /\ DOMAIN m.entries \subseteq Keys
           /\ \A k \in DOMAIN m.entries : m.entries[k] \in Slot
<1>1. m.entries \in Maps /\ m.size \in 0 .. MaxSize  BY DEF Memtable
<1>2. PICK K \in SUBSET Keys : m.entries \in [K -> Slot]  BY <1>1 DEF Maps
<1>3. DOMAIN m.entries = K  BY <1>2
<1>4. m.size \in Int  BY <1>1, MemTableAssumption
<1>5. QED  BY <1>1, <1>2, <1>3, <1>4

\* The size of an entry is a positive number.
LEMMA EntrySizeNat ==
    ASSUME NEW k \in Keys, NEW v \in Nat
    PROVE  EntrySize(k, v) \in Nat \ {0}
<1>1. Len(k) \in Nat  BY MemTableAssumption
<1>2. QED  BY <1>1, MemTableAssumption DEF EntrySize

\* put: a refused entry changes nothing, an accepted one its key only, and the
\* size goes on covering every entry.
LEMMA PutEffect ==
    ASSUME NEW m \in Memtable, Covered(m), NEW k \in Keys, NEW v \in Values, NEW seq \in Nat
    PROVE  /\ MemPut(m, k, v, seq) \in Memtable
           /\ Covered(MemPut(m, k, v, seq))
           /\ ~Fits(m, k, v) => MemPut(m, k, v, seq) = m
           /\ Fits(m, k, v) =>
                /\ MemPut(m, k, v, seq).entries
                       = Entered(m.entries, k, [value |-> v, seq |-> seq, deleted |-> FALSE])
                /\ DOMAIN MemPut(m, k, v, seq).entries = DOMAIN m.entries \cup {k}
                /\ MemPut(m, k, v, seq).entries[k] = [value |-> v, seq |-> seq, deleted |-> FALSE]
                /\ \A j \in DOMAIN m.entries :
                     j # k => MemPut(m, k, v, seq).entries[j] = m.entries[j]
<1>1. CASE ~Fits(m, k, v)  BY <1>1 DEF MemPut
<1>2. CASE Fits(m, k, v)
  <2> DEFINE e == [value |-> v, seq |-> seq, deleted |-> FALSE]
             n == MemPut(m, k, v, seq)
  <2>1. v \in Nat /\ e \in Slot  BY MemTableAssumption DEF Slot
  <2>2. EntrySize(k, v) \in Nat  BY <2>1, EntrySizeNat
  <2>3. m.entries \in Maps /\ m.size \in 0 .. MaxSize /\ m.size \in Int
        /\ \A j \in DOMAIN m.entries : m.entries[j] \in Slot
    BY TableFields
  <2>4. n = [entries |-> Entered(m.entries, k, e), size |-> m.size + EntrySize(k, v)]
    BY <1>2 DEF MemPut
  <2> HIDE DEF e, n
  <2>5. n.entries = Entered(m.entries, k, e) /\ n.size = m.size + EntrySize(k, v)
    BY <2>4
  <2>6. /\ Entered(m.entries, k, e) \in Maps
        /\ DOMAIN n.entries = DOMAIN m.entries \cup {k} /\ n.entries[k] = e
        /\ \A j \in DOMAIN m.entries : j # k => n.entries[j] = m.entries[j]
    <3>1. /\ Entered(m.entries, k, e) \in Maps
          /\ DOMAIN Entered(m.entries, k, e) = DOMAIN m.entries \cup {k}
          /\ Entered(m.entries, k, e)[k] = e
          /\ \A j \in DOMAIN m.entries : j # k => Entered(m.entries, k, e)[j] = m.entries[j]
      BY <2>1, <2>3, EnteredMap
    <3>2. QED  BY <2>5, <3>1
  <2>7. n.size \in 0 .. MaxSize
    BY <1>2, <2>2, <2>3, <2>5, MemTableAssumption DEF Fits
  <2>8. n \in Memtable  BY <2>4, <2>5, <2>6, <2>7 DEF Memtable
  <2>9. Covered(n)
    <3>1. SUFFICES ASSUME NEW j \in DOMAIN n.entries, ~n.entries[j].deleted
                   PROVE  EntrySize(j, n.entries[j].value) <= n.size
      BY DEF Covered
    <3>2. CASE j = k
      <4>1. n.entries[j].value = v  BY <2>6, <3>2 DEF e
      <4>2. EntrySize(k, v) <= m.size + EntrySize(k, v)
        BY <2>2, <2>3
      <4>3. QED  BY <2>5, <3>2, <4>1, <4>2
    <3>3. CASE j # k
      <4>1. j \in DOMAIN m.entries /\ n.entries[j] = m.entries[j]  BY <2>6, <3>1, <3>3
      <4>2. EntrySize(j, m.entries[j].value) <= m.size  BY <3>1, <4>1 DEF Covered
      <4>3. EntrySize(j, m.entries[j].value) \in Nat
        <5>1. j \in Keys /\ m.entries[j].value \in Nat  BY <4>1, TableFields DEF Slot
        <5>2. QED  BY <5>1, EntrySizeNat
      <4>4. EntrySize(j, m.entries[j].value) <= n.size
        BY <2>2, <2>3, <2>5, <4>2, <4>3
      <4>5. QED  BY <4>1, <4>4
    <3>4. QED  BY <3>2, <3>3
  <2>10. QED  BY <1>2, <2>5, <2>6, <2>8, <2>9 DEF e, n
<1>3. QED  BY <1>1, <1>2

\* remove: a tombstone under the key, and nothing else.
LEMMA RemoveEffect ==
    ASSUME NEW m \in Memtable, Covered(m), NEW k \in Keys, NEW seq \in Nat
    PROVE  /\ MemRemove(m, k, seq) \in Memtable
           /\ Covered(MemRemove(m, k, seq))
           /\ DOMAIN MemRemove(m, k, seq).entries = DOMAIN m.entries \cup {k}
           /\ MemRemove(m, k, seq).entries[k].deleted
           /\ \A j \in DOMAIN m.entries :
                j # k => MemRemove(m, k, seq).entries[j] = m.entries[j]
<1> DEFINE e == [value |-> 0, seq |-> seq, deleted |-> TRUE]
           n == MemRemove(m, k, seq)
<1>1. e \in Slot /\ e.deleted  BY DEF Slot
<1>2. m.entries \in Maps /\ m.size \in 0 .. MaxSize  BY TableFields
<1>3. n.entries = Entered(m.entries, k, e) /\ n.size = m.size
      /\ n = [entries |-> n.entries, size |-> n.size]
  BY DEF MemRemove, Memtable
<1> HIDE DEF e, n
<1>4. /\ Entered(m.entries, k, e) \in Maps
      /\ DOMAIN n.entries = DOMAIN m.entries \cup {k} /\ n.entries[k] = e
      /\ \A j \in DOMAIN m.entries : j # k => n.entries[j] = m.entries[j]
  <2>1. /\ Entered(m.entries, k, e) \in Maps
        /\ DOMAIN Entered(m.entries, k, e) = DOMAIN m.entries \cup {k}
        /\ Entered(m.entries, k, e)[k] = e
        /\ \A j \in DOMAIN m.entries : j # k => Entered(m.entries, k, e)[j] = m.entries[j]
    BY <1>1, <1>2, EnteredMap
  <2>2. QED  BY <1>3, <2>1
<1>5. n \in Memtable  BY <1>2, <1>3, <1>4 DEF Memtable
<1>6. Covered(n)
  <2>1. SUFFICES ASSUME NEW j \in DOMAIN n.entries, ~n.entries[j].deleted
                 PROVE  EntrySize(j, n.entries[j].value) <= n.size
    BY DEF Covered
  <2>2. j # k  BY <1>1, <1>4, <2>1
  <2>3. j \in DOMAIN m.entries /\ n.entries[j] = m.entries[j]  BY <1>4, <2>1, <2>2
  <2>4. QED  BY <1>3, <2>1, <2>3 DEF Covered
<1>7. QED  BY <1>1, <1>4, <1>5, <1>6 DEF n

\* A new table is an empty one.
LEMMA NewTableEmpty ==
    /\ NewTable \in Memtable /\ Covered(NewTable)
    /\ DOMAIN NewTable.entries = {} /\ NewTable.size = 0
<1>1. << >> \in [{} -> Slot] /\ {} \in SUBSET Keys /\ DOMAIN << >> = {}  OBVIOUS
<1>2. << >> \in Maps  BY <1>1 DEF Maps
<1>3. 0 \in 0 .. MaxSize  BY MemTableAssumption
<1>4. QED  BY <1>1, <1>2, <1>3 DEF NewTable, Memtable, Covered

-----------------------------------------------------------------------------
(* Types *)

\* The three ways the statistics are counted up leave numbers.
LEMMA CountedUp ==
    ASSUME NEW s \in Statistics, NEW n \in Nat
    PROVE  /\ [s EXCEPT !.writes = @ + 1, !.total_keys = @ + 1, !.memtable_size = n] \in Statistics
           /\ [s EXCEPT !.reads = @ + 1] \in Statistics
           /\ [s EXCEPT !.range_queries = @ + 1] \in Statistics
<1>1. /\ s.writes + 1 \in Nat /\ s.total_keys + 1 \in Nat
      /\ s.reads + 1 \in Nat /\ s.range_queries + 1 \in Nat
  BY DEF Statistics
<1>2. [s EXCEPT !.writes = @ + 1, !.total_keys = @ + 1, !.memtable_size = n] \in Statistics
  BY <1>1 DEF Statistics
<1>3. [s EXCEPT !.reads = @ + 1] \in Statistics  BY <1>1 DEF Statistics
<1>4. [s EXCEPT !.range_queries = @ + 1] \in Statistics  BY <1>1, Zenon DEF Statistics
<1>5. QED  BY <1>2, <1>3, <1>4

\* A new storage has the types.
LEMMA InitTyped == Init => Typed
<1>1. SUFFICES ASSUME Init PROVE Typed  OBVIOUS
<1>2. << >> \in Seq(Keys \X Values) /\ 0 \in 0 .. MaxSeq
  BY StorageAssumption
<1>3. \A t \in Threads : drawn[t] = NoSeq /\ memtables[t] = NewTable  BY <1>1 DEF Init
<1>4. /\ memtables \in [Threads -> Memtable] /\ drawn \in [Threads -> Nat \cup {NoSeq}]
      /\ todo \in [Threads -> Seq(Keys \X Values)]
  BY <1>1, <1>2, NewTableEmpty DEF Init
<1>5. stats \in Statistics
  BY <1>1 DEF Init, Statistics
<1>6. QED  BY <1>1, <1>2, <1>3, <1>4, <1>5, NewTableEmpty DEF Init, Typed

\* The entry a thread is putting, and the table it goes to.
LEMMA PutUnderWay ==
    ASSUME Typed, NEW t \in Threads, todo[t] # << >>
    PROVE  /\ todo[t][1][1] \in Keys /\ todo[t][1][2] \in Values
           /\ Tail(todo[t]) \in Seq(Keys \X Values)
           /\ memtables[t] \in Memtable /\ Covered(memtables[t])
           /\ Replaced(memtables[t]) \in Memtable
           /\ Covered(Replaced(memtables[t]))
           /\ Replaced(memtables[t]) \in {memtables[t], NewTable}
<1>1. todo[t] \in Seq(Keys \X Values)  BY DEF Typed
<1>2. todo[t][1] \in Keys \X Values /\ Tail(todo[t]) \in Seq(Keys \X Values)  BY <1>1
<1>3. memtables[t] \in Memtable /\ Covered(memtables[t])  BY DEF Typed
<1>4. QED  BY <1>2, <1>3, NewTableEmpty DEF Replaced

\* The rest of put by thread t, of (k, v) into table m.
Stores(t, m, k, v) ==
    /\ m \in Memtable /\ Covered(m) /\ m = Replaced(memtables[t])
    /\ drawn[t] \in Nat /\ drawn[t] # NoSeq
    /\ memtables' = [memtables EXCEPT ![t] = MemPut(m, k, v, drawn[t])]
    /\ drawn' = [drawn EXCEPT ![t] = NoSeq]
    /\ stats' = [stats EXCEPT !.writes = @ + 1, !.total_keys = @ + 1,
                              !.memtable_size = MemPut(m, k, v, drawn[t]).size]
    /\ UNCHANGED <<part, sequence_counter, deletes>>

\* Whatever entry the thread has in hand, Store is such a step.
LEMMA StoreEffect ==
    ASSUME Typed, NEW t \in Threads, Store(t)
    PROVE  \E m \in {memtables[t], NewTable}, k \in Keys, v \in Values : Stores(t, m, k, v)
<1> DEFINE k == todo[t][1][1]
           v == todo[t][1][2]
           m == Replaced(memtables[t])
<1>1. todo[t] # << >> /\ drawn[t] # NoSeq /\ drawn[t] \in Nat  BY DEF Typed, Store
<1>2. /\ k \in Keys /\ v \in Values /\ m \in {memtables[t], NewTable}
      /\ m \in Memtable /\ Covered(m)
  BY <1>1, PutUnderWay
<1>3. /\ memtables' = [memtables EXCEPT ![t] = MemPut(m, k, v, drawn[t])]
      /\ drawn' = [drawn EXCEPT ![t] = NoSeq]
      /\ stats' = [stats EXCEPT !.writes = @ + 1, !.total_keys = @ + 1,
                                !.memtable_size = MemPut(m, k, v, drawn[t]).size]
      /\ UNCHANGED <<part, sequence_counter, deletes>>
  BY DEF Store, IndexStep
<1>4. Stores(t, m, k, v)  BY <1>1, <1>2, <1>3 DEF Stores
<1> HIDE DEF k, v, m
<1>5. QED  BY <1>2, <1>4

\* Every step preserves the types.
LEMMA NextTyped == Typed /\ [Next]_vars => Typed'
<1>1. SUFFICES ASSUME Typed, [Next]_vars PROVE Typed'  OBVIOUS
<1> USE <1>1
<1>2. ASSUME NEW t \in Threads, Call(t) PROVE Typed'
  <2>1. PICK b \in Batches : todo' = [todo EXCEPT ![t] = b]  BY <1>2 DEF Call
  <2>2. b \in Seq(Keys \X Values)  BY <2>1, StorageAssumption
  <2>3. todo[t] = << >> /\ UNCHANGED <<memtables, shared, drawn, sequence_counter, deletes, stats>>
    BY <1>2 DEF Call, IndexStep, tableVars
  <2>4. \A u \in Threads : drawn[u] # NoSeq => todo'[u] # << >>
    BY <2>1, <2>3 DEF Typed
  <2>5. todo' \in [Threads -> Seq(Keys \X Values)]  BY <2>1, <2>2 DEF Typed
  <2>6. QED  BY <2>3, <2>4, <2>5 DEF Typed
<1>3. ASSUME NEW t \in Threads, Draw(t) PROVE Typed'
  <2>1. /\ todo[t] # << >> /\ sequence_counter < MaxSeq
        /\ drawn' = [drawn EXCEPT ![t] = sequence_counter]
        /\ sequence_counter' = sequence_counter + 1
        /\ UNCHANGED <<memtables, shared, todo, deletes, stats>>
    BY <1>3 DEF Draw, IndexStep, tableVars
  <2>2. sequence_counter \in Nat /\ sequence_counter' \in 0 .. MaxSeq
    BY <2>1, StorageAssumption DEF Typed
  <2>3. drawn' \in [Threads -> Nat \cup {NoSeq}]  BY <2>1, <2>2 DEF Typed
  <2>4. \A u \in Threads : drawn'[u] # NoSeq => todo[u] # << >>
    BY <2>1 DEF Typed
  <2>5. QED  BY <2>1, <2>2, <2>3, <2>4 DEF Typed
<1>4. ASSUME NEW t \in Threads, Store(t) PROVE Typed'
  <2>0. PICK m \in {memtables[t], NewTable}, k \in Keys, v \in Values : Stores(t, m, k, v)
    BY <1>4, StoreEffect
  <2>1. /\ m \in Memtable /\ Covered(m)
        /\ drawn[t] \in Nat /\ drawn[t] # NoSeq
        /\ memtables' = [memtables EXCEPT ![t] = MemPut(m, k, v, drawn[t])]
        /\ drawn' = [drawn EXCEPT ![t] = NoSeq]
        /\ stats' = [stats EXCEPT !.writes = @ + 1, !.total_keys = @ + 1,
                                  !.memtable_size = MemPut(m, k, v, drawn[t]).size]
        /\ UNCHANGED <<part, sequence_counter, deletes>>
    BY <2>0 DEF Stores
  <2>2. MemPut(m, k, v, drawn[t]) \in Memtable /\ Covered(MemPut(m, k, v, drawn[t]))
    BY <2>0, <2>1, PutEffect
  <2>3. /\ memtables' \in [Threads -> Memtable]
        /\ \A u \in Threads : Covered(memtables'[u])
    BY <2>1, <2>2 DEF Typed
  <2>4. MemPut(m, k, v, drawn[t]).size \in Nat
    BY <2>2, MemTableAssumption DEF Memtable
  <2>5. stats' \in Statistics
    BY <2>1, <2>4, CountedUp DEF Typed
  <2>6. drawn' \in [Threads -> Nat \cup {NoSeq}]  BY <2>1 DEF Typed
  <2>7. shared' = shared /\ todo[t] # << >> /\ \E l \in {Tail(todo[t]), << >>} :
            todo' = [todo EXCEPT ![t] = l]
    BY <1>4 DEF Store, IndexStep, tableVars, Typed
  <2>8. todo' \in [Threads -> Seq(Keys \X Values)]
    <3>1. Tail(todo[t]) \in Seq(Keys \X Values) /\ << >> \in Seq(Keys \X Values)
      BY <2>7, PutUnderWay
    <3>2. QED  BY <2>7, <3>1 DEF Typed
  <2>9. \A u \in Threads : drawn'[u] # NoSeq => todo'[u] # << >>
    BY <2>1, <2>7 DEF Typed
  <2>10. QED  BY <2>1, <2>3, <2>5, <2>6, <2>7, <2>8, <2>9 DEF Typed
<1>5. CASE DeleteKey
  <2>1. /\ sequence_counter < MaxSeq /\ sequence_counter' = sequence_counter + 1
        /\ deletes' = deletes + 1 /\ UNCHANGED <<memtables, shared, drawn, todo, stats>>
    BY <1>5 DEF DeleteKey, IndexStep, tableVars
  <2>2. sequence_counter' \in 0 .. MaxSeq /\ deletes' \in Nat
    BY <2>1, StorageAssumption DEF Typed
  <2>3. QED  BY <2>1, <2>2 DEF Typed
<1>6. CASE IndexGet \/ Query
  <2>1. /\ \/ stats' = [stats EXCEPT !.reads = @ + 1]
           \/ stats' = [stats EXCEPT !.range_queries = @ + 1]
        /\ UNCHANGED <<memtables, shared, drawn, todo, sequence_counter, deletes>>
    BY <1>6 DEF IndexGet, Query, IndexStep, tableVars
  <2>2. stats' \in Statistics
    <3>1. stats \in Statistics /\ 0 \in Nat  BY DEF Typed
    <3>2. QED  BY <2>1, <3>1, CountedUp
  <2>3. QED  BY <2>1, <2>2 DEF Typed
<1>7. ASSUME UNCHANGED <<memtables, drawn, todo, stats, deletes>>,
             shared' \in Memtable, Covered(shared'), sequence_counter' \in 0 .. MaxSeq
      PROVE  Typed'
  BY <1>7 DEF Typed
<1>8. CASE TablePut
  <2>1. PICK k \in Keys, v \in Values : shared' = MemPut(shared, k, v, sequence_counter)
    BY <1>8 DEF TablePut
  <2>2. /\ sequence_counter < MaxSeq /\ sequence_counter' = sequence_counter + 1
        /\ UNCHANGED <<memtables, drawn, todo, stats, deletes>>
    BY <1>8 DEF TablePut, TableStep, indexVars
  <2>3. sequence_counter \in Nat /\ sequence_counter' \in 0 .. MaxSeq
    BY <2>2, StorageAssumption DEF Typed
  <2>4. shared' \in Memtable /\ Covered(shared')  BY <2>1, <2>3, PutEffect DEF Typed
  <2>5. QED  BY <1>7, <2>2, <2>3, <2>4
<1>9. CASE TableRemove
  <2>1. PICK k \in Keys : shared' = MemRemove(shared, k, sequence_counter)
    BY <1>9 DEF TableRemove
  <2>2. /\ sequence_counter < MaxSeq /\ sequence_counter' = sequence_counter + 1
        /\ UNCHANGED <<memtables, drawn, todo, stats, deletes>>
    BY <1>9 DEF TableRemove, TableStep, indexVars
  <2>3. sequence_counter \in Nat /\ sequence_counter' \in 0 .. MaxSeq
    BY <2>2, StorageAssumption DEF Typed
  <2>4. shared' \in Memtable /\ Covered(shared')  BY <2>1, <2>3, RemoveEffect DEF Typed
  <2>5. QED  BY <1>7, <2>2, <2>3, <2>4
<1>10. CASE TableClear
  <2>1. shared' = NewTable /\ UNCHANGED <<memtables, drawn, todo, stats, deletes, sequence_counter>>
    BY <1>10 DEF TableClear, TableStep, indexVars, MemClear
  <2>2. QED  BY <1>7, <2>1, NewTableEmpty DEF Typed
<1>11. CASE Write \/ Reopen \/ Rest \/ UNCHANGED vars
  <2>1. UNCHANGED <<memtables, shared, drawn, todo, stats, deletes, sequence_counter>>
    BY <1>11 DEF Write, Reopen, Rest, TableStep, vars, indexVars, tableVars
  <2>2. QED  BY <1>7, <2>1 DEF Typed
<1>12. QED
  BY <1>2, <1>3, <1>4, <1>5, <1>6, <1>8, <1>9, <1>10, <1>11 DEF Next

\* Types and covered sizes, for any number of threads and any batches.
THEOREM StorageTyped == Spec => []Typed
BY InitTyped, NextTyped, PTL DEF Spec

-----------------------------------------------------------------------------
(* Sequence numbers *)

UnderWay == {t \in Threads : drawn[t] # NoSeq}

\* The strengthening behind SequencesUnique: no two entries, of one table or
\* of two, have one number, no two threads drew one, none that was drawn is in
\* a table, and all are below the counter.
Numbered ==
    /\ \A t, u \in Threads :
         \A j \in DOMAIN memtables[t].entries, k \in DOMAIN memtables[u].entries :
            memtables[t].entries[j].seq = memtables[u].entries[k].seq => t = u /\ j = k
    /\ \A t, u \in Threads : drawn[t] # NoSeq /\ drawn[t] = drawn[u] => t = u
    /\ \A t, u \in Threads : \A k \in DOMAIN memtables[u].entries :
         memtables[u].entries[k].seq # drawn[t]
    /\ \A t \in Threads : \A k \in DOMAIN memtables[t].entries :
         memtables[t].entries[k].seq < sequence_counter
    /\ \A t \in Threads : drawn[t] # NoSeq => drawn[t] < sequence_counter

\* A new storage has given out no number.
LEMMA InitNumbered == Init => Numbered
<1>1. SUFFICES ASSUME Init PROVE Numbered  OBVIOUS
<1>2. \A t \in Threads : DOMAIN memtables[t].entries = {} /\ drawn[t] = NoSeq
  BY <1>1, NewTableEmpty DEF Init
<1>3. QED  BY <1>2 DEF Numbered

\* An entry's number is a natural number.
LEMMA SeqsNat ==
    ASSUME Typed, NEW t \in Threads, NEW k \in DOMAIN memtables[t].entries
    PROVE  memtables[t].entries[k].seq \in Nat /\ k \in Keys
<1>1. memtables[t] \in Memtable  BY DEF Typed
<1>2. QED  BY <1>1, TableFields DEF Slot

\* After the rest of a put an entry is an old one, or the one that was put.
LEMMA StoreOrigin ==
    ASSUME Typed, NEW t \in Threads, NEW m \in {memtables[t], NewTable},
           NEW key \in Keys, NEW v \in Values, Stores(t, m, key, v),
           NEW u \in Threads, NEW k \in DOMAIN memtables'[u].entries
    PROVE  \/ /\ k \in DOMAIN memtables[u].entries
              /\ memtables'[u].entries[k].seq = memtables[u].entries[k].seq
           \/ u = t /\ k = key /\ memtables'[u].entries[k].seq = drawn[t]
<1>1. /\ m \in Memtable /\ Covered(m) /\ drawn[t] \in Nat
      /\ memtables' = [memtables EXCEPT ![t] = MemPut(m, key, v, drawn[t])]
  BY DEF Stores
<1>2. CASE u # t  BY <1>1, <1>2 DEF Typed
<1>3. CASE u = t
  <2>1. memtables'[u] = MemPut(m, key, v, drawn[t])  BY <1>1, <1>3 DEF Typed
  <2>2. ASSUME NEW j \in DOMAIN m.entries
        PROVE  j \in DOMAIN memtables[u].entries /\ m.entries[j] = memtables[u].entries[j]
    BY <1>3, <2>2, NewTableEmpty
  <2>3. CASE ~Fits(m, key, v)
    <3>1. MemPut(m, key, v, drawn[t]) = m  BY <2>3 DEF MemPut
    <3>2. memtables'[u] = m  BY <2>1, <3>1
    <3>3. QED  BY <2>2, <3>2
  <2>4. CASE Fits(m, key, v)
    <3>1. /\ k \in DOMAIN m.entries \cup {key}
          /\ memtables'[u].entries[key] = [value |-> v, seq |-> drawn[t], deleted |-> FALSE]
          /\ \A j \in DOMAIN m.entries : j # key => memtables'[u].entries[j] = m.entries[j]
      BY <1>1, <2>1, <2>4, PutEffect
    <3>2. CASE k = key  BY <1>3, <3>1, <3>2
    <3>3. CASE k # key  BY <2>2, <3>1, <3>3
    <3>4. QED  BY <3>2, <3>3
  <2>5. QED  BY <2>3, <2>4
<1>4. QED  BY <1>2, <1>3

\* Every step gives a number once.
LEMMA NextNumbered == Typed /\ Numbered /\ [Next]_vars => Numbered'
<1>1. SUFFICES ASSUME Typed, Numbered, [Next]_vars PROVE Numbered'  OBVIOUS
<1> USE <1>1
<1>2. sequence_counter \in Nat  BY StorageAssumption DEF Typed
<1>3. ASSUME UNCHANGED <<memtables, drawn>>,
             sequence_counter' \in {sequence_counter, sequence_counter + 1}
      PROVE  Numbered'
  <2>1. ASSUME NEW n \in Int, n < sequence_counter PROVE n < sequence_counter'
    BY <1>2, <1>3, <2>1
  <2>2. \A t \in Threads : \A k \in DOMAIN memtables[t].entries :
            memtables[t].entries[k].seq < sequence_counter'
    BY <2>1, SeqsNat DEF Numbered
  <2>3. \A t \in Threads : drawn[t] # NoSeq => drawn[t] < sequence_counter'
    BY <2>1 DEF Numbered, Typed
  <2>4. QED  BY <1>3, <2>2, <2>3 DEF Numbered
<1>4. ASSUME NEW t \in Threads, Draw(t) PROVE Numbered'
  <2>1. /\ memtables' = memtables /\ sequence_counter' = sequence_counter + 1
        /\ drawn[t] = NoSeq /\ drawn' = [drawn EXCEPT ![t] = sequence_counter]
    BY <1>4 DEF Draw
  <2>2. /\ drawn'[t] = sequence_counter
        /\ \A u \in Threads : u # t => drawn'[u] = drawn[u]
    BY <2>1 DEF Typed
  <2>3. \A u \in Threads : u # t /\ drawn'[u] # NoSeq => drawn'[u] < sequence_counter
    BY <2>2 DEF Numbered
  <2>4. \A u, w \in Threads : drawn'[u] # NoSeq /\ drawn'[u] = drawn'[w] => u = w
    <3>1. \A u \in Threads : u # t => drawn'[u] # sequence_counter
      BY <1>2, <2>3 DEF NoSeq
    <3>2. QED  BY <2>2, <3>1 DEF Numbered
  <2>5. \A u, w \in Threads : \A k \in DOMAIN memtables[w].entries :
            memtables[w].entries[k].seq # drawn'[u]
    <3>1. \A w \in Threads : \A k \in DOMAIN memtables[w].entries :
              memtables[w].entries[k].seq # sequence_counter
      BY <1>2, SeqsNat DEF Numbered
    <3>2. QED  BY <2>2, <3>1 DEF Numbered
  <2>6. \A u \in Threads : \A k \in DOMAIN memtables[u].entries :
            memtables[u].entries[k].seq < sequence_counter'
    <3>1. ASSUME NEW n \in Int, n < sequence_counter PROVE n < sequence_counter + 1
      BY <1>2, <3>1
    <3>2. QED  BY <2>1, <3>1, SeqsNat DEF Numbered
  <2>7. \A u \in Threads : drawn'[u] # NoSeq => drawn'[u] < sequence_counter'
    <3>1. \A u \in Threads : drawn'[u] # NoSeq /\ u # t => drawn[u] \in Nat
      BY <2>2 DEF Typed
    <3>2. QED  BY <1>2, <2>1, <2>2, <2>3, <3>1
  <2>8. QED  BY <2>1, <2>4, <2>5, <2>6, <2>7 DEF Numbered
<1>5. ASSUME NEW t \in Threads, Store(t) PROVE Numbered'
  <2>1. PICK m \in {memtables[t], NewTable}, key \in Keys, v \in Values : Stores(t, m, key, v)
    BY <1>5, StoreEffect
  <2>2. /\ drawn[t] # NoSeq /\ sequence_counter' = sequence_counter
        /\ drawn' = [drawn EXCEPT ![t] = NoSeq]
    BY <2>1 DEF Stores
  <2>3. drawn'[t] = NoSeq /\ \A u \in Threads : u # t => drawn'[u] = drawn[u]
    BY <2>2 DEF Typed
  <2>4. \A u \in Threads : \A k \in DOMAIN memtables'[u].entries :
           \/ /\ k \in DOMAIN memtables[u].entries
              /\ memtables'[u].entries[k].seq = memtables[u].entries[k].seq
           \/ u = t /\ k = key /\ memtables'[u].entries[k].seq = drawn[t]
    BY <2>1, StoreOrigin
  <2>5. \A u, w \in Threads :
          \A j \in DOMAIN memtables'[u].entries, k \in DOMAIN memtables'[w].entries :
            memtables'[u].entries[j].seq = memtables'[w].entries[k].seq => u = w /\ j = k
    BY <2>4 DEF Numbered
  <2>6. \A u, w \in Threads : drawn'[u] # NoSeq /\ drawn'[u] = drawn'[w] => u = w
    BY <2>3 DEF Numbered
  <2>7. \A u, w \in Threads : \A k \in DOMAIN memtables'[w].entries :
          memtables'[w].entries[k].seq # drawn'[u]
    <3>1. SUFFICES ASSUME NEW u \in Threads, NEW w \in Threads,
                          NEW k \in DOMAIN memtables'[w].entries
                   PROVE  memtables'[w].entries[k].seq # drawn'[u]
      OBVIOUS
    <3>2. memtables'[w].entries[k].seq # NoSeq
      <4>1. memtables'[w].entries[k].seq \in Nat
        BY <2>2, <2>4, SeqsNat DEF Typed
      <4>2. QED  BY <4>1 DEF NoSeq
    <3>3. CASE u = t  BY <2>3, <3>2, <3>3
    <3>4. CASE u # t
      <4>1. drawn'[u] = drawn[u]  BY <2>3, <3>4
      <4>2. drawn[t] # drawn[u]  BY <2>2, <3>4 DEF Numbered
      <4>3. QED  BY <2>4, <4>1, <4>2 DEF Numbered
    <3>5. QED  BY <3>3, <3>4
  <2>8. \A u \in Threads : \A k \in DOMAIN memtables'[u].entries :
          memtables'[u].entries[k].seq < sequence_counter'
    BY <2>2, <2>4 DEF Numbered
  <2>9. \A u \in Threads : drawn'[u] # NoSeq => drawn'[u] < sequence_counter'
    BY <2>2, <2>3 DEF Numbered
  <2>10. QED  BY <2>5, <2>6, <2>7, <2>8, <2>9 DEF Numbered
<1>6. CASE \E t \in Threads : Call(t)
  BY <1>3, <1>6 DEF Call
<1>7. CASE DeleteKey \/ IndexGet \/ Query
  BY <1>3, <1>7 DEF DeleteKey, IndexGet, Query
<1>8. CASE TablePut \/ TableRemove \/ TableClear \/ Write \/ Reopen
  BY <1>3, <1>8
  DEF TablePut, TableRemove, TableClear, Write, Reopen, TableStep, indexVars
<1>9. CASE Rest \/ UNCHANGED vars
  BY <1>3, <1>9 DEF Rest, vars, indexVars
<1>10. QED
  BY <1>4, <1>5, <1>6, <1>7, <1>8, <1>9 DEF Next

\* Threads that drew different numbers are no more than there are numbers.
LEMMA UnderWayFinite ==
    ASSUME Typed, Numbered
    PROVE  /\ IsFiniteSet(UnderWay) /\ Cardinality(UnderWay) \in Nat
           /\ IsFiniteSet({drawn[t] : t \in UnderWay})
           /\ Cardinality({drawn[t] : t \in UnderWay}) = Cardinality(UnderWay)
<1> DEFINE D == {drawn[t] : t \in UnderWay}
           f == [t \in UnderWay |-> drawn[t]]
<1>1. D \subseteq 0 .. MaxSeq
  <2>1. SUFFICES ASSUME NEW t \in Threads, drawn[t] # NoSeq PROVE drawn[t] \in 0 .. MaxSeq
    BY DEF UnderWay
  <2>2. drawn[t] \in Nat /\ drawn[t] < sequence_counter  BY <2>1 DEF Typed, Numbered
  <2>3. QED  BY <2>2, StorageAssumption DEF Typed
<1>2. IsFiniteSet(D)
  <2>1. 0 \in Int /\ MaxSeq \in Int  BY StorageAssumption
  <2>2. IsFiniteSet(0 .. MaxSeq)  BY <2>1, FS_Interval
  <2>3. QED  BY <1>1, <2>2, FS_Subset
<1>3. f \in Bijection(UnderWay, D)
  <2>1. \A t, u \in UnderWay : f[t] = f[u] => t = u  BY DEF UnderWay, Numbered
  <2>2. f \in [UnderWay -> D] /\ \A d \in D : \E t \in UnderWay : f[t] = d  OBVIOUS
  <2>3. QED  BY <2>1, <2>2 DEF Bijection, Injection, IsInjective, Surjection
<1>4. IsFiniteSet(UnderWay)
  <2>1. f \in Injection(UnderWay, D)  BY <1>3 DEF Bijection
  <2>2. QED  BY <1>2, <2>1, FS_Injection
<1>5. Cardinality(D) = Cardinality(UnderWay)
  <2>1. ExistsBijection(UnderWay, D)  BY <1>3 DEF ExistsBijection
  <2>2. QED  BY <1>4, <2>1, FS_Bijection
<1>6. QED  BY <1>2, <1>4, <1>5, FS_CardinalityType

\* Numbers that are given once are as many as the entries and puts under way.
LEMMA NumberedUnique == Typed /\ Numbered => SequencesUnique
<1>1. SUFFICES ASSUME Typed, Numbered PROVE SequencesUnique  OBVIOUS
<1> DEFINE H == {p \in Threads \X Keys : p[2] \in DOMAIN memtables[p[1]].entries}
           S == {memtables[p[1]].entries[p[2]].seq : p \in H}
           D == {drawn[t] : t \in UnderWay}
           f == [p \in H |-> memtables[p[1]].entries[p[2]].seq]
<1>2. \A p \in H : /\ p[1] \in Threads /\ p[2] \in DOMAIN memtables[p[1]].entries
                   /\ memtables[p[1]].entries[p[2]].seq \in Nat
                   /\ memtables[p[1]].entries[p[2]].seq < sequence_counter
                   /\ p = <<p[1], p[2]>>
  BY <1>1, SeqsNat DEF Numbered
<1>3. \A n \in S : n \in Nat /\ n < sequence_counter  BY <1>2
<1>4. f \in Bijection(H, S)
  <2>1. \A p, q \in H : f[p] = f[q] => p = q
    <3>1. SUFFICES ASSUME NEW p \in H, NEW q \in H, f[p] = f[q] PROVE p = q  OBVIOUS
    <3>2. memtables[p[1]].entries[p[2]].seq = memtables[q[1]].entries[q[2]].seq
      BY <3>1
    <3>3. p = <<p[1], p[2]>> /\ q = <<q[1], q[2]>>  BY <1>2, <3>1
    <3>4. /\ p[1] \in Threads /\ p[2] \in DOMAIN memtables[p[1]].entries
          /\ q[1] \in Threads /\ q[2] \in DOMAIN memtables[q[1]].entries
      BY <1>2, <3>1
    <3> HIDE DEF H, S, f
    <3>5. p[1] = q[1] /\ p[2] = q[2]  BY <1>1, <3>2, <3>4 DEF Numbered
    <3>6. QED  BY <3>3, <3>5
  <2>2. f \in [H -> S] /\ \A n \in S : \E p \in H : f[p] = n  OBVIOUS
  <2> HIDE DEF f, H, S
  <2>3. QED  BY <2>1, <2>2 DEF Bijection, Injection, IsInjective, Surjection
<1>5. S \cap D = {}
  <2>1. ASSUME NEW p \in H, NEW t \in UnderWay
        PROVE  memtables[p[1]].entries[p[2]].seq # drawn[t]
    BY <1>1, <1>2, <2>1 DEF Numbered, UnderWay
  <2>2. QED  BY <2>1
<1>6. IsFiniteSet(D) /\ Cardinality(D) = Cardinality(UnderWay) /\ Cardinality(D) \in Nat
  BY <1>1, UnderWayFinite
<1>7. SequencesUnique <=> /\ Cardinality(S \cup D) = Cardinality(H) + Cardinality(UnderWay)
                          /\ \A n \in S : n < sequence_counter
  BY DEF SequencesUnique, UnderWay
<1> HIDE DEF f, H, S, D
<1>8. IsFiniteSet(S)
  <2>1. 0 \in Int /\ MaxSeq \in Int  BY StorageAssumption
  <2>2. IsFiniteSet(0 .. MaxSeq)  BY <2>1, FS_Interval
  <2>3. S \subseteq 0 .. MaxSeq  BY <1>1, <1>3, StorageAssumption DEF Typed
  <2>4. QED  BY <2>2, <2>3, FS_Subset
<1>9. IsFiniteSet(H) /\ Cardinality(S) = Cardinality(H)
  <2>1. f \in Injection(H, S) /\ ExistsBijection(H, S)
    BY <1>4 DEF Bijection, ExistsBijection
  <2>2. IsFiniteSet(H)  BY <1>8, <2>1, FS_Injection
  <2>3. QED  BY <2>1, <2>2, FS_Bijection
<1>10. Cardinality(S \cup D) = Cardinality(S) + Cardinality(D)
  <2>1. Cardinality(S \cup D) = Cardinality(S) + Cardinality(D) - Cardinality(S \cap D)
    BY <1>6, <1>8, FS_Union
  <2>2. Cardinality(S \cap D) = 0  BY <1>5, FS_EmptySet
  <2>3. Cardinality(S) \in Nat  BY <1>8, FS_CardinalityType
  <2>4. QED  BY <1>6, <2>1, <2>2, <2>3
<1>11. QED  BY <1>3, <1>6, <1>7, <1>9, <1>10

-----------------------------------------------------------------------------
(* The count of puts *)

\* A new storage has counted nothing.
LEMMA InitCounted == Init => PutsCounted
<1>1. SUFFICES ASSUME Init PROVE PutsCounted  OBVIOUS
<1>2. {t \in Threads : drawn[t] # NoSeq} = {}  BY <1>1 DEF Init
<1>3. Cardinality({t \in Threads : drawn[t] # NoSeq}) = 0  BY <1>2, FS_EmptySet
<1>4. stats.writes = 0 /\ deletes = 0 /\ sequence_counter = 0  BY <1>1 DEF Init
<1>5. QED  BY <1>3, <1>4 DEF PutsCounted

\* Every step keeps the balance of numbers drawn and calls counted.
LEMMA NextCounted == Typed /\ Numbered /\ PutsCounted /\ [Next]_vars => PutsCounted'
<1>1. SUFFICES ASSUME Typed, Numbered, PutsCounted, [Next]_vars PROVE PutsCounted'  OBVIOUS
<1> USE <1>1
<1>2. PutsCounted' <=>
        (part' = "index" => stats'.writes + Cardinality(UnderWay') + deletes' = sequence_counter')
  BY DEF PutsCounted, UnderWay
<1>3. part = "index" => stats.writes + Cardinality(UnderWay) + deletes = sequence_counter
  BY DEF PutsCounted, UnderWay
<1>4. /\ stats.writes \in Nat /\ deletes \in Nat /\ sequence_counter \in Nat
      /\ IsFiniteSet(UnderWay) /\ Cardinality(UnderWay) \in Nat
  BY UnderWayFinite, StorageAssumption DEF Typed, Statistics
<1>5. ASSUME UNCHANGED <<part, drawn, deletes, sequence_counter>>, stats'.writes = stats.writes
      PROVE  PutsCounted'
  BY <1>2, <1>3, <1>5 DEF UnderWay
<1>6. ASSUME NEW t \in Threads, Draw(t) PROVE PutsCounted'
  <2>1. /\ part = "index" /\ drawn[t] = NoSeq /\ drawn' = [drawn EXCEPT ![t] = sequence_counter]
        /\ sequence_counter' = sequence_counter + 1 /\ UNCHANGED <<stats, deletes>>
    BY <1>6 DEF Draw, IndexStep
  <2>2. UnderWay' = UnderWay \cup {t} /\ t \notin UnderWay
    BY <1>4, <2>1 DEF UnderWay, Typed, NoSeq
  <2>3. Cardinality(UnderWay') = Cardinality(UnderWay) + 1
    BY <1>4, <2>2, FS_AddElement
  <2>4. QED  BY <1>2, <1>3, <1>4, <2>1, <2>3
<1>7. ASSUME NEW t \in Threads, Store(t) PROVE PutsCounted'
  <2>1. PICK m \in {memtables[t], NewTable}, key \in Keys, v \in Values : Stores(t, m, key, v)
    BY <1>7, StoreEffect
  <2>2. /\ drawn[t] # NoSeq /\ drawn' = [drawn EXCEPT ![t] = NoSeq]
        /\ stats'.writes = stats.writes + 1
        /\ UNCHANGED <<part, sequence_counter, deletes>>
    BY <2>1 DEF Stores, Typed, Statistics
  <2>3. UnderWay' = UnderWay \ {t} /\ t \in UnderWay  BY <2>2 DEF UnderWay, Typed
  <2>4. Cardinality(UnderWay') = Cardinality(UnderWay) - 1
    BY <1>4, <2>3, FS_RemoveElement
  <2>5. QED  BY <1>2, <1>3, <1>4, <2>2, <2>4
<1>8. CASE DeleteKey
  <2>1. /\ deletes' = deletes + 1 /\ sequence_counter' = sequence_counter + 1
        /\ UNCHANGED <<part, drawn, stats>>
    BY <1>8 DEF DeleteKey, IndexStep
  <2>2. UnderWay' = UnderWay  BY <2>1 DEF UnderWay
  <2>3. QED  BY <1>2, <1>3, <1>4, <2>1, <2>2
<1>9. CASE IndexGet \/ Query
  BY <1>5, <1>9 DEF IndexGet, Query, IndexStep, Typed, Statistics
<1>10. CASE \E t \in Threads : Call(t)
  BY <1>5, <1>10 DEF Call, IndexStep
<1>11. CASE TablePut \/ TableRemove \/ TableClear \/ Write \/ Reopen
  <2>1. part' = "table"
    BY <1>11 DEF TablePut, TableRemove, TableClear, Write, Reopen, TableStep
  <2>2. QED  BY <1>2, <2>1
<1>12. CASE Rest \/ UNCHANGED vars
  BY <1>5, <1>12 DEF Rest, vars, indexVars
<1>13. QED
  BY <1>6, <1>7, <1>8, <1>9, <1>10, <1>11, <1>12 DEF Next

\* The index keeps its books whatever threads put at the same time: no number
\* is given twice, and every put and delete that drew one is counted.
THEOREM BooksKept == Spec => []IndexConsistent
<1>1. Spec => [](Numbered /\ PutsCounted)
  BY InitNumbered, NextNumbered, InitCounted, NextCounted, StorageTyped, PTL DEF Spec
<1>2. ASSUME Typed, Numbered, PutsCounted PROVE IndexConsistent
  <2>1. TypeOK
    <3>1. \A m \in Tables : m \in Memtable /\ Covered(m)  BY <1>2 DEF Tables, Typed
    <3>2. \A m \in Tables : DOMAIN m.entries \subseteq Keys /\ m.size \in 0 .. MaxSize
      BY <3>1, TableFields
    <3>3. QED  BY <1>2, <3>1, <3>2 DEF TypeOK, Typed, Covered
  <2>2. QED  BY <1>2, <2>1, NumberedUnique DEF IndexConsistent
<1>3. QED  BY <1>1, <1>2, StorageTyped, PTL

-----------------------------------------------------------------------------
(* The MemTable as a dictionary *)

\* What the shared table maps, tombstones left out.
Live == [k \in LiveKeys |-> shared.entries[k].value]

\* A new table is an empty dictionary.
LEMMA DictInit == Init => Dict!Init
<1>1. SUFFICES ASSUME Init PROVE Dict!Init  OBVIOUS
<1>2. LiveKeys = {}  BY <1>1, NewTableEmpty DEF Init, LiveKeys
<1>3. [k \in LiveKeys |-> shared.entries[k].value] = << >>  BY <1>2
<1>4. QED  BY <1>1, <1>3 DEF Init, Dict!Init

\* Every step is one of the dictionary, or none.
LEMMA DictStep == Typed /\ [Next]_vars => [Dict!Next]_<<Live, reply>>
<1>1. SUFFICES ASSUME Typed, [Next]_vars PROVE [Dict!Next]_<<Live, reply>>  OBVIOUS
<1> USE <1>1
<1>2. ASSUME UNCHANGED <<shared, reply>> PROVE UNCHANGED <<Live, reply>>
  BY <1>2 DEF Live, LiveKeys
<1>3. shared \in Memtable /\ Covered(shared) /\ sequence_counter \in Nat
  BY StorageAssumption DEF Typed
<1>4. CASE TablePut
  <2>1. PICK k \in Keys, v \in Values :
              /\ shared' = MemPut(shared, k, v, sequence_counter)
              /\ reply' = <<"put", k, v, Fits(shared, k, v)>>
    BY <1>4 DEF TablePut
  <2>2. CASE ~Fits(shared, k, v)
    <3>1. shared' = shared  BY <1>3, <2>1, <2>2, PutEffect
    <3>2. Live' = Live /\ reply' = <<"put", k, v, FALSE>>
      <4>1. Live' = Live  BY <3>1 DEF Live, LiveKeys
      <4>2. Fits(shared, k, v) = FALSE  BY <2>2 DEF Fits
      <4>3. QED  BY <2>1, <4>1, <4>2
    <3>3. Dict!Put(k, v)  BY <3>2 DEF Dict!Put, Live
    <3>4. QED  BY <3>3 DEF Dict!Next
  <2>3. CASE Fits(shared, k, v)
    <3>1. /\ DOMAIN shared'.entries = DOMAIN shared.entries \cup {k}
          /\ shared'.entries[k] = [value |-> v, seq |-> sequence_counter, deleted |-> FALSE]
          /\ \A j \in DOMAIN shared.entries : j # k => shared'.entries[j] = shared.entries[j]
      BY <1>3, <2>1, <2>3, PutEffect
    <3>2. shared'.entries[k].value = v /\ ~shared'.entries[k].deleted  BY <3>1
    <3>3. LiveKeys' = LiveKeys \cup {k}  BY <3>1, <3>2 DEF LiveKeys
    <3>4. Live' = Dict!Mapped(k, v)
      <4>1. \A j \in LiveKeys' : shared'.entries[j].value =
                 IF j = k THEN v ELSE [i \in LiveKeys |-> shared.entries[i].value][j]
        BY <3>1, <3>2, <3>3 DEF LiveKeys
      <4>2. Live' = [j \in LiveKeys \cup {k} |->
                        IF j = k THEN v ELSE [i \in LiveKeys |-> shared.entries[i].value][j]]
        BY <3>3, <4>1 DEF Live
      <4>3. DOMAIN [i \in LiveKeys |-> shared.entries[i].value] = LiveKeys  OBVIOUS
      <4>4. QED  BY <4>2, <4>3 DEF Dict!Mapped
    <3>5. reply' = <<"put", k, v, TRUE>>  BY <2>1, <2>3
    <3>6. Dict!Put(k, v)  BY <3>4, <3>5 DEF Dict!Put, Live
    <3>7. QED  BY <3>6 DEF Dict!Next
  <2>4. QED  BY <2>2, <2>3
<1>5. CASE TableRemove
  <2>1. PICK k \in Keys : /\ shared' = MemRemove(shared, k, sequence_counter)
                          /\ reply' = <<"remove", k>>
    BY <1>5 DEF TableRemove
  <2>2. /\ DOMAIN shared'.entries = DOMAIN shared.entries \cup {k}
        /\ shared'.entries[k].deleted
        /\ \A j \in DOMAIN shared.entries : j # k => shared'.entries[j] = shared.entries[j]
    BY <1>3, <2>1, RemoveEffect
  <2>3. LiveKeys' = LiveKeys \ {k}  BY <2>2 DEF LiveKeys
  <2>4. \A j \in LiveKeys' : shared'.entries[j].value = Live[j]
    BY <2>2, <2>3 DEF Live, LiveKeys
  <2>5. Live' = [j \in DOMAIN Live \ {k} |-> Live[j]]
    <3>1. DOMAIN Live = LiveKeys  BY DEF Live
    <3>2. Live' = [j \in LiveKeys' |-> Live[j]]  BY <2>4 DEF Live
    <3>3. QED  BY <2>3, <3>1, <3>2
  <2>6. Dict!Remove(k)  BY <2>1, <2>5 DEF Dict!Remove, Live
  <2>7. QED  BY <2>6 DEF Dict!Next
<1>6. CASE TableClear
  <2>1. shared' = NewTable /\ reply' = <<"clear">>  BY <1>6 DEF TableClear, MemClear
  <2>2. LiveKeys' = {}  BY <2>1, NewTableEmpty DEF LiveKeys
  <2>3. Live' = << >>  BY <2>2 DEF Live
  <2>4. Dict!Clear  BY <2>1, <2>3 DEF Dict!Clear, Live
  <2>5. QED  BY <2>4 DEF Dict!Next
<1>7. CASE Write \/ Reopen
  BY <1>2, <1>7 DEF Write, Reopen
<1>8. CASE \E t \in Threads : Call(t) \/ Draw(t) \/ Store(t)
  BY <1>2, <1>8 DEF Call, Draw, Store, IndexStep, tableVars
<1>9. CASE DeleteKey \/ IndexGet \/ Query
  BY <1>2, <1>9 DEF DeleteKey, IndexGet, Query, IndexStep, tableVars
<1>10. CASE Rest \/ UNCHANGED vars
  BY <1>2, <1>10 DEF Rest, vars, tableVars
<1>11. QED
  BY <1>4, <1>5, <1>6, <1>7, <1>8, <1>9, <1>10 DEF Next

\* A MemTable implements a dictionary: whoever sees put, remove, clear and
\* what get returns cannot tell tombstones, sizes and numbers.
THEOREM MemTableIsDictionary == Spec => IsDictionary
<1>1. Typed /\ [Next]_vars => [Dict!Next]_<<[k \in LiveKeys |-> shared.entries[k].value], reply>>
  BY DictStep DEF Live
<1>2. QED
  BY <1>1, DictInit, StorageTyped, PTL DEF Spec, IsDictionary, Dict!Spec

-----------------------------------------------------------------------------
(* The order of the keys *)

\* A set of numbers has a least one.
LEMMA LeastOf ==
    ASSUME NEW T \in SUBSET Nat, T # {}
    PROVE  \E m \in T : \A n \in T : m <= n
<1> DEFINE R == StrictSubsetOrdering(Nat)
           Upto == {0 .. n : n \in T}
<1>1. IsWellFoundedOn(R, FiniteSubsetsOf(Nat))
  BY FS_StrictSubsetOrderingWellFounded
<1>2. Upto \subseteq FiniteSubsetsOf(Nat) /\ Upto # {}
  <2>1. \A n \in T : IsFiniteSet(0 .. n) /\ 0 .. n \in SUBSET Nat  BY FS_Interval
  <2>2. QED  BY <2>1 DEF FiniteSubsetsOf
<1>3. ASSUME NEW k \in T, NEW n \in T, k < n PROVE <<0 .. k, 0 .. n>> \in R
  <2>1. n \in 0 .. n /\ n \notin 0 .. k /\ 0 .. k \subseteq 0 .. n  BY <1>3
  <2>2. QED  BY <2>1 DEF StrictSubsetOrdering
<1> HIDE DEF R
<1>4. PICK low \in Upto : \A U \in Upto : ~ (<<U, low>> \in R)
  <2> HIDE DEF Upto
  <2>1. QED  BY <1>1, <1>2, WFMin
<1>5. PICK m \in T : low = 0 .. m  OBVIOUS
<1>6. \A k \in T : ~ (k < m)  BY <1>3, <1>4, <1>5
<1>7. QED  BY <1>6

\* A prefix is what the characters say it is.
LEMMA PrefixByPlace ==
    ASSUME NEW a \in Seq(Nat), NEW b \in Seq(Nat)
    PROVE  IsPrefix(a, b) <=> (Len(a) <= Len(b) /\ \A i \in 1 .. Len(a) : a[i] = b[i])
<1> DEFINE s == SubSeq(a, 1, Len(a))
           t == SubSeq(b, 1, Len(a))
<1>1. SUFFICES ASSUME Len(a) <= Len(b)
               PROVE  s = t <=> \A i \in 1 .. Len(a) : a[i] = b[i]
  BY DEF IsPrefix
<1>2. Len(a) \in Nat /\ Len(b) \in Nat  OBVIOUS
<1>3. s = [i \in 1 .. Len(a) |-> a[i]] /\ t = [i \in 1 .. Len(a) |-> b[i]]
  BY <1>1, <1>2
<1> HIDE DEF s, t
<1>4. QED  BY <1>3

\* The keys differ for the first time at place i, and a's character is less.
Differs(a, b, i) ==
    /\ i \in 1 .. Len(a) /\ i \in 1 .. Len(b) /\ a[i] < b[i]
    /\ \A j \in 1 .. i - 1 : a[j] = b[j]

\* a is shorter, and where it ends b goes on.
Shorter(a, b) == Len(a) < Len(b) /\ \A i \in 1 .. Len(a) : a[i] = b[i]

LEMMA BeforeByPlace ==
    ASSUME NEW a \in Seq(Nat), NEW b \in Seq(Nat)
    PROVE  Before(a, b) <=> ((\E i \in Nat : Differs(a, b, i)) \/ Shorter(a, b))
<1>1. DOMAIN a = 1 .. Len(a) /\ DOMAIN b = 1 .. Len(b) /\ Len(a) \in Nat /\ Len(b) \in Nat
  OBVIOUS
<1>2. (Len(a) < Len(b) /\ IsPrefix(a, b)) <=> Shorter(a, b)
  <2>1. Len(a) < Len(b) => Len(a) <= Len(b)  BY <1>1
  <2>2. QED  BY <2>1, PrefixByPlace DEF Shorter
<1>3. (\E i \in DOMAIN a \cap DOMAIN b : a[i] < b[i] /\ \A j \in 1 .. i - 1 : a[j] = b[j])
        <=> (\E i \in Nat : Differs(a, b, i))
  <2>1. ASSUME NEW i \in Nat
        PROVE  Differs(a, b, i) <=> (/\ i \in DOMAIN a \cap DOMAIN b /\ a[i] < b[i]
                                     /\ \A j \in 1 .. i - 1 : a[j] = b[j])
    BY <1>1 DEF Differs
  <2>2. \A i \in DOMAIN a \cap DOMAIN b : i \in Nat  BY <1>1
  <2>3. QED  BY <2>1, <2>2
<1>4. QED  BY <1>2, <1>3 DEF Before

\* No key is before itself, and of two different ones one is before the other.
LEMMA BeforeTotal ==
    ASSUME NEW a \in Seq(Nat), NEW b \in Seq(Nat)
    PROVE  ~Before(a, a) /\ (a # b => Before(a, b) \/ Before(b, a))
<1>1. Len(a) \in Nat /\ Len(b) \in Nat
      /\ (\A i \in 1 .. Len(a) : a[i] \in Nat) /\ \A i \in 1 .. Len(b) : b[i] \in Nat
  OBVIOUS
<1>2. ~Before(a, a)
  <2>1. \A i \in Nat : ~Differs(a, a, i)  BY <1>1 DEF Differs
  <2>2. ~Shorter(a, a)  BY <1>1 DEF Shorter
  <2>3. QED  BY <2>1, <2>2, BeforeByPlace
<1>3. ASSUME a # b, ~Before(a, b), ~Before(b, a) PROVE FALSE
  <2> DEFINE T == {i \in 1 .. Len(a) : i \in 1 .. Len(b) /\ a[i] # b[i]}
  <2>1. /\ \A i \in Nat : ~Differs(a, b, i) /\ ~Differs(b, a, i)
        /\ ~Shorter(a, b) /\ ~Shorter(b, a)
    BY <1>3, BeforeByPlace
  <2>2. CASE T = {}
    <3>1. \A i \in 1 .. Len(a) : i \in 1 .. Len(b) => a[i] = b[i]  BY <2>2
    <3>2. CASE Len(a) = Len(b)
      <4>1. \A i \in 1 .. Len(a) : a[i] = b[i]  BY <3>1, <3>2
      <4>2. a = [i \in 1 .. Len(a) |-> a[i]] /\ b = [i \in 1 .. Len(b) |-> b[i]]  OBVIOUS
      <4>3. [i \in 1 .. Len(a) |-> a[i]] = [i \in 1 .. Len(a) |-> b[i]]  BY <4>1
      <4>4. a = b  BY <3>2, <4>2, <4>3
      <4>5. QED  BY <1>3, <4>4
    <3>3. CASE Len(a) < Len(b)  BY <1>1, <2>1, <3>1, <3>3 DEF Shorter
    <3>4. CASE Len(b) < Len(a)  BY <1>1, <2>1, <3>1, <3>4 DEF Shorter
    <3>5. QED  BY <1>1, <3>2, <3>3, <3>4
  <2>3. CASE T # {}
    <3>1. T \in SUBSET Nat  OBVIOUS
    <3>2. PICK i \in T : \A n \in T : i <= n
      <4> HIDE DEF T
      <4>1. QED  BY <2>3, <3>1, LeastOf
    <3>3. i \in Nat /\ i \in 1 .. Len(a) /\ i \in 1 .. Len(b) /\ a[i] # b[i]  OBVIOUS
    <3>4. ASSUME NEW j \in 1 .. i - 1 PROVE a[j] = b[j]
      <4>1. i \in Nat /\ i <= Len(a) /\ i <= Len(b) /\ j \in Nat /\ 1 <= j /\ j <= i - 1
        BY <1>1, <3>3
      <4>2. j <= Len(a) /\ j <= Len(b) /\ ~ (i <= j)
        <5>1. Len(a) \in Int /\ Len(b) \in Int  BY <1>1
        <5>2. ASSUME NEW m \in Int, i <= m PROVE j <= m  BY <4>1, <5>2
        <5>3. j <= Len(a) /\ j <= Len(b)  BY <4>1, <5>1, <5>2
        <5>4. QED  BY <4>1, <5>3
      <4>3. j \in 1 .. Len(a) /\ j \in 1 .. Len(b)  BY <1>1, <4>1, <4>2
      <4>4. QED  BY <3>2, <4>2, <4>3
    <3>5. a[i] < b[i] \/ b[i] < a[i]  BY <1>1, <3>3
    <3>6. Differs(a, b, i) \/ Differs(b, a, i)  BY <3>3, <3>4, <3>5 DEF Differs
    <3>7. QED  BY <2>1, <3>3, <3>6
  <2>4. QED  BY <2>2, <2>3
<1>4. QED  BY <1>2, <1>3

\* What is before a key that is before another is before that too.
LEMMA BeforeTransitive ==
    ASSUME NEW a \in Seq(Nat), NEW b \in Seq(Nat), NEW c \in Seq(Nat),
           Before(a, b), Before(b, c)
    PROVE  Before(a, c)
<1>1. Len(a) \in Nat /\ Len(b) \in Nat /\ Len(c) \in Nat  OBVIOUS
<1>2. ASSUME NEW s \in Seq(Nat), NEW i \in 1 .. Len(s) PROVE s[i] \in Nat
  OBVIOUS
<1>3. /\ (\E i \in Nat : Differs(a, b, i)) \/ Shorter(a, b)
      /\ (\E i \in Nat : Differs(b, c, i)) \/ Shorter(b, c)
  BY BeforeByPlace
<1>4. ASSUME NEW i \in Nat, Differs(a, c, i) \/ Shorter(a, c) PROVE Before(a, c)
  BY <1>4, BeforeByPlace
<1>5. ASSUME NEW i \in Nat, Differs(a, b, i), NEW k \in Nat, Differs(b, c, k)
      PROVE  Before(a, c)
  <2>1. CASE i <= k
    <3>1. i \in 1 .. Len(a) /\ i \in 1 .. Len(b) /\ i \in 1 .. Len(c)
      BY <1>1, <1>5, <2>1 DEF Differs
    <3>2. a[i] < c[i]
      <4>1. a[i] \in Nat /\ b[i] \in Nat /\ c[i] \in Nat  BY <1>2, <3>1
      <4>2. a[i] < b[i]  BY <1>5 DEF Differs
      <4>3. b[i] <= c[i]
        <5>1. CASE i = k
          <6>1. b[i] < c[i]  BY <1>5, <5>1 DEF Differs
          <6>2. QED  BY <4>1, <6>1
        <5>2. CASE i # k
          <6>1. i \in 1 .. k - 1  BY <2>1, <3>1, <5>2
          <6>2. b[i] = c[i]  BY <1>5, <6>1 DEF Differs
          <6>3. QED  BY <4>1, <6>2
        <5>3. QED  BY <5>1, <5>2
      <4>4. ASSUME NEW x \in Nat, NEW y \in Nat, NEW z \in Nat, x < y, y <= z PROVE x < z
        BY <4>4
      <4>5. QED  BY <4>1, <4>2, <4>3, <4>4
    <3>3. \A j \in 1 .. i - 1 : j \in 1 .. k - 1  BY <2>1
    <3>4. Differs(a, c, i)  BY <1>5, <3>1, <3>2, <3>3 DEF Differs
    <3>5. QED  BY <1>4, <3>4
  <2>2. CASE k < i
    <3>1. k \in 1 .. i - 1 /\ \A j \in 1 .. k - 1 : j \in 1 .. i - 1
      BY <1>5, <2>2 DEF Differs
    <3>2. k \in 1 .. Len(a) /\ k \in 1 .. Len(c)
      BY <1>1, <1>5, <2>2 DEF Differs
    <3>3. Differs(a, c, k)  BY <1>5, <3>1, <3>2 DEF Differs
    <3>4. QED  BY <1>4, <3>3
  <2>3. QED  BY <2>1, <2>2
<1>6. ASSUME NEW i \in Nat, Differs(a, b, i), Shorter(b, c) PROVE Before(a, c)
  <2>0. i \in 1 .. Len(a) /\ i \in 1 .. Len(b) /\ Len(b) < Len(c)
    BY <1>6 DEF Differs, Shorter
  <2>1. i \in 1 .. Len(a) /\ i \in 1 .. Len(b) /\ i \in 1 .. Len(c)
        /\ \A j \in 1 .. i - 1 : j \in 1 .. Len(b)
    <3>1. ASSUME NEW m \in Nat, NEW n \in Nat, m < n, i \in 1 .. m
          PROVE  i \in 1 .. n /\ \A j \in 1 .. i - 1 : j \in 1 .. m
      BY <3>1
    <3>2. QED  BY <1>1, <2>0, <3>1
  <2>2. Differs(a, c, i)  BY <1>6, <2>1 DEF Differs, Shorter
  <2>3. QED  BY <1>4, <2>2
<1>7. ASSUME Shorter(a, b), NEW k \in Nat, Differs(b, c, k) PROVE Before(a, c)
  <2>1. CASE k <= Len(a)
    <3>1. k \in 1 .. Len(a) /\ k \in 1 .. Len(c) /\ \A j \in 1 .. k - 1 : j \in 1 .. Len(a)
      BY <1>1, <1>7, <2>1 DEF Differs
    <3>2. Differs(a, c, k)  BY <1>7, <3>1 DEF Differs, Shorter
    <3>3. QED  BY <1>4, <3>2
  <2>2. CASE Len(a) < k
    <3>1. Len(a) < Len(c) /\ \A j \in 1 .. Len(a) : j \in 1 .. k - 1
      BY <1>1, <1>7, <2>2 DEF Differs
    <3>2. Shorter(a, c)  BY <1>7, <3>1 DEF Differs, Shorter
    <3>3. QED  BY <1>4, <3>2
  <2>3. QED  BY <1>1, <2>1, <2>2
<1>8. ASSUME Shorter(a, b), Shorter(b, c) PROVE Before(a, c)
  <2>1. Len(a) < Len(c) /\ \A j \in 1 .. Len(a) : j \in 1 .. Len(b)
    BY <1>1, <1>8 DEF Shorter
  <2>2. Shorter(a, c)  BY <1>8, <2>1 DEF Shorter
  <2>3. QED  BY <1>4, <2>2
<1>9. QED  BY <1>3, <1>5, <1>6, <1>7, <1>8

\* A key that begins with a prefix is not before it, and neither is any key
\* from the prefix up to that key: all begin with the prefix.
LEMMA PrefixRun ==
    ASSUME NEW p \in Seq(Nat), NEW k \in Seq(Nat), IsPrefix(p, k)
    PROVE  /\ ~Before(k, p)
           /\ \A j \in Seq(Nat) : ~Before(j, p) /\ ~Before(k, j) => IsPrefix(p, j)
<1>1. Len(p) \in Nat /\ Len(k) \in Nat /\ Len(p) <= Len(k) /\ \A i \in 1 .. Len(p) : p[i] = k[i]
  BY PrefixByPlace
<1>2. \A i \in 1 .. Len(p) : p[i] \in Nat /\ i \in 1 .. Len(k)
  <2>1. \A i \in 1 .. Len(p) : p[i] \in Nat  OBVIOUS
  <2>2. Len(p) \in Nat /\ Len(k) \in Nat /\ Len(p) <= Len(k)  BY <1>1
  <2>3. \A i \in 1 .. Len(p) : i \in 1 .. Len(k)  BY <2>2
  <2>4. QED  BY <2>1, <2>3
<1>3. ~Before(k, p)
  <2>1. \A i \in Nat : ~Differs(k, p, i)  BY <1>1, <1>2 DEF Differs
  <2>2. ~Shorter(k, p)  BY <1>1 DEF Shorter
  <2>3. QED  BY <2>1, <2>2, BeforeByPlace
<1>4. ASSUME NEW j \in Seq(Nat), ~Before(j, p), ~Before(k, j) PROVE IsPrefix(p, j)
  <2>1. CASE j = p  BY <2>1, PrefixByPlace
  <2>2. CASE j # p
    <3>1. (\E i \in Nat : Differs(p, j, i)) \/ Shorter(p, j)
      BY <1>4, <2>2, BeforeTotal, BeforeByPlace
    <3>2. ASSUME NEW i \in Nat, Differs(p, j, i) PROVE FALSE
      <4>1. i \in 1 .. Len(k) /\ k[i] = p[i] /\ \A l \in 1 .. i - 1 : l \in 1 .. Len(p)
        BY <1>1, <1>2, <3>2 DEF Differs
      <4>2. Differs(k, j, i)  BY <1>1, <3>2, <4>1 DEF Differs
      <4>3. QED  BY <1>4, <4>2, BeforeByPlace
    <3>3. Shorter(p, j)  BY <3>1, <3>2
    <3>4. Len(p) <= Len(j)  BY <3>3 DEF Shorter
    <3>5. QED  BY <3>3, <3>4, PrefixByPlace DEF Shorter
  <2>3. QED  BY <2>1, <2>2
<1>5. QED  BY <1>3, <1>4

\* s lists S, each member once and in order.
Lists(s, S) ==
    /\ Cardinality(S) \in Nat /\ DOMAIN s = 1 .. Cardinality(S)
    /\ \A i \in 1 .. Cardinality(S) : s[i] \in S
    /\ \A k \in S : \E i \in 1 .. Cardinality(S) : s[i] = k
    /\ \A i, j \in 1 .. Cardinality(S) : i < j => Before(s[i], s[j])

\* How many members of S are before k.
Rank(S, k) == Cardinality({j \in S : Before(j, k)})

LEMMA Ranks ==
    ASSUME NEW S \in SUBSET Seq(Nat), IsFiniteSet(S)
    PROVE  /\ Cardinality(S) \in Nat
           /\ \A k \in S : Rank(S, k) \in 0 .. Cardinality(S) - 1
           /\ \A a, b \in S : Before(a, b) => Rank(S, a) < Rank(S, b)
<1> DEFINE Under(k) == {j \in S : Before(j, k)}
           n == Cardinality(S)
<1>1. n \in Nat  BY FS_CardinalityType
<1>2. ASSUME NEW k \in S
      PROVE  /\ IsFiniteSet(Under(k)) /\ Rank(S, k) = Cardinality(Under(k))
             /\ Cardinality(Under(k)) \in Nat /\ Cardinality(Under(k)) < n
  <2>1. Under(k) \in SUBSET S /\ k \notin Under(k) /\ Under(k) # S  BY BeforeTotal
  <2>2. Rank(S, k) = Cardinality(Under(k))  BY DEF Rank
  <2> HIDE DEF Under
  <2>3. /\ IsFiniteSet(Under(k)) /\ Cardinality(Under(k)) <= n
        /\ Cardinality(Under(k)) = n => Under(k) = S
    BY <2>1, FS_Subset
  <2>4. Cardinality(Under(k)) \in Nat  BY <2>3, FS_CardinalityType
  <2> HIDE DEF n
  <2>5. QED  BY <1>1, <2>1, <2>2, <2>3, <2>4
<1>3. ASSUME NEW a \in S, NEW b \in S, Before(a, b) PROVE Rank(S, a) < Rank(S, b)
  <2>1. a \in Seq(Nat) /\ b \in Seq(Nat)  OBVIOUS
  <2>2. a \in Under(b) /\ a \notin Under(a)  BY <1>3, <2>1, BeforeTotal
  <2>3. Under(a) \in SUBSET Under(b)
    <3>1. ASSUME NEW j \in S, Before(j, a) PROVE Before(j, b)
      BY <1>3, <2>1, <3>1, BeforeTransitive
    <3>2. QED  BY <3>1
  <2>4. /\ Rank(S, a) = Cardinality(Under(a)) /\ Rank(S, b) = Cardinality(Under(b))
        /\ IsFiniteSet(Under(b)) /\ Cardinality(Under(a)) \in Nat /\ Cardinality(Under(b)) \in Nat
    BY <1>2
  <2> HIDE DEF Under
  <2>5. /\ Cardinality(Under(a)) <= Cardinality(Under(b))
        /\ Cardinality(Under(a)) = Cardinality(Under(b)) => Under(a) = Under(b)
    BY <2>3, <2>4, FS_Subset
  <2>6. QED  BY <2>2, <2>4, <2>5
<1> HIDE DEF n
<1>4. ASSUME NEW k \in S PROVE Rank(S, k) \in 0 .. n - 1
  <2>1. Rank(S, k) \in Nat /\ Rank(S, k) < n  BY <1>2
  <2>2. QED  BY <1>1, <2>1
<1>5. QED  BY <1>1, <1>3, <1>4 DEF n

\* The keys in order are listed.
LEMMA InOrderLists ==
    ASSUME NEW S \in SUBSET Seq(Nat), IsFiniteSet(S)
    PROVE  Lists(InOrder(S), S)
<1> DEFINE n == Cardinality(S)
           s == InOrder(S)
           rank == [k \in S |-> Rank(S, k) + 1]
<1>1. /\ n \in Nat
      /\ \A k \in S : Rank(S, k) \in 0 .. n - 1
      /\ \A a, b \in S : Before(a, b) => Rank(S, a) < Rank(S, b)
  BY Ranks
<1>2. s = [i \in 1 .. n |-> CHOOSE k \in S : Rank(S, k) = i - 1]  BY DEF InOrder, Rank
<1> HIDE DEF n, s
<1>3. ASSUME NEW a \in S, NEW b \in S, a # b, Rank(S, a) <= Rank(S, b) PROVE Before(a, b)
  <2>1. Before(a, b) \/ Before(b, a)  BY <1>3, BeforeTotal
  <2>2. Rank(S, a) \in Int /\ Rank(S, b) \in Int  BY <1>1
  <2>3. ~ (Rank(S, b) < Rank(S, a))  BY <1>3, <2>2
  <2>4. QED  BY <1>1, <2>1, <2>3
<1>4. rank \in Surjection(S, 1 .. n)
  <2>1. \A a, b \in S : rank[a] = rank[b] => a = b
    <3>1. SUFFICES ASSUME NEW a \in S, NEW b \in S, rank[a] = rank[b], a # b PROVE FALSE
      OBVIOUS
    <3>2. Rank(S, a) \in Int /\ Rank(S, b) \in Int  BY <1>1
    <3>3. Rank(S, a) = Rank(S, b)  BY <3>1, <3>2
    <3>4. Before(a, b)  BY <1>3, <3>1, <3>2, <3>3
    <3>5. Rank(S, a) < Rank(S, b)  BY <1>1, <3>4
    <3>6. QED  BY <3>2, <3>3, <3>5
  <2>2. \A k \in S : Rank(S, k) + 1 \in 1 .. n
    <3>1. \A x \in 0 .. n - 1 : x + 1 \in 1 .. n  BY <1>1
    <3>2. QED  BY <1>1, <3>1
  <2>3. rank \in Injection(S, 1 .. n)
    <3>1. rank \in [S -> 1 .. n]  BY <2>2
    <3> HIDE DEF rank
    <3>2. QED  BY <2>1, <3>1 DEF Injection, IsInjective
  <2> HIDE DEF rank
  <2>4. IsFiniteSet(1 .. n) /\ Cardinality(1 .. n) = n
    <3>1. 1 \in Int /\ n \in Int  BY <1>1
    <3>2. /\ IsFiniteSet(1 .. n)
          /\ Cardinality(1 .. n) = IF 1 > n THEN 0 ELSE n - 1 + 1
      BY <3>1, FS_Interval
    <3>3. QED  BY <1>1, <3>2
  <2>5. Cardinality(S) = Cardinality(1 .. n)  BY <2>4 DEF n
  <2>6. QED  BY <2>3, <2>4, <2>5, FS_Injection
<1>5. ASSUME NEW i \in 1 .. n PROVE \E k \in S : Rank(S, k) = i - 1
  <2>1. PICK k \in S : rank[k] = i
    <3> HIDE DEF rank
    <3>1. QED  BY <1>4 DEF Surjection
  <2>2. Rank(S, k) + 1 = i /\ Rank(S, k) \in Int  BY <1>1, <2>1
  <2>3. Rank(S, k) = i - 1  BY <2>2
  <2>4. QED  BY <2>3
<1> HIDE DEF rank
<1>6. DOMAIN s = 1 .. n /\ \A i \in 1 .. n : s[i] \in S /\ Rank(S, s[i]) = i - 1
  BY <1>2, <1>5
<1>7. ASSUME NEW k \in S PROVE \E i \in 1 .. n : s[i] = k
  <2>1. PICK i \in 1 .. n : Rank(S, k) = i - 1
    <3>1. Rank(S, k) \in 0 .. n - 1  BY <1>1
    <3>2. Rank(S, k) + 1 \in 1 .. n /\ Rank(S, k) = (Rank(S, k) + 1) - 1  BY <1>1, <3>1
    <3>3. QED  BY <3>2
  <2>2. s[i] \in S /\ Rank(S, s[i]) = Rank(S, k)  BY <1>6, <2>1
  <2>3. Rank(S, k) \in Int  BY <1>1
  <2>4. ASSUME s[i] # k PROVE FALSE
    <3>1. Rank(S, s[i]) <= Rank(S, k)  BY <2>2, <2>3
    <3>2. Before(s[i], k)  BY <1>3, <2>2, <2>4, <3>1
    <3>3. Rank(S, s[i]) < Rank(S, k)  BY <1>1, <2>2, <3>2
    <3>4. QED  BY <2>2, <2>3, <3>3
  <2>5. QED  BY <2>4
<1>8. ASSUME NEW i \in 1 .. n, NEW j \in 1 .. n, i < j PROVE Before(s[i], s[j])
  <2>1. /\ s[i] \in S /\ Rank(S, s[i]) = i - 1
        /\ s[j] \in S /\ Rank(S, s[j]) = j - 1
    BY <1>6
  <2>2. i - 1 # j - 1 /\ i - 1 <= j - 1  BY <1>8
  <2>3. s[i] # s[j] /\ Rank(S, s[i]) <= Rank(S, s[j])  BY <2>1, <2>2
  <2>4. QED  BY <1>3, <2>1, <2>3
<1>9. QED  BY <1>1, <1>6, <1>7, <1>8 DEF Lists, n, s

-----------------------------------------------------------------------------
(* Scans *)

\* The least of the two, as AtMost takes it.
Least(n, limit) == IF n < limit THEN n ELSE limit

\* A limited list is the beginning of the list.
LEMMA AtMostTakes ==
    ASSUME NEW s, NEW n \in Nat, DOMAIN s = 1 .. n, s = [i \in 1 .. n |-> s[i]],
           NEW limit \in Nat
    PROVE  /\ Len(AtMost(limit, s)) = Least(n, limit)
           /\ DOMAIN AtMost(limit, s) = 1 .. Least(n, limit)
           /\ \A i \in 1 .. Least(n, limit) : AtMost(limit, s)[i] = s[i]
           /\ Least(n, limit) \in 0 .. n
<1> DEFINE V == {s[i] : i \in 1 .. n}
<1>1. s \in Seq(V) /\ Len(s) = n
  <2>1. s \in [1 .. n -> V]  OBVIOUS
  <2> HIDE DEF V
  <2>2. QED  BY <2>1
<1>2. Least(n, limit) \in 0 .. n  BY DEF Least
<1>3. AtMost(limit, s) = SubSeq(s, 1, Least(n, limit))  BY <1>1 DEF AtMost, Least
<1> HIDE DEF V
<1>4. /\ Len(SubSeq(s, 1, Least(n, limit))) = Least(n, limit)
      /\ DOMAIN SubSeq(s, 1, Least(n, limit)) = 1 .. Least(n, limit)
      /\ \A i \in 1 .. Least(n, limit) : SubSeq(s, 1, Least(n, limit))[i] = s[i]
  BY <1>1, <1>2
<1>5. QED  BY <1>2, <1>3, <1>4

\* What a memtable has under the keys of a set, listed and limited.
LEMMA EntriesTaken ==
    ASSUME NEW m, NEW S \in SUBSET Seq(Nat), IsFiniteSet(S), NEW limit \in Nat
    PROVE  /\ Lists(InOrder(S), S)
           /\ Len(AtMost(limit, Entries(m, S))) = Least(Cardinality(S), limit)
           /\ DOMAIN AtMost(limit, Entries(m, S)) = 1 .. Least(Cardinality(S), limit)
           /\ \A i \in 1 .. Least(Cardinality(S), limit) :
                AtMost(limit, Entries(m, S))[i].key = InOrder(S)[i]
           /\ Least(Cardinality(S), limit) \in 0 .. Cardinality(S)
<1> DEFINE n == Cardinality(S)
           s == Entries(m, S)
<1>1. Lists(InOrder(S), S)  BY InOrderLists
<1>2. n \in Nat /\ DOMAIN InOrder(S) = 1 .. n  BY <1>1 DEF Lists
<1>3. s = [i \in 1 .. n |-> Entry(m, InOrder(S)[i])]  BY <1>2 DEF Entries
<1> HIDE DEF n, s
<1>4. DOMAIN s = 1 .. n /\ s = [i \in 1 .. n |-> s[i]]
      /\ \A i \in 1 .. n : s[i] = Entry(m, InOrder(S)[i])
  BY <1>3
<1>5. /\ Len(AtMost(limit, s)) = Least(n, limit)
      /\ DOMAIN AtMost(limit, s) = 1 .. Least(n, limit)
      /\ \A i \in 1 .. Least(n, limit) : AtMost(limit, s)[i] = s[i]
      /\ Least(n, limit) \in 0 .. n
  BY <1>2, <1>4, AtMostTakes
<1>6. ASSUME NEW i \in 1 .. Least(n, limit) PROVE AtMost(limit, s)[i].key = InOrder(S)[i]
  <2>1. i \in 1 .. n  BY <1>2, <1>5
  <2>2. AtMost(limit, s)[i] = Entry(m, InOrder(S)[i])  BY <1>4, <1>5, <2>1
  <2>3. QED  BY <2>2 DEF Entry
<1>7. QED  BY <1>1, <1>5, <1>6 DEF n, s

\* The keys with an entry in a table.
Present(m) == DOMAIN m.entries

\* A key is found by get when it is present and no tombstone is.
LEMMA GetFinds ==
    ASSUME NEW m \in Memtable, NEW k
    PROVE  /\ MemGet(m, k) # NoValue <=> (k \in Present(m) /\ ~m.entries[k].deleted)
           /\ k \in Present(m) => k \in Keys /\ k \in Seq(Nat)
<1>1. k \in Present(m) => m.entries[k] \in Slot /\ k \in Keys  BY TableFields DEF Present
<1>2. k \in Present(m) => m.entries[k].value # NoValue /\ m.entries[k].deleted \in BOOLEAN
  <2>1. NoValue \notin Nat  BY DEF NoValue
  <2>2. QED  BY <1>1, <2>1 DEF Slot
<1>3. QED  BY <1>1, <1>2, MemTableAssumption DEF MemGet, Present

\* The keys the loop of prefix_scan takes are the live ones with the prefix.
LEMMA ScannedLive ==
    ASSUME NEW m \in Memtable, NEW p \in Keys
    PROVE  {k \in DOMAIN m.entries : ~m.entries[k].deleted /\ Scanned(m, p, k)}
             = {k \in Keys : MemGet(m, k) # NoValue /\ IsPrefix(p, k)}
<1>1. p \in Seq(Nat)  BY MemTableAssumption
<1>2. ASSUME NEW k \in Present(m) PROVE Scanned(m, p, k) <=> IsPrefix(p, k)
  <2>1. k \in Seq(Nat) /\ \A j \in DOMAIN m.entries : j \in Seq(Nat)
    BY <1>2, GetFinds DEF Present
  <2>2. ASSUME IsPrefix(p, k) PROVE Scanned(m, p, k)
    <3>1. /\ ~Before(k, p)
          /\ \A j \in Seq(Nat) : ~Before(j, p) /\ ~Before(k, j) => IsPrefix(p, j)
      BY <1>1, <2>1, <2>2, PrefixRun
    <3>2. QED  BY <2>1, <3>1 DEF Scanned
  <2>3. ASSUME Scanned(m, p, k) PROVE IsPrefix(p, k)
    <3>1. ~Before(k, k)  BY <2>1, BeforeTotal
    <3>2. QED  BY <2>3, <3>1, <1>2 DEF Scanned, Present
  <2>4. QED  BY <2>2, <2>3
<1>3. ASSUME NEW k
      PROVE  (k \in DOMAIN m.entries /\ ~m.entries[k].deleted /\ Scanned(m, p, k))
               <=> (k \in Keys /\ MemGet(m, k) # NoValue /\ IsPrefix(p, k))
  BY <1>2, GetFinds DEF Present
<1>4. QED  BY <1>3

\* prefix_scan of a finite table agrees with get.
LEMMA PrefixScanAgrees ==
    ASSUME NEW m \in Memtable, IsFiniteSet(DOMAIN m.entries), NEW p \in Keys, NEW limit \in Nat
    PROVE  LET found == MemPrefixScan(m, p, limit)
               live == {k \in Keys : MemGet(m, k) # NoValue /\ IsPrefix(p, k)}
               keys == {found[i].key : i \in DOMAIN found}
           IN  /\ keys \subseteq live
               /\ Len(found) = IF limit < Cardinality(live) THEN limit ELSE Cardinality(live)
               /\ \A i \in 1 .. Len(found) - 1 : Before(found[i].key, found[i + 1].key)
               /\ \A k \in live \ keys, j \in keys : Before(j, k)
<1> DEFINE live == {k \in Keys : MemGet(m, k) # NoValue /\ IsPrefix(p, k)}
           found == MemPrefixScan(m, p, limit)
           keys == {found[i].key : i \in DOMAIN found}
           n == Cardinality(live)
           s == InOrder(live)
           h == Least(n, limit)
<1>1. live \subseteq DOMAIN m.entries /\ live \in SUBSET Seq(Nat)
  BY GetFinds DEF Present
<1>2. found = AtMost(limit, Entries(m, live))  BY ScannedLive DEF MemPrefixScan
<1> HIDE DEF live, found
<1>3. IsFiniteSet(live)  BY <1>1, FS_Subset
<1>4. /\ Lists(s, live) /\ Len(found) = h /\ DOMAIN found = 1 .. h
      /\ \A i \in 1 .. h : found[i].key = s[i]
      /\ h \in 0 .. n
  BY <1>1, <1>2, <1>3, EntriesTaken
<1>5. /\ n \in Nat
      /\ \A i \in 1 .. n : s[i] \in live
      /\ \A k \in live : \E i \in 1 .. n : s[i] = k
      /\ \A i, j \in 1 .. n : i < j => Before(s[i], s[j])
  BY <1>4 DEF Lists
<1>6. h = IF limit < n THEN limit ELSE n
  BY <1>5 DEF Least
<1> HIDE DEF n, s, h
<1>7. \A i \in 1 .. h : i \in 1 .. n  BY <1>4, <1>5
<1>8. keys \subseteq live  BY <1>4, <1>5, <1>7
<1>9. ASSUME NEW i \in 1 .. h - 1 PROVE Before(found[i].key, found[i + 1].key)
  <2>1. i \in 1 .. h /\ i + 1 \in 1 .. h /\ i < i + 1  BY <1>4, <1>5
  <2>2. Before(s[i], s[i + 1])  BY <1>5, <1>7, <2>1
  <2>3. QED  BY <1>4, <2>1, <2>2
<1>10. ASSUME NEW k \in live \ keys, NEW j \in keys PROVE Before(j, k)
  <2>1. PICK b \in 1 .. h : j = s[b]  BY <1>4
  <2>2. PICK a \in 1 .. n : s[a] = k  BY <1>5
  <2>3. a \notin 1 .. h
    <3>1. ASSUME a \in 1 .. h PROVE FALSE
      <4>1. found[a].key = k /\ a \in DOMAIN found  BY <1>4, <2>2, <3>1
      <4>2. k \in keys  BY <4>1
      <4>3. QED  BY <4>2
    <3>2. QED  BY <3>1
  <2>4. b < a /\ b \in 1 .. n  BY <1>4, <1>5, <2>3
  <2>5. QED  BY <1>5, <2>1, <2>2, <2>4
<1>11. QED  BY <1>4, <1>6, <1>8, <1>9, <1>10 DEF live, found, n

-----------------------------------------------------------------------------
(* An SSTable *)

\* What holds at first and is handed on by each of n steps holds at last.
LEMMA HandedOn ==
    ASSUME NEW n \in Nat, NEW T, 0 \in T, \A i \in 1 .. n : i - 1 \in T => i \in T
    PROVE  n \in T
<1> SUFFICES ASSUME n \notin T PROVE FALSE  OBVIOUS
<1> DEFINE R == {i \in 0 .. n : i \notin T}
<1>1. R \in SUBSET Nat /\ n \in R  OBVIOUS
<1>2. PICK m \in R : \A i \in R : m <= i
  <2> HIDE DEF R
  <2>1. QED  BY <1>1, LeastOf
<1>3. m \in 1 .. n /\ m - 1 \in 0 .. n /\ ~ (m <= m - 1)  BY <1>2
<1>4. m - 1 \in T  BY <1>2, <1>3
<1>5. QED  BY <1>2, <1>3, <1>4

\* f is where the first n + 1 of the entries begin.
OffsetLoop(f, entries, n) ==
    f = [i \in 1 .. n + 1 |-> IF i = 1 THEN 0 ELSE f[i - 1] + RecordSize(entries[i - 1])]

LEMMA OffsetLoopExists ==
    ASSUME NEW n \in Nat, NEW entries
    PROVE  \E f : OffsetLoop(f, entries, n)
<1> DEFINE T == {m \in Nat : \E f : OffsetLoop(f, entries, m)}
<1>1. 0 \in T
  <2>1. OffsetLoop([i \in 1 .. 0 + 1 |-> 0], entries, 0)
    <3>1. \A i \in 1 .. 0 + 1 : i = 1  OBVIOUS
    <3>2. QED  BY <3>1 DEF OffsetLoop
  <2>2. QED  BY <2>1
<1>2. ASSUME NEW m \in 1 .. n, m - 1 \in T PROVE m \in T
  <2>1. PICK f : OffsetLoop(f, entries, m - 1)  BY <1>2
  <2>2. f = [i \in 1 .. m |-> IF i = 1 THEN 0 ELSE f[i - 1] + RecordSize(entries[i - 1])]
    <3>1. (m - 1) + 1 = m  OBVIOUS
    <3>2. QED  BY <2>1, <3>1 DEF OffsetLoop
  <2> DEFINE g == [i \in 1 .. m + 1 |-> IF i = m + 1 THEN f[m] + RecordSize(entries[m]) ELSE f[i]]
             h == [i \in 1 .. m + 1 |-> IF i = 1 THEN 0 ELSE g[i - 1] + RecordSize(entries[i - 1])]
  <2>3. ASSUME NEW i \in 1 .. m + 1 PROVE g[i] = h[i]
    <3>1. CASE i = 1
      <4>1. i # m + 1 /\ i \in 1 .. m  BY <3>1
      <4>2. QED  BY <2>2, <3>1, <4>1
    <3>2. CASE i = m + 1
      <4>1. m \in 1 .. m + 1 /\ m # m + 1 /\ i # 1 /\ i - 1 = m  BY <3>2
      <4>2. g[m] = f[m]  BY <4>1
      <4>3. h[i] = g[m] + RecordSize(entries[m])  BY <4>1
      <4>4. g[i] = f[m] + RecordSize(entries[m])  BY <3>2
      <4>5. QED  BY <4>2, <4>3, <4>4
    <3>3. CASE i \in 2 .. m
      <4>1. i \in 1 .. m /\ i # 1 /\ i # m + 1 /\ i - 1 \in 1 .. m + 1 /\ i - 1 # m + 1
        BY <3>3
      <4>2. g[i - 1] = f[i - 1] /\ g[i] = f[i]  BY <4>1
      <4>3. f[i] = f[i - 1] + RecordSize(entries[i - 1])  BY <2>2, <4>1
      <4>4. h[i] = g[i - 1] + RecordSize(entries[i - 1])  BY <4>1
      <4>5. QED  BY <4>2, <4>3, <4>4
    <3>4. QED  BY <3>1, <3>2, <3>3
  <2>4. g = h  BY <2>3
  <2>5. OffsetLoop(g, entries, m)  BY <2>4 DEF OffsetLoop
  <2>6. m \in Nat  OBVIOUS
  <2>7. QED  BY <2>5, <2>6
<1> HIDE DEF T
<1>3. n \in T  BY <1>1, <1>2, HandedOn
<1>4. QED  BY <1>3 DEF T

\* There are n entries, and each takes some bytes.
Sized(entries, n) ==
    /\ n \in Nat /\ Len(entries) = n
    /\ \A i \in 1 .. n : RecordSize(entries[i]) \in Nat \ {0}

\* The first entry begins at 0, every other one where the last ends.
LEMMA OffsetSteps ==
    ASSUME NEW entries, NEW n, Sized(entries, n)
    PROVE  /\ Offset(entries, 1) = 0
           /\ \A i \in 1 .. n :
                Offset(entries, i + 1) = Offset(entries, i) + RecordSize(entries[i])
<1> DEFINE f == CHOOSE g : OffsetLoop(g, entries, n)
<1>1. n \in Nat /\ Len(entries) = n  BY DEF Sized
<1>2. OffsetLoop(f, entries, n)  BY <1>1, OffsetLoopExists
<1>3. \A i : Offset(entries, i) = f[i]  BY <1>1 DEF Offset, OffsetLoop
<1> HIDE DEF f
<1>4. f = [i \in 1 .. n + 1 |-> IF i = 1 THEN 0 ELSE f[i - 1] + RecordSize(entries[i - 1])]
  BY <1>2 DEF OffsetLoop
<1>5. f[1] = 0
  <2>1. 1 \in 1 .. n + 1  BY <1>1
  <2>2. QED  BY <1>4, <2>1
<1>6. ASSUME NEW i \in 1 .. n PROVE f[i + 1] = f[i] + RecordSize(entries[i])
  <2>1. i + 1 \in 1 .. n + 1 /\ i + 1 # 1 /\ (i + 1) - 1 = i  BY <1>1
  <2>2. f[i + 1] = f[(i + 1) - 1] + RecordSize(entries[(i + 1) - 1])  BY <1>4, <2>1
  <2>3. QED  BY <2>1, <2>2
<1>7. QED  BY <1>3, <1>5, <1>6

\* No two entries begin at one place.
LEMMA OffsetsApart ==
    ASSUME NEW entries, NEW n, Sized(entries, n)
    PROVE  /\ \A i \in 1 .. n + 1 : Offset(entries, i) \in Nat
           /\ \A i, j \in 1 .. n : Offset(entries, i) = Offset(entries, j) => i = j
<1> DEFINE O(i) == Offset(entries, i)
           R(i) == RecordSize(entries[i])
<1>1. n \in Nat /\ \A i \in 1 .. n : R(i) \in Nat \ {0}  BY DEF Sized
<1>2. O(1) = 0 /\ \A i \in 1 .. n : O(i + 1) = O(i) + R(i)  BY OffsetSteps
<1> HIDE DEF O, R
<1>3. ASSUME NEW i \in 1 .. n + 1 PROVE O(i) \in Nat
  <2> DEFINE T == {m \in Nat : m <= n => O(m + 1) \in Nat}
  <2>1. 0 \in T  BY <1>2
  <2>2. ASSUME NEW m \in 1 .. n, m - 1 \in T PROVE m \in T
    <3>1. O((m - 1) + 1) \in Nat /\ (m - 1) + 1 = m  BY <1>1, <2>2
    <3>2. O(m + 1) = O(m) + R(m) /\ R(m) \in Nat  BY <1>1, <1>2
    <3>3. O(m + 1) \in Nat  BY <3>1, <3>2
    <3>4. QED  BY <3>3
  <2> HIDE DEF T
  <2>3. i - 1 \in Nat /\ (i - 1) + 1 = i /\ i - 1 <= n
        /\ \A m \in 1 .. i - 1 : m \in 1 .. n
    BY <1>1
  <2>4. i - 1 \in T  BY <2>1, <2>2, <2>3, HandedOn
  <2>5. QED  BY <2>3, <2>4 DEF T
<1>4. ASSUME NEW i \in 1 .. n, NEW d \in Nat, i + d <= n PROVE O(i) < O((i + d) + 1)
  <2> DEFINE T == {m \in Nat : m <= d => O(i) < O((i + m) + 1)}
  <2>1. 0 \in T
    <3>1. O(i + 1) = O(i) + R(i) /\ R(i) \in Nat \ {0} /\ O(i) \in Nat  BY <1>1, <1>2, <1>3
    <3>2. O(i) < O(i + 1) /\ (i + 0) + 1 = i + 1  BY <3>1
    <3>3. QED  BY <3>2
  <2>2. ASSUME NEW m \in 1 .. d, m - 1 \in T PROVE m \in T
    <3>1. O(i) < O((i + (m - 1)) + 1) /\ (i + (m - 1)) + 1 = i + m  BY <2>2
    <3>2. i + m \in 1 .. n /\ i \in 1 .. n + 1 /\ i + m \in 1 .. n + 1  BY <1>1, <1>4
    <3>3. O((i + m) + 1) = O(i + m) + R(i + m) /\ R(i + m) \in Nat
      BY <1>1, <1>2, <3>2
    <3>4. O(i) \in Nat /\ O(i + m) \in Nat  BY <1>3, <3>2
    <3>5. O(i) < O((i + m) + 1)  BY <3>1, <3>3, <3>4
    <3>6. QED  BY <3>5
  <2> HIDE DEF T
  <2>3. d \in T  BY <2>1, <2>2, HandedOn
  <2>4. QED  BY <2>3 DEF T
<1>5. ASSUME NEW i \in 1 .. n, NEW j \in 1 .. n, i < j PROVE O(i) # O(j)
  <2>1. (j - i) - 1 \in Nat /\ i + ((j - i) - 1) <= n /\ (i + ((j - i) - 1)) + 1 = j
    BY <1>1, <1>5
  <2>2. O(i) < O(j)  BY <1>4, <2>1
  <2>3. O(i) \in Nat /\ O(j) \in Nat  BY <1>1, <1>3
  <2>4. QED  BY <2>2, <2>3
<1>6. ASSUME NEW i \in 1 .. n, NEW j \in 1 .. n, O(i) = O(j) PROVE i = j
  <2>1. ~ (i < j) /\ ~ (j < i)  BY <1>5, <1>6
  <2>2. QED  BY <2>1
<1>7. QED  BY <1>3, <1>6 DEF O

\* e is all that memtable m has, in the order s of its n keys.
Written(e, m, s, n) ==
    /\ Lists(s, Present(m)) /\ n = Cardinality(Present(m)) /\ Sized(e, n)
    /\ DOMAIN e = 1 .. n /\ \A i \in 1 .. n : e[i] = Entry(m, s[i]) /\ e[i].key = s[i]
    /\ e = << >> <=> n = 0

LEMMA AllWritten ==
    ASSUME NEW m \in Memtable, IsFiniteSet(DOMAIN m.entries)
    PROVE  Written(MemGetAll(m), m, InOrder(Present(m)), Cardinality(Present(m)))
<1> DEFINE s == InOrder(Present(m))
           n == Cardinality(Present(m))
           e == MemGetAll(m)
<1>1. Lists(s, Present(m))
  <2>1. Present(m) \in SUBSET Seq(Nat) /\ IsFiniteSet(Present(m))
    BY GetFinds DEF Present
  <2>2. QED  BY <2>1, InOrderLists
<1>2. n \in Nat /\ DOMAIN s = 1 .. n /\ \A i \in 1 .. n : s[i] \in Present(m)
  BY <1>1 DEF Lists
<1>3. e = [i \in 1 .. n |-> Entry(m, s[i])]
  BY <1>2 DEF MemGetAll, Entries, Present
<1> HIDE DEF s, n, e
<1>4. DOMAIN e = 1 .. n /\ Len(e) = n
      /\ \A i \in 1 .. n : e[i] = Entry(m, s[i]) /\ e[i].key = s[i]
  <2>1. DOMAIN e = 1 .. n /\ \A i \in 1 .. n : e[i] = Entry(m, s[i])  BY <1>3
  <2>2. \A i \in 1 .. n : e[i].key = s[i]  BY <2>1 DEF Entry
  <2>3. Len(e) = n  BY <1>2, <1>3
  <2>4. QED  BY <2>1, <2>2, <2>3
<1>5. ASSUME NEW i \in 1 .. n PROVE RecordSize(e[i]) \in Nat \ {0}
  <2>1. s[i] \in Seq(Nat) /\ m.entries[s[i]] \in Slot
    BY <1>2, GetFinds, TableFields DEF Present
  <2>2. e[i].key = s[i] /\ e[i].value = m.entries[s[i]].value  BY <1>4 DEF Entry
  <2>3. Len(e[i].key) \in Nat /\ e[i].value \in Nat  BY <2>1, <2>2 DEF Slot
  <2>4. \A x, y \in Nat : 4 + x + 4 + y + 8 + 1 + 8 \in Nat \ {0}  OBVIOUS
  <2>5. 4 + Len(e[i].key) + 4 + e[i].value + 8 + 1 + 8 \in Nat \ {0}  BY <2>3, <2>4
  <2>6. QED  BY <2>5 DEF RecordSize
<1>6. e = << >> <=> n = 0
  <2>1. e = << >> => n = 0  BY <1>4
  <2>2. n = 0 => e = << >>
    <3>1. ASSUME n = 0 PROVE e = << >>
      <4>1. 1 .. n = {}  BY <3>1
      <4>2. QED  BY <1>3, <4>1
    <3>2. QED  BY <3>1
  <2>3. QED  BY <2>1, <2>2
<1>7. Written(e, m, s, n)  BY <1>1, <1>2, <1>4, <1>5, <1>6 DEF Written, Sized, n
<1>8. QED  BY <1>7 DEF e, s, n

\* What is in the file: bits of the filter, records by place, places by key.
BitsOf(e, bloom) == IF bloom THEN BloomBits(e) ELSE 0

RecordsOf(e) ==
    [o \in {Offset(e, i) : i \in DOMAIN e} |-> e[CHOOSE i \in DOMAIN e : Offset(e, i) = o]]

IndexOf(e) ==
    [k \in {e[i].key : i \in DOMAIN e} |-> Offset(e, CHOOSE i \in DOMAIN e : e[i].key = k)]

FilterOf(e, bits) == IF bits = 0 THEN {} ELSE Filter(e)

\* The fields of a written file.
LEMMA FileFields ==
    ASSUME NEW e, NEW bloom, NEW f, f = NewFile(e, bloom)
    PROVE  /\ f.records = RecordsOf(e) /\ f.index = IndexOf(e)
           /\ f.filter = FilterOf(e, BitsOf(e, bloom))
           /\ f.filterAt = Offset(e, Len(e) + 1)
           /\ f.indexAt = Offset(e, Len(e) + 1) + BloomBytes(BitsOf(e, bloom))
           /\ f.footer.bloom_bits = BitsOf(e, bloom)
           /\ f.footer.bloom_size = BloomBytes(BitsOf(e, bloom))
           /\ f.footer.index_offset = Offset(e, Len(e) + 1)
<1> DEFINE bits == BitsOf(e, bloom)
           data == Offset(e, Len(e) + 1)
<1>1. f = [records |-> RecordsOf(e), filter |-> FilterOf(e, bits), filterAt |-> data,
           index |-> IndexOf(e), indexAt |-> data + BloomBytes(bits),
           footer |-> [bloom_bits |-> bits, bloom_size |-> BloomBytes(bits),
                       index_offset |-> data]]
  BY DEF NewFile, RecordsOf, IndexOf, FilterOf, BitsOf
<1> HIDE DEF bits, data
<1>2. /\ f.records = RecordsOf(e) /\ f.index = IndexOf(e) /\ f.filter = FilterOf(e, bits)
      /\ f.filterAt = data /\ f.indexAt = data + BloomBytes(bits)
      /\ f.footer = [bloom_bits |-> bits, bloom_size |-> BloomBytes(bits),
                     index_offset |-> data]
  BY <1>1
<1>3. QED  BY <1>2 DEF bits, data

\* The object create returns.
LEMMA CreatedFields ==
    ASSUME NEW e, NEW bloom, NEW t, t = create(e, bloom)
    PROVE  /\ t.file = NewFile(e, bloom)
           /\ t.index = IndexOf(e) /\ t.file.records = RecordsOf(e)
           /\ t.bits = BitsOf(e, bloom) /\ t.filter = FilterOf(e, BitsOf(e, bloom))
           /\ t.keys = IF e = << >> THEN << >> ELSE <<e[1].key, e[Len(e)].key>>
           /\ t = [file |-> t.file, index |-> t.index, filter |-> t.filter, bits |-> t.bits,
                   keys |-> t.keys]
<1> DEFINE f == NewFile(e, bloom)
           keys == IF e = << >> THEN << >> ELSE <<e[1].key, e[Len(e)].key>>
<1>1. t = [file |-> f, index |-> f.index, filter |-> f.filter, bits |-> f.footer.bloom_bits,
           keys |-> keys]
  BY DEF create
<1>2. /\ f.records = RecordsOf(e) /\ f.index = IndexOf(e)
      /\ f.filter = FilterOf(e, BitsOf(e, bloom)) /\ f.footer.bloom_bits = BitsOf(e, bloom)
  BY FileFields
<1> HIDE DEF f, keys
<1>3. /\ t.file = f /\ t.index = f.index /\ t.filter = f.filter /\ t.keys = keys
      /\ t.bits = f.footer.bloom_bits
      /\ t = [file |-> t.file, index |-> t.index, filter |-> t.filter, bits |-> t.bits,
              keys |-> t.keys]
  BY <1>1
<1>4. QED  BY <1>2, <1>3 DEF f, keys

\* Each key of the index leads to the entry of that key, and the filter has it.
LEMMA RecordsFound ==
    ASSUME NEW m \in Memtable, IsFiniteSet(DOMAIN m.entries), NEW bloom \in BOOLEAN,
           NEW t, t = create(MemGetAll(m), bloom)
    PROVE  /\ DOMAIN t.index = Present(m)
           /\ \A k \in Present(m) : /\ t.file.records[t.index[k]] = Entry(m, k)
                                    /\ might_contain(t, k)
<1>1. PICK e, s, n : e = MemGetAll(m) /\ Written(e, m, s, n)  BY AllWritten
<1>2. /\ n \in Nat /\ DOMAIN e = 1 .. n /\ Len(e) = n /\ Sized(e, n)
      /\ \A i \in 1 .. n : e[i] = Entry(m, s[i]) /\ e[i].key = s[i] /\ s[i] \in Present(m)
      /\ \A k \in Present(m) : \E i \in 1 .. n : s[i] = k
  BY <1>1 DEF Written, Lists, Sized
<1> DEFINE bits == BitsOf(e, bloom)
           records == RecordsOf(e)
           index == IndexOf(e)
<1>3. /\ t.index = index /\ t.file.records = records /\ t.bits = bits
      /\ t.filter = FilterOf(e, bits)
  BY <1>1, CreatedFields
<1>4. {e[i].key : i \in DOMAIN e} = Present(m)  BY <1>2
<1>5. ASSUME NEW k \in Present(m) PROVE records[index[k]] = Entry(m, k)
  <2> DEFINE p == CHOOSE i \in DOMAIN e : e[i].key = k
             q == CHOOSE i \in DOMAIN e : Offset(e, i) = Offset(e, p)
  <2>1. p \in 1 .. n /\ e[p].key = k  BY <1>2
  <2>2. index[k] = Offset(e, p)  BY <1>4 DEF IndexOf
  <2> HIDE DEF p
  <2>3. q \in 1 .. n /\ Offset(e, q) = Offset(e, p)  BY <1>2, <2>1
  <2>4. records[Offset(e, p)] = e[q]
    <3>1. Offset(e, p) \in {Offset(e, i) : i \in DOMAIN e}  BY <1>2, <2>1
    <3>2. QED  BY <3>1 DEF RecordsOf
  <2> HIDE DEF q, records, index
  <2>5. q = p  BY <1>2, <2>1, <2>3, OffsetsApart
  <2>6. e[p] = Entry(m, s[p]) /\ s[p] = k  BY <1>2, <2>1
  <2>7. QED  BY <2>2, <2>4, <2>5, <2>6
<1>6. ASSUME NEW k \in Present(m) PROVE might_contain(t, k)
  <2>1. PICK i \in DOMAIN e : e[i].key = k  BY <1>4
  <2>2. CASE bits = 0  BY <1>3, <2>2 DEF might_contain
  <2>3. CASE bits # 0
    <3>1. bits = BloomBits(e) /\ t.filter = Filter(e) /\ t.bits = BloomBits(e)
      BY <1>3, <2>3 DEF BitsOf, FilterOf
    <3>2. \A x \in Seeds : BitOf(k, x, BloomBits(e)) \in Filter(e)
      BY <2>1 DEF Filter
    <3>3. QED  BY <3>1, <3>2 DEF might_contain
  <2>4. QED  BY <2>2, <2>3
<1>7. DOMAIN index = Present(m)  BY <1>4 DEF IndexOf
<1> HIDE DEF index, records, bits
<1>8. QED  BY <1>3, <1>5, <1>6, <1>7

\* How an SSTable answers for memtable m.
Answers(t, m) ==
    /\ \A k \in Keys : TableGet(t, k) = MemGet(m, k)
    /\ \A a, b \in Keys, limit \in Limits : TableRange(t, a, b, limit) = MemRange(m, a, b, limit)
    /\ t.keys # << >> =>
         \A k \in DOMAIN m.entries : ~Before(k, t.keys[1]) /\ ~Before(t.keys[2], k)

LEMMA CreatedAnswers ==
    ASSUME NEW m \in Memtable, IsFiniteSet(DOMAIN m.entries), NEW bloom \in BOOLEAN,
           NEW t, t = create(MemGetAll(m), bloom)
    PROVE  Answers(t, m)
<1>1. /\ DOMAIN t.index = Present(m)
      /\ \A k \in Present(m) : t.file.records[t.index[k]] = Entry(m, k) /\ might_contain(t, k)
  BY RecordsFound
<1>2. ASSUME NEW k \in Keys PROVE TableGet(t, k) = MemGet(m, k)
  <2>1. CASE k \notin Present(m)
    BY <1>1, <2>1 DEF TableGet, MemGet, Present
  <2>2. CASE k \in Present(m)
    <3>1. /\ might_contain(t, k) /\ k \in DOMAIN t.index /\ k \in DOMAIN m.entries
          /\ t.file.records[t.index[k]] = Entry(m, k)
      BY <1>1, <2>2 DEF Present
    <3>2. /\ Entry(m, k).key = k /\ Entry(m, k).value = m.entries[k].value
          /\ Entry(m, k).deleted = m.entries[k].deleted
      BY DEF Entry
    <3>3. TableGet(t, k) = IF m.entries[k].deleted THEN NoValue ELSE m.entries[k].value
      BY <3>1, <3>2 DEF TableGet
    <3>4. m.entries[k].deleted \in BOOLEAN  BY <3>1, TableFields DEF Slot
    <3>5. QED  BY <3>1, <3>3, <3>4 DEF MemGet
  <2>3. QED  BY <2>1, <2>2
<1>3. ASSUME NEW a \in Keys, NEW b \in Keys, NEW limit \in Limits
      PROVE  TableRange(t, a, b, limit) = MemRange(m, a, b, limit)
  <2> DEFINE S == {k \in DOMAIN m.entries :
                     ~m.entries[k].deleted /\ ~Before(k, a) /\ Before(k, b)}
             U == {k \in DOMAIN t.index : /\ ~Before(k, a) /\ Before(k, b)
                                          /\ ~t.file.records[t.index[k]].deleted}
             s == InOrder(S)
  <2>1. ASSUME NEW k \in Present(m)
        PROVE  t.file.records[t.index[k]].deleted = m.entries[k].deleted
    <3>1. Entry(m, k).deleted = m.entries[k].deleted  BY DEF Entry
    <3>2. QED  BY <1>1, <3>1
  <2>2. U = S  BY <1>1, <2>1 DEF Present
  <2>3. S \in SUBSET Present(m) /\ S \in SUBSET Seq(Nat) /\ IsFiniteSet(S)
    <3>1. S \in SUBSET Present(m)  BY DEF Present
    <3>2. Present(m) \in SUBSET Seq(Nat) /\ IsFiniteSet(Present(m))  BY GetFinds DEF Present
    <3> HIDE DEF S
    <3>3. QED  BY <3>1, <3>2, FS_Subset
  <2>4. TableRange(t, a, b, limit)
          = AtMost(limit, [i \in DOMAIN s |-> t.file.records[t.index[s[i]]]])
    <3>1. TableRange(t, a, b, limit)
            = AtMost(limit, [i \in DOMAIN InOrder(U) |->
                               t.file.records[t.index[InOrder(U)[i]]]])
      BY DEF TableRange
    <3> HIDE DEF S, U
    <3>2. QED  BY <2>2, <3>1
  <2>5. MemRange(m, a, b, limit) = AtMost(limit, [i \in DOMAIN s |-> Entry(m, s[i])])
    BY DEF MemRange, Entries
  <2> HIDE DEF S, U
  <2>6. \A i \in DOMAIN s : s[i] \in Present(m)  BY <2>3, InOrderLists DEF Lists
  <2> HIDE DEF s
  <2>7. [i \in DOMAIN s |-> t.file.records[t.index[s[i]]]] = [i \in DOMAIN s |-> Entry(m, s[i])]
    BY <1>1, <2>6
  <2>8. QED  BY <2>4, <2>5, <2>7
<1>4. ASSUME t.keys # << >>, NEW k \in DOMAIN m.entries
      PROVE  ~Before(k, t.keys[1]) /\ ~Before(t.keys[2], k)
  <2>1. PICK e, s, n : e = MemGetAll(m) /\ Written(e, m, s, n)  BY AllWritten
  <2>2. t.keys = IF e = << >> THEN << >> ELSE <<e[1].key, e[Len(e)].key>>
    BY <2>1 DEF create
  <2>3. e # << >> /\ t.keys[1] = e[1].key /\ t.keys[2] = e[Len(e)].key
    BY <1>4, <2>2
  <2>4. n \in Nat \ {0} /\ Len(e) = n  BY <2>1, <2>3 DEF Written, Sized
  <2>5. 1 \in 1 .. n /\ n \in 1 .. n  BY <2>4
  <2>6. t.keys[1] = s[1] /\ t.keys[2] = s[n]  BY <2>1, <2>3, <2>4, <2>5 DEF Written
  <2>7. /\ \A i \in 1 .. n : s[i] \in Seq(Nat)
        /\ \A i, j \in 1 .. n : i < j => Before(s[i], s[j])
    BY <2>1, GetFinds DEF Written, Lists
  <2>8. PICK i \in 1 .. n : s[i] = k  BY <2>1 DEF Written, Lists, Present
  <2>9. \A x, y \in 1 .. n : x <= y => ~Before(s[y], s[x])
    <3>1. SUFFICES ASSUME NEW x \in 1 .. n, NEW y \in 1 .. n, x <= y, Before(s[y], s[x])
                   PROVE  FALSE
      OBVIOUS
    <3>2. x # y /\ ~Before(s[x], s[x])  BY <2>7, <3>1, BeforeTotal
    <3>3. x < y  BY <3>1, <3>2
    <3>4. Before(s[x], s[y])  BY <2>7, <3>3
    <3>5. s[x] \in Seq(Nat) /\ s[y] \in Seq(Nat)  BY <2>7
    <3>6. Before(s[x], s[x])  BY <3>1, <3>4, <3>5, BeforeTransitive
    <3>7. QED  BY <3>2, <3>6
  <2>10. 1 <= i /\ i <= n  BY <2>4
  <2>11. QED  BY <2>5, <2>6, <2>8, <2>9, <2>10
<1>5. QED  BY <1>2, <1>3, <1>4 DEF Answers

\* A table that was written without a filter, or without entries, is the same
\* when it is opened again.
LEMMA OpenedSame ==
    ASSUME NEW m \in Memtable, IsFiniteSet(DOMAIN m.entries), NEW bloom \in BOOLEAN,
           NEW f, f = NewFile(MemGetAll(m), bloom), f.footer.bloom_size = 0
    PROVE  open(f) = create(MemGetAll(m), bloom)
<1>1. PICK e, s, n : e = MemGetAll(m) /\ s = InOrder(Present(m)) /\ Written(e, m, s, n)
  BY AllWritten
<1> DEFINE t == create(e, bloom)
           o == open(f)
           bits == BitsOf(e, bloom)
           data == Offset(e, Len(e) + 1)
<1>2. /\ f.index = IndexOf(e) /\ f.filter = FilterOf(e, bits)
      /\ f.filterAt = data /\ f.indexAt = data + BloomBytes(bits)
      /\ f.footer.bloom_bits = bits /\ f.footer.bloom_size = BloomBytes(bits)
      /\ f.footer.index_offset = data
  BY <1>1, FileFields
<1>3. /\ t.file = f /\ t.index = IndexOf(e) /\ t.bits = bits /\ t.filter = FilterOf(e, bits)
      /\ t.keys = IF e = << >> THEN << >> ELSE <<e[1].key, e[Len(e)].key>>
      /\ t = [file |-> t.file, index |-> t.index, filter |-> t.filter, bits |-> t.bits,
              keys |-> t.keys]
  BY <1>1, CreatedFields
<1>4. /\ n \in Nat /\ Len(e) = n /\ Sized(e, n) /\ DOMAIN e = 1 .. n
      /\ \A i \in 1 .. n : e[i].key = s[i]
      /\ e = << >> <=> n = 0
  BY <1>1 DEF Written, Sized
<1>5. data \in Nat
  <2>1. n + 1 \in 1 .. n + 1  BY <1>4
  <2>2. QED  BY <1>4, <2>1, OffsetsApart
<1>6. BloomBytes(bits) = 0  BY <1>2
<1> DEFINE index == IF f.footer.index_offset = f.indexAt THEN f.index ELSE << >>
           ks == InOrder(DOMAIN index)
           filter == IF f.footer.index_offset - f.footer.bloom_size = f.filterAt
                     THEN f.filter ELSE {}
           keys == IF ks = << >> THEN << >> ELSE <<ks[1], ks[Len(ks)]>>
<1>7. o = [file |-> f, index |-> index, bits |-> f.footer.bloom_bits, filter |-> filter,
           keys |-> keys]
  BY DEF open
<1> HIDE DEF o, t, bits, data
<1>8. index = IndexOf(e)  BY <1>2, <1>5, <1>6
<1>9. filter = FilterOf(e, bits)
  <2>1. data - 0 = data  BY <1>5
  <2>2. QED  BY <1>2, <1>6, <2>1
<1>10. ks = s
  <2>1. DOMAIN IndexOf(e) = Present(m)
    <3>1. {e[i].key : i \in DOMAIN e} = Present(m)  BY <1>1, <1>4 DEF Written, Lists
    <3>2. QED  BY <3>1 DEF IndexOf
  <2>2. QED  BY <1>1, <1>8, <2>1
<1>11. keys = t.keys
  <2>1. DOMAIN s = 1 .. n /\ s = [i \in 1 .. n |-> s[i]]
    <3> DEFINE g(i) == CHOOSE k \in Present(m) :
                          Cardinality({j \in Present(m) : Before(j, k)}) = i - 1
    <3>1. s = [i \in 1 .. n |-> g(i)]  BY <1>1 DEF InOrder, Written
    <3> HIDE DEF g
    <3>2. QED  BY <3>1
  <2>2. CASE n = 0
    <3>1. s = << >>
      <4>1. 1 .. n = {}  BY <2>2
      <4>2. QED  BY <2>1, <4>1
    <3>2. QED  BY <1>3, <1>4, <1>10, <2>2, <3>1
  <2>3. CASE n # 0
    <3>1. 1 \in 1 .. n /\ n \in 1 .. n  BY <1>4, <2>3
    <3>2. s # << >>  BY <2>1, <3>1
    <3>3. Len(s) = n  BY <1>4, <2>1
    <3>4. e[1].key = s[1] /\ e[Len(e)].key = s[Len(s)]  BY <1>4, <3>1, <3>3
    <3>5. QED  BY <1>3, <1>4, <1>10, <2>3, <3>2, <3>4
  <2>4. QED  BY <2>2, <2>3
<1> HIDE DEF index, ks, filter, keys
<1>12. o = t  BY <1>2, <1>3, <1>7, <1>8, <1>9, <1>11
<1>13. QED  BY <1>1, <1>12 DEF o, t

\* An object opened from a file is of that file.
LEMMA OpenedFile ==
    ASSUME NEW f
    PROVE  open(f).file = f
BY DEF open

-----------------------------------------------------------------------------
(* What is answered *)

\* t is the SSTable made from memtable m, or that opened again.
MadeFrom(t, m) ==
    \E bloom \in BOOLEAN : LET c == create(MemGetAll(m), bloom)
                           IN  t = c \/ t = open(c.file)

\* Every table is finite, and the SSTable is made from the one that is kept as
\* its source.
Kept ==
    /\ \A t \in Threads : IsFiniteSet(DOMAIN memtables[t].entries)
    /\ IsFiniteSet(DOMAIN shared.entries)
    /\ source \in Memtable /\ IsFiniteSet(DOMAIN source.entries)
    /\ table # NoTable => MadeFrom(table, source)

\* A new storage has empty tables.
LEMMA InitKept == Init => Kept
<1>1. SUFFICES ASSUME Init PROVE Kept  OBVIOUS
<1>2. NewTable \in Memtable /\ IsFiniteSet(DOMAIN NewTable.entries)
  BY NewTableEmpty, FS_EmptySet
<1>3. /\ \A t \in Threads : memtables[t] = NewTable
      /\ shared = NewTable /\ source = NewTable /\ table = NoTable
  BY <1>1 DEF Init
<1>4. QED  BY <1>2, <1>3 DEF Kept

\* One key more leaves a finite table finite.
LEMMA StaysFinite ==
    ASSUME NEW m \in Memtable, Covered(m), IsFiniteSet(DOMAIN m.entries), NEW k \in Keys,
           NEW seq \in Nat
    PROVE  /\ \A v \in Values : IsFiniteSet(DOMAIN MemPut(m, k, v, seq).entries)
           /\ IsFiniteSet(DOMAIN MemRemove(m, k, seq).entries)
<1>1. IsFiniteSet(DOMAIN m.entries \cup {k})  BY FS_AddElement
<1>2. ASSUME NEW v \in Values PROVE IsFiniteSet(DOMAIN MemPut(m, k, v, seq).entries)
  <2>1. CASE Fits(m, k, v)
    <3>1. DOMAIN MemPut(m, k, v, seq).entries = DOMAIN m.entries \cup {k}
      BY <2>1, PutEffect
    <3>2. QED  BY <1>1, <3>1
  <2>2. CASE ~Fits(m, k, v)
    <3>1. MemPut(m, k, v, seq) = m  BY <2>2, PutEffect
    <3>2. QED  BY <3>1
  <2>3. QED  BY <2>1, <2>2
<1>3. DOMAIN MemRemove(m, k, seq).entries = DOMAIN m.entries \cup {k}  BY RemoveEffect
<1>4. QED  BY <1>1, <1>2, <1>3

\* Every step keeps tables finite, and the SSTable to its source.
LEMMA NextKept == Typed /\ Kept /\ [Next]_vars => Kept'
<1>1. SUFFICES ASSUME Typed, Kept, [Next]_vars PROVE Kept'  OBVIOUS
<1> USE <1>1
<1>2. ASSUME UNCHANGED <<memtables, table, source>>, IsFiniteSet(DOMAIN shared'.entries)
      PROVE  Kept'
  BY <1>2 DEF Kept
<1>3. ASSUME NEW t \in Threads, Store(t) PROVE Kept'
  <2>1. PICK m \in {memtables[t], NewTable}, k \in Keys, v \in Values : Stores(t, m, k, v)
    BY <1>3, StoreEffect
  <2>2. /\ m \in Memtable /\ Covered(m) /\ drawn[t] \in Nat
        /\ memtables' = [memtables EXCEPT ![t] = MemPut(m, k, v, drawn[t])]
    BY <2>1 DEF Stores
  <2>3. IsFiniteSet(DOMAIN m.entries)
    <3>1. IsFiniteSet(DOMAIN NewTable.entries)  BY NewTableEmpty, FS_EmptySet
    <3>2. QED  BY <3>1 DEF Kept
  <2>4. IsFiniteSet(DOMAIN MemPut(m, k, v, drawn[t]).entries)
    BY <2>1, <2>2, <2>3, StaysFinite
  <2>5. \A u \in Threads : IsFiniteSet(DOMAIN memtables'[u].entries)
    <3>1. SUFFICES ASSUME NEW u \in Threads PROVE IsFiniteSet(DOMAIN memtables'[u].entries)
      OBVIOUS
    <3>2. CASE u = t
      <4>1. memtables'[u] = MemPut(m, k, v, drawn[t])  BY <2>2, <3>2 DEF Typed
      <4>2. QED  BY <2>4, <4>1
    <3>3. CASE u # t
      <4>1. memtables'[u] = memtables[u]  BY <2>2, <3>3 DEF Typed
      <4>2. QED  BY <4>1 DEF Kept
    <3>4. QED  BY <3>2, <3>3
  <2>6. UNCHANGED <<shared, table, source>>  BY <1>3 DEF Store, IndexStep, tableVars
  <2>7. QED  BY <2>5, <2>6 DEF Kept
<1>4. CASE \E t \in Threads : Call(t) \/ Draw(t)
  <2>1. UNCHANGED <<memtables, shared, table, source>>
    BY <1>4 DEF Call, Draw, IndexStep, tableVars
  <2>2. QED  BY <1>2, <2>1 DEF Kept
<1>5. CASE DeleteKey \/ IndexGet \/ Query
  <2>1. UNCHANGED <<memtables, shared, table, source>>
    BY <1>5 DEF DeleteKey, IndexGet, Query, IndexStep, tableVars
  <2>2. QED  BY <1>2, <2>1 DEF Kept
<1>6. shared \in Memtable /\ Covered(shared) /\ sequence_counter \in Nat
      /\ IsFiniteSet(DOMAIN shared.entries)
  BY StorageAssumption DEF Typed, Kept
<1>7. CASE TablePut
  <2>1. PICK k \in Keys, v \in Values : shared' = MemPut(shared, k, v, sequence_counter)
    BY <1>7 DEF TablePut
  <2>2. UNCHANGED <<memtables, table, source>>  BY <1>7 DEF TablePut, TableStep, indexVars
  <2>3. IsFiniteSet(DOMAIN MemPut(shared, k, v, sequence_counter).entries)
    BY <1>6, <2>1, StaysFinite
  <2>4. QED  BY <1>2, <2>1, <2>2, <2>3
<1>8. CASE TableRemove
  <2>1. PICK k \in Keys : shared' = MemRemove(shared, k, sequence_counter)
    BY <1>8 DEF TableRemove
  <2>2. UNCHANGED <<memtables, table, source>>  BY <1>8 DEF TableRemove, TableStep, indexVars
  <2>3. IsFiniteSet(DOMAIN MemRemove(shared, k, sequence_counter).entries)
    BY <1>6, <2>1, StaysFinite
  <2>4. QED  BY <1>2, <2>1, <2>2, <2>3
<1>9. CASE TableClear
  <2>1. shared' = NewTable /\ UNCHANGED <<memtables, table, source>>
    BY <1>9 DEF TableClear, TableStep, indexVars, MemClear
  <2>2. QED  BY <1>2, <2>1, NewTableEmpty, FS_EmptySet
<1>10. CASE Write
  <2>1. PICK bloom \in BOOLEAN : table' = create(MemGetAll(shared), bloom)
    BY <1>10 DEF Write
  <2>2. source' = shared /\ UNCHANGED <<memtables, shared>>
    BY <1>10 DEF Write, TableStep, indexVars
  <2>3. MadeFrom(table', source')  BY <2>1, <2>2 DEF MadeFrom
  <2>4. QED  BY <1>6, <2>2, <2>3 DEF Kept
<1>11. CASE Reopen
  <2>1. table # NoTable /\ table' = open(table.file) /\ UNCHANGED <<memtables, shared, source>>
    BY <1>11 DEF Reopen, TableStep, indexVars
  <2>2. PICK bloom \in BOOLEAN : \/ table = create(MemGetAll(source), bloom)
                                 \/ table = open(create(MemGetAll(source), bloom).file)
    BY <2>1 DEF Kept, MadeFrom
  <2>3. table' = open(create(MemGetAll(source), bloom).file)
    BY <2>1, <2>2, OpenedFile
  <2>4. MadeFrom(table', source')  BY <2>1, <2>3 DEF MadeFrom
  <2>5. QED  BY <2>1, <2>4 DEF Kept
<1>12. CASE Rest \/ UNCHANGED vars
  <2>1. UNCHANGED <<memtables, shared, table, source>>
    BY <1>12 DEF Rest, vars, indexVars, tableVars
  <2>2. QED  BY <1>2, <2>1 DEF Kept
<1>13. QED
  BY <1>3, <1>4, <1>5, <1>7, <1>8, <1>9, <1>10, <1>11, <1>12 DEF Next

\* An SSTable made from a memtable answers as it, unless its filter and index
\* were lost when it was opened.
LEMMA MadeAnswers ==
    ASSUME NEW m \in Memtable, IsFiniteSet(DOMAIN m.entries), NEW t, MadeFrom(t, m),
           t = open(t.file) => t.file.footer.bloom_size = 0
    PROVE  Answers(t, m)
<1>1. PICK bloom \in BOOLEAN : \/ t = create(MemGetAll(m), bloom)
                               \/ t = open(create(MemGetAll(m), bloom).file)
  BY DEF MadeFrom
<1>2. CASE t = create(MemGetAll(m), bloom)  BY <1>2, CreatedAnswers
<1>3. CASE t = open(create(MemGetAll(m), bloom).file)
  <2>1. PICK f : f = create(MemGetAll(m), bloom).file  OBVIOUS
  <2>2. f = NewFile(MemGetAll(m), bloom)  BY <2>1, CreatedFields
  <2>3. t = open(f) /\ t.file = f  BY <1>3, <2>1, OpenedFile
  <2>4. f.footer.bloom_size = 0  BY <2>3
  <2>5. t = create(MemGetAll(m), bloom)  BY <2>2, <2>3, <2>4, OpenedSame
  <2>6. QED  BY <2>5, CreatedAnswers
<1>4. QED  BY <1>1, <1>2, <1>3

\* Types and the invariant give the answers.
LEMMA KeptAnswers == Typed /\ Kept => TableAnswers
<1>1. SUFFICES ASSUME Typed, Kept PROVE TableAnswers  OBVIOUS
<1>2. ScansAgree
  <2>1. \A m \in Tables : m \in Memtable /\ IsFiniteSet(DOMAIN m.entries)
    BY <1>1 DEF Tables, Typed, Kept
  <2>2. \A limit \in Limits : limit \in Nat  BY StorageAssumption
  <2>3. QED  BY <2>1, <2>2, PrefixScanAgrees DEF ScansAgree
<1>3. ASSUME table # NoTable, table = open(table.file) => table.file.footer.bloom_size = 0
      PROVE  Answers(table, source)
  <2>1. source \in Memtable /\ IsFiniteSet(DOMAIN source.entries) /\ MadeFrom(table, source)
    BY <1>1, <1>3 DEF Kept
  <2>2. QED  BY <1>3, <2>1, MadeAnswers
<1>4. QED  BY <1>2, <1>3 DEF TableAnswers, Answers

\* A memtable's prefix scans are what single gets find, and an SSTable answers
\* gets and ranges as the memtable it was written from, for any keys, values,
\* limits and hash functions; opened again too, if it has no filter.
THEOREM TablesAnswer == Spec => []TableAnswers
BY InitKept, NextKept, KeptAnswers, StorageTyped, PTL DEF Spec
=============================================================================
