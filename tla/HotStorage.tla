----------------------------- MODULE HotStorage -----------------------------
(***************************************************************************)
(* The hot storage.  In part "index" threads use an LSMIndex: each fills a *)
(* memtable of its own, and only the sequence counter and the statistics   *)
(* are shared.  In part "table" a MemTable is used directly, and written   *)
(* to an SSTable that is read, and opened again; no code of the index does *)
(* this.                                                                   *)
(***************************************************************************)
EXTENDS SSTable

CONSTANTS Parts, Threads,
          Batches,   \* what put_batch may be called with; put is a batch of one
          Limits,    \* limits of scans
          MaxSeq, MaxReads   \* bounds: sequence numbers drawn, reads counted

ASSUME StorageAssumption ==
    /\ Parts \subseteq {"index", "table"} /\ {MaxSeq, MaxReads} \subseteq Nat
    /\ Batches \subseteq Seq(Keys \X Values) /\ Limits \subseteq Nat

VARIABLES
    part,
    memtables,  \* index: per thread, its static thread_local memtable
    drawn,      \* index: per thread, the sequence number drawn, NoSeq if none
    todo,       \* index: per thread, what is left of the batch it puts
    sequence_counter,
    stats,      \* index: stats_
    deletes,    \* history: how many sequence numbers delete_key drew
    shared,     \* table: the MemTable
    reply,      \* history: the last operation on it and what it returned
    table,      \* table: the SSTable object, NoTable if none
    source      \* history: the MemTable the SSTable was written from

indexVars == <<memtables, drawn, todo, stats, deletes>>
tableVars == <<shared, reply, table, source>>
vars == <<part, sequence_counter, indexVars, tableVars>>

NoSeq == -1
NoTable == [index |-> NoSeq]

Init ==
    /\ part \in Parts
    /\ memtables = [t \in Threads |-> NewTable]
    /\ drawn = [t \in Threads |-> NoSeq] /\ todo = [t \in Threads |-> << >>]
    /\ sequence_counter = 0 /\ deletes = 0
    /\ stats = [writes |-> 0, total_keys |-> 0, memtable_size |-> 0, reads |-> 0,
                range_queries |-> 0]
    /\ shared = NewTable /\ reply = << >> /\ table = NoTable /\ source = NewTable

-----------------------------------------------------------------------------
(* LSMIndex *)

IndexStep == part = "index" /\ UNCHANGED <<part, tableVars>>

\* put_batch or put is called.
Call(t) ==
    /\ IndexStep /\ todo[t] = << >>
    /\ \E b \in Batches : todo' = [todo EXCEPT ![t] = b]
    /\ UNCHANGED <<memtables, drawn, sequence_counter, stats, deletes>>

\* Mutant of Draw: the counter is advanced only when the entry was stored.
DrawOnly(t) ==
    /\ IndexStep /\ todo[t] # << >> /\ drawn[t] = NoSeq /\ sequence_counter < MaxSeq
    /\ drawn' = [drawn EXCEPT ![t] = sequence_counter]
    /\ sequence_counter' = sequence_counter + (IF Fits(memtables[t], todo[t][1][1], todo[t][1][2])
                                               THEN 1 ELSE 0)
    /\ UNCHANGED <<memtables, todo, stats, deletes>>

\* put: fetch_add.
Draw(t) ==
    /\ IndexStep /\ todo[t] # << >> /\ drawn[t] = NoSeq /\ sequence_counter < MaxSeq
    /\ drawn' = [drawn EXCEPT ![t] = sequence_counter]
    /\ sequence_counter' = sequence_counter + 1
    /\ UNCHANGED <<memtables, todo, stats, deletes>>

\* The memtable that the next entry goes to: a full one is replaced.  flush()
\* writes nothing, and what the old one held is gone.
Replaced(m) == IF is_full(m) THEN NewTable ELSE m

\* The rest of put: the entry is stored or refused, the call counted in any
\* case.  put_batch goes on to the next entry, or ends at a refusal.
Store(t) ==
    /\ IndexStep /\ drawn[t] # NoSeq
    /\ LET k == todo[t][1][1]
           v == todo[t][1][2]
           m == Replaced(memtables[t])
       IN  /\ memtables' = [memtables EXCEPT ![t] = MemPut(m, k, v, drawn[t])]
           /\ stats' = [stats EXCEPT !.writes = @ + 1, !.total_keys = @ + 1,
                                     !.memtable_size = MemPut(m, k, v, drawn[t]).size]
           /\ todo' = [todo EXCEPT ![t] = IF Fits(m, k, v) THEN Tail(@) ELSE << >>]
    /\ drawn' = [drawn EXCEPT ![t] = NoSeq]
    /\ UNCHANGED <<sequence_counter, deletes>>

\* delete_key draws a sequence number and writes no tombstone.
DeleteKey ==
    /\ IndexStep /\ sequence_counter < MaxSeq
    /\ sequence_counter' = sequence_counter + 1 /\ deletes' = deletes + 1
    /\ UNCHANGED <<memtables, drawn, todo, stats>>

\* get finds nothing and counts.
IndexGet ==
    /\ IndexStep /\ stats.reads < MaxReads
    /\ stats' = [stats EXCEPT !.reads = @ + 1]
    /\ UNCHANGED <<memtables, drawn, todo, sequence_counter, deletes>>

\* query counts and finds nothing, whether by range or by prefix.  search(),
\* aggregate() and count() of QueryEngine are a call of it each, and have
\* nothing to sort, sum or count.
Query ==
    /\ IndexStep /\ stats.range_queries < MaxReads
    /\ stats' = [stats EXCEPT !.range_queries = @ + 1]
    /\ UNCHANGED <<memtables, drawn, todo, sequence_counter, deletes>>

-----------------------------------------------------------------------------
(* MemTable and SSTable *)

TableStep == part = "table" /\ UNCHANGED <<part, indexVars>>

\* The caller numbers its writes.
TablePut ==
    /\ TableStep /\ sequence_counter < MaxSeq
    /\ \E k \in Keys, v \in Values :
         /\ shared' = MemPut(shared, k, v, sequence_counter)
         /\ reply' = <<"put", k, v, Fits(shared, k, v)>>
    /\ sequence_counter' = sequence_counter + 1
    /\ UNCHANGED <<table, source>>

TableRemove ==
    /\ TableStep /\ sequence_counter < MaxSeq
    /\ \E k \in Keys :
         /\ shared' = MemRemove(shared, k, sequence_counter)
         /\ reply' = <<"remove", k>>
    /\ sequence_counter' = sequence_counter + 1
    /\ UNCHANGED <<table, source>>

TableClear ==
    /\ TableStep
    /\ shared' = MemClear(shared) /\ reply' = <<"clear">>
    /\ UNCHANGED <<sequence_counter, table, source>>

\* create() from the table's entries, with a filter or without.
Write ==
    /\ TableStep /\ table = NoTable
    /\ \E bloom \in BOOLEAN : table' = create(MemGetAll(shared), bloom)
    /\ source' = shared
    /\ UNCHANGED <<sequence_counter, shared, reply>>

Reopen ==
    /\ TableStep /\ table # NoTable
    /\ table' = open(table.file)
    /\ UNCHANGED <<sequence_counter, shared, reply, source>>

\* The numbers are used up.
Rest == sequence_counter = MaxSeq /\ UNCHANGED vars

Next == \/ \E t \in Threads : Call(t) \/ Draw(t) \/ Store(t)
        \/ DeleteKey \/ IndexGet \/ Query
        \/ TablePut \/ TableRemove \/ TableClear \/ Write \/ Reopen \/ Rest

Spec == Init /\ [][Next]_vars

-----------------------------------------------------------------------------
(* Properties *)

Tables == {memtables[t] : t \in Threads} \cup {shared}

\* Every variable holds a value of its type; no memtable is larger than it may
\* be, and its size covers the entries it holds.
TypeOK ==
    /\ \A m \in Tables :
         /\ DOMAIN m.entries \subseteq Keys
         /\ m.size \in 0 .. MaxSize
         /\ \A k \in DOMAIN m.entries : ~m.entries[k].deleted =>
              EntrySize(k, m.entries[k].value) <= m.size
    /\ sequence_counter \in 0 .. MaxSeq
    /\ \A t \in Threads : drawn[t] # NoSeq => todo[t] # << >>

\* A sequence number is given to one operation: entries of different threads'
\* memtables, and the puts under way, have different ones.
SequencesUnique ==
    LET held == {p \in Threads \X Keys : p[2] \in DOMAIN memtables[p[1]].entries}
        seqs == {memtables[p[1]].entries[p[2]].seq : p \in held}
        under == {t \in Threads : drawn[t] # NoSeq}
    IN  /\ Cardinality(seqs \cup {drawn[t] : t \in under}) = Cardinality(held) + Cardinality(under)
        /\ \A s \in seqs : s < sequence_counter

\* Every put and delete that began is under way or counted, also a refused
\* one, whatever threads were putting at the same time.
PutsCounted ==
    part = "index" =>
        stats.writes + Cardinality({t \in Threads : drawn[t] # NoSeq}) + deletes = sequence_counter

\* The index keeps its books whatever threads put at the same time: sequence
\* numbers are unique, counts cover every put, and a table stays in its limit.
IndexConsistent == TypeOK /\ SequencesUnique /\ PutsCounted

\* What the README and the memtable's own comment say of a full table: it is
\* flushed, so a put that a new table would take finds room.  The index
\* replaces a table whose size is exactly the maximum; one a little smaller
\* refuses the put as full and stays, for the life of its thread.
FullIsFlushed ==
    \A t \in Threads : drawn[t] # NoSeq =>
        LET k == todo[t][1][1]
            v == todo[t][1][2]
        IN  Fits(NewTable, k, v) => Fits(Replaced(memtables[t]), k, v)

\* prefix_scan returns the first live keys with the prefix, in order, as many
\* as there are and the limit allows; tombstones do not use up the limit.
ScansAgree ==
    \A m \in Tables, p \in Keys, limit \in Limits :
        LET found == MemPrefixScan(m, p, limit)
            live == {k \in Keys : MemGet(m, k) # NoValue /\ IsPrefix(p, k)}
            keys == {found[i].key : i \in DOMAIN found}
        IN  /\ keys \subseteq live
            /\ Len(found) = IF limit < Cardinality(live) THEN limit ELSE Cardinality(live)
            /\ \A i \in 1 .. Len(found) - 1 : Before(found[i].key, found[i + 1].key)
            /\ \A k \in live \ keys, j \in keys : Before(j, k)

\* An SSTable answers as the memtable it was written from did, by key and by
\* range, tombstones included; after it was opened again too, if it was
\* written without a filter or without entries.  Prefix scans of a memtable
\* return what single gets do.
TableAnswers ==
    /\ ScansAgree
    /\ table # NoTable /\ (table = open(table.file) => table.file.footer.bloom_size = 0) =>
        /\ \A k \in Keys : TableGet(table, k) = MemGet(source, k)
        /\ \A a, b \in Keys, limit \in Limits :
             TableRange(table, a, b, limit) = MemRange(source, a, b, limit)
        /\ table.keys # << >> => \A k \in DOMAIN source.entries :
             ~Before(k, table.keys[1]) /\ ~Before(table.keys[2], k)

LiveKeys == {k \in DOMAIN shared.entries : ~shared.entries[k].deleted}
Dict == INSTANCE Dictionary WITH dict <- [k \in LiveKeys |-> shared.entries[k].value]

\* A MemTable is a dictionary: through get, tombstones, sequence numbers and
\* the sizes by which puts are refused cannot be seen.
IsDictionary == Dict!Spec
=============================================================================
