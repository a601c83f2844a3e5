------------------------------ MODULE MemTable ------------------------------
(***************************************************************************)
(* MemTable: a sorted map of entries, each with its sequence number and a  *)
(* tombstone flag, and the size it is taken to have.  Every operation      *)
(* holds the table's mutex.  A key is a sequence of characters, numbers    *)
(* here, and a value is known by its length.                               *)
(***************************************************************************)
EXTENDS Integers, Sequences, FiniteSets, SequencesExt

CONSTANTS Keys, Values,   \* the keys and values (by length) in use
          Overhead,       \* sizeof(Entry)
          MaxSize         \* max_size_

ASSUME MemTableAssumption ==
    /\ Keys \subseteq Seq(Nat) /\ Values \subseteq Nat
    /\ Overhead \in Nat \ {0} /\ MaxSize \in Nat \ {0}

NewTable == [entries |-> << >>, size |-> 0]
NoValue == -1

EntrySize(k, v) == Len(k) + v + Overhead

Fits(m, k, v) == m.size + EntrySize(k, v) <= MaxSize

is_full(m) == m.size >= MaxSize

\* The map with entry e under k, new or over the one that was there.
Entered(entries, k, e) ==
    [j \in DOMAIN entries \cup {k} |-> IF j = k THEN e ELSE entries[j]]

\* put: an overwritten entry goes on being counted in the size.
MemPut(m, k, v, seq) ==
    IF ~Fits(m, k, v) THEN m
    ELSE [entries |-> Entered(m.entries, k, [value |-> v, seq |-> seq, deleted |-> FALSE]),
          size |-> m.size + EntrySize(k, v)]

MemGet(m, k) ==
    IF k \in DOMAIN m.entries /\ ~m.entries[k].deleted THEN m.entries[k].value ELSE NoValue

\* Mutant of MemRemove: only a key that the table has is marked, and its
\* sequence number alone.
MemRemoveHalf(m, k, seq) ==
    IF k \in DOMAIN m.entries THEN [m EXCEPT !.entries[k].seq = seq] ELSE m

\* remove writes a tombstone, also for a key the table does not have, and
\* counts nothing.
MemRemove(m, k, seq) ==
    [m EXCEPT !.entries = Entered(@, k, [value |-> 0, seq |-> seq, deleted |-> TRUE])]

MemClear(m) == NewTable

\* Keys are compared character by character.
Before(a, b) ==
    \/ \E i \in DOMAIN a \cap DOMAIN b : a[i] < b[i] /\ \A j \in 1 .. i - 1 : a[j] = b[j]
    \/ Len(a) < Len(b) /\ IsPrefix(a, b)

\* The keys of S in their order, which is the order of a std::map: the ith has
\* i - 1 before it.
InOrder(S) ==
    [i \in 1 .. Cardinality(S) |->
        CHOOSE k \in S : Cardinality({j \in S : Before(j, k)}) = i - 1]

AtMost(limit, s) == SubSeq(s, 1, IF Len(s) < limit THEN Len(s) ELSE limit)

Entry(m, k) == [key |-> k, value |-> m.entries[k].value, seq |-> m.entries[k].seq,
                deleted |-> m.entries[k].deleted]

Entries(m, S) == [i \in DOMAIN InOrder(S) |-> Entry(m, InOrder(S)[i])]

\* range: the live entries from a up to, not including, b.
MemRange(m, a, b, limit) ==
    AtMost(limit, Entries(m, {k \in DOMAIN m.entries :
                                 ~m.entries[k].deleted /\ ~Before(k, a) /\ Before(k, b)}))

\* The loop of prefix_scan gets to k: it starts at the first key that is not
\* before the prefix, and ends at the first that does not begin with it.
Scanned(m, prefix, k) ==
    /\ ~Before(k, prefix)
    /\ \A j \in DOMAIN m.entries : ~Before(j, prefix) /\ ~Before(k, j) => IsPrefix(prefix, j)

\* prefix_scan: the live entries the loop passes.
MemPrefixScan(m, prefix, limit) ==
    AtMost(limit, Entries(m, {k \in DOMAIN m.entries :
                                 ~m.entries[k].deleted /\ Scanned(m, prefix, k)}))

\* get_all: every entry, tombstones too, by key.
MemGetAll(m) == Entries(m, DOMAIN m.entries)
=============================================================================
