------------------------------- MODULE SSTable -------------------------------
(***************************************************************************)
(* SSTable: entries written to a file as data records, filter, index and   *)
(* footer, and read back through the index.  A file is known by what lies  *)
(* at which offset; a block that is looked for where it is not is found    *)
(* empty (the bytes there are something else's).  The hash functions are   *)
(* any: Hash[k][s] for key k and seed s.                                   *)
(***************************************************************************)
EXTENDS MemTable

CONSTANTS Hash, Seeds   \* bloom_hash and the seeds 0, 1 and 2

\* Bytes of a data record: lengths, key, value, sequence number, flag, time.
RecordSize(e) == 4 + Len(e.key) + 4 + e.value + 8 + 1 + 8

\* Where the ith of the entries begins.
Offset(entries, i) ==
    LET at[n \in 1 .. Len(entries) + 1] ==
            IF n = 1 THEN 0 ELSE at[n - 1] + RecordSize(entries[n - 1])
    IN  at[i]

\* write_bloom_filter: ten bits for each key, none if there is no key.
BloomBits(entries) == 10 * Len(entries)
BloomBytes(bits) == (bits + 7) \div 8

BitOf(k, seed, bits) == Hash[k][seed] % bits

Filter(entries) == {BitOf(entries[i].key, s, BloomBits(entries)) : i \in DOMAIN entries, s \in Seeds}

\* create: what is written, and the object that is returned.  The offset in
\* the footer is taken before the filter is written, the index comes after.
NewFile(entries, bloom) ==
    LET bits == IF bloom THEN BloomBits(entries) ELSE 0
        data == Offset(entries, Len(entries) + 1)
    IN  [records |-> [o \in {Offset(entries, i) : i \in DOMAIN entries} |->
                        entries[CHOOSE i \in DOMAIN entries : Offset(entries, i) = o]],
         filter |-> IF bits = 0 THEN {} ELSE Filter(entries), filterAt |-> data,
         index |-> [k \in {entries[i].key : i \in DOMAIN entries} |->
                        Offset(entries, CHOOSE i \in DOMAIN entries : entries[i].key = k)],
         indexAt |-> data + BloomBytes(bits),
         footer |-> [bloom_bits |-> bits, bloom_size |-> BloomBytes(bits),
                     index_offset |-> data]]

create(entries, bloom) ==
    LET f == NewFile(entries, bloom)
    IN  [file |-> f, index |-> f.index, filter |-> f.filter, bits |-> f.footer.bloom_bits,
         keys |-> IF entries = << >> THEN << >>
                  ELSE <<entries[1].key, entries[Len(entries)].key>>]

\* open and read_bloom_filter: the filter is read from before the offset in
\* the footer, the index from the offset.
open(f) ==
    LET index == IF f.footer.index_offset = f.indexAt THEN f.index ELSE << >>
        ks == InOrder(DOMAIN index)
    IN  [file |-> f, index |-> index, bits |-> f.footer.bloom_bits,
         filter |-> IF f.footer.index_offset - f.footer.bloom_size = f.filterAt THEN f.filter
                    ELSE {},
         keys |-> IF ks = << >> THEN << >> ELSE <<ks[1], ks[Len(ks)]>>]

\* Mutant of might_contain: the number of bits is rounded to whole bytes.
MightContainRounded(t, k) ==
    t.bits = 0 \/ \A s \in Seeds : BitOf(k, s, 8 * BloomBytes(t.bits)) \in t.filter

might_contain(t, k) == t.bits = 0 \/ \A s \in Seeds : BitOf(k, s, t.bits) \in t.filter

TableGet(t, k) ==
    IF ~might_contain(t, k) \/ k \notin DOMAIN t.index THEN NoValue
    ELSE LET e == t.file.records[t.index[k]]
         IN  IF e.key # k \/ e.deleted THEN NoValue ELSE e.value

\* range: from a up to, not including, b, tombstones passed over.
TableRange(t, a, b, limit) ==
    LET found == InOrder({k \in DOMAIN t.index : /\ ~Before(k, a) /\ Before(k, b)
                                                 /\ ~t.file.records[t.index[k]].deleted})
    IN  AtMost(limit, [i \in DOMAIN found |-> t.file.records[t.index[found[i]]]])
=============================================================================
