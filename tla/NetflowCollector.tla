-------------------------- MODULE NetflowCollector --------------------------
(***************************************************************************)
(* NetFlowCollector and NetFlowParser.  A v9 or IPFIX packet has length    *)
(* bytes, after its header those of its sets.  sets is what the parser     *)
(* finds where it looks for one, the next being as far on as the length in *)
(* the set's header says: a template set announces layouts, [id, layout]   *)
(* each; a data set has an id and records which its exporter laid out as   *)
(* layout.  A layout stands for its list of field types and lengths.       *)
(***************************************************************************)
EXTENDS CollectorPipeline

CONSTANTS
    Packets,     \* the packets exporters may send
    LayoutSize   \* layout -> bytes of one record

\* A layout without fields has records of no bytes.
ASSUME LayoutAssumption == \A l \in DOMAIN LayoutSize : LayoutSize[l] \in Nat

\* A template set announces layouts; counts and lengths are numbers, and no
\* layout is announced outside its set.
GoodSet(s) ==
    /\ s.length \in Nat
    /\ s.type = "template" =>
         /\ s.defs \in Seq(ToSet(s.defs))
         /\ s.defs # << >> => 4 * (Len(s.defs) + 1) <= s.length
         /\ \A d \in ToSet(s.defs) : d.layout \in DOMAIN LayoutSize

ASSUME PacketsAssumption ==
    \A p \in Packets :
        /\ p.version = 5 => {p.count, p.fits} \subseteq Nat
        /\ p.version = 9 => p.count \in Nat
        /\ p.version \in {9, 10} =>
             /\ p.length \in Nat /\ p.sets \in Seq(ToSet(p.sets))
             /\ \A s \in ToSet(p.sets) : GoodSet(s)

Smaller(a, b) == IF a < b THEN a ELSE b
Record(v, id, used, sent) == [version |-> v, id |-> id, used |-> used, sent |-> sent]

\* parse_v5: as many records as the header says and the packet has.
parse_v5(p) == [i \in 1 .. Smaller(p.count, p.fits) |-> Record(5, 0, "v5", "v5")]

\* A template set: a later announcement of an id replaces an earlier one.
Announce(table, defs) ==
    [t \in DOMAIN table \cup {defs[i].id : i \in DOMAIN defs} |->
        IF \E i \in DOMAIN defs : defs[i].id = t
        THEN defs[CHOOSE i \in DOMAIN defs : /\ defs[i].id = t
                    /\ \A j \in i + 1 .. Len(defs) : defs[j].id # t].layout
        ELSE table[t]]

\* A data set: records of the known layout as long as they fit after the
\* set's header, none without.
DataRecords(v, table, s) ==
    IF s.id \notin DOMAIN table \/ s.length < 4 THEN << >>
    ELSE [i \in 1 .. (s.length - 4) \div LayoutSize[table[s.id]] |->
            Record(v, s.id, table[s.id], s.layout)]

\* One set of a packet of version v, done being the records and table so far.
ParseSet(v, done, s) ==
    CASE s.type = "template" -> [done EXCEPT !.table = Announce(@, s.defs)]
      [] s.type = "data"     -> [done EXCEPT !.records = @ \o DataRecords(v, done.table, s)]
      [] OTHER               -> done

HeaderSize(v) == IF v = 9 THEN 20 ELSE 16

\* The loop over the sets ends before set s, to be looked for at done.offset:
\* no header fits, as many records were found as a v9 packet's header says,
\* or the set does not fit.
Ends(v, p, done, s) ==
    \/ done.offset + 4 > p.length
    \/ v = 9 /\ Len(done.records) >= p.count
    \/ done.offset + s.length > p.length

\* A loop of the parser that never ends: the next set is looked for where
\* this one is, or the next record where this one is.
Spins(table, s) ==
    \/ s.length = 0
    \/ s.type = "data" /\ s.length >= 4 /\ s.id \in DOMAIN table /\ LayoutSize[table[s.id]] = 0

\* What was done of a packet after set s.  at is "sets" while the loop goes on.
NextSet(v, p, done, s) ==
    IF done.at # "sets" THEN done
    ELSE IF Ends(v, p, done, s) THEN [done EXCEPT !.at = "end"]
    ELSE IF Spins(done.table, s) THEN [done EXCEPT !.at = "spins"]
    ELSE ParseSet(v, [done EXCEPT !.offset = @ + s.length], s)

\* Of a packet whose first set is still to be looked for.
NothingDone(v, table) ==
    [table |-> table, records |-> << >>, offset |-> HeaderSize(v), at |-> "sets"]

\* The sets of a packet one by one.
ParseSets(v, table, p) ==
    LET done[k \in 0 .. Len(p.sets)] ==
            IF k = 0 THEN NothingDone(v, table) ELSE NextSet(v, p, done[k - 1], p.sets[k])
    IN  done[Len(p.sets)]

parse_v9(table, p) == ParseSets(9, table, p)
parse_ipfix(table, p) == ParseSets(10, table, p)

\* Mutant of TablesAfter: v9 and IPFIX templates go into one table.
OneTable(p) ==
    LET after == IF p.version = 9 THEN parse_v9(templates.v9, p).table
                 ELSE parse_ipfix(templates.ipfix, p).table
    IN  IF p.version = 5 THEN templates ELSE [templates EXCEPT !.v9 = after, !.ipfix = after]

\* The template tables after packet p.
TablesAfter(p) ==
    CASE p.version = 9  -> [templates EXCEPT !.v9 = parse_v9(@, p).table]
      [] p.version = 10 -> [templates EXCEPT !.ipfix = parse_ipfix(@, p).table]
      [] OTHER -> templates

\* parse: the records of packet p; an unknown version has none.
RecordsOf(p) ==
    CASE p.version = 5  -> parse_v5(p)
      [] p.version = 9  -> parse_v9(templates.v9, p).records
      [] p.version = 10 -> parse_ipfix(templates.ipfix, p).records
      [] OTHER -> << >>

\* parse never returns from packet p.
NeverParsed(p) ==
    \/ p.version = 9 /\ parse_v9(templates.v9, p).at = "spins"
    \/ p.version = 10 /\ parse_ipfix(templates.ipfix, p).at = "spins"

-----------------------------------------------------------------------------
NetflowStart == kind = "netflow" /\ Launch(TRUE, FALSE, FALSE)

NetflowStartFails == kind = "netflow" /\ phase = "idle" /\ UNCHANGED vars

PacketArrives ==
    /\ kind = "netflow" /\ running /\ inputs < MaxInputs
    /\ \E p \in Packets : socket' = Append(socket, [id |-> <<inputs + 1, 1>>, body |-> p])
    /\ inputs' = inputs + 1
    /\ UNCHANGED <<kind, running, phase, threadVars, ringVars, conn, templates, bookVars,
                   producerVars>>

NetflowReceive(r) == kind = "netflow" /\ ReceiveDatagram(r)

\* processing_loop: an event for every record of a packet.
NetflowProcess ==
    /\ kind = "netflow" /\ queue # << >> /\ ~NeverParsed(Head(queue).body)
    /\ \E recs \in {RecordsOf(Head(queue).body)} :
         Process([i \in DOMAIN recs |-> [src |-> <<Head(queue).id[1], i>>, data |-> recs[i]]],
                 Len(recs), 0)
    /\ templates' = TablesAfter(Head(queue).body)

\* processing_loop pops a packet and stays in parse, whether running_ or not.
\* It looks at no template table any more.
NetflowSticks ==
    /\ kind = "netflow" /\ queue # << >> /\ NeverParsed(Head(queue).body)
    /\ ppc = "loop" /\ running
    /\ ppc' = "parsing"
    /\ Ring!Take
    /\ UNCHANGED <<kind, running, phase, rpc, hand, apc, batch, envVars, templates, bookVars,
                   producerVars>>

NetflowSpins == kind = "netflow" /\ ppc = "parsing" /\ UNCHANGED vars

NetflowFlush  == kind = "netflow" /\ FlushBatch
NetflowFinish == kind = "netflow" /\ FinishLoop
=============================================================================
