--------------------------- MODULE CollectorsProofs ---------------------------
(***************************************************************************)
(* The collectors and the agent for any receivers, any traffic, any limits *)
(* and any number of restarts: every message is in one place, every event  *)
(* reaches the producer once and in order, an event made of a syslog       *)
(* message says what was meant, and nothing is produced after stop() has   *)
(* returned.                                                               *)
(***************************************************************************)
EXTENDS Collectors, FiniteSetTheorems, SequenceTheorems, WellFoundedInduction, TLAPS

-----------------------------------------------------------------------------
(* Types *)

\* A message is known by the input it came with and a number within it.
MsgIds == (Nat \ {0}) \X (Nat \ {0})
Words == {Newline} \cup UNION {ToSet(l) : l \in TcpLines}

\* What the messages of a collector of kind k may hold.
Bodies(k) ==
    CASE k = "netflow" -> Packets
      [] k = "winlog"  -> XmlTexts
      [] k = "agent"   -> EndpointEvents
      [] OTHER         -> Datagrams \cup Seq(Words)

RawMessages(k) == [id : MsgIds, body : Bodies(k)]

Cells == [line : Nat \ {0}, pos : Nat \ {0}, sym : Words]
Lines == [line : Nat \ {0}, text : TcpLines]
Conns == [pc : {"none", "listen", "armed", "pushing"}, pieces : Seq(RawMessages("syslog")),
          stream : Seq(Cells), sent : Seq(Lines)]

\* What events are made of.
SetIds == {0} \cup UNION {{s.id : s \in ToSet(p.sets)} : p \in Packets}
SentLayouts == {"v5"} \cup UNION {{s.layout : s \in ToSet(p.sets)} : p \in Packets}
FlowRecords == [version : {5, 9, 10}, id : SetIds, used : {"v5"} \cup DOMAIN LayoutSize,
                sent : SentLayouts]
Contents ==
    {SyslogFields(b) : b \in Bodies("syslog")} \cup FlowRecords
    \cup {WinlogEvent(m).data : m \in RawMessages("winlog")}
    \cup {convert_endpoint_event(m).data : m \in RawMessages("agent")} \cup {"heartbeat"}
EventType == [src : Nat \X (Nat \ {0}), data : Contents]

GoodTable(table) == \A t \in DOMAIN table : table[t] \in DOMAIN LayoutSize

\* The threads and what they hold.  Outside a run the loops that produce have
\* ended.
ControlTyped ==
    /\ kind \in Kinds /\ running \in BOOLEAN /\ phase \in {"idle", "running", "joining"}
    /\ running <=> phase = "running"
    /\ rpc \in [Receivers -> {"armed", "push", "exited"}]
    /\ hand \in [Receivers -> RawMessages(kind) \cup {NoMsg}]
    /\ \A r \in Receivers : rpc[r] = "push" <=> hand[r] # NoMsg
    /\ apc \in {"exited", "asleep"} /\ ppc \in {"exited", "loop", "parsing"}
    /\ phase = "idle" =>
         /\ apc = "exited" /\ ppc = "exited"
         /\ kind \in {"syslog", "netflow"} => \A r \in Receivers : rpc[r] = "exited"

\* Where messages are.  Only the syslog collector has a connection.
PlacesTyped ==
    /\ queue \in Seq(RawMessages(kind)) /\ delivered \in Seq(RawMessages(kind))
    /\ socket \in Seq(RawMessages(kind))
    /\ dropped \subseteq RawMessages(kind) /\ IsFiniteSet(dropped)
    /\ Len(queue) <= RingLimit
    /\ conn \in Conns /\ (kind # "syslog" => conn = NoConn)
    /\ conn.pc = "pushing" <=> conn.pieces # << >>
    /\ inputs \in Nat

TemplatesTyped ==
    /\ templates = [v9 |-> templates.v9, ipfix |-> templates.ipfix, since |-> templates.since]
    /\ GoodTable(templates.v9) /\ GoodTable(templates.ipfix)
    /\ templates.since \in 0 .. Len(delivered)

Statistics == [received : Nat, parsed : Nat, errors : Nat, produced : Nat, heartbeats : Nat,
               actions : Nat]

BooksTyped ==
    /\ stats \in Statistics /\ pstats \in [produced : Nat, failed : Nat]
    /\ made \in Seq(EventType) /\ batch \in Seq(EventType)
    /\ outq \in Seq(EventType) /\ settled \in Seq(EventType) /\ refused \subseteq EventType
    /\ IsFiniteSet(refused)
    /\ ppc = "exited" => batch = << >>
    /\ Len(batch) < BatchSize /\ queue_size <= QueueMax

Typed == ControlTyped /\ PlacesTyped /\ TemplatesTyped /\ BooksTyped

-----------------------------------------------------------------------------
(* Sequences *)

\* Taking the head of a sequence.
LEMMA HeadTail ==
    ASSUME NEW S, NEW s \in Seq(S), s # << >>
    PROVE  /\ Head(s) \in S /\ Tail(s) \in Seq(S) /\ Len(Tail(s)) = Len(s) - 1
           /\ Len(s) \in Nat \ {0} /\ Head(s) = s[1]
           /\ \A i \in 1 .. Len(s) - 1 : Tail(s)[i] = s[i + 1]
OBVIOUS

\* A sequence with one more element.
LEMMA AppendEffect ==
    ASSUME NEW S, NEW s \in Seq(S), NEW x \in S
    PROVE  /\ Append(s, x) \in Seq(S) /\ Len(Append(s, x)) = Len(s) + 1
           /\ Len(s) \in Nat /\ Append(s, x)[Len(s) + 1] = x
           /\ \A i \in 1 .. Len(s) : Append(s, x)[i] = s[i]
           /\ Append(s, x) # << >>
<1>1. /\ Append(s, x) \in Seq(S) /\ Len(Append(s, x)) = Len(s) + 1
      /\ Len(s) \in Nat /\ Append(s, x)[Len(s) + 1] = x
      /\ \A i \in 1 .. Len(s) : Append(s, x)[i] = s[i]
  OBVIOUS
<1>2. Append(s, x) # << >>  BY <1>1
<1>3. QED  BY <1>1, <1>2

\* The members of a sequence.
LEMMA Members ==
    ASSUME NEW S, NEW s \in Seq(S)
    PROVE  ToSet(s) = {s[i] : i \in 1 .. Len(s)} /\ ToSet(s) \subseteq S
<1>1. ToSet(s) = Range(s)  BY DEF ToSet, Range
<1>2. Range(s) = {s[i] : i \in 1 .. Len(s)}  BY RangeEquality
<1>3. QED  BY <1>1, <1>2

\* The members of a sequence behind another.
LEMMA ConcatMembers ==
    ASSUME NEW S, NEW s \in Seq(S), NEW t \in Seq(S)
    PROVE  /\ ToSet(s \o t) = ToSet(s) \cup ToSet(t)
           /\ ToSet(s) = {s[i] : i \in 1 .. Len(s)}
<1>1. /\ ToSet(s) = Range(s) /\ ToSet(t) = Range(t) /\ ToSet(s \o t) = Range(s \o t)
  BY DEF ToSet, Range
<1>2. Range(s \o t) = Range(s) \cup Range(t)  BY RangeConcatenation
<1>3. Range(s) = {s[i] : i \in 1 .. Len(s)}  BY RangeEquality
<1>4. QED  BY <1>1, <1>2, <1>3

\* A finite set's image; it has as many members when no two have one image.
LEMMA ImageFinite ==
    ASSUME NEW S, IsFiniteSet(S), NEW f, DOMAIN f = S
    PROVE  /\ IsFiniteSet({f[x] : x \in S})
           /\ (\A x, y \in S : f[x] = f[y] => x = y) =>
                Cardinality({f[x] : x \in S}) = Cardinality(S)
<1> DEFINE T == {f[x] : x \in S}
           g == [x \in S |-> f[x]]
<1>1. g \in [S -> T] /\ \A t \in T : \E x \in S : g[x] = t  OBVIOUS
<1>2. g \in Surjection(S, T)  BY <1>1 DEF Surjection
<1>3. ASSUME \A x, y \in S : f[x] = f[y] => x = y PROVE g \in Injection(S, T)
  BY <1>1, <1>3 DEF Injection, IsInjective
<1> HIDE DEF T, g
<1>4. IsFiniteSet(T) /\ (Cardinality(T) = Cardinality(S) <=> g \in Injection(S, T))
  BY <1>2, FS_Surjection
<1>5. QED  BY <1>3, <1>4 DEF T

\* Three sequences one behind the other.
Associates(a, b, c) == (a \o b) \o c = a \o (b \o c)

LEMMA Association ==
    ASSUME NEW S, NEW a \in Seq(S), NEW b \in Seq(S), NEW c \in Seq(S)
    PROVE  Associates(a, b, c)
BY ConcatAssociative DEF Associates

\* A range of n numbers.
LEMMA RangeSize ==
    ASSUME NEW n \in Nat
    PROVE  IsFiniteSet(1 .. n) /\ Cardinality(1 .. n) = n
BY FS_Interval

\* The two parts of a sequence cut behind place n.
LEMMA Cut ==
    ASSUME NEW S, NEW s \in Seq(S), NEW n \in 0 .. Len(s)
    PROVE  /\ SubSeq(s, 1, n) \in Seq(S) /\ SubSeq(s, n + 1, Len(s)) \in Seq(S)
           /\ Len(SubSeq(s, 1, n)) = n /\ Len(SubSeq(s, n + 1, Len(s))) = Len(s) - n
           /\ \A i \in 1 .. n : SubSeq(s, 1, n)[i] = s[i]
           /\ \A i \in 1 .. Len(s) - n : SubSeq(s, n + 1, Len(s))[i] = s[n + i]
           /\ SubSeq(s, 1, n) \o SubSeq(s, n + 1, Len(s)) = s
           /\ Len(s) \in Nat
<1> DEFINE a == SubSeq(s, 1, n)
           b == SubSeq(s, n + 1, Len(s))
<1>1. /\ a \in Seq(S) /\ b \in Seq(S) /\ Len(a) = n /\ Len(b) = Len(s) - n
      /\ \A i \in 1 .. n : a[i] = s[i]
      /\ \A i \in 1 .. Len(s) - n : b[i] = s[n + i]
      /\ Len(s) \in Nat
  OBVIOUS
<1>2. SubSeq(s, 1, Len(s)) = s  BY SubSeqFull
<1>3. 1 \in 1 .. Len(s) + 1 /\ n \in 1 - 1 .. Len(s) /\ Len(s) \in n .. Len(s)
  BY <1>1
<1>4. a \o b = SubSeq(s, 1, Len(s))  BY <1>3, ConcatAdjacentSubSeq
<1>5. QED  BY <1>1, <1>2, <1>4

-----------------------------------------------------------------------------
(* Producing *)

\* The members of a sequence from place a to place b.
Slice(s, a, b) == {s[i] : i \in a .. b}

\* What fits into librdkafka's queue goes there, in order, and the rest is
\* refused; the producer counts both.
Produced(msgs, n) ==
    /\ n \in 0 .. Len(msgs) /\ Len(Accepted(msgs)) = n
    /\ outq' = outq \o SubSeq(msgs, 1, n) /\ settled' = settled
    /\ refused' = refused \cup Slice(msgs, n + 1, Len(msgs))
    /\ Len(outq) + n <= QueueMax
    /\ pstats' = [produced |-> pstats.produced + n,
                  failed |-> pstats.failed + (Len(msgs) - n)]

LEMMA ProduceEffect ==
    ASSUME NEW M, NEW msgs \in Seq(M), outq \in Seq(M), queue_size <= QueueMax,
           pstats \in [produced : Nat, failed : Nat], ProduceBatch(msgs)
    PROVE  \E n \in 0 .. Len(msgs) : Produced(msgs, n)
<1> DEFINE n == IF Len(msgs) <= QueueMax - queue_size THEN Len(msgs) ELSE QueueMax - queue_size
<1>1. /\ QueueMax \in Nat /\ Len(outq) \in Nat /\ Len(msgs) \in Nat
      /\ Len(outq) <= QueueMax /\ queue_size = Len(outq)
  BY ProducerAssumption DEF queue_size
<1>2. n \in 0 .. Len(msgs) /\ Len(outq) + n <= QueueMax  BY <1>1
<1>3. Accepted(msgs) = SubSeq(msgs, 1, n)  BY DEF Accepted
<1> HIDE DEF n
<1>4. Len(SubSeq(msgs, 1, n)) = n  BY <1>1, <1>2
<1>5. /\ outq' = outq \o SubSeq(msgs, 1, n) /\ settled' = settled
      /\ refused' = refused \cup ToSet(SubSeq(msgs, n + 1, Len(msgs)))
      /\ pstats' = [produced |-> pstats.produced + n,
                    failed |-> pstats.failed + Len(msgs) - n]
  BY <1>3, <1>4 DEF ProduceBatch
<1>6. pstats.failed + Len(msgs) - n = pstats.failed + (Len(msgs) - n)
  BY <1>1, <1>2
<1>7. ToSet(SubSeq(msgs, n + 1, Len(msgs))) = {msgs[i] : i \in n + 1 .. Len(msgs)}
  <2> DEFINE r == SubSeq(msgs, n + 1, Len(msgs))
  <2>1. /\ r \in Seq(M) /\ Len(r) = Len(msgs) - n
        /\ \A i \in 1 .. Len(msgs) - n : r[i] = msgs[n + i]
    BY <1>2, Cut
  <2> HIDE DEF r
  <2>2. ToSet(r) = {r[i] : i \in 1 .. Len(r)}  BY <2>1, Members
  <2>3. ASSUME NEW x \in ToSet(r) PROVE \E i \in n + 1 .. Len(msgs) : x = msgs[i]
    <3>1. PICK i \in 1 .. Len(msgs) - n : x = msgs[n + i]  BY <2>1, <2>2
    <3>2. n + i \in n + 1 .. Len(msgs)  BY <1>1, <1>2
    <3>3. QED  BY <3>1, <3>2
  <2>4. ASSUME NEW i \in n + 1 .. Len(msgs) PROVE msgs[i] \in ToSet(r)
    <3>1. i - n \in 1 .. Len(msgs) - n /\ n + (i - n) = i  BY <1>1, <1>2
    <3>2. QED  BY <2>1, <2>2, <3>1
  <2>5. QED  BY <2>3, <2>4 DEF r
<1>8. QED  BY <1>2, <1>3, <1>4, <1>5, <1>6, <1>7 DEF Produced, Slice

\* flush() returns: what was queued is settled or queued.
LEMMA FlushEffect ==
    ASSUME NEW M, outq \in Seq(M), settled \in Seq(M), queue_size <= QueueMax, Flush
    PROVE  /\ outq' \in Seq(M) /\ settled' \in Seq(M) /\ queue_size' <= QueueMax
           /\ UNCHANGED <<refused, pstats>> /\ Sent' = Sent
<1>1. PICK n \in 0 .. Len(outq) :
        /\ settled' = settled \o SubSeq(outq, 1, n)
        /\ outq' = SubSeq(outq, n + 1, Len(outq))
  BY DEF Flush
<1> DEFINE a == SubSeq(outq, 1, n)
           b == SubSeq(outq, n + 1, Len(outq))
<1>2. /\ a \in Seq(M) /\ b \in Seq(M) /\ Len(b) = Len(outq) - n
      /\ Len(outq) \in Nat /\ a \o b = outq
  BY Cut
<1>3. settled' = settled \o a /\ outq' = b  BY <1>1
<1> HIDE DEF a, b
<1>4. settled' \in Seq(M) /\ (settled \o a) \o b = settled \o outq
  <2>1. settled \o a \in Seq(M)  BY <1>2, ConcatProperties
  <2>2. a \in Seq(M) /\ b \in Seq(M) /\ settled \in Seq(M)  BY <1>2
  <2>3. (settled \o a) \o b = settled \o (a \o b)
    <3>1. Associates(settled, a, b)  BY <2>2, Association
    <3>2. QED  BY <3>1 DEF Associates
  <2>4. QED  BY <1>2, <1>3, <2>1, <2>3
<1>5. refused' = refused /\ pstats' = pstats  BY DEF Flush
<1>6. queue_size' <= QueueMax
  BY <1>2, <1>3, ProducerAssumption DEF queue_size
<1>7. QED  BY <1>2, <1>3, <1>4, <1>5, <1>6 DEF Sent

\* What a batch adds to what was sent.
LEMMA SentEffect ==
    ASSUME NEW M, NEW msgs \in Seq(M), outq \in Seq(M), settled \in Seq(M), NEW n,
           Produced(msgs, n)
    PROVE  /\ Sent \in Seq(M) /\ Sent' = Sent \o SubSeq(msgs, 1, n)
           /\ outq' \in Seq(M) /\ settled' \in Seq(M) /\ queue_size' <= QueueMax
<1> DEFINE s == SubSeq(msgs, 1, n)
<1>1. s \in Seq(M) /\ Len(s) = n  BY Cut DEF Produced
<1>2. outq' = outq \o s /\ settled' = settled  BY DEF Produced
<1> HIDE DEF s
<1>3. (settled \o outq) \o s = settled \o (outq \o s) /\ outq \o s \in Seq(M)
      /\ settled \o outq \in Seq(M) /\ Len(outq \o s) = Len(outq) + Len(s)
  <2>1. s \in Seq(M) /\ outq \in Seq(M) /\ settled \in Seq(M)  BY <1>1
  <2>2. Associates(settled, outq, s)  BY <2>1, Association
  <2>3. /\ outq \o s \in Seq(M) /\ settled \o outq \in Seq(M)
        /\ Len(outq \o s) = Len(outq) + Len(s)
    BY <2>1, ConcatProperties
  <2>4. QED  BY <2>2, <2>3 DEF Associates
<1>4. queue_size' <= QueueMax  BY <1>1, <1>2, <1>3 DEF Produced, queue_size
<1>5. QED  BY <1>2, <1>3, <1>4 DEF Sent, s

-----------------------------------------------------------------------------
(* Events: made, batched, sent or refused *)

IsBeat(e) == e.src[1] = 0

\* The last events made, from place c + 1 on, are batched; the ones before
\* were sent, in order, or refused.  all are those made, bat the batch, out
\* what was sent, ref what was refused.
BatchedAt(c, all, bat, out, ref) ==
    /\ c \in Nat /\ Len(all) = c + Len(bat)
    /\ \A i \in 1 .. Len(bat) : bat[i] = all[c + i]
    /\ \A k \in 1 .. c : all[k] \in ToSet(out) \cup ref
    /\ \A e \in ToSet(out) \cup ref : ~IsBeat(e) => \E k \in 1 .. c : all[k] = e
    /\ \A i, j \in 1 .. Len(out) :
         i < j /\ ~IsBeat(out[i]) /\ ~IsBeat(out[j]) =>
            \E k, l \in 1 .. c : k < l /\ all[k] = out[i] /\ all[l] = out[j]

\* No two are equal.
Distinct(s) == \A i, j \in 1 .. Len(s) : s[i] = s[j] => i = j

\* Each event was sent once, or refused; so many were refused.
Once(out, ref) == Distinct(out) /\ ToSet(out) \cap ref = {}
OnceCounted(out, ref, many) ==
    Once(out, ref) /\ IsFiniteSet(ref) /\ Cardinality(ref) = many

\* Events join the batch.
LEMMA Join ==
    ASSUME NEW E, NEW c, NEW all \in Seq(E), NEW bat \in Seq(E), NEW out, NEW ref,
           BatchedAt(c, all, bat, out, ref), NEW evts \in Seq(E)
    PROVE  BatchedAt(c, all \o evts, bat \o evts, out, ref)
<1> DEFINE d == all \o evts
           b == bat \o evts
           n == Len(evts)
<1>1. c \in Nat /\ Len(all) = c + Len(bat) /\ Len(bat) \in Nat /\ n \in Nat
  BY DEF BatchedAt
<1>2. /\ Len(d) = Len(all) + n /\ Len(b) = Len(bat) + n
      /\ \A i \in 1 .. Len(all) + n : d[i] = IF i <= Len(all) THEN all[i] ELSE evts[i - Len(all)]
      /\ \A i \in 1 .. Len(bat) + n : b[i] = IF i <= Len(bat) THEN bat[i] ELSE evts[i - Len(bat)]
  BY ConcatProperties
<1> HIDE DEF d, b, n
<1>3. ASSUME NEW i \in 1 .. Len(b) PROVE b[i] = d[c + i]
  <2>1. c + i \in 1 .. Len(all) + n /\ i \in 1 .. Len(bat) + n  BY <1>1, <1>2
  <2>2. CASE i <= Len(bat)
    <3>1. b[i] = bat[i] /\ d[c + i] = all[c + i] /\ i \in 1 .. Len(bat)
      BY <1>1, <1>2, <2>1, <2>2
    <3>2. QED  BY <3>1 DEF BatchedAt
  <2>3. CASE i > Len(bat)
    <3>1. i - Len(bat) = (c + i) - Len(all)  BY <1>1
    <3>2. b[i] = evts[i - Len(bat)] /\ d[c + i] = evts[(c + i) - Len(all)]
      BY <1>1, <1>2, <2>1, <2>3
    <3>3. QED  BY <3>1, <3>2
  <2>4. QED  BY <1>1, <2>1, <2>2, <2>3
<1>4. \A k \in 1 .. c : d[k] = all[k]
  <2>1. \A k \in 1 .. c : k \in 1 .. Len(all) + n /\ k <= Len(all)  BY <1>1
  <2>2. QED  BY <1>2, <2>1
<1>5. Len(d) = c + Len(b)  BY <1>1, <1>2
<1>6. BatchedAt(c, d, b, out, ref)
  <2>1. \A k \in 1 .. c : d[k] \in ToSet(out) \cup ref  BY <1>4 DEF BatchedAt
  <2>2. \A e \in ToSet(out) \cup ref : ~IsBeat(e) => \E k \in 1 .. c : d[k] = e
    BY <1>4 DEF BatchedAt
  <2>3. ASSUME NEW i \in 1 .. Len(out), NEW j \in 1 .. Len(out), i < j, ~IsBeat(out[i]),
               ~IsBeat(out[j])
        PROVE \E k, l \in 1 .. c : k < l /\ d[k] = out[i] /\ d[l] = out[j]
    <3>1. PICK k \in 1 .. c, l \in 1 .. c : k < l /\ all[k] = out[i] /\ all[l] = out[j]
      BY <2>3 DEF BatchedAt
    <3>2. QED  BY <1>4, <3>1
  <2>4. QED  BY <1>1, <1>3, <1>5, <2>1, <2>2, <2>3 DEF BatchedAt
<1>7. QED  BY <1>6 DEF d, b

\* The first f events of the batch are sent, the producer accepting the first
\* n of these.
LEMMA Send ==
    ASSUME NEW E, NEW c, NEW all \in Seq(E), NEW bat \in Seq(E), NEW out \in Seq(E), NEW ref,
           BatchedAt(c, all, bat, out, ref),
           NEW f \in 0 .. Len(bat), NEW n \in 0 .. f
    PROVE  BatchedAt(c + f, all, SubSeq(bat, f + 1, Len(bat)), out \o SubSeq(bat, 1, n),
                     ref \cup Slice(bat, n + 1, f))
<1> DEFINE sent == SubSeq(bat, 1, n)
           left == SubSeq(bat, f + 1, Len(bat))
           o == out \o sent
           rest == {bat[i] : i \in n + 1 .. f}
           r == ref \cup rest
           a == Len(out)
<1>1. /\ c \in Nat /\ Len(all) = c + Len(bat) /\ Len(bat) \in Nat /\ n \in Nat /\ f \in Nat
      /\ n <= f /\ f <= Len(bat) /\ a \in Nat
  BY DEF BatchedAt
<1>2. sent \in Seq(E) /\ Len(sent) = n /\ \A i \in 1 .. n : sent[i] = bat[i]
  BY <1>1, Cut
<1>3. Len(left) = Len(bat) - f /\ \A i \in 1 .. Len(bat) - f : left[i] = bat[f + i]
  BY <1>1, Cut
<1>4. ToSet(o) = ToSet(out) \cup ToSet(sent) /\ ToSet(sent) = {bat[i] : i \in 1 .. n}
  <2> HIDE DEF sent
  <2>1. ToSet(o) = ToSet(out) \cup ToSet(sent)  BY <1>2, ConcatMembers
  <2>2. ToSet(sent) = {sent[i] : i \in 1 .. Len(sent)}  BY <1>2, Members
  <2>3. {sent[i] : i \in 1 .. n} = {bat[i] : i \in 1 .. n}  BY <1>2
  <2>4. Len(sent) = n  BY <1>2
  <2>5. QED  BY <2>1, <2>2, <2>3, <2>4
<1>5. /\ Len(o) = a + n
      /\ \A i \in 1 .. a + n : o[i] = IF i <= a THEN out[i] ELSE sent[i - a]
  <2> HIDE DEF sent
  <2>1. QED  BY <1>2, ConcatProperties
<1> HIDE DEF sent, o, a, left
<1>6. ASSUME NEW i \in 1 .. f
      PROVE  c + i \in 1 .. c + f /\ bat[i] = all[c + i] /\ i \in 1 .. Len(bat)
  <2>1. c + i \in 1 .. c + f /\ i \in 1 .. Len(bat)  BY <1>1
  <2>2. QED  BY <2>1 DEF BatchedAt
<1>7. ASSUME NEW i \in 1 .. f PROVE bat[i] \in ToSet(sent) \cup rest
  BY <1>1, <1>4
<1>8. ASSUME NEW k \in 1 .. c + f PROVE all[k] \in ToSet(o) \cup r
  <2>1. CASE k \in 1 .. c  BY <1>4, <2>1 DEF BatchedAt
  <2>2. CASE k > c
    <3>1. k - c \in 1 .. f /\ c + (k - c) = k  BY <1>1, <2>2
    <3>2. bat[k - c] = all[k]  BY <1>6, <3>1
    <3>3. QED  BY <1>4, <1>7, <3>1, <3>2
  <2>3. QED  BY <1>1, <2>1, <2>2
<1>9. ASSUME NEW e \in ToSet(o) \cup r, ~IsBeat(e)
      PROVE  \E k \in 1 .. c + f : all[k] = e
  <2>1. CASE e \in ToSet(out) \cup ref
    <3>1. PICK k \in 1 .. c : all[k] = e  BY <1>9, <2>1 DEF BatchedAt
    <3>2. k \in 1 .. c + f  BY <1>1
    <3>3. QED  BY <3>1, <3>2
  <2>2. CASE e \in ToSet(sent) \cup rest
    <3>1. \A i \in 1 .. n : i \in 1 .. f  BY <1>1
    <3>2. \A i \in n + 1 .. f : i \in 1 .. f  BY <1>1
    <3>3. PICK i \in 1 .. f : e = bat[i]  BY <1>4, <2>2, <3>1, <3>2
    <3>4. QED  BY <1>6, <3>3
  <2>3. QED  BY <1>4, <1>9, <2>1, <2>2
<1>10. ASSUME NEW i \in 1 .. Len(o), NEW j \in 1 .. Len(o), i < j, ~IsBeat(o[i]), ~IsBeat(o[j])
       PROVE  \E k, l \in 1 .. c + f : k < l /\ all[k] = o[i] /\ all[l] = o[j]
  <2>0. 1 .. c \subseteq 1 .. c + f  BY <1>1
  <2>1. CASE j <= a
    <3>1. i \in 1 .. a /\ j \in 1 .. a /\ o[i] = out[i] /\ o[j] = out[j]
      BY <1>1, <1>5, <1>10, <2>1
    <3>2. PICK k \in 1 .. c, l \in 1 .. c : k < l /\ all[k] = out[i] /\ all[l] = out[j]
      BY <1>10, <3>1 DEF BatchedAt, a
    <3>3. QED  BY <2>0, <3>1, <3>2
  <2>2. CASE i <= a /\ j > a
    <3>1. i \in 1 .. a /\ o[i] = out[i] /\ j - a \in 1 .. n /\ o[j] = sent[j - a]
      BY <1>1, <1>5, <2>2
    <3>2. out[i] \in ToSet(out)
      <4>1. ToSet(out) = {out[x] : x \in 1 .. Len(out)}  BY Members
      <4>2. i \in 1 .. Len(out)  BY <3>1 DEF a
      <4>3. QED  BY <4>1, <4>2
    <3>3. PICK k \in 1 .. c : all[k] = out[i]  BY <1>10, <3>1, <3>2 DEF BatchedAt
    <3>4. j - a \in 1 .. f  BY <1>1, <3>1
    <3>5. o[j] = bat[j - a]  BY <1>2, <3>1
    <3>6. c + (j - a) \in 1 .. c + f /\ all[c + (j - a)] = o[j]  BY <1>6, <3>4, <3>5
    <3>7. k < c + (j - a)  BY <1>1, <3>1
    <3>8. QED  BY <2>0, <3>1, <3>3, <3>6, <3>7
  <2>3. CASE i > a
    <3>1. i - a \in 1 .. n /\ o[i] = sent[i - a] /\ j - a \in 1 .. n /\ o[j] = sent[j - a]
      BY <1>1, <1>5, <1>10, <2>3
    <3>2. i - a \in 1 .. f /\ j - a \in 1 .. f  BY <1>1, <3>1
    <3>3. o[i] = bat[i - a] /\ o[j] = bat[j - a]  BY <1>2, <3>1
    <3>4. /\ c + (i - a) \in 1 .. c + f /\ all[c + (i - a)] = o[i]
          /\ c + (j - a) \in 1 .. c + f /\ all[c + (j - a)] = o[j]
      BY <1>6, <3>2, <3>3
    <3>5. c \in Nat /\ a \in Nat /\ i \in Nat /\ j \in Nat /\ i < j  BY <1>1, <1>10
    <3>6. c + (i - a) < c + (j - a)  BY <3>5
    <3>7. QED  BY <3>4, <3>6
  <2>4. QED  BY <1>1, <1>5, <2>1, <2>2, <2>3
<1>11. ASSUME NEW i \in 1 .. Len(left) PROVE left[i] = all[(c + f) + i]
  <2>1. i \in 1 .. Len(bat) - f /\ f + i \in 1 .. Len(bat) /\ (c + f) + i = c + (f + i)
    BY <1>1, <1>3
  <2>2. left[i] = bat[f + i]  BY <1>3, <2>1
  <2>3. bat[f + i] = all[c + (f + i)]  BY <2>1 DEF BatchedAt
  <2>4. QED  BY <2>1, <2>2, <2>3
<1>12. c + f \in Nat /\ Len(all) = (c + f) + Len(left)  BY <1>1, <1>3
<1> HIDE DEF r
<1>13. BatchedAt(c + f, all, left, o, r)
  BY <1>8, <1>9, <1>10, <1>11, <1>12 DEF BatchedAt
<1>14. QED  BY <1>13 DEF r, o, sent, left, Slice

\* Heartbeats are sent or refused: the events of messages are not touched.
LEMMA SendBeats ==
    ASSUME NEW E, NEW c, NEW all, NEW bat, NEW out \in Seq(E), NEW ref,
           BatchedAt(c, all, bat, out, ref), NEW fs \in Seq(E),
           \A i \in 1 .. Len(fs) : IsBeat(fs[i]), NEW more, \A e \in more : IsBeat(e)
    PROVE  BatchedAt(c, all, bat, out \o fs, ref \cup more)
<1> DEFINE o == out \o fs
           r == ref \cup more
           a == Len(out)
<1>1. /\ ToSet(o) = ToSet(out) \cup ToSet(fs) /\ ToSet(fs) = {fs[i] : i \in 1 .. Len(fs)}
      /\ Len(o) = a + Len(fs) /\ a \in Nat /\ Len(fs) \in Nat
      /\ \A i \in 1 .. a + Len(fs) : o[i] = IF i <= a THEN out[i] ELSE fs[i - a]
  BY ConcatMembers, ConcatProperties
<1> HIDE DEF o
<1>2. \A e \in ToSet(fs) \cup more : IsBeat(e)  BY <1>1
<1>3. ASSUME NEW i \in 1 .. Len(o), ~IsBeat(o[i]) PROVE i \in 1 .. a /\ o[i] = out[i]
  <2>1. CASE i <= a  BY <1>1, <2>1
  <2>2. CASE ~(i <= a)
    <3>1. o[i] = fs[i - a] /\ i - a \in 1 .. Len(fs)  BY <1>1, <2>2
    <3>2. QED  BY <1>3, <3>1
  <2>3. QED  BY <2>1, <2>2
<1>4. ASSUME NEW i \in 1 .. Len(o), NEW j \in 1 .. Len(o), i < j, ~IsBeat(o[i]), ~IsBeat(o[j])
      PROVE  \E k, l \in 1 .. c : k < l /\ all[k] = o[i] /\ all[l] = o[j]
  <2>1. i \in 1 .. Len(out) /\ j \in 1 .. Len(out) /\ o[i] = out[i] /\ o[j] = out[j]
    BY <1>3, <1>4
  <2>2. ~IsBeat(out[i]) /\ ~IsBeat(out[j])  BY <1>4, <2>1
  <2>3. \E k, l \in 1 .. c : k < l /\ all[k] = out[i] /\ all[l] = out[j]
    BY <1>4, <2>1, <2>2 DEF BatchedAt
  <2>4. QED  BY <2>1, <2>3
<1>5. \A k \in 1 .. c : all[k] \in ToSet(o) \cup r  BY <1>1 DEF BatchedAt
<1>6. \A e \in ToSet(o) \cup r : ~IsBeat(e) => \E k \in 1 .. c : all[k] = e
  BY <1>1, <1>2 DEF BatchedAt
<1>7. BatchedAt(c, all, bat, o, r)
  <2> HIDE DEF r
  <2>1. QED  BY <1>4, <1>5, <1>6 DEF BatchedAt
<1>8. QED  BY <1>7 DEF o

\* New messages are sent or refused: each stays in one place.
LEMMA SendOnce ==
    ASSUME NEW E, NEW out \in Seq(E), NEW ref, IsFiniteSet(ref), Once(out, ref),
           NEW msgs \in Seq(E), Distinct(msgs), NEW n \in 0 .. Len(msgs),
           \A i \in 1 .. Len(msgs) : msgs[i] \notin ToSet(out) \cup ref
    PROVE  OnceCounted(out \o SubSeq(msgs, 1, n), ref \cup Slice(msgs, n + 1, Len(msgs)),
                       Cardinality(ref) + (Len(msgs) - n))
<1> DEFINE sent == SubSeq(msgs, 1, n)
           o == out \o sent
           rest == {msgs[i] : i \in n + 1 .. Len(msgs)}
           a == Len(out)
<1>1. /\ n \in Nat /\ Len(msgs) \in Nat /\ n <= Len(msgs) /\ a \in Nat
  OBVIOUS
<1>2. sent \in Seq(E) /\ Len(sent) = n /\ \A i \in 1 .. n : sent[i] = msgs[i]
  BY <1>1, Cut
<1>3. /\ ToSet(o) = ToSet(out) \cup ToSet(sent) /\ ToSet(sent) = {msgs[i] : i \in 1 .. n}
      /\ ToSet(out) = {out[i] : i \in 1 .. a}
  <2> HIDE DEF sent
  <2>1. ToSet(o) = ToSet(out) \cup ToSet(sent) /\ ToSet(out) = {out[i] : i \in 1 .. a}
    BY <1>2, ConcatMembers
  <2>2. ToSet(sent) = {sent[i] : i \in 1 .. Len(sent)}  BY <1>2, Members
  <2>3. QED  BY <1>2, <2>1, <2>2
<1>4. /\ Len(o) = a + n
      /\ \A i \in 1 .. a + n : o[i] = IF i <= a THEN out[i] ELSE sent[i - a]
  <2> HIDE DEF sent
  <2>1. QED  BY <1>2, ConcatProperties
<1> HIDE DEF sent, o, a
<1>5. ASSUME NEW i \in 1 .. Len(o)
      PROVE  \/ i \in 1 .. a /\ o[i] = out[i] /\ o[i] \in ToSet(out)
             \/ i - a \in 1 .. n /\ o[i] = msgs[i - a] /\ i - a \in 1 .. Len(msgs)
  <2>1. CASE i <= a
    <3>1. i \in 1 .. a /\ o[i] = out[i]  BY <1>1, <1>4, <2>1
    <3>2. QED  BY <1>3, <3>1
  <2>2. CASE ~(i <= a)
    <3>1. i - a \in 1 .. n /\ o[i] = sent[i - a] /\ i - a \in 1 .. Len(msgs)
      BY <1>1, <1>4, <2>2
    <3>2. QED  BY <1>2, <3>1
  <2>3. QED  BY <2>1, <2>2
<1>6. Distinct(o)
  <2>1. ASSUME NEW i \in 1 .. Len(o), NEW j \in 1 .. Len(o), o[i] = o[j] PROVE i = j
    <3>1. CASE i \in 1 .. a /\ o[i] = out[i] /\ j \in 1 .. a /\ o[j] = out[j]
      BY <2>1, <3>1 DEF Once, Distinct, a
    <3>2. CASE /\ i - a \in 1 .. Len(msgs) /\ o[i] = msgs[i - a]
               /\ j - a \in 1 .. Len(msgs) /\ o[j] = msgs[j - a]
      <4>1. i - a = j - a  BY <2>1, <3>2 DEF Distinct
      <4>2. QED  BY <1>1, <1>4, <4>1
    <3>3. QED  BY <1>5, <2>1, <3>1, <3>2
  <2>2. QED  BY <2>1 DEF Distinct
<1>7. \A i \in n + 1 .. Len(msgs) : i \in 1 .. Len(msgs) /\ i \notin 1 .. n
  BY <1>1
<1>8. ToSet(o) \cap (ref \cup rest) = {}
  <2>1. ASSUME NEW e \in ToSet(out) PROVE e \notin ref \cup rest
    BY <1>7 DEF Once
  <2>2. ASSUME NEW i \in 1 .. n PROVE msgs[i] \notin ref \cup rest
    <3>1. i \in 1 .. Len(msgs)  BY <1>1
    <3>2. ASSUME NEW j \in n + 1 .. Len(msgs) PROVE msgs[j] # msgs[i]
      BY <1>7, <3>1 DEF Distinct
    <3>3. QED  BY <3>1, <3>2
  <2>3. QED  BY <1>3, <2>1, <2>2
<1>9. IsFiniteSet(rest) /\ Cardinality(rest) = Len(msgs) - n
  <2> DEFINE I == n + 1 .. Len(msgs)
             f == [i \in I |-> msgs[i]]
  <2>1. IsFiniteSet(I) /\ Cardinality(I) = Len(msgs) - n
    <3>1. n + 1 \in Int /\ Len(msgs) \in Int  BY <1>1
    <3>2. /\ IsFiniteSet(I)
          /\ Cardinality(I) = IF n + 1 > Len(msgs) THEN 0 ELSE Len(msgs) - (n + 1) + 1
      BY <3>1, FS_Interval
    <3>3. QED  BY <1>1, <3>2
  <2>2. \A i, j \in I : f[i] = f[j] => i = j
    BY <1>7 DEF Distinct
  <2>3. rest = {f[i] : i \in I} /\ DOMAIN f = I  OBVIOUS
  <2> HIDE DEF I, f, rest
  <2>4. /\ IsFiniteSet({f[i] : i \in I})
        /\ Cardinality({f[i] : i \in I}) = Cardinality(I)
    BY <2>1, <2>2, <2>3, ImageFinite
  <2>5. QED  BY <2>1, <2>3, <2>4
<1>10. ref \cap rest = {}  BY <1>7
<1> HIDE DEF rest
<1>11. /\ IsFiniteSet(ref \cup rest)
       /\ Cardinality(ref \cup rest) = Cardinality(ref) + (Len(msgs) - n)
  <2>1. /\ IsFiniteSet(ref \cup rest)
        /\ Cardinality(ref \cup rest) = Cardinality(ref) + Cardinality(rest)
                                        - Cardinality(ref \cap rest)
    BY <1>9, FS_Union
  <2>2. Cardinality(ref \cap rest) = 0 /\ Cardinality(ref) \in Nat
    BY <1>10, FS_EmptySet, FS_CardinalityType
  <2>3. QED  BY <1>1, <1>9, <2>1, <2>2
<1>12. QED  BY <1>6, <1>8, <1>11 DEF OnceCounted, Once, o, sent, rest, Slice

\* What is batched was neither sent nor refused.
LEMMA Unsent ==
    ASSUME NEW E, NEW c, NEW all \in Seq(E), NEW bat \in Seq(E), NEW out, NEW ref,
           BatchedAt(c, all, bat, out, ref), Distinct(all),
           \A k \in 1 .. Len(all) : ~IsBeat(all[k])
    PROVE  /\ Distinct(bat) /\ \A i \in 1 .. Len(bat) : bat[i] \notin ToSet(out) \cup ref
           /\ \A i \in 1 .. Len(bat) : ~IsBeat(bat[i])
<1>1. c \in Nat /\ Len(all) = c + Len(bat) /\ Len(bat) \in Nat  BY DEF BatchedAt
<1>2. ASSUME NEW i \in 1 .. Len(bat)
      PROVE  c + i \in 1 .. Len(all) /\ bat[i] = all[c + i] /\ ~IsBeat(bat[i])
  <2>1. c + i \in 1 .. Len(all) /\ bat[i] = all[c + i]  BY <1>1 DEF BatchedAt
  <2>2. QED  BY <2>1
<1>3. ASSUME NEW i \in 1 .. Len(bat), NEW j \in 1 .. Len(bat), bat[i] = bat[j] PROVE i = j
  <2>1. c + i = c + j  BY <1>2, <1>3 DEF Distinct
  <2>2. QED  BY <1>1, <2>1
<1>4. ASSUME NEW i \in 1 .. Len(bat), bat[i] \in ToSet(out) \cup ref PROVE FALSE
  <2>1. PICK k \in 1 .. c : all[k] = bat[i]  BY <1>2, <1>4 DEF BatchedAt
  <2>2. k \in 1 .. Len(all) /\ k # c + i  BY <1>1
  <2>3. QED  BY <1>2, <2>1, <2>2 DEF Distinct
<1>5. QED  BY <1>2, <1>3, <1>4 DEF Distinct

\* The first f events of the batch bat go to the producer: the books of events
\* after that.
LEMMA SendPart ==
    ASSUME NEW E, NEW c, NEW all \in Seq(E), NEW bat \in Seq(E),
           outq \in Seq(E), settled \in Seq(E), IsFiniteSet(refused),
           BatchedAt(c, all, bat, Sent, refused), Once(Sent, refused), Distinct(all),
           \A k \in 1 .. Len(all) : ~IsBeat(all[k]),
           NEW f \in 0 .. Len(bat), NEW n, Produced(SubSeq(bat, 1, f), n)
    PROVE  /\ BatchedAt(c + f, all, SubSeq(bat, f + 1, Len(bat)), Sent', refused')
           /\ Once(Sent', refused') /\ IsFiniteSet(refused')
           /\ Cardinality(refused') = Cardinality(refused) + (f - n)
           /\ \A e \in ToSet(Sent') \cup refused' :
                e \in ToSet(Sent) \cup refused \/ ~IsBeat(e)
<1> DEFINE msgs == SubSeq(bat, 1, f)
<1>1. /\ msgs \in Seq(E) /\ Len(msgs) = f /\ \A i \in 1 .. f : msgs[i] = bat[i]
      /\ f \in Nat /\ Len(bat) \in Nat /\ f <= Len(bat)
  BY Cut
<1>2. n \in 0 .. f  BY <1>1 DEF Produced
<1>3. SubSeq(msgs, 1, n) = SubSeq(bat, 1, n)
  <2>1. SubSeq(msgs, 1, n) = [i \in 1 .. n |-> msgs[i]] /\ SubSeq(bat, 1, n) = [i \in 1 .. n |-> bat[i]]
    <3>1. \A s \in Seq(E) : n <= Len(s) => SubSeq(s, 1, n) = [i \in 1 .. n |-> s[i]]
      BY <1>1, <1>2
    <3>2. n <= Len(msgs) /\ n <= Len(bat)  BY <1>1, <1>2
    <3> HIDE DEF msgs
    <3>3. QED  BY <1>1, <3>1, <3>2
  <2>2. \A i \in 1 .. n : msgs[i] = bat[i]  BY <1>1, <1>2
  <2> HIDE DEF msgs
  <2>3. QED  BY <2>1, <2>2
<1>4. Sent \in Seq(E) /\ Sent' = Sent \o SubSeq(msgs, 1, n)
  <2> HIDE DEF msgs
  <2>1. Produced(msgs, n)  BY DEF msgs
  <2>2. QED  BY <1>1, <2>1, SentEffect
<1>5. refused' = refused \cup Slice(msgs, n + 1, Len(msgs))
  BY DEF Produced
<1> HIDE DEF msgs
<1>6. Slice(msgs, n + 1, Len(msgs)) = Slice(bat, n + 1, f)
  <2>1. \A i \in n + 1 .. f : i \in 1 .. f  BY <1>1, <1>2
  <2>2. \A i \in n + 1 .. f : msgs[i] = bat[i]  BY <1>1, <2>1
  <2>3. QED  BY <1>1, <2>2 DEF Slice
<1>7. BatchedAt(c + f, all, SubSeq(bat, f + 1, Len(bat)), Sent', refused')
  <2>1. BatchedAt(c + f, all, SubSeq(bat, f + 1, Len(bat)), Sent \o SubSeq(bat, 1, n),
                  refused \cup Slice(bat, n + 1, f))
    <3>1. Sent \in Seq(E)  BY <1>4
    <3>2. QED  BY <1>2, <3>1, Send
  <2>2. Sent' = Sent \o SubSeq(bat, 1, n)  BY <1>3, <1>4
  <2>3. refused' = refused \cup Slice(bat, n + 1, f)  BY <1>5, <1>6
  <2>4. QED  BY <2>1, <2>2, <2>3
<1>8. /\ Distinct(bat) /\ \A i \in 1 .. Len(bat) : bat[i] \notin ToSet(Sent) \cup refused
      /\ \A i \in 1 .. Len(bat) : ~IsBeat(bat[i])
  BY Unsent
<1>9. /\ Distinct(msgs) /\ \A i \in 1 .. Len(msgs) : msgs[i] \notin ToSet(Sent) \cup refused
      /\ \A i \in 1 .. Len(msgs) : ~IsBeat(msgs[i])
  <2>1. \A i \in 1 .. f : i \in 1 .. Len(bat) /\ msgs[i] = bat[i]  BY <1>1
  <2>2. QED  BY <1>1, <1>8, <2>1 DEF Distinct
<1>10. /\ Once(Sent', refused') /\ IsFiniteSet(refused')
       /\ Cardinality(refused') = Cardinality(refused) + (Len(msgs) - n)
  <2>1. n \in 0 .. Len(msgs)  BY <1>1, <1>2
  <2>2. OnceCounted(Sent \o SubSeq(msgs, 1, n), refused \cup Slice(msgs, n + 1, Len(msgs)),
                    Cardinality(refused) + (Len(msgs) - n))
    <3>1. Sent \in Seq(E) /\ msgs \in Seq(E)  BY <1>1, <1>4
    <3>2. QED  BY <1>9, <2>1, <3>1, SendOnce
  <2>3. QED  BY <1>4, <1>5, <2>2 DEF OnceCounted
<1>11. ASSUME NEW e \in ToSet(Sent') \cup refused' PROVE e \in ToSet(Sent) \cup refused \/ ~IsBeat(e)
  <2> DEFINE s == SubSeq(msgs, 1, n)
  <2>1. s \in Seq(E) /\ Len(s) = n /\ \A i \in 1 .. n : s[i] = msgs[i]  BY <1>1, <1>2, Cut
  <2>2. Sent' = Sent \o s  BY <1>4
  <2> HIDE DEF s
  <2>3. ToSet(Sent') = ToSet(Sent) \cup ToSet(s) /\ ToSet(s) = {s[i] : i \in 1 .. Len(s)}
    <3>1. Sent \in Seq(E) /\ s \in Seq(E)  BY <1>4, <2>1
    <3>2. ToSet(Sent \o s) = ToSet(Sent) \cup ToSet(s) /\ ToSet(s) = {s[i] : i \in 1 .. Len(s)}
      BY <3>1, ConcatMembers
    <3>3. QED  BY <2>2, <3>2
  <2>4. \A i \in 1 .. n : i \in 1 .. Len(msgs)  BY <1>1, <1>2
  <2>5. \A x \in ToSet(s) : ~IsBeat(x)  BY <1>9, <2>1, <2>3, <2>4
  <2>6. \A i \in n + 1 .. Len(msgs) : i \in 1 .. Len(msgs)  BY <1>1, <1>2
  <2>7. QED  BY <1>5, <1>9, <2>3, <2>5, <2>6 DEF Slice
<1>12. QED  BY <1>1, <1>7, <1>10, <1>11

-----------------------------------------------------------------------------
(* The books of events *)

\* The message an event of collector k was made from: a NetFlow packet gives
\* an event for each of its records.
Origin(k, src) == IF k = "netflow" THEN <<src[1], 1>> ELSE src

\* The events of the loop are made once, each from a popped message.
MadeOnce(k, all, popped) ==
    /\ Distinct(all)
    /\ \A i \in 1 .. Len(all) :
         ~IsBeat(all[i]) /\ \E j \in 1 .. Len(popped) : popped[j].id = Origin(k, all[i].src)

\* Events and heartbeats sent or refused.
InBooks(all, bat, out, ref, beats) ==
    /\ BatchedAt(Len(all) - Len(bat), all, bat, out, ref) /\ Once(out, ref)
    /\ \A e \in ToSet(out) \cup ref : IsBeat(e) => \E i \in 1 .. beats : e = Heartbeat(i)

\* What the statistics of a collector of kind k count.
Tally(k, st, ps, popped, all, out, ref) ==
    /\ ps.produced = Len(out) /\ ps.failed = Cardinality(ref)
    /\ k \in {"syslog", "winlog"} => st.parsed + st.errors = Len(popped)
    /\ k # "agent" => st.parsed = Len(all)
    /\ k = "syslog" => st.produced = ps.produced
    /\ k = "agent" => st.produced <= ps.produced

EventsInv ==
    /\ MadeOnce(kind, made, delivered)
    /\ InBooks(made, batch, Sent, refused, stats.heartbeats)
    /\ Tally(kind, stats, pstats, delivered, made, Sent, refused)

\* One counter more than before.
Counters(new, old, a, b, c, d) ==
    /\ new \in Statistics /\ new.parsed = old.parsed + a /\ new.errors = old.errors + b
    /\ new.produced = old.produced + c /\ new.heartbeats = old.heartbeats + d
    /\ \/ new.received = old.received
       \/ new.received = old.received + 1 /\ <<a, b, c, d>> = <<0, 0, 0, 0>>

LEMMA Counted3 ==
    ASSUME NEW r \in Statistics, NEW a \in Nat, NEW b \in Nat, NEW c \in Nat
    PROVE  Counters([r EXCEPT !.parsed = @ + a, !.errors = @ + b, !.produced = @ + c], r, a, b, c, 0)
<1> DEFINE x == r.parsed + a
           y == r.errors + b
           z == r.produced + c
           t == [r EXCEPT !.parsed = x, !.errors = y, !.produced = z]
<1>1. x \in Nat /\ y \in Nat /\ z \in Nat /\ r.heartbeats \in Nat  BY DEF Statistics
<1> HIDE DEF x, y, z
<1>2. /\ t \in Statistics /\ t.parsed = x /\ t.errors = y /\ t.produced = z
      /\ t.heartbeats = r.heartbeats /\ t.received = r.received
  BY <1>1 DEF Statistics
<1>3. r.heartbeats + 0 = r.heartbeats  BY <1>1
<1>4. QED  BY <1>2, <1>3 DEF Counters, x, y, z

LEMMA Counted1 ==
    ASSUME NEW r \in Statistics, NEW c \in Nat
    PROVE  /\ Counters([r EXCEPT !.produced = @ + c], r, 0, 0, c, 0)
           /\ Counters([r EXCEPT !.heartbeats = @ + 1], r, 0, 0, 0, 1)
           /\ Counters([r EXCEPT !.received = @ + 1], r, 0, 0, 0, 0)
           /\ Counters([r EXCEPT !.actions = @ + 1], r, 0, 0, 0, 0)
<1> DEFINE z == r.produced + c
           h == r.heartbeats + 1
           g == r.received + 1
           n == r.actions + 1
<1>1. z \in Nat /\ h \in Nat /\ g \in Nat /\ n \in Nat  BY DEF Statistics
<1>2. /\ r.parsed + 0 = r.parsed /\ r.errors + 0 = r.errors /\ r.produced + 0 = r.produced
      /\ r.heartbeats + 0 = r.heartbeats
  BY DEF Statistics
<1> HIDE DEF z, h, g, n
<1>3. Counters([r EXCEPT !.produced = z], r, 0, 0, c, 0)
  BY <1>1, <1>2 DEF Counters, Statistics, z
<1>4. Counters([r EXCEPT !.heartbeats = h], r, 0, 0, 0, 1)
  BY <1>1, <1>2 DEF Counters, Statistics, h
<1>5. Counters([r EXCEPT !.received = g], r, 0, 0, 0, 0)
  BY <1>1, <1>2 DEF Counters, Statistics, g
<1>6. Counters([r EXCEPT !.actions = n], r, 0, 0, 0, 0)
  BY <1>1, <1>2 DEF Counters, Statistics
<1>7. QED  BY <1>3, <1>4, <1>5, <1>6 DEF z, h, g, n

\* How many events of a batch go out.
LEMMA FullFits ==
    ASSUME NEW n \in Nat
    PROVE  /\ (n \div BatchSize) * BatchSize \in 0 .. n
           /\ n - (n \div BatchSize) * BatchSize < BatchSize
<1>1. BatchSize \in Nat \ {0}  BY PipelineAssumption
<1>2. n \div BatchSize \in Nat /\ n = BatchSize * (n \div BatchSize) + (n % BatchSize)
      /\ n % BatchSize \in 0 .. BatchSize - 1
  BY <1>1
<1>3. (n \div BatchSize) * BatchSize = BatchSize * (n \div BatchSize)  BY <1>1, <1>2
<1> DEFINE m == BatchSize * (n \div BatchSize)
<1>4. m \in Nat  BY <1>1, <1>2
<1> HIDE DEF m
<1>5. QED  BY <1>1, <1>2, <1>3, <1>4 DEF m

\* The producer's variables and the books after f events of the batch went out,
\* n of which were accepted; all are the events made so far, left the new batch.
ProducerTyped ==
    /\ outq \in Seq(EventType) /\ settled \in Seq(EventType) /\ refused \subseteq EventType
    /\ IsFiniteSet(refused) /\ queue_size <= QueueMax
    /\ pstats \in [produced : Nat, failed : Nat]

WentOut(all, left, f, n) ==
    /\ n \in 0 .. f /\ ProducerTyped'
    /\ InBooks(all, left, Sent', refused', stats.heartbeats)
    /\ Len(Sent') = Len(Sent) + n /\ Cardinality(refused') = Cardinality(refused) + (f - n)
    /\ pstats'.produced = pstats.produced + n /\ pstats'.failed = pstats.failed + (f - n)

LEMMA Sending ==
    ASSUME ProducerTyped, NEW all \in Seq(EventType), NEW bat \in Seq(EventType),
           Distinct(all), \A k \in 1 .. Len(all) : ~IsBeat(all[k]),
           InBooks(all, bat, Sent, refused, stats.heartbeats),
           NEW f \in 0 .. Len(bat), ProduceBatch(SubSeq(bat, 1, f))
    PROVE  \E n \in 0 .. f : WentOut(all, SubSeq(bat, f + 1, Len(bat)), f, n)
                             /\ Len(Accepted(SubSeq(bat, 1, f))) = n
<1> DEFINE msgs == SubSeq(bat, 1, f)
           left == SubSeq(bat, f + 1, Len(bat))
<1>1. /\ msgs \in Seq(EventType) /\ Len(msgs) = f /\ Len(left) = Len(bat) - f
      /\ f \in Nat /\ Len(bat) \in Nat /\ \A i \in 1 .. f : msgs[i] = bat[i]
  BY Cut
<1>2. /\ outq \in Seq(EventType) /\ settled \in Seq(EventType) /\ IsFiniteSet(refused)
      /\ queue_size <= QueueMax /\ pstats \in [produced : Nat, failed : Nat]
      /\ refused \subseteq EventType
  BY DEF ProducerTyped
<1>3. PICK n \in 0 .. f : Produced(msgs, n)
  <2> HIDE DEF msgs
  <2>1. ProduceBatch(msgs)  BY DEF msgs
  <2>2. QED  BY <1>1, <1>2, <2>1, ProduceEffect
<1>4. /\ Sent \in Seq(EventType) /\ Sent' = Sent \o SubSeq(msgs, 1, n)
      /\ outq' \in Seq(EventType) /\ settled' \in Seq(EventType) /\ queue_size' <= QueueMax
  <2> HIDE DEF msgs
  <2>1. QED  BY <1>1, <1>2, <1>3, SentEffect
<1> DEFINE c == Len(all) - Len(bat)
<1>5. /\ BatchedAt(c, all, bat, Sent, refused) /\ Once(Sent, refused)
      /\ \A e \in ToSet(Sent) \cup refused :
            IsBeat(e) => \E i \in 1 .. stats.heartbeats : e = Heartbeat(i)
  BY DEF InBooks
<1>6. c \in Nat  BY <1>5 DEF BatchedAt
<1> HIDE DEF c
<1>7. /\ BatchedAt(c + f, all, left, Sent', refused')
      /\ Once(Sent', refused') /\ IsFiniteSet(refused')
      /\ Cardinality(refused') = Cardinality(refused) + (f - n)
      /\ \A e \in ToSet(Sent') \cup refused' : e \in ToSet(Sent) \cup refused \/ ~IsBeat(e)
  BY <1>2, <1>3, <1>5, SendPart
<1>8. c + f = Len(all) - Len(left)
  <2>1. Len(all) = c + Len(bat)  BY <1>5 DEF BatchedAt
  <2>2. QED  BY <1>1, <1>6, <2>1
<1>9. InBooks(all, left, Sent', refused', stats.heartbeats)
  <2> HIDE DEF left
  <2>1. QED  BY <1>5, <1>7, <1>8 DEF InBooks
<1>10. Len(Sent') = Len(Sent) + n
  <2> DEFINE s == SubSeq(msgs, 1, n)
  <2> HIDE DEF msgs
  <2>1. s \in Seq(EventType) /\ Len(s) = n  BY <1>1, Cut
  <2>2. Sent' = Sent \o s  BY <1>4
  <2> HIDE DEF s
  <2>3. Sent \in Seq(EventType)  BY <1>4
  <2>4. Len(Sent \o s) = Len(Sent) + Len(s)  BY <2>1, <2>3, ConcatProperties
  <2>5. QED  BY <2>1, <2>2, <2>4
<1>11. refused' = refused \cup Slice(msgs, n + 1, f)
       /\ pstats' = [produced |-> pstats.produced + n, failed |-> pstats.failed + (f - n)]
       /\ Len(Accepted(msgs)) = n
  <2> HIDE DEF msgs
  <2>1. QED  BY <1>1, <1>3 DEF Produced
<1> HIDE DEF msgs, left
<1>12. refused' \subseteq EventType
  <2>1. \A i \in n + 1 .. f : i \in 1 .. f  BY <1>1
  <2>2. QED  BY <1>1, <1>2, <1>11, <2>1 DEF Slice
<1>13. /\ pstats' \in [produced : Nat, failed : Nat]
       /\ pstats'.produced = pstats.produced + n /\ pstats'.failed = pstats.failed + (f - n)
  <2>1. pstats.produced + n \in Nat /\ pstats.failed + (f - n) \in Nat  BY <1>1, <1>2
  <2>2. QED  BY <1>11, <2>1
<1>14. ProducerTyped'  BY <1>4, <1>7, <1>12, <1>13 DEF ProducerTyped
<1>15. WentOut(all, left, f, n)  BY <1>7, <1>9, <1>10, <1>13, <1>14 DEF WentOut
<1>16. QED  BY <1>11, <1>15 DEF left, msgs

\* A heartbeat is sent, or refused.
LEMMA Beating ==
    ASSUME ProducerTyped, NEW all, NEW bat, NEW h \in Nat,
           InBooks(all, bat, Sent, refused, h), ProduceBatch(<<Heartbeat(h + 1)>>)
    PROVE  \E n \in 0 .. 1 :
              /\ ProducerTyped' /\ InBooks(all, bat, Sent', refused', h + 1)
              /\ Len(Sent') = Len(Sent) + n /\ Cardinality(refused') = Cardinality(refused) + (1 - n)
              /\ pstats'.produced = pstats.produced + n /\ pstats'.failed = pstats.failed + (1 - n)
<1> DEFINE msgs == <<Heartbeat(h + 1)>>
           E == EventType
<1>1. /\ Heartbeat(h + 1) \in E /\ IsBeat(Heartbeat(h + 1))
      /\ \A i \in 1 .. h : Heartbeat(i) # Heartbeat(h + 1)
  BY DEF Heartbeat, EventType, Contents, IsBeat
<1>2. msgs \in Seq(E) /\ Len(msgs) = 1 /\ msgs[1] = Heartbeat(h + 1)  BY <1>1
<1> HIDE DEF msgs, E
<1>3. /\ outq \in Seq(E) /\ settled \in Seq(E) /\ IsFiniteSet(refused)
      /\ queue_size <= QueueMax /\ pstats \in [produced : Nat, failed : Nat]
      /\ refused \subseteq E
  BY DEF ProducerTyped, E
<1>4. PICK n \in 0 .. Len(msgs) : Produced(msgs, n)
  <2>1. ProduceBatch(msgs)  BY DEF msgs
  <2>2. QED  BY <1>2, <1>3, <2>1, ProduceEffect
<1>5. n \in 0 .. 1  BY <1>2
<1> DEFINE s == SubSeq(msgs, 1, n)
           more == Slice(msgs, n + 1, Len(msgs))
<1>6. /\ Sent \in Seq(E) /\ Sent' = Sent \o s
      /\ outq' \in Seq(E) /\ settled' \in Seq(E) /\ queue_size' <= QueueMax
  BY <1>2, <1>3, <1>4, SentEffect
<1>7. /\ s \in Seq(E) /\ Len(s) = n /\ \A i \in 1 .. n : s[i] = msgs[i]
  BY <1>2, <1>4, Cut
<1>8. more \subseteq {Heartbeat(h + 1)}
  <2>1. \A i \in n + 1 .. Len(msgs) : i = 1  BY <1>2, <1>5
  <2>2. QED  BY <1>2, <2>1 DEF Slice
<1>9. \A i \in 1 .. Len(s) : s[i] = Heartbeat(h + 1)
  <2>1. \A i \in 1 .. n : i = 1  BY <1>5
  <2>2. QED  BY <1>2, <1>7, <2>1
<1>10. /\ refused' = refused \cup more
       /\ pstats' = [produced |-> pstats.produced + n, failed |-> pstats.failed + (1 - n)]
  BY <1>2, <1>4 DEF Produced
<1> HIDE DEF s, more
<1>11. /\ BatchedAt(Len(all) - Len(bat), all, bat, Sent, refused) /\ Once(Sent, refused)
       /\ \A e \in ToSet(Sent) \cup refused : IsBeat(e) => \E i \in 1 .. h : e = Heartbeat(i)
  BY DEF InBooks
<1>12. BatchedAt(Len(all) - Len(bat), all, bat, Sent', refused')
  <2>1. \A i \in 1 .. Len(s) : IsBeat(s[i])  BY <1>1, <1>9
  <2>2. \A e \in more : IsBeat(e)  BY <1>1, <1>8
  <2>3. BatchedAt(Len(all) - Len(bat), all, bat, Sent \o s, refused \cup more)
    BY <1>6, <1>7, <1>11, <2>1, <2>2, SendBeats
  <2>4. QED  BY <1>6, <1>10, <2>3
<1>13. OnceCounted(Sent', refused', Cardinality(refused) + (1 - n))
  <2>1. \A i \in 1 .. Len(msgs) : msgs[i] \notin ToSet(Sent) \cup refused
    BY <1>1, <1>2, <1>11
  <2>2. Distinct(msgs)  BY <1>2 DEF Distinct
  <2>3. OnceCounted(Sent \o SubSeq(msgs, 1, n), refused \cup Slice(msgs, n + 1, Len(msgs)),
                    Cardinality(refused) + (Len(msgs) - n))
    BY <1>2, <1>3, <1>6, <1>11, <2>1, <2>2, SendOnce
  <2>4. QED  BY <1>2, <1>6, <1>10, <2>3 DEF s, more
<1>14. ToSet(Sent') = ToSet(Sent) \cup ToSet(s) /\ ToSet(s) = {s[i] : i \in 1 .. Len(s)}
       /\ Len(Sent') = Len(Sent) + n
  <2>1. ToSet(Sent \o s) = ToSet(Sent) \cup ToSet(s)  BY <1>6, <1>7, ConcatMembers
  <2>2. ToSet(s) = {s[i] : i \in 1 .. Len(s)}  BY <1>7, Members
  <2>3. Len(Sent \o s) = Len(Sent) + Len(s)  BY <1>6, <1>7, ConcatProperties
  <2>4. QED  BY <1>6, <1>7, <2>1, <2>2, <2>3
<1>15. ASSUME NEW e \in ToSet(Sent') \cup refused', IsBeat(e)
       PROVE  \E i \in 1 .. h + 1 : e = Heartbeat(i)
  <2>1. e \in ToSet(Sent) \cup refused \/ e = Heartbeat(h + 1)
    BY <1>8, <1>9, <1>10, <1>14
  <2>2. 1 .. h \subseteq 1 .. h + 1 /\ h + 1 \in 1 .. h + 1  OBVIOUS
  <2>3. QED  BY <1>11, <1>15, <2>1, <2>2
<1>16. InBooks(all, bat, Sent', refused', h + 1)
  BY <1>12, <1>13, <1>15 DEF InBooks, OnceCounted
<1>17. /\ pstats' \in [produced : Nat, failed : Nat]
       /\ pstats'.produced = pstats.produced + n /\ pstats'.failed = pstats.failed + (1 - n)
  <2>1. pstats.produced + n \in Nat /\ pstats.failed + (1 - n) \in Nat  BY <1>3, <1>5
  <2>2. QED  BY <1>10, <2>1
<1>18. ProducerTyped'
  BY <1>1, <1>3, <1>6, <1>8, <1>10, <1>13, <1>17 DEF ProducerTyped, OnceCounted, E
<1>19. QED  BY <1>5, <1>13, <1>14, <1>16, <1>17, <1>18 DEF OnceCounted

-----------------------------------------------------------------------------
(* Steps of a loop *)

\* A set of numbers has a least one.
LEMMA LeastOf ==
    ASSUME NEW T \in SUBSET Nat, T # {}
    PROVE  \E m \in T : \A n \in T : m <= n
<1> DEFINE R == StrictSubsetOrdering(Nat)
           Upto == {0 .. n : n \in T}
<1>1. IsWellFoundedOn(R, FiniteSubsetsOf(Nat))
  BY FS_StrictSubsetOrderingWellFounded
<1>2. Upto \subseteq FiniteSubsetsOf(Nat) /\ Upto # {}
  <2>1. \A n \in T : IsFiniteSet(0 .. n) /\ 0 .. n \in SUBSET Nat  BY FS_Interval
  <2>2. QED  BY <2>1 DEF FiniteSubsetsOf
<1>3. ASSUME NEW k \in T, NEW n \in T, k < n PROVE <<0 .. k, 0 .. n>> \in R
  <2>1. n \in 0 .. n /\ n \notin 0 .. k /\ 0 .. k \subseteq 0 .. n  BY <1>3
  <2>2. QED  BY <2>1 DEF StrictSubsetOrdering
<1> HIDE DEF R
<1>4. PICK low \in Upto : \A U \in Upto : ~ (<<U, low>> \in R)
  <2> HIDE DEF Upto
  <2>1. QED  BY <1>1, <1>2, WFMin
<1>5. PICK m \in T : low = 0 .. m  OBVIOUS
<1>6. \A k \in T : ~ (k < m)  BY <1>3, <1>4, <1>5
<1>7. QED  BY <1>6

\* A set of places has a last one.
LEMMA GreatestOf ==
    ASSUME NEW n \in Nat, NEW T \in SUBSET (1 .. n), T # {}
    PROVE  \E m \in T : \A i \in T : i <= m
<1> DEFINE U == {n - i : i \in T}
<1>1. U \in SUBSET Nat /\ U # {}
  <2>1. \A i \in T : i \in 1 .. n  OBVIOUS
  <2>2. \A i \in 1 .. n : n - i \in Nat  OBVIOUS
  <2>3. QED  BY <2>1, <2>2
<1>2. PICK u \in U : \A x \in U : u <= x
  <2> HIDE DEF U
  <2>1. QED  BY <1>1, LeastOf
<1>3. PICK m \in T : u = n - m  OBVIOUS
<1>4. ASSUME NEW i \in T PROVE i <= m
  <2>1. n - m <= n - i  BY <1>2, <1>3
  <2>2. i \in 1 .. n /\ m \in 1 .. n  OBVIOUS
  <2>3. QED  BY <2>1, <2>2
<1>5. QED  BY <1>4

\* What holds at first and is handed on by each of n steps holds at last.
LEMMA HandedOn ==
    ASSUME NEW n \in Nat, NEW T, 0 \in T, \A i \in 1 .. n : i - 1 \in T => i \in T
    PROVE  n \in T
<1> SUFFICES ASSUME n \notin T PROVE FALSE  OBVIOUS
<1> DEFINE R == {i \in 0 .. n : i \notin T}
<1>1. R \in SUBSET Nat /\ n \in R  OBVIOUS
<1>2. PICK m \in R : \A i \in R : m <= i
  <2> HIDE DEF R
  <2>1. QED  BY <1>1, LeastOf
<1>3. m \in 1 .. n /\ m - 1 \in 0 .. n /\ ~ (m <= m - 1)  BY <1>2
<1>4. m - 1 \in T  BY <1>2, <1>3
<1>5. QED  BY <1>2, <1>3, <1>4

-----------------------------------------------------------------------------
(* NetFlow: the sets of a packet *)

\* What set k of packet p adds to what was made of the sets before it.
SetStep(v, p, done, k) == NextSet(v, p, done, p.sets[k])

\* f is the first n steps of the loop over the sets.
SetLoop(f, n, v, table, p) ==
    f = [k \in 0 .. n |-> IF k = 0 THEN NothingDone(v, table) ELSE SetStep(v, p, f[k - 1], k)]

\* The loop exists.
LEMMA SetLoopExists ==
    ASSUME NEW n \in Nat, NEW v, NEW table, NEW p
    PROVE  \E f : SetLoop(f, n, v, table, p)
<1> DEFINE empty == NothingDone(v, table)
           T == {m \in Nat : \E f : SetLoop(f, m, v, table, p)}
<1> HIDE DEF empty
<1>1. 0 \in T
  <2>1. SetLoop([k \in 0 .. 0 |-> empty], 0, v, table, p)
    <3>1. \A k \in 0 .. 0 : k = 0  OBVIOUS
    <3>2. QED  BY <3>1 DEF SetLoop, empty
  <2>2. QED  BY <2>1
<1>2. ASSUME NEW m \in 1 .. n, m - 1 \in T PROVE m \in T
  <2>1. PICK f : SetLoop(f, m - 1, v, table, p)  BY <1>2
  <2>2. f = [k \in 0 .. m - 1 |-> IF k = 0 THEN empty ELSE SetStep(v, p, f[k - 1], k)]
    BY <2>1 DEF SetLoop, empty
  <2> DEFINE g == [k \in 0 .. m |-> IF k = m THEN SetStep(v, p, f[m - 1], m) ELSE f[k]]
             h == [k \in 0 .. m |-> IF k = 0 THEN empty ELSE SetStep(v, p, g[k - 1], k)]
  <2>3. ASSUME NEW k \in 0 .. m PROVE g[k] = h[k]
    <3>1. CASE k = 0  BY <3>1, <2>2
    <3>2. CASE k = m
      <4>1. m - 1 \in 0 .. m /\ m - 1 # m  OBVIOUS
      <4>2. QED  BY <3>2, <4>1
    <3>3. CASE k \in 1 .. m - 1
      <4>1. k \in 0 .. m - 1 /\ k # 0 /\ k # m /\ k - 1 \in 0 .. m /\ k - 1 # m  BY <3>3
      <4>2. g[k - 1] = f[k - 1] /\ g[k] = f[k]  BY <4>1
      <4>3. QED  BY <2>2, <4>1, <4>2
    <3>4. QED  BY <3>1, <3>2, <3>3
  <2>4. g = h  BY <2>3
  <2>5. SetLoop(g, m, v, table, p)  BY <2>4 DEF SetLoop, empty
  <2>6. m \in Nat  OBVIOUS
  <2>7. QED  BY <2>5, <2>6
<1> HIDE DEF T
<1>3. n \in T  BY <1>1, <1>2, HandedOn
<1>4. QED  BY <1>3 DEF T

\* ParseSets is its last step.
SetSteps(a, v, table, p) ==
    /\ a[0] = NothingDone(v, table)
    /\ a[Len(p.sets)] = ParseSets(v, table, p)
    /\ \A k \in 1 .. Len(p.sets) : a[k] = SetStep(v, p, a[k - 1], k)

LEMMA SetByStep ==
    ASSUME NEW v, NEW table, NEW p, Len(p.sets) \in Nat
    PROVE  \E a : SetSteps(a, v, table, p)
<1> DEFINE a == CHOOSE f : SetLoop(f, Len(p.sets), v, table, p)
<1>1. SetLoop(a, Len(p.sets), v, table, p)
  <2>1. \E f : SetLoop(f, Len(p.sets), v, table, p)  BY SetLoopExists
  <2>2. QED  BY <2>1
<1>2. a[Len(p.sets)] = ParseSets(v, table, p)  BY DEF ParseSets, SetLoop, SetStep
<1> HIDE DEF a
<1>3. a = [k \in 0 .. Len(p.sets) |-> IF k = 0 THEN NothingDone(v, table)
                                      ELSE SetStep(v, p, a[k - 1], k)]
  BY <1>1 DEF SetLoop
<1>4. a[0] = NothingDone(v, table)  BY <1>3
<1>5. ASSUME NEW k \in 1 .. Len(p.sets) PROVE a[k] = SetStep(v, p, a[k - 1], k)
  <2>1. k \in 0 .. Len(p.sets) /\ k # 0  OBVIOUS
  <2>2. QED  BY <1>3, <2>1
<1>6. QED  BY <1>2, <1>4, <1>5 DEF SetSteps

\* The layouts of a table are known, K being the known pairs of id and layout.
Fits(K, table) == \A t \in DOMAIN table : <<t, table[t]>> \in K

\* Records of version v that were decoded with known layouts.
DecodedWith(K, v, recs) ==
    /\ recs \in Seq(FlowRecords)
    /\ \A i \in 1 .. Len(recs) : recs[i].version = v /\ <<recs[i].id, recs[i].used>> \in K

\* What was made of some sets of a packet.
ParsedWith(K, v, a) ==
    /\ a = [table |-> a.table, records |-> a.records, offset |-> a.offset, at |-> a.at]
    /\ GoodTable(a.table) /\ Fits(K, a.table) /\ DecodedWith(K, v, a.records)

\* The layouts a packet announces are known.
Announces(K, p) ==
    \A s \in ToSet(p.sets) : s.type = "template" =>
        \A d \in ToSet(s.defs) : <<d.id, d.layout>> \in K

\* A template set: each id of the table has an earlier layout of it or one the
\* set announces.
LEMMA AnnounceKnown ==
    ASSUME NEW K, NEW table, NEW defs, GoodTable(table), Fits(K, table),
           defs \in Seq(ToSet(defs)), \A d \in ToSet(defs) : d.layout \in DOMAIN LayoutSize,
           \A d \in ToSet(defs) : <<d.id, d.layout>> \in K
    PROVE  GoodTable(Announce(table, defs)) /\ Fits(K, Announce(table, defs))
<1> DEFINE new == Announce(table, defs)
<1>1. DOMAIN defs = 1 .. Len(defs) /\ Len(defs) \in Nat
      /\ \A i \in 1 .. Len(defs) : defs[i] \in ToSet(defs)
  OBVIOUS
<1>2. ASSUME NEW t \in DOMAIN new
      PROVE  new[t] \in DOMAIN LayoutSize /\ <<t, new[t]>> \in K
  <2>1. CASE \E i \in DOMAIN defs : defs[i].id = t
    <3> DEFINE R == {i \in 1 .. Len(defs) : defs[i].id = t}
    <3>1. PICK m \in R : \A i \in R : i <= m
      <4>1. R \in SUBSET (1 .. Len(defs)) /\ R # {}  BY <1>1, <2>1
      <4> HIDE DEF R
      <4>2. QED  BY <1>1, <4>1, GreatestOf
    <3>2. m \in DOMAIN defs /\ defs[m].id = t
          /\ \A j \in m + 1 .. Len(defs) : defs[j].id # t
      <4>1. ASSUME NEW j \in m + 1 .. Len(defs), defs[j].id = t PROVE FALSE
        <5>1. j \in R /\ ~ (j <= m)  BY <1>1, <4>1
        <5>2. QED  BY <3>1, <5>1
      <4>2. QED  BY <1>1, <4>1
    <3> DEFINE c == CHOOSE i \in DOMAIN defs : /\ defs[i].id = t
                        /\ \A j \in i + 1 .. Len(defs) : defs[j].id # t
    <3>3. c \in DOMAIN defs /\ defs[c].id = t  BY <3>2
    <3>4. new[t] = defs[c].layout  BY <2>1 DEF Announce
    <3> HIDE DEF c
    <3>5. defs[c] \in ToSet(defs)  BY <1>1, <3>3
    <3>6. QED  BY <3>3, <3>4, <3>5
  <2>2. CASE ~ \E i \in DOMAIN defs : defs[i].id = t
    <3>1. t \in DOMAIN table /\ new[t] = table[t]  BY <2>2 DEF Announce
    <3>2. QED  BY <3>1 DEF GoodTable, Fits
  <2>3. QED  BY <2>1, <2>2
<1>3. QED  BY <1>2 DEF GoodTable, Fits

\* A data set: records of its id's layout.
LEMMA DataKnown ==
    ASSUME NEW K, NEW table, GoodTable(table), Fits(K, table), NEW v \in {9, 10},
           NEW p \in Packets, NEW s \in ToSet(p.sets), s.type = "data", GoodSet(s),
           ~Spins(table, s)
    PROVE  DecodedWith(K, v, DataRecords(v, table, s))
<1>1. s.id \in SetIds /\ s.layout \in SentLayouts  BY DEF SetIds, SentLayouts
<1>2. CASE s.id \notin DOMAIN table \/ s.length < 4
  <2>1. DataRecords(v, table, s) = << >>  BY <1>2 DEF DataRecords
  <2>2. QED  BY <2>1 DEF DecodedWith
<1>3. CASE s.id \in DOMAIN table /\ ~ (s.length < 4)
  <2> DEFINE l == table[s.id]
             n == (s.length - 4) \div LayoutSize[l]
             r == Record(v, s.id, l, s.layout)
             recs == [i \in 1 .. n |-> r]
  <2>1. l \in DOMAIN LayoutSize /\ <<s.id, l>> \in K  BY <1>3 DEF GoodTable, Fits
  <2>2. n \in Nat
    <3>1. LayoutSize[l] \in Nat  BY <2>1, LayoutAssumption
    <3>2. s.length \in Nat  BY DEF GoodSet
    <3>3. s.length >= 4  BY <1>3, <3>2
    <3>4. LayoutSize[l] # 0  BY <1>3, <3>3 DEF Spins
    <3>5. QED  BY <3>1, <3>2, <3>3, <3>4
  <2>3. r \in FlowRecords /\ r.version = v /\ <<r.id, r.used>> \in K
    BY <1>1, <2>1 DEF Record, FlowRecords
  <2>4. DataRecords(v, table, s) = recs  BY <1>3 DEF DataRecords
  <2> HIDE DEF n, r
  <2>5. recs \in Seq(FlowRecords) /\ Len(recs) = n /\ \A i \in 1 .. n : recs[i] = r
    BY <2>2, <2>3
  <2> HIDE DEF recs
  <2>6. QED  BY <2>3, <2>4, <2>5 DEF DecodedWith
<1>4. QED  BY <1>2, <1>3

\* Records behind records.
LEMMA DecodedBehind ==
    ASSUME NEW K, NEW v, NEW r, NEW t, DecodedWith(K, v, r), DecodedWith(K, v, t)
    PROVE  DecodedWith(K, v, r \o t)
<1> DEFINE x == r \o t
<1>1. r \in Seq(FlowRecords) /\ t \in Seq(FlowRecords)  BY DEF DecodedWith
<1>2. /\ x \in Seq(FlowRecords) /\ Len(x) = Len(r) + Len(t)
      /\ \A i \in 1 .. Len(r) + Len(t) : x[i] = IF i <= Len(r) THEN r[i] ELSE t[i - Len(r)]
      /\ Len(r) \in Nat /\ Len(t) \in Nat
  BY <1>1, ConcatProperties
<1> HIDE DEF x
<1>3. ASSUME NEW i \in 1 .. Len(x)
      PROVE  x[i].version = v /\ <<x[i].id, x[i].used>> \in K
  <2>1. CASE i <= Len(r)
    <3>1. x[i] = r[i] /\ i \in 1 .. Len(r)  BY <1>2, <2>1
    <3>2. QED  BY <3>1 DEF DecodedWith
  <2>2. CASE ~ (i <= Len(r))
    <3>1. x[i] = t[i - Len(r)] /\ i - Len(r) \in 1 .. Len(t)  BY <1>2, <2>2
    <3>2. QED  BY <3>1 DEF DecodedWith
  <2>3. QED  BY <2>1, <2>2
<1>4. QED  BY <1>2, <1>3 DEF DecodedWith, x

\* One set.
LEMMA SetKnown ==
    ASSUME NEW K, NEW v \in {9, 10}, NEW a, ParsedWith(K, v, a), NEW p \in Packets,
           Announces(K, p), NEW k \in DOMAIN p.sets, GoodSet(p.sets[k])
    PROVE  ParsedWith(K, v, SetStep(v, p, a, k))
<1> DEFINE s == p.sets[k]
           t == a.table
           r == a.records
           o == a.offset + s.length
           b == [a EXCEPT !.offset = @ + s.length]
<1>1. /\ a = [table |-> t, records |-> r, offset |-> a.offset, at |-> a.at]
      /\ GoodTable(t) /\ Fits(K, t) /\ DecodedWith(K, v, r)
  BY DEF ParsedWith
<1>2. s \in ToSet(p.sets)  BY DEF ToSet
<1>3. ASSUME NEW x, NEW y, NEW z, NEW w, GoodTable(x), Fits(K, x), DecodedWith(K, v, y)
      PROVE  ParsedWith(K, v, [table |-> x, records |-> y, offset |-> z, at |-> w])
  BY <1>3 DEF ParsedWith
<1>4. ASSUME ~Spins(t, s) PROVE ParsedWith(K, v, ParseSet(v, b, s))
  <2>1. b = [table |-> t, records |-> r, offset |-> o, at |-> a.at]  BY <1>1
  <2>2. CASE s.type = "template"
    <3>1. ParseSet(v, b, s)
            = [table |-> Announce(t, s.defs), records |-> r, offset |-> o, at |-> a.at]
      BY <2>1, <2>2 DEF ParseSet
    <3>2. GoodTable(Announce(t, s.defs)) /\ Fits(K, Announce(t, s.defs))
      <4>1. /\ s.defs \in Seq(ToSet(s.defs))
            /\ \A d \in ToSet(s.defs) : d.layout \in DOMAIN LayoutSize
        BY <2>2 DEF GoodSet
      <4>2. \A d \in ToSet(s.defs) : <<d.id, d.layout>> \in K  BY <1>2, <2>2 DEF Announces
      <4> HIDE DEF s, t, r
      <4>3. QED  BY <1>1, <4>1, <4>2, AnnounceKnown
    <3> HIDE DEF t, r, s, o, b
    <3>3. QED  BY <1>1, <1>3, <3>1, <3>2
  <2>3. CASE s.type = "data"
    <3>1. ParseSet(v, b, s) = [table |-> t, records |-> r \o DataRecords(v, t, s),
                               offset |-> o, at |-> a.at]
      BY <2>1, <2>3 DEF ParseSet
    <3>2. DecodedWith(K, v, DataRecords(v, t, s))
      <4>1. GoodSet(s)  OBVIOUS
      <4> HIDE DEF s, t, r
      <4>2. QED  BY <1>1, <1>2, <1>4, <2>3, <4>1, DataKnown
    <3>3. DecodedWith(K, v, r \o DataRecords(v, t, s))
      <4> HIDE DEF s, t, r
      <4>1. QED  BY <1>1, <3>2, DecodedBehind
    <3> HIDE DEF t, r, s, o, b
    <3>4. QED  BY <1>1, <1>3, <3>1, <3>3
  <2>4. CASE s.type \notin {"template", "data"}
    <3>1. ParseSet(v, b, s) = b  BY <2>4 DEF ParseSet
    <3> HIDE DEF t, r, s, o, b
    <3>2. QED  BY <1>1, <1>3, <2>1, <3>1
  <2>5. QED  BY <2>2, <2>3, <2>4
<1>5. ASSUME NEW x PROVE ParsedWith(K, v, [a EXCEPT !.at = x])
  <2>1. [a EXCEPT !.at = x] = [table |-> t, records |-> r, offset |-> a.offset, at |-> x]
    BY <1>1
  <2> HIDE DEF t, r, s, o, b
  <2>2. QED  BY <1>1, <1>3, <2>1
<1>6. \/ NextSet(v, p, a, s) = a
      \/ \E x : NextSet(v, p, a, s) = [a EXCEPT !.at = x]
      \/ NextSet(v, p, a, s) = ParseSet(v, b, s) /\ ~Spins(t, s)
  BY DEF NextSet
<1>7. QED  BY <1>4, <1>5, <1>6 DEF SetStep

\* All the sets of a packet.
LEMMA SetsKnown ==
    ASSUME NEW K, NEW v \in {9, 10}, NEW table, GoodTable(table), Fits(K, table),
           NEW p \in Packets, p.version = v, Announces(K, p)
    PROVE  ParsedWith(K, v, ParseSets(v, table, p))
<1> DEFINE n == Len(p.sets)
<1>1. /\ p.sets \in Seq(ToSet(p.sets)) /\ n \in Nat /\ DOMAIN p.sets = 1 .. n
      /\ \A s \in ToSet(p.sets) : GoodSet(s)
  BY PacketsAssumption
<1>2. PICK a : SetSteps(a, v, table, p)
  <2>1. Len(p.sets) \in Nat  BY <1>1
  <2>2. QED  BY <2>1, SetByStep
<1> DEFINE T == {k \in 0 .. n : ParsedWith(K, v, a[k])}
<1>3. 0 \in T
  <2>1. ParsedWith(K, v, NothingDone(v, table))
    BY DEF ParsedWith, DecodedWith, NothingDone
  <2>2. QED  BY <1>1, <1>2, <2>1 DEF SetSteps
<1>4. ASSUME NEW k \in 1 .. n, k - 1 \in T PROVE k \in T
  <2>1. p.sets[k] \in ToSet(p.sets) /\ k \in DOMAIN p.sets  BY <1>1 DEF ToSet
  <2>2. GoodSet(p.sets[k])  BY <1>1, <2>1
  <2>3. ParsedWith(K, v, a[k - 1])  BY <1>4
  <2>4. ParsedWith(K, v, SetStep(v, p, a[k - 1], k))  BY <2>1, <2>2, <2>3, SetKnown
  <2>5. k \in 0 .. n  BY <1>1
  <2>6. QED  BY <1>2, <2>4, <2>5 DEF SetSteps
<1> HIDE DEF T
<1>5. n \in T  BY <1>1, <1>3, <1>4, HandedOn
<1>6. QED  BY <1>2, <1>5 DEF T, SetSteps

-----------------------------------------------------------------------------
(* Messages: each in one place *)

IdsOf(s) == {s[i].id : i \in 1 .. Len(s)}
DistinctIds(s) == \A i, j \in 1 .. Len(s) : s[i].id = s[j].id => i = j

\* A message behind others.
LEMMA MessageBehind ==
    ASSUME NEW M, NEW s \in Seq(M), NEW m \in M, DistinctIds(s), m.id \notin IdsOf(s)
    PROVE  DistinctIds(Append(s, m)) /\ IdsOf(Append(s, m)) = IdsOf(s) \cup {m.id}
<1> DEFINE t == Append(s, m)
<1>1. /\ Len(t) = Len(s) + 1 /\ Len(s) \in Nat /\ t[Len(s) + 1] = m
      /\ \A i \in 1 .. Len(s) : t[i] = s[i]
  BY AppendEffect
<1> HIDE DEF t
<1>2. \A i \in 1 .. Len(t) : i \in 1 .. Len(s) \/ i = Len(s) + 1  BY <1>1
<1>3. DistinctIds(t)
  <2>1. \A i \in 1 .. Len(s) : s[i].id # m.id  BY DEF IdsOf
  <2>2. QED  BY <1>1, <1>2, <2>1 DEF DistinctIds
<1>4. IdsOf(t) = IdsOf(s) \cup {m.id}
  <2>1. ASSUME NEW x \in IdsOf(t) PROVE x \in IdsOf(s) \cup {m.id}
    BY <1>1, <1>2 DEF IdsOf
  <2>2. ASSUME NEW x \in IdsOf(s) PROVE x \in IdsOf(t)
    <3>1. PICK i \in 1 .. Len(s) : x = s[i].id  BY DEF IdsOf
    <3>2. i \in 1 .. Len(t) /\ t[i] = s[i]  BY <1>1
    <3>3. QED  BY <3>1, <3>2 DEF IdsOf
  <2>3. m.id \in IdsOf(t)
    <3>1. Len(s) + 1 \in 1 .. Len(t)  BY <1>1
    <3>2. QED  BY <1>1, <3>1 DEF IdsOf
  <2>4. QED  BY <2>1, <2>2, <2>3
<1>5. QED  BY <1>3, <1>4 DEF t

\* The first message leaves.
LEMMA FirstLeaves ==
    ASSUME NEW M, NEW s \in Seq(M), s # << >>, DistinctIds(s)
    PROVE  /\ DistinctIds(Tail(s)) /\ Head(s).id \in IdsOf(s)
           /\ IdsOf(Tail(s)) = IdsOf(s) \ {Head(s).id}
<1> DEFINE t == Tail(s)
<1>1. /\ Len(t) = Len(s) - 1 /\ Len(s) \in Nat \ {0} /\ Head(s) = s[1]
      /\ \A i \in 1 .. Len(s) - 1 : t[i] = s[i + 1]
  BY HeadTail
<1> HIDE DEF t
<1>2. \A i \in 1 .. Len(t) : i + 1 \in 1 .. Len(s) /\ t[i] = s[i + 1]  BY <1>1
<1>3. DistinctIds(t)
  <2>1. ASSUME NEW i \in 1 .. Len(t), NEW j \in 1 .. Len(t), t[i].id = t[j].id PROVE i = j
    <3>1. i + 1 = j + 1  BY <1>2, <2>1 DEF DistinctIds
    <3>2. QED  BY <3>1
  <2>2. QED  BY <2>1 DEF DistinctIds
<1>4. 1 \in 1 .. Len(s)  BY <1>1
<1>5. ASSUME NEW x \in IdsOf(t) PROVE x \in IdsOf(s) \ {Head(s).id}
  <2>1. PICK i \in 1 .. Len(t) : x = t[i].id  BY DEF IdsOf
  <2>2. i + 1 \in 1 .. Len(s) /\ x = s[i + 1].id /\ i + 1 # 1  BY <1>2, <2>1
  <2>3. QED  BY <1>1, <1>4, <2>2 DEF IdsOf, DistinctIds
<1>6. ASSUME NEW x \in IdsOf(s), x # Head(s).id PROVE x \in IdsOf(t)
  <2>1. PICK i \in 1 .. Len(s) : x = s[i].id  BY DEF IdsOf
  <2>2. i # 1  BY <1>1, <1>6, <2>1
  <2>3. i - 1 \in 1 .. Len(t) /\ t[i - 1] = s[i]
    <3>1. i - 1 \in 1 .. Len(s) - 1 /\ (i - 1) + 1 = i  BY <1>1, <2>2
    <3>2. QED  BY <1>1, <3>1
  <2>4. QED  BY <2>1, <2>3 DEF IdsOf
<1>7. Head(s).id \in IdsOf(s)  BY <1>1, <1>4 DEF IdsOf
<1>8. QED  BY <1>3, <1>5, <1>6, <1>7 DEF t

\* Popping moves a message within what has arrived; pushing adds to it.
LEMMA Arrive ==
    ASSUME NEW M, NEW d \in Seq(M), NEW q \in Seq(M)
    PROVE  /\ d \o q \in Seq(M)
           /\ q # << >> => Append(d, Head(q)) \o Tail(q) = d \o q
           /\ \A m \in M : d \o Append(q, m) = Append(d \o q, m)
<1>1. d \o q \in Seq(M)  BY ConcatProperties
<1>2. ASSUME q # << >> PROVE Append(d, Head(q)) \o Tail(q) = d \o q
  <2> DEFINE h == Head(q)
             t == Tail(q)
  <2>1. h \in M /\ t \in Seq(M) /\ q = <<h>> \o t  BY <1>2
  <2> HIDE DEF h, t
  <2>2. <<h>> \in Seq(M)  BY <2>1
  <2>3. Append(d, h) = d \o <<h>>  BY <2>1, AppendIsConcat
  <2>4. (d \o <<h>>) \o t = d \o (<<h>> \o t)  BY <2>1, <2>2, Association DEF Associates
  <2>5. QED  BY <2>1, <2>3, <2>4 DEF h, t
<1>3. ASSUME NEW m \in M PROVE d \o Append(q, m) = Append(d \o q, m)
  <2>1. <<m>> \in Seq(M)  OBVIOUS
  <2>2. Append(q, m) = q \o <<m>>  BY AppendIsConcat
  <2>3. Append(d \o q, m) = (d \o q) \o <<m>>  BY <1>1, AppendIsConcat
  <2>4. (d \o q) \o <<m>> = d \o (q \o <<m>>)  BY <2>1, Association DEF Associates
  <2>5. QED  BY <2>2, <2>3, <2>4
<1>4. QED  BY <1>1, <1>2, <1>3

\* The ids of cells, in no two of which they are the same.
CellId(c) == <<c.line, c.pos>>
CellIds(s) == {CellId(s[i]) : i \in 1 .. Len(s)}
CellsApart(s) == \A i, j \in 1 .. Len(s) : CellId(s[i]) = CellId(s[j]) => i = j

\* The ids in each of the places.
ArrivedIds == IdsOf(delivered \o queue)
HandIds    == {hand[r].id : r \in InHand}
DroppedIds == {m.id : m \in dropped}
PieceIds   == IdsOf(conn.pieces)
SocketIds  == IdsOf(socket)
StreamIds  == CellIds(conn.stream)
IdSets == <<ArrivedIds, HandIds, DroppedIds, PieceIds, SocketIds, StreamIds>>

\* No id is in two of the sets.
Apart(F) == \A i, j \in 1 .. 6 : i # j => F[i] \cap F[j] = {}

\* The ids of M go to place b.
LEMMA IdsMove ==
    ASSUME NEW F, NEW G, Apart(F), NEW M, NEW b \in 1 .. 6, G[b] \subseteq F[b] \cup M,
           \A i \in 1 .. 6 : i # b => G[i] \subseteq F[i] /\ G[i] \cap M = {}
    PROVE  Apart(G)
<1>1. ASSUME NEW i \in 1 .. 6, i # b PROVE G[i] \cap G[b] = {}
  <2>1. F[i] \cap F[b] = {}  BY <1>1 DEF Apart
  <2>2. QED  BY <1>1, <2>1
<1>2. ASSUME NEW i \in 1 .. 6, NEW j \in 1 .. 6, i # j PROVE G[i] \cap G[j] = {}
  <2>1. CASE i = b
    <3>1. G[j] \cap G[b] = {}  BY <1>1, <1>2, <2>1
    <3>2. QED  BY <2>1, <3>1
  <2>2. CASE j = b  BY <1>1, <1>2, <2>2
  <2>3. CASE i # b /\ j # b
    <3>1. F[i] \cap F[j] = {}  BY <1>2 DEF Apart
    <3>2. QED  BY <2>3, <3>1
  <2>4. QED  BY <2>1, <2>2, <2>3
<1>3. QED  BY <1>2 DEF Apart

\* In no place are two messages with one id; no id is from the future.
HandsApart == \A r, s \in InHand : hand[r].id = hand[s].id => r = s
DroppedApart == \A m, n \in dropped : m.id = n.id => m = n
PlacesApart ==
    /\ DistinctIds(delivered \o queue) /\ DistinctIds(socket) /\ DistinctIds(conn.pieces)
    /\ HandsApart /\ DroppedApart /\ CellsApart(conn.stream)

IdsBounded ==
    \A i \in 1 .. 6 : \A x \in IdSets[i] : x[1] <= inputs /\ (kind # "syslog" => x[2] = 1)

AllCounted ==
    kind # "syslog" =>
        stats.received = Len(queue) + Len(delivered) + Cardinality(dropped) + Cardinality(InHand)

MessagesInv == PlacesApart /\ Apart(IdSets) /\ IdsBounded /\ AllCounted

-----------------------------------------------------------------------------
(* NetFlow: what was announced *)

\* The announcements of version v in popped packets, from number i on.
Defs(popped, v, i) ==
    UNION {UNION {ToSet(s.defs) : s \in {x \in ToSet(popped[k].body.sets) : x.type = "template"}} :
        k \in {j \in i .. Len(popped) : popped[j].body.version = v}}

\* The ids with the layouts announced for them.
Pairs(popped, v, i) == {<<d.id, d.layout>> : d \in Defs(popped, v, i)}

\* The tables hold what was announced in their version since the thread began.
TablesKnown ==
    /\ Fits(Pairs(delivered, 9, templates.since + 1), templates.v9)
    /\ Fits(Pairs(delivered, 10, templates.since + 1), templates.ipfix)

\* A record was decoded with an announced layout, announced since the thread
\* began if its packet was popped since.
RecordsKnown ==
    kind = "netflow" =>
        \A i \in 1 .. Len(made) :
            LET r == made[i].data
            IN  r.version # 5 =>
                  /\ r.version \in {9, 10}
                  /\ <<r.id, r.used>> \in Pairs(delivered, r.version, 1)
                  /\ \A j \in templates.since + 1 .. Len(delivered) :
                       delivered[j].id[1] = made[i].src[1] =>
                         <<r.id, r.used>> \in Pairs(delivered, r.version, templates.since + 1)

IInv == Typed /\ TablesKnown /\ RecordsKnown /\ MessagesInv /\ EventsInv

-----------------------------------------------------------------------------
(* What is made of a message *)

\* evts are made of the oldest message of the ring.
Makes(evts, parsed, errors) ==
    /\ evts \in Seq(EventType) /\ Distinct(evts)
    /\ \A i \in 1 .. Len(evts) : ~IsBeat(evts[i]) /\ Origin(kind, evts[i].src) = Head(queue).id
    /\ parsed \in Nat /\ errors \in Nat
    /\ kind \in {"syslog", "winlog"} => parsed + errors = 1
    /\ kind # "agent" => parsed = Len(evts)

\* One event, or none.
LEMMA MakesOne ==
    ASSUME NEW e \in EventType, ~IsBeat(e), Origin(kind, e.src) = Head(queue).id,
           kind # "netflow", NEW one \in {0, 1}
    PROVE  /\ Makes(IF one = 1 THEN <<e>> ELSE << >>, one, 1 - one)
           /\ kind = "agent" => Makes(<<e>>, 0, 0)
<1>1. /\ <<e>> \in Seq(EventType) /\ Len(<<e>>) = 1 /\ <<e>>[1] = e
      /\ << >> \in Seq(EventType) /\ Len(<< >>) = 0
  OBVIOUS
<1>2. Distinct(<<e>>) /\ Distinct(<< >>)  BY <1>1 DEF Distinct
<1>3. \A i \in 1 .. 1 : i = 1  OBVIOUS
<1>4. Makes(<<e>>, 1, 0) /\ Makes(<< >>, 0, 1)
  BY <1>1, <1>2, <1>3 DEF Makes
<1>5. kind = "agent" => Makes(<<e>>, 0, 0)
  BY <1>1, <1>2, <1>3 DEF Makes
<1>6. QED  BY <1>4, <1>5

\* The message at the head of the ring.
LEMMA OldestMessage ==
    ASSUME PlacesTyped, queue # << >>
    PROVE  /\ Head(queue) \in RawMessages(kind) /\ Head(queue).id \in MsgIds
           /\ Head(queue).body \in Bodies(kind)
           /\ Head(queue).id = <<Head(queue).id[1], Head(queue).id[2]>>
           /\ Head(queue).id[1] \in Nat \ {0} /\ Head(queue).id[2] \in Nat \ {0}
<1>1. Head(queue) \in RawMessages(kind)
  <2>1. queue \in Seq(RawMessages(kind))  BY DEF PlacesTyped
  <2>2. QED  BY <2>1, HeadTail
<1>2. QED  BY <1>1 DEF RawMessages, MsgIds

\* What the syslog collector makes of message m.
SyslogEvents(m) ==
    LET data == SyslogFields(m.body)
    IN  IF data = NoMessage THEN << >> ELSE <<[src |-> m.id, data |-> data]>>

LEMMA SyslogMakes ==
    ASSUME Typed, SyslogProcess
    PROVE  \E evts, parsed, errors :
              /\ Process(evts, parsed, errors) /\ Makes(evts, parsed, errors)
              /\ evts = SyslogEvents(Head(queue))
<1> DEFINE h == Head(queue)
           data == SyslogFields(h.body)
           e == [src |-> h.id, data |-> data]
<1>1. kind = "syslog" /\ queue # << >>  BY DEF SyslogProcess
<1>2. h.id \in MsgIds /\ h.body \in Bodies("syslog") /\ h.id[1] \in Nat \ {0}
  BY <1>1, OldestMessage DEF Typed
<1>3. e \in EventType /\ ~IsBeat(e) /\ e.src = h.id
  <2>1. data \in Contents  BY <1>2 DEF Contents
  <2> HIDE DEF data
  <2>2. QED  BY <1>2, <2>1 DEF EventType, IsBeat, MsgIds
<1>4. Origin(kind, e.src) = h.id  BY <1>1, <1>3 DEF Origin
<1>5. \/ Process(<< >>, 0, 1) /\ SyslogEvents(h) = << >>
      \/ Process(<<e>>, 1, 0) /\ SyslogEvents(h) = <<e>>
  BY DEF SyslogProcess, SyslogEvents, SyslogFields
<1> HIDE DEF e
<1>6. Makes(<< >>, 0, 1) /\ Makes(<<e>>, 1, 0)
  <2>1. Makes(IF 0 = 1 THEN <<e>> ELSE << >>, 0, 1 - 0)
    BY <1>1, <1>3, <1>4, MakesOne
  <2>2. Makes(IF 1 = 1 THEN <<e>> ELSE << >>, 1, 1 - 1)
    BY <1>1, <1>3, <1>4, MakesOne
  <2>3. QED  BY <2>1, <2>2
<1>7. QED  BY <1>5, <1>6

LEMMA WinlogMakes ==
    ASSUME Typed, WinlogProcess
    PROVE  \E evts, parsed, errors : Process(evts, parsed, errors) /\ Makes(evts, parsed, errors)
<1> DEFINE e == WinlogEvent(Head(queue))
           ok == parse_xml(Head(queue).body) # NoRecord
<1>1. kind = "winlog" /\ queue # << >>  BY DEF WinlogProcess
<1>2. /\ Head(queue) \in RawMessages("winlog") /\ Head(queue).id \in MsgIds
      /\ Head(queue).id[1] \in Nat \ {0}
  BY <1>1, OldestMessage DEF Typed
<1>3. e \in EventType /\ ~IsBeat(e) /\ e.src = Head(queue).id
  <2>1. e = [src |-> Head(queue).id, data |-> e.data]  BY DEF WinlogEvent
  <2>2. e.data \in Contents  BY <1>2 DEF Contents
  <2> HIDE DEF e
  <2>3. QED  BY <1>2, <2>1, <2>2 DEF EventType, IsBeat, MsgIds
<1>4. Origin(kind, e.src) = Head(queue).id  BY <1>1, <1>3 DEF Origin
<1>5. Process(IF ok THEN <<e>> ELSE << >>, IF ok THEN 1 ELSE 0, IF ok THEN 0 ELSE 1)
  BY DEF WinlogProcess
<1> HIDE DEF e, ok
<1>6. Makes(<< >>, 0, 1) /\ Makes(<<e>>, 1, 0)
  <2>1. Makes(IF 0 = 1 THEN <<e>> ELSE << >>, 0, 1 - 0)
    BY <1>1, <1>3, <1>4, MakesOne
  <2>2. Makes(IF 1 = 1 THEN <<e>> ELSE << >>, 1, 1 - 1)
    BY <1>1, <1>3, <1>4, MakesOne
  <2>3. QED  BY <2>1, <2>2
<1>7. CASE ok
  <2>1. Process(<<e>>, 1, 0)  BY <1>5, <1>7
  <2>2. QED  BY <1>6, <2>1
<1>8. CASE ~ok
  <2>1. Process(<< >>, 0, 1)  BY <1>5, <1>8
  <2>2. QED  BY <1>6, <2>1
<1>9. QED  BY <1>7, <1>8

LEMMA AgentMakes ==
    ASSUME Typed, AgentProcess
    PROVE  \E evts, parsed, errors : Process(evts, parsed, errors) /\ Makes(evts, parsed, errors)
<1> DEFINE e == convert_endpoint_event(Head(queue))
<1>1. kind = "agent" /\ queue # << >>  BY DEF AgentProcess
<1>2. /\ Head(queue) \in RawMessages("agent") /\ Head(queue).id \in MsgIds
      /\ Head(queue).id[1] \in Nat \ {0}
  BY <1>1, OldestMessage DEF Typed
<1>3. e \in EventType /\ ~IsBeat(e) /\ e.src = Head(queue).id
  <2>1. e = [src |-> Head(queue).id, data |-> e.data]  BY DEF convert_endpoint_event
  <2>2. e.data \in Contents  BY <1>2 DEF Contents
  <2> HIDE DEF e
  <2>3. QED  BY <1>2, <2>1, <2>2 DEF EventType, IsBeat, MsgIds
<1>4. Origin(kind, e.src) = Head(queue).id  BY <1>1, <1>3 DEF Origin
<1>5. Process(<<e>>, 0, 0)  BY DEF AgentProcess
<1> HIDE DEF e
<1>6. Makes(<<e>>, 0, 0)  BY <1>1, <1>3, <1>4, MakesOne
<1>7. QED  BY <1>5, <1>6

\* A packet more: what was announced stays announced, and its templates are.
LEMMA PairsGrow ==
    ASSUME NEW M, NEW popped \in Seq(M), NEW m \in M, NEW v, NEW i \in 1 .. Len(popped) + 1
    PROVE  /\ Pairs(popped, v, i) \subseteq Pairs(Append(popped, m), v, i)
           /\ m.body.version = v => Announces(Pairs(Append(popped, m), v, i), m.body)
<1> DEFINE more == Append(popped, m)
           n == Len(popped)
<1>1. /\ Len(more) = n + 1 /\ n \in Nat /\ more[n + 1] = m
      /\ \A k \in 1 .. n : more[k] = popped[k]
  BY AppendEffect
<1> HIDE DEF more, n
<1>2. ASSUME NEW d \in Defs(popped, v, i) PROVE d \in Defs(more, v, i)
  <2>1. PICK k \in {j \in i .. Len(popped) : popped[j].body.version = v} :
          d \in UNION {ToSet(s.defs) :
                         s \in {x \in ToSet(popped[k].body.sets) : x.type = "template"}}
    BY DEF Defs
  <2>2. k \in i .. Len(more) /\ more[k] = popped[k]
    <3>1. k \in 1 .. n /\ k \in i .. n  BY <1>1 DEF n
    <3>2. QED  BY <1>1, <3>1
  <2>3. more[k].body.version = v  BY <2>1, <2>2
  <2>4. QED  BY <2>1, <2>2, <2>3 DEF Defs
<1>3. ASSUME m.body.version = v, NEW s \in ToSet(m.body.sets), s.type = "template",
             NEW d \in ToSet(s.defs)
      PROVE  d \in Defs(more, v, i)
  <2>1. n + 1 \in i .. Len(more)  BY <1>1 DEF n
  <2>2. more[n + 1].body.version = v  BY <1>1, <1>3
  <2>3. d \in UNION {ToSet(t.defs) :
                        t \in {x \in ToSet(more[n + 1].body.sets) : x.type = "template"}}
    BY <1>1, <1>3
  <2>4. QED  BY <2>1, <2>2, <2>3 DEF Defs
<1>4. QED  BY <1>2, <1>3 DEF Pairs, Announces, more

\* Fewer packets: less was announced.
LEMMA PairsLater ==
    ASSUME NEW popped, NEW v, NEW i \in Nat, NEW j \in Nat, i <= j, Len(popped) \in Nat
    PROVE  Pairs(popped, v, j) \subseteq Pairs(popped, v, i)
<1>1. \A k \in j .. Len(popped) : k \in i .. Len(popped)  OBVIOUS
<1>2. Defs(popped, v, j) \subseteq Defs(popped, v, i)  BY <1>1 DEF Defs
<1>3. QED  BY <1>2 DEF Pairs

\* A packet's sets, for the table of its version.
LEMMA PacketKnown ==
    ASSUME Typed, TablesKnown, kind = "netflow", queue # << >>,
           NEW v \in {9, 10}, Head(queue).body.version = v,
           NEW table, table = IF v = 9 THEN templates.v9 ELSE templates.ipfix
    PROVE  ParsedWith(Pairs(Append(delivered, Head(queue)), v, templates.since + 1), v,
                      ParseSets(v, table, Head(queue).body))
<1> DEFINE m == Head(queue)
           i == templates.since + 1
           K == Pairs(Append(delivered, m), v, i)
<1>1. m \in RawMessages(kind) /\ m.body \in Packets
  BY OldestMessage DEF Typed, Bodies
<1>2. delivered \in Seq(RawMessages(kind))  BY DEF Typed, PlacesTyped
<1>3. i \in 1 .. Len(delivered) + 1  BY <1>2 DEF Typed, TemplatesTyped
<1>4. GoodTable(table) /\ Fits(Pairs(delivered, v, i), table)
  BY DEF Typed, TemplatesTyped, TablesKnown
<1> HIDE DEF m, i
<1>5. Pairs(delivered, v, i) \subseteq K /\ (m.body.version = v => Announces(K, m.body))
  BY <1>1, <1>2, <1>3, PairsGrow
<1>6. m.body.version = v  BY DEF m
<1>7. Fits(K, table)  BY <1>4, <1>5 DEF Fits
<1> HIDE DEF K
<1>8. ParsedWith(K, v, ParseSets(v, table, m.body))
  BY <1>1, <1>4, <1>5, <1>6, <1>7, SetsKnown
<1>9. QED  BY <1>8 DEF K, m, i

\* A record was decoded with an announced layout.
KnownRecord(r) ==
    r.version # 5 =>
        /\ r.version \in {9, 10}
        /\ <<r.id, r.used>> \in
             Pairs(Append(delivered, Head(queue)), r.version, templates.since + 1)

Decoded(evts) == \A i \in 1 .. Len(evts) : KnownRecord(evts[i].data)

LEMMA RecordsMade ==
    ASSUME Typed, TablesKnown, kind = "netflow", queue # << >>
    PROVE  /\ RecordsOf(Head(queue).body) \in Seq(FlowRecords)
           /\ \A i \in 1 .. Len(RecordsOf(Head(queue).body)) :
                KnownRecord(RecordsOf(Head(queue).body)[i])
<1> DEFINE p == Head(queue).body
           recs == RecordsOf(p)
           K(v) == Pairs(Append(delivered, Head(queue)), v, templates.since + 1)
<1>1. p \in Packets  BY OldestMessage DEF Typed, Bodies
<1>2. CASE p.version = 5
  <2> DEFINE n == Smaller(p.count, p.fits)
             r == Record(5, 0, "v5", "v5")
  <2>1. n \in Nat  BY <1>1, <1>2, PacketsAssumption DEF Smaller
  <2>2. r \in FlowRecords /\ r.version = 5
    BY DEF Record, FlowRecords, SetIds, SentLayouts
  <2>3. recs = [i \in 1 .. n |-> r]  BY <1>2 DEF RecordsOf, parse_v5
  <2> HIDE DEF n, r
  <2>4. [i \in 1 .. n |-> r] \in Seq(FlowRecords) /\ Len([i \in 1 .. n |-> r]) = n
        /\ \A i \in 1 .. n : [j \in 1 .. n |-> r][i] = r
    BY <2>1, <2>2
  <2> HIDE DEF recs
  <2>5. recs \in Seq(FlowRecords) /\ \A i \in 1 .. Len(recs) : recs[i].version = 5
    BY <2>2, <2>3, <2>4
  <2>6. \A i \in 1 .. Len(recs) : KnownRecord(recs[i])  BY <2>5 DEF KnownRecord
  <2>7. QED  BY <2>5, <2>6 DEF recs, p
<1>3. ASSUME NEW v \in {9, 10}, p.version = v PROVE DecodedWith(K(v), v, recs)
  <2> DEFINE table == IF v = 9 THEN templates.v9 ELSE templates.ipfix
  <2>1. recs = ParseSets(v, table, p).records
    BY <1>3 DEF RecordsOf, parse_v9, parse_ipfix
  <2> HIDE DEF table, recs, K
  <2>2. ParsedWith(K(v), v, ParseSets(v, table, p))
    BY <1>3, PacketKnown DEF table, K
  <2>3. QED  BY <2>1, <2>2 DEF ParsedWith
<1>4. CASE p.version \in {9, 10}
  <2>1. DecodedWith(K(p.version), p.version, recs)  BY <1>3, <1>4
  <2> HIDE DEF recs
  <2>2. recs \in Seq(FlowRecords) /\ \A i \in 1 .. Len(recs) : KnownRecord(recs[i])
    BY <1>4, <2>1 DEF DecodedWith, KnownRecord
  <2>3. QED  BY <2>2 DEF recs, p
<1>5. CASE p.version \notin {5, 9, 10}
  <2>1. recs = << >>  BY <1>5 DEF RecordsOf
  <2> HIDE DEF recs
  <2>2. recs \in Seq(FlowRecords) /\ \A i \in 1 .. Len(recs) : KnownRecord(recs[i])
    BY <2>1
  <2>3. QED  BY <2>2 DEF recs, p
<1>6. QED  BY <1>2, <1>4, <1>5

LEMMA NetflowMakes ==
    ASSUME Typed, TablesKnown, NetflowProcess, Head(queue).id[2] = 1
    PROVE  \E evts, parsed, errors :
              /\ Process(evts, parsed, errors) /\ Makes(evts, parsed, errors)
              /\ Decoded(evts)
<1> DEFINE h == Head(queue)
           recs == RecordsOf(h.body)
           evts == [i \in DOMAIN recs |-> [src |-> <<h.id[1], i>>, data |-> recs[i]]]
<1>1. kind = "netflow" /\ queue # << >> /\ Process(evts, Len(recs), 0)
  BY DEF NetflowProcess
<1>2. recs \in Seq(FlowRecords) /\ \A i \in 1 .. Len(recs) : KnownRecord(recs[i])
  BY <1>1, RecordsMade
<1>3. h.id = <<h.id[1], 1>> /\ h.id[1] \in Nat \ {0}
  BY <1>1, OldestMessage DEF Typed
<1> DEFINE n == Len(recs)
<1> HIDE DEF recs, h
<1>4. n \in Nat /\ DOMAIN recs = 1 .. n /\ \A i \in 1 .. n : recs[i] \in FlowRecords
  BY <1>2
<1>5. \A i \in 1 .. n : [src |-> <<h.id[1], i>>, data |-> recs[i]] \in EventType
  BY <1>3, <1>4 DEF EventType, Contents
<1>6. /\ evts \in Seq(EventType) /\ Len(evts) = n
      /\ \A i \in 1 .. n : evts[i] = [src |-> <<h.id[1], i>>, data |-> recs[i]]
  BY <1>4, <1>5
<1> HIDE DEF evts, n
<1>7. \A i \in 1 .. n : evts[i].src = <<h.id[1], i>> /\ evts[i].data = recs[i]  BY <1>6
<1>8. Distinct(evts)
  <2>1. ASSUME NEW i \in 1 .. Len(evts), NEW j \in 1 .. Len(evts), evts[i] = evts[j] PROVE i = j
    <3>1. <<h.id[1], i>> = <<h.id[1], j>>  BY <1>6, <1>7, <2>1
    <3>2. QED  BY <3>1
  <2>2. QED  BY <2>1 DEF Distinct
<1>9. \A i \in 1 .. Len(evts) : ~IsBeat(evts[i]) /\ Origin(kind, evts[i].src) = h.id
  BY <1>1, <1>3, <1>6, <1>7 DEF IsBeat, Origin
<1>10. Makes(evts, n, 0)  BY <1>1, <1>4, <1>6, <1>8, <1>9 DEF Makes, h
<1>11. Decoded(evts)
  <2>1. ASSUME NEW i \in 1 .. Len(evts) PROVE KnownRecord(evts[i].data)
    BY <1>2, <1>6, <1>7 DEF n
  <2>2. QED  BY <2>1 DEF Decoded
<1>12. Process(evts, n, 0)  BY <1>1 DEF n, evts, recs, h
<1>13. QED  BY <1>10, <1>11, <1>12

-----------------------------------------------------------------------------
(* The steps *)

\* start(): only the collectors that bind sockets have receivers of their own,
\* only the syslog collector listens.
StartsUp(receivers, auxiliary, listening) ==
    /\ Launch(receivers, auxiliary, listening)
    /\ receivers => kind \in {"syslog", "netflow"}
    /\ listening => kind = "syslog"

Receives(r) == kind \in {"syslog", "netflow"} /\ ReceiveDatagram(r)

CalledIn(r) == kind \in {"winlog", "agent"} /\ \E body \in Bodies(kind) : CallIn(r, body)

\* A datagram or packet comes.
Arrives ==
    /\ kind \in {"syslog", "netflow"} /\ running
    /\ \E d \in Bodies(kind) : socket' = Append(socket, [id |-> <<inputs + 1, 1>>, body |-> d])
    /\ inputs' = inputs + 1
    /\ UNCHANGED <<kind, running, phase, threadVars, ringVars, conn, templates, bookVars,
                   producerVars>>

\* A message is popped and events are made of it.
Works(evts, parsed, errors) ==
    /\ Process(evts, parsed, errors) /\ Makes(evts, parsed, errors)
    /\ IF kind = "netflow" THEN Decoded(evts) /\ templates' = TablesAfter(Head(queue).body)
       ELSE templates' = templates
    /\ kind = "syslog" => evts = SyslogEvents(Head(queue))

Connection == \/ Accept \/ PeerSends \/ HandlerReads \/ HandlerPushes \/ HandlerExits \/ PeerCloses

Does ==
    \/ UNCHANGED vars
    \/ \E a, b, c \in BOOLEAN : StartsUp(a, b, c)
    \/ Stop \/ Stopped
    \/ \E r \in Receivers : NothingReceived(r) \/ Receives(r) \/ CalledIn(r) \/ PushOrDrop(r)
    \/ \E evts, parsed, errors : Works(evts, parsed, errors)
    \/ NetflowSticks
    \/ FlushBatch \/ FinishLoop \/ CollectionExits \/ Beat \/ execute_action
    \/ Arrives \/ Connection

LEMMA Steps ==
    ASSUME Typed, TablesKnown, IdsBounded, [Next]_vars
    PROVE  Does
<1>1. ASSUME NEW r \in Receivers, Receive(r) PROVE Does
  <2>1. CASE SyslogReceive(r) \/ NetflowReceive(r)
    <3>1. Receives(r)  BY <2>1 DEF SyslogReceive, NetflowReceive, Receives
    <3>2. QED  BY <3>1 DEF Does
  <2>2. CASE ingest_xml(r) \/ submit_event(r)
    <3>1. CalledIn(r)  BY <2>2 DEF ingest_xml, submit_event, CalledIn, Bodies
    <3>2. QED  BY <3>1 DEF Does
  <2>3. QED  BY <1>1, <2>1, <2>2 DEF Receive, Does
<1>2. ASSUME Processing PROVE Does
  <2>1. CASE SyslogProcess
    <3>1. kind = "syslog" /\ UNCHANGED templates  BY <2>1 DEF SyslogProcess
    <3>2. \E evts, parsed, errors :
            /\ Process(evts, parsed, errors) /\ Makes(evts, parsed, errors)
            /\ evts = SyslogEvents(Head(queue))
      BY <2>1, SyslogMakes
    <3>3. \E evts, parsed, errors : Works(evts, parsed, errors)  BY <3>1, <3>2 DEF Works
    <3>4. QED  BY <3>3 DEF Does
  <2>2. CASE WinlogProcess
    <3>1. kind = "winlog" /\ UNCHANGED templates  BY <2>2 DEF WinlogProcess
    <3>2. \E evts, parsed, errors : Process(evts, parsed, errors) /\ Makes(evts, parsed, errors)
      BY <2>2, WinlogMakes
    <3>3. \E evts, parsed, errors : Works(evts, parsed, errors)  BY <3>1, <3>2 DEF Works
    <3>4. QED  BY <3>3 DEF Does
  <2>3. CASE AgentProcess
    <3>1. kind = "agent" /\ UNCHANGED templates  BY <2>3 DEF AgentProcess
    <3>2. \E evts, parsed, errors : Process(evts, parsed, errors) /\ Makes(evts, parsed, errors)
      BY <2>3, AgentMakes
    <3>3. \E evts, parsed, errors : Works(evts, parsed, errors)  BY <3>1, <3>2 DEF Works
    <3>4. QED  BY <3>3 DEF Does
  <2>4. CASE NetflowProcess
    <3>1. kind = "netflow" /\ queue # << >> /\ templates' = TablesAfter(Head(queue).body)
      BY <2>4 DEF NetflowProcess
    <3>2. Head(queue).id[2] = 1
      <4>1. /\ delivered \in Seq(RawMessages(kind)) /\ queue \in Seq(RawMessages(kind))
        BY DEF Typed, PlacesTyped
      <4> DEFINE a == delivered \o queue
                 n == Len(delivered) + 1
      <4>2. /\ Len(a) = Len(delivered) + Len(queue)
            /\ \A i \in 1 .. Len(delivered) + Len(queue) :
                 a[i] = IF i <= Len(delivered) THEN delivered[i] ELSE queue[i - Len(delivered)]
        BY <4>1, ConcatProperties
      <4>3. /\ Len(queue) \in Nat \ {0} /\ Len(delivered) \in Nat /\ Head(queue) = queue[1]
        BY <3>1, <4>1
      <4> HIDE DEF a
      <4>4. n \in 1 .. Len(a) /\ a[n] = Head(queue)  BY <4>2, <4>3
      <4>5. Head(queue).id \in ArrivedIds  BY <4>4 DEF ArrivedIds, IdsOf, a
      <4>6. Head(queue).id \in IdSets[1] /\ 1 \in 1 .. 6  BY <4>5 DEF IdSets
      <4>7. QED  BY <3>1, <4>6 DEF IdsBounded
    <3>3. \E evts, parsed, errors : /\ Process(evts, parsed, errors) /\ Makes(evts, parsed, errors)
                                    /\ Decoded(evts)
      BY <2>4, <3>2, NetflowMakes
    <3>4. \E evts, parsed, errors : Works(evts, parsed, errors)  BY <3>1, <3>3 DEF Works
    <3>5. QED  BY <3>4 DEF Does
  <2>5. CASE SyslogFlush \/ NetflowFlush \/ WinlogFlush \/ AgentFlush
    BY <2>5 DEF SyslogFlush, NetflowFlush, WinlogFlush, AgentFlush, Does
  <2>6. CASE SyslogFinish \/ NetflowFinish \/ WinlogFinish \/ AgentFinish
    BY <2>6 DEF SyslogFinish, NetflowFinish, WinlogFinish, AgentFinish, Does
  <2>7. CASE NetflowSticks \/ NetflowSpins
    BY <2>7 DEF NetflowSpins, Does
  <2>8. QED  BY <1>2, <2>1, <2>2, <2>3, <2>4, <2>5, <2>6, <2>7 DEF Processing
<1>3. ASSUME Control PROVE Does
  <2>1. CASE SyslogStart
    <3>1. PICK t \in Transports, bound \in BOOLEAN : Launch(t # "TLS", FALSE, t # "UDP" /\ bound)
      BY <2>1 DEF SyslogStart
    <3>2. StartsUp(t # "TLS", FALSE, t # "UDP" /\ bound)
      BY <2>1, <3>1 DEF SyslogStart, StartsUp
    <3>3. QED  BY <3>2 DEF Does
  <2>2. CASE NetflowStart
    <3>1. StartsUp(TRUE, FALSE, FALSE)  BY <2>2 DEF NetflowStart, StartsUp
    <3>2. QED  BY <3>1 DEF Does
  <2>3. CASE WinlogStart \/ AgentStart
    <3>1. StartsUp(FALSE, TRUE, FALSE)  BY <2>3 DEF WinlogStart, AgentStart, StartsUp
    <3>2. QED  BY <3>1 DEF Does
  <2>4. CASE SyslogStartFails \/ NetflowStartFails
    BY <2>4 DEF SyslogStartFails, NetflowStartFails, Does
  <2>5. QED  BY <1>3, <2>1, <2>2, <2>3, <2>4 DEF Control, Does
<1>4. ASSUME Environment PROVE Does
  <2>1. CASE DatagramArrives \/ PacketArrives
    <3>1. Arrives  BY <2>1 DEF DatagramArrives, PacketArrives, Arrives, Bodies
    <3>2. QED  BY <3>1 DEF Does
  <2>2. QED  BY <1>4, <2>1 DEF Environment, Does, Connection
<1>5. CASE UNCHANGED vars  BY <1>5 DEF Does
<1>6. CASE Handler \/ Auxiliary \/ execute_action
  BY <1>6 DEF Handler, Auxiliary, Does, Connection
<1>7. CASE Rest
  <2>1. UNCHANGED vars  BY <1>7 DEF Rest
  <2>2. QED  BY <2>1, <1>5
<1>8. QED  BY <1>1, <1>2, <1>3, <1>4, <1>5, <1>6, <1>7 DEF Next

\* No message is the message in an empty hand.
LEMMA NoMsgIsNone ==
    ASSUME NEW k
    PROVE  NoMsg \notin RawMessages(k)
<1>1. \A x \in MsgIds : x # << >>  BY DEF MsgIds
<1>2. \A m \in RawMessages(k) : m.id \in MsgIds  BY DEF RawMessages
<1>3. NoMsg.id = << >>  BY DEF NoMsg
<1>4. QED  BY <1>1, <1>2, <1>3

\* A message that comes.
LEMMA NewMessage ==
    ASSUME inputs \in Nat, NEW k, NEW d \in Bodies(k)
    PROVE  /\ [id |-> <<inputs + 1, 1>>, body |-> d] \in RawMessages(k)
           /\ inputs + 1 \in Nat
BY DEF RawMessages, MsgIds

\* A receiver's place and hand.
LEMMA HandMoves ==
    ASSUME ControlTyped, NEW r \in Receivers, NEW m \in RawMessages(kind) \cup {NoMsg},
           NEW x \in {"armed", "push", "exited"}, x = "push" <=> m # NoMsg,
           rpc' = [rpc EXCEPT ![r] = x], hand' = [hand EXCEPT ![r] = m]
    PROVE  /\ rpc' \in [Receivers -> {"armed", "push", "exited"}]
           /\ hand' \in [Receivers -> RawMessages(kind) \cup {NoMsg}]
           /\ \A q \in Receivers : rpc'[q] = "push" <=> hand'[q] # NoMsg
           /\ \A q \in Receivers \ {r} : hand'[q] = hand[q] /\ rpc'[q] = rpc[q]
           /\ hand'[r] = m /\ rpc'[r] = x
BY DEF ControlTyped

\* The threads stay in their places; the controlling thread, receivers and the
\* processing loop in step with it.
LEMMA ControlKept ==
    ASSUME Typed, Does
    PROVE  ControlTyped'
<1>1. ControlTyped /\ PlacesTyped  BY DEF Typed
<1>2. CASE UNCHANGED <<kind, running, phase, rpc, hand, apc, ppc>>
  BY <1>1, <1>2 DEF ControlTyped
<1>3. CASE \/ UNCHANGED vars \/ FlushBatch \/ execute_action \/ Arrives \/ Connection
           \/ \E evts, parsed, errors : Works(evts, parsed, errors)
  <2>1. UNCHANGED <<kind, running, phase, rpc, hand, apc, ppc>>
    BY <1>3 DEF vars, threadVars, FlushBatch, execute_action, Arrives, Connection, Accept,
          PeerSends, HandlerReads, HandlerPushes, HandlerExits, PeerCloses, ConnStep, Works,
          Process
  <2>2. QED  BY <1>2, <2>1
<1>4. ASSUME NEW a \in BOOLEAN, NEW b \in BOOLEAN, NEW c \in BOOLEAN, StartsUp(a, b, c)
      PROVE  ControlTyped'
  <2>1. /\ phase = "idle" /\ running' = TRUE /\ phase' = "running" /\ kind' = kind
        /\ rpc' = (IF a THEN [r \in Receivers |-> "armed"] ELSE rpc) /\ hand' = hand
        /\ apc' \in {"asleep", "exited"} /\ ppc' = "loop"
        /\ a => kind \in {"syslog", "netflow"}
    BY <1>4 DEF StartsUp, Launch
  <2>2. a => \A r \in Receivers : rpc[r] = "exited"  BY <1>1, <2>1 DEF ControlTyped
  <2>3. QED  BY <1>1, <2>1, <2>2 DEF ControlTyped
<1>5. ASSUME Stop PROVE ControlTyped'
  BY <1>1, <1>5 DEF Stop, ControlTyped, threadVars
<1>6. ASSUME Stopped PROVE ControlTyped'
  BY <1>1, <1>6 DEF Stopped, Joinable, ControlTyped, threadVars
<1>7. ASSUME NEW r \in Receivers, NothingReceived(r) PROVE ControlTyped'
  <2>1. /\ rpc[r] = "armed" /\ ~running /\ rpc' = [rpc EXCEPT ![r] = "exited"]
        /\ UNCHANGED <<kind, running, phase, hand, apc, ppc>>
    BY <1>7 DEF NothingReceived
  <2>2. hand[r] = NoMsg  BY <1>1, <2>1 DEF ControlTyped
  <2>3. hand' = [hand EXCEPT ![r] = NoMsg]  BY <1>1, <2>1, <2>2 DEF ControlTyped
  <2>4. /\ rpc' \in [Receivers -> {"armed", "push", "exited"}]
        /\ \A q \in Receivers : rpc'[q] = "push" <=> hand'[q] # NoMsg
        /\ \A q \in Receivers \ {r} : rpc'[q] = rpc[q]
        /\ rpc'[r] = "exited"
    BY <1>1, <2>1, <2>3, HandMoves
  <2>5. QED  BY <1>1, <2>1, <2>4 DEF ControlTyped
<1>8. ASSUME NEW r \in Receivers, NEW m \in RawMessages(kind), Took(r, m),
             kind \in {"syslog", "netflow"} => phase # "idle"
      PROVE  ControlTyped'
  <2>1. /\ hand' = [hand EXCEPT ![r] = m] /\ rpc' = [rpc EXCEPT ![r] = "push"]
        /\ UNCHANGED <<kind, running, phase, apc, ppc>>
    BY <1>8 DEF Took
  <2>2. m # NoMsg  BY NoMsgIsNone
  <2>3. /\ rpc' \in [Receivers -> {"armed", "push", "exited"}]
        /\ hand' \in [Receivers -> RawMessages(kind) \cup {NoMsg}]
        /\ \A q \in Receivers : rpc'[q] = "push" <=> hand'[q] # NoMsg
    BY <1>1, <2>1, <2>2, HandMoves
  <2>4. QED  BY <1>1, <1>8, <2>1, <2>3 DEF ControlTyped
<1>9. ASSUME NEW r \in Receivers, Receives(r) PROVE ControlTyped'
  <2>1. kind \in {"syslog", "netflow"} /\ socket # << >> /\ Took(r, Head(socket))
    BY <1>9 DEF Receives, ReceiveDatagram
  <2>2. Head(socket) \in RawMessages(kind)
    <3>1. socket \in Seq(RawMessages(kind))  BY <1>1 DEF PlacesTyped
    <3>2. QED  BY <2>1, <3>1, HeadTail
  <2>3. phase # "idle"
    <3>1. rpc[r] = "armed"  BY <2>1 DEF Took
    <3>2. QED  BY <1>1, <2>1, <3>1 DEF ControlTyped
  <2>4. QED  BY <1>8, <2>1, <2>2, <2>3
<1>10. ASSUME NEW r \in Receivers, CalledIn(r) PROVE ControlTyped'
  <2>1. kind \in {"winlog", "agent"}  BY <1>10 DEF CalledIn
  <2>2. PICK d \in Bodies(kind) : Took(r, [id |-> <<inputs + 1, 1>>, body |-> d])
    BY <1>10 DEF CalledIn, CallIn
  <2>3. [id |-> <<inputs + 1, 1>>, body |-> d] \in RawMessages(kind)
    BY <1>1, NewMessage DEF PlacesTyped
  <2>4. QED  BY <1>8, <2>1, <2>2, <2>3
<1>11. ASSUME NEW r \in Receivers, PushOrDrop(r) PROVE ControlTyped'
  <2> DEFINE x == IF kind \in {"winlog", "agent"} THEN "armed" ELSE HeadOfLoop
  <2>1. /\ rpc[r] = "push" /\ hand' = [hand EXCEPT ![r] = NoMsg] /\ rpc' = [rpc EXCEPT ![r] = x]
        /\ UNCHANGED <<kind, running, phase, apc, ppc>>
    BY <1>11 DEF PushOrDrop
  <2>2. x \in {"armed", "exited"}  BY DEF HeadOfLoop
  <2> HIDE DEF x
  <2>3. /\ rpc' \in [Receivers -> {"armed", "push", "exited"}]
        /\ hand' \in [Receivers -> RawMessages(kind) \cup {NoMsg}]
        /\ \A q \in Receivers : rpc'[q] = "push" <=> hand'[q] # NoMsg
    BY <1>1, <2>1, <2>2, HandMoves
  <2>4. kind \in {"syslog", "netflow"} => phase # "idle"  BY <1>1, <2>1 DEF ControlTyped
  <2>5. QED  BY <1>1, <2>1, <2>3, <2>4 DEF ControlTyped
<1>12. ASSUME FinishLoop PROVE ControlTyped'
  BY <1>1, <1>12 DEF FinishLoop, ControlTyped
<1>13. ASSUME CollectionExits PROVE ControlTyped'
  BY <1>1, <1>13 DEF CollectionExits, ControlTyped
<1>14. ASSUME Beat PROVE ControlTyped'
  BY <1>1, <1>14 DEF Beat, ControlTyped
<1>15. ASSUME NetflowSticks PROVE ControlTyped'
  BY <1>1, <1>15 DEF NetflowSticks, ControlTyped
<1>16. QED
  BY <1>3, <1>4, <1>5, <1>6, <1>7, <1>9, <1>10, <1>11, <1>12, <1>13, <1>14, <1>15 DEF Does

-----------------------------------------------------------------------------
(* Framing *)

\* A set of places and its ranks: for each number up to its size there is a
\* place with so many up to it.
LEMMA Ranks ==
    ASSUME NEW n \in Nat, NEW S \in SUBSET (1 .. n)
    PROVE  /\ IsFiniteSet(S) /\ Cardinality(S) \in Nat
           /\ \A k \in 1 .. Cardinality(S) : \E a \in S : Cardinality({i \in S : i <= a}) = k
           /\ \A a, b \in S :
                Cardinality({i \in S : i <= a}) = Cardinality({i \in S : i <= b}) => a = b
           /\ \A a \in S : Cardinality({i \in S : i <= a}) \in 1 .. Cardinality(S)
<1> DEFINE Upto(a) == {i \in S : i <= a}
           rank == [a \in S |-> Cardinality(Upto(a))]
           size == Cardinality(S)
<1>1. IsFiniteSet(S) /\ size \in Nat
  <2>1. IsFiniteSet(1 .. n)  BY FS_Interval
  <2>2. IsFiniteSet(S)  BY <2>1, FS_Subset
  <2>3. QED  BY <2>2, FS_CardinalityType
<1>2. ASSUME NEW a \in S
      PROVE  IsFiniteSet(Upto(a)) /\ Cardinality(Upto(a)) \in 1 .. size /\ a \in Upto(a)
  <2>1. Upto(a) \in SUBSET S /\ a \in Upto(a)  OBVIOUS
  <2> HIDE DEF Upto, size
  <2>2. IsFiniteSet(Upto(a)) /\ Cardinality(Upto(a)) <= Cardinality(S)
    BY <1>1, <2>1, FS_Subset
  <2>3. Cardinality(Upto(a)) \in Nat /\ Cardinality(Upto(a)) # 0
    BY <2>1, <2>2, FS_CardinalityType, FS_EmptySet
  <2>4. QED  BY <1>1, <2>1, <2>2, <2>3 DEF size
<1>3. ASSUME NEW a \in S, NEW b \in S, a < b PROVE Cardinality(Upto(a)) < Cardinality(Upto(b))
  <2>0. \A i \in S : i \in Int  OBVIOUS
  <2>1. Upto(a) \in SUBSET Upto(b) /\ b \in Upto(b) /\ b \notin Upto(a)
    <3>1. \A i \in S : i <= a => i <= b  BY <1>3, <2>0
    <3>2. ~ (b <= a) /\ b <= b  BY <1>3, <2>0
    <3>3. QED  BY <3>1, <3>2
  <2> HIDE DEF Upto
  <2>2. IsFiniteSet(Upto(b)) /\ Cardinality(Upto(b)) \in Nat /\ Cardinality(Upto(a)) \in Nat
    BY <1>2
  <2>3. /\ Cardinality(Upto(a)) <= Cardinality(Upto(b))
        /\ Cardinality(Upto(b)) = Cardinality(Upto(a)) => Upto(b) = Upto(a)
    BY <2>1, <2>2, FS_Subset
  <2>4. QED  BY <2>1, <2>2, <2>3
<1>4. ASSUME NEW a \in S, NEW b \in S, Cardinality(Upto(a)) = Cardinality(Upto(b)) PROVE a = b
  <2> HIDE DEF Upto
  <2>1. ~ (a < b) /\ ~ (b < a)
    <3>1. Cardinality(Upto(a)) \in Nat /\ Cardinality(Upto(b)) \in Nat  BY <1>2
    <3>2. QED  BY <1>3, <1>4, <3>1
  <2>2. a \in 1 .. n /\ b \in 1 .. n  OBVIOUS
  <2>3. QED  BY <2>1, <2>2
<1>5. rank \in Surjection(S, 1 .. size)
  <2>1. rank \in Injection(S, 1 .. size)
    <3> HIDE DEF Upto, size
    <3>1. QED  BY <1>2, <1>4 DEF Injection, IsInjective
  <2> HIDE DEF rank, size
  <2>2. IsFiniteSet(1 .. size) /\ Cardinality(1 .. size) = size  BY <1>1, RangeSize
  <2>3. Cardinality(S) = Cardinality(1 .. size)  BY <2>2 DEF size
  <2>4. QED  BY <2>1, <2>2, <2>3, FS_Injection
<1>6. ASSUME NEW k \in 1 .. size PROVE \E a \in S : Cardinality(Upto(a)) = k
  <2>1. PICK a \in S : rank[a] = k
    <3> HIDE DEF rank, size
    <3>1. QED  BY <1>5 DEF Surjection
  <2>2. rank[a] = Cardinality(Upto(a))  OBVIOUS
  <2>3. QED  BY <2>1, <2>2
<1> HIDE DEF rank
<1>7. QED  BY <1>1, <1>2, <1>4, <1>6

\* How a sequence of cells is cut: message k goes from place b[k] to place
\* e[k].
CutAt(cells, n, b, e) ==
    /\ Frame(cells) = [k \in 1 .. n |-> Piece(cells, b[k], e[k])]
    /\ n \in Nat \ {0}
    /\ \A k \in 1 .. n : /\ b[k] \in 1 .. Len(cells) /\ e[k] \in b[k] - 1 .. Len(cells)
                         /\ \A i \in b[k] .. e[k] : cells[i].sym # Newline
    /\ \A k, l \in 1 .. n : k # l => b[k] # b[l] /\ (b[k] .. e[k]) \cap (b[l] .. e[l]) = {}
    /\ \A j \in 1 .. Len(cells) : cells[j].sym # Newline => \E k \in 1 .. n : j \in b[k] .. e[k]

\* A message ends before a newline or at the end of the cells.
LEMMA EndsThere ==
    ASSUME NEW cells, Len(cells) \in Nat, NEW a \in 1 .. Len(cells)
    PROVE  /\ MessageEnd(cells, a) \in a - 1 .. Len(cells)
           /\ \A i \in a .. MessageEnd(cells, a) : cells[i].sym # Newline
           /\ MessageEnd(cells, a) < Len(cells) =>
                cells[MessageEnd(cells, a) + 1].sym = Newline
<1> DEFINE T == {b \in a - 1 .. Len(cells) : b < Len(cells) => cells[b + 1].sym = Newline}
<1>1. T \in SUBSET Nat /\ Len(cells) \in T  OBVIOUS
<1>2. PICK b \in T : \A x \in T : b <= x
  <2> HIDE DEF T
  <2>1. QED  BY <1>1, LeastOf
<1>3. ASSUME NEW i \in a .. b, cells[i].sym = Newline PROVE FALSE
  <2>1. i - 1 \in T /\ ~ (b <= i - 1)  BY <1>3
  <2>2. QED  BY <1>2, <2>1
<1>4. /\ b \in a - 1 .. Len(cells)
      /\ \A i \in a .. b : cells[i].sym # Newline
      /\ b < Len(cells) => cells[b + 1].sym = Newline
  BY <1>3
<1>5. QED  BY <1>4 DEF MessageEnd

LEMMA FrameCuts ==
    ASSUME NEW cells, Len(cells) \in Nat \ {0}, DOMAIN cells = 1 .. Len(cells)
    PROVE  \E n, b, e : CutAt(cells, n, b, e)
<1> DEFINE S == Starts(cells)
           Rank(a) == Cardinality({i \in S : i <= a})
           n == Cardinality(S)
           b == [k \in 1 .. n |-> CHOOSE a \in S : Rank(a) = k]
           e == [k \in 1 .. n |-> MessageEnd(cells, b[k])]
<1>1. S \in SUBSET (1 .. Len(cells)) /\ 1 \in S  BY DEF Starts
<1>2. /\ IsFiniteSet(S) /\ n \in Nat
      /\ \A k \in 1 .. n : \E a \in S : Rank(a) = k
      /\ \A x, y \in S : Rank(x) = Rank(y) => x = y
      /\ \A a \in S : Rank(a) \in 1 .. n
  <2> HIDE DEF S
  <2>1. QED  BY <1>1, Ranks
<1>3. Frame(cells) = [k \in 1 .. n |-> Piece(cells, b[k], e[k])]
  <2>1. Frame(cells) = [k \in 1 .. n |-> Piece(cells, CHOOSE a \in S : Rank(a) = k,
                                               MessageEnd(cells, CHOOSE a \in S : Rank(a) = k))]
    BY DEF Frame
  <2> HIDE DEF S, Rank, n
  <2>2. \A k \in 1 .. n : b[k] = (CHOOSE a \in S : Rank(a) = k) /\ e[k] = MessageEnd(cells, b[k])
    OBVIOUS
  <2> HIDE DEF b, e
  <2>3. QED  BY <2>1, <2>2
<1> HIDE DEF S, Rank, n
<1>4. \A k \in 1 .. n : b[k] \in S /\ Rank(b[k]) = k  BY <1>2
<1>5. \A k \in 1 .. n : e[k] = MessageEnd(cells, b[k])  OBVIOUS
<1> HIDE DEF b, e
<1>6. ASSUME NEW k \in 1 .. n
      PROVE  /\ b[k] \in 1 .. Len(cells) /\ e[k] \in b[k] - 1 .. Len(cells)
             /\ \A i \in b[k] .. e[k] : cells[i].sym # Newline
             /\ e[k] < Len(cells) => cells[e[k] + 1].sym = Newline
  <2> DEFINE x == b[k]
             y == MessageEnd(cells, x)
  <2>1. x \in 1 .. Len(cells)  BY <1>1, <1>4
  <2>2. e[k] = y  BY <1>5
  <2> HIDE DEF x
  <2>3. /\ y \in x - 1 .. Len(cells) /\ \A i \in x .. y : cells[i].sym # Newline
        /\ y < Len(cells) => cells[y + 1].sym = Newline
    BY <1>1, <2>1, EndsThere
  <2> HIDE DEF y
  <2>4. QED  BY <2>1, <2>2, <2>3 DEF x
<1>7. ASSUME NEW k \in 1 .. n, NEW l \in 1 .. n, b[k] < b[l]
      PROVE  (b[k] .. e[k]) \cap (b[l] .. e[l]) = {}
  <2>1. b[l] # 1 /\ cells[b[l] - 1].sym = Newline
    <3>1. b[l] \in S /\ b[l] # 1  BY <1>4, <1>6, <1>7
    <3>2. QED  BY <3>1 DEF S, Starts
  <2>2. ASSUME NEW i \in b[k] .. e[k], i \in b[l] .. e[l] PROVE FALSE
    <3>1. b[l] - 1 \in b[k] .. e[k]  BY <1>6, <1>7, <2>2
    <3>2. QED  BY <1>6, <2>1, <3>1
  <2>3. QED  BY <2>2
<1>8. ASSUME NEW k \in 1 .. n, NEW l \in 1 .. n, k # l
      PROVE  b[k] # b[l] /\ (b[k] .. e[k]) \cap (b[l] .. e[l]) = {}
  <2>1. b[k] # b[l]  BY <1>4, <1>8
  <2>2. b[k] < b[l] \/ b[l] < b[k]  BY <1>6, <2>1
  <2>3. QED  BY <1>7, <2>1, <2>2
<1>9. ASSUME NEW j \in 1 .. Len(cells), cells[j].sym # Newline
      PROVE  \E k \in 1 .. n : j \in b[k] .. e[k]
  <2> DEFINE R == {a \in S : a <= j}
  <2>1. R \in SUBSET (1 .. Len(cells)) /\ R # {}
    <3>1. 1 \in R  BY <1>1
    <3>2. R \subseteq S  OBVIOUS
    <3>3. QED  BY <1>1, <3>1, <3>2
  <2>2. PICK a \in R : \A x \in R : x <= a
    <3> HIDE DEF R
    <3>1. QED  BY <2>1, GreatestOf
  <2>3. a \in S /\ a <= j /\ a \in 1 .. Len(cells)  BY <1>1
  <2>4. PICK k \in 1 .. n : b[k] = a
    <3>1. Rank(a) \in 1 .. n  BY <1>2, <2>3
    <3>2. b[Rank(a)] \in S /\ Rank(b[Rank(a)]) = Rank(a)  BY <1>4, <3>1
    <3>3. b[Rank(a)] = a  BY <1>2, <2>3, <3>2
    <3>4. QED  BY <3>1, <3>3
  <2>5. ASSUME NEW i \in a .. j - 1, cells[i].sym = Newline PROVE FALSE
    <3>1. i + 1 \in DOMAIN cells /\ cells[(i + 1) - 1].sym = Newline  BY <2>3, <2>5
    <3>2. i + 1 \in S  BY <3>1 DEF S, Starts
    <3>3. i + 1 \in R /\ ~ (i + 1 <= a)  BY <2>3, <3>2
    <3>4. QED  BY <2>2, <3>3
  <2>6. ASSUME e[k] < j PROVE FALSE
    <3>1. e[k] + 1 \in a .. j /\ cells[e[k] + 1].sym = Newline  BY <1>6, <2>3, <2>4, <2>6
    <3>2. QED  BY <1>9, <2>3, <2>5, <3>1
  <2>7. j \in b[k] .. e[k]  BY <1>6, <2>3, <2>4, <2>6
  <2>8. QED  BY <2>7
<1>10. n \in Nat \ {0}
  <2>1. Rank(1) \in 1 .. n  BY <1>1, <1>2
  <2>2. QED  BY <1>2, <2>1
<1>11. CutAt(cells, n, b, e)
  BY <1>3, <1>6, <1>8, <1>9, <1>10 DEF CutAt
<1>12. QED  BY <1>11

\* What recv() returned becomes messages, one at least.
FrameMade(cells, n, b, e) ==
    /\ CutAt(cells, n, b, e)
    /\ Frame(cells) \in Seq(RawMessages("syslog")) /\ Len(Frame(cells)) = n
    /\ Frame(cells) # << >>
    /\ \A k \in 1 .. n : Frame(cells)[k] = Piece(cells, b[k], e[k])

LEMMA FrameEffect ==
    ASSUME NEW cells \in Seq(Cells), cells # << >>
    PROVE  \E n, b, e : FrameMade(cells, n, b, e)
<1>1. Len(cells) \in Nat \ {0} /\ DOMAIN cells = 1 .. Len(cells)
      /\ \A i \in 1 .. Len(cells) : cells[i] \in Cells
  OBVIOUS
<1>2. PICK n, b, e : CutAt(cells, n, b, e)  BY <1>1, FrameCuts
<1>3. ASSUME NEW k \in 1 .. n PROVE Piece(cells, b[k], e[k]) \in RawMessages("syslog")
  <2> DEFINE x == b[k]
             y == e[k]
             m == y - x + 1
             body == [i \in 1 .. m |-> cells[x + i - 1].sym]
  <2>1. x \in 1 .. Len(cells) /\ y \in x - 1 .. Len(cells)  BY <1>2 DEF CutAt
  <2>2. m \in Nat /\ \A i \in 1 .. m : x + i - 1 \in 1 .. Len(cells)
    <3>1. Len(cells) \in Nat  BY <1>1
    <3> HIDE DEF x, y
    <3>2. m \in Nat /\ x \in Nat /\ x + m - 1 <= Len(cells) /\ x >= 1  BY <2>1, <3>1
    <3>3. ASSUME NEW i \in 1 .. m PROVE x + i - 1 \in 1 .. Len(cells)
      <4> HIDE DEF m
      <4>1. QED  BY <3>1, <3>2
    <3>4. QED  BY <3>2, <3>3
  <2>3. \A i \in 1 .. m : cells[x + i - 1].sym \in Words  BY <1>1, <2>2 DEF Cells
  <2>4. body \in Seq(Words)
    <3> HIDE DEF m
    <3>1. QED  BY <2>2, <2>3
  <2>5. <<cells[x].line, cells[x].pos>> \in MsgIds  BY <1>1, <2>1 DEF Cells, MsgIds
  <2>6. Piece(cells, b[k], e[k]) = [id |-> <<cells[x].line, cells[x].pos>>, body |-> body]
    BY DEF Piece
  <2> HIDE DEF x, body
  <2>7. QED  BY <2>4, <2>5, <2>6 DEF RawMessages, Bodies
<1> DEFINE f == [k \in 1 .. n |-> Piece(cells, b[k], e[k])]
<1>4. Frame(cells) = f /\ n \in Nat \ {0}  BY <1>2 DEF CutAt
<1>5. /\ f \in Seq(RawMessages("syslog")) /\ Len(f) = n /\ f # << >>
      /\ \A k \in 1 .. n : f[k] = Piece(cells, b[k], e[k])
  BY <1>3, <1>4
<1> HIDE DEF f
<1>6. QED  BY <1>2, <1>4, <1>5 DEF FrameMade

-----------------------------------------------------------------------------
(* Where messages are: types *)

\* The connection is its four fields.
LEMMA ConnFields ==
    ASSUME NEW c \in Conns
    PROVE  /\ c.pc \in {"none", "listen", "armed", "pushing"}
           /\ c.pieces \in Seq(RawMessages("syslog")) /\ c.stream \in Seq(Cells)
           /\ c.sent \in Seq(Lines)
           /\ c = [pc |-> c.pc, pieces |-> c.pieces, stream |-> c.stream, sent |-> c.sent]
BY DEF Conns

\* A connection with these fields.
HasFields(c, pc, pieces, stream, sent) ==
    c.pc = pc /\ c.pieces = pieces /\ c.stream = stream /\ c.sent = sent

\* The connection d is a connection with these fields.
Becomes(d, x, p, s, t) == d \in Conns /\ HasFields(d, x, p, s, t)

LEMMA ConnChanges ==
    ASSUME NEW c \in Conns, NEW x \in {"none", "listen", "armed", "pushing"},
           NEW p \in Seq(RawMessages("syslog")), NEW s \in Seq(Cells), NEW t \in Seq(Lines)
    PROVE  /\ Becomes([c EXCEPT !.pc = x], x, c.pieces, c.stream, c.sent)
           /\ Becomes([c EXCEPT !.pieces = p], c.pc, p, c.stream, c.sent)
           /\ Becomes([c EXCEPT !.pieces = p, !.pc = x], x, p, c.stream, c.sent)
           /\ Becomes([c EXCEPT !.pc = x, !.pieces = p, !.stream = s], x, p, s, c.sent)
           /\ Becomes([c EXCEPT !.stream = s, !.sent = t], c.pc, c.pieces, s, t)
<1> DEFINE A == {"none", "listen", "armed", "pushing"}
           B == Seq(RawMessages("syslog"))
           C == Seq(Cells)
           D == Seq(Lines)
           R == [pc : A, pieces : B, stream : C, sent : D]
<1>1. Conns = R  BY DEF Conns
<1>2. x \in A /\ p \in B /\ s \in C /\ t \in D  OBVIOUS
<1>3. c \in R  BY <1>1
<1> HIDE DEF A, B, C, D
<1>4. /\ [c EXCEPT !.pc = x] \in R /\ [c EXCEPT !.pieces = p] \in R
      /\ [c EXCEPT !.pieces = p, !.pc = x] \in R
      /\ [c EXCEPT !.pc = x, !.pieces = p, !.stream = s] \in R
      /\ [c EXCEPT !.stream = s, !.sent = t] \in R
  BY <1>2, <1>3
<1>5. /\ HasFields([c EXCEPT !.pc = x], x, c.pieces, c.stream, c.sent)
      /\ HasFields([c EXCEPT !.pieces = p], c.pc, p, c.stream, c.sent)
      /\ HasFields([c EXCEPT !.pieces = p, !.pc = x], x, p, c.stream, c.sent)
      /\ HasFields([c EXCEPT !.pc = x, !.pieces = p, !.stream = s], x, p, s, c.sent)
      /\ HasFields([c EXCEPT !.stream = s, !.sent = t], c.pc, c.pieces, s, t)
  BY <1>3 DEF HasFields
<1>6. QED  BY <1>1, <1>4, <1>5 DEF Becomes

LEMMA NoConnTyped == NoConn \in Conns /\ NoConn.pc = "none" /\ NoConn.pieces = << >>
BY DEF NoConn, Conns

\* The first n cells are taken off the stream.
LEMMA CutStream ==
    ASSUME conn \in Conns, NEW n \in Nat \ {0}, n <= Len(conn.stream)
    PROVE  /\ SubSeq(conn.stream, 1, n) \in Seq(Cells) /\ SubSeq(conn.stream, 1, n) # << >>
           /\ Len(SubSeq(conn.stream, 1, n)) = n
           /\ \A i \in 1 .. n : SubSeq(conn.stream, 1, n)[i] = conn.stream[i]
           /\ From(conn.stream, n + 1) \in Seq(Cells)
           /\ Len(From(conn.stream, n + 1)) = Len(conn.stream) - n
           /\ \A i \in 1 .. Len(conn.stream) - n :
                From(conn.stream, n + 1)[i] = conn.stream[n + i]
           /\ Len(conn.stream) \in Nat
<1> DEFINE s == conn.stream
           a == SubSeq(s, 1, n)
<1>1. s \in Seq(Cells)  BY ConnFields
<1> HIDE DEF s
<1>2. n \in 0 .. Len(s)  BY <1>1 DEF s
<1>3. /\ a \in Seq(Cells) /\ SubSeq(s, n + 1, Len(s)) \in Seq(Cells)
      /\ Len(a) = n /\ Len(SubSeq(s, n + 1, Len(s))) = Len(s) - n
      /\ \A i \in 1 .. n : a[i] = s[i]
      /\ \A i \in 1 .. Len(s) - n : SubSeq(s, n + 1, Len(s))[i] = s[n + i]
      /\ Len(s) \in Nat
  BY <1>1, <1>2, Cut
<1> HIDE DEF a
<1>4. a # << >>  BY <1>3
<1>5. QED  BY <1>3, <1>4 DEF From, a, s

\* The cells of a line with its newline.
NewCells(l, n) == [i \in 1 .. Len(l) + 1 |->
    [line |-> n, pos |-> i, sym |-> IF i > Len(l) THEN Newline ELSE l[i]]]

LEMMA NewCellsTyped ==
    ASSUME NEW l \in TcpLines, NEW n \in Nat \ {0}
    PROVE  /\ NewCells(l, n) \in Seq(Cells) /\ Len(NewCells(l, n)) = Len(l) + 1
           /\ \A i \in 1 .. Len(l) + 1 : NewCells(l, n)[i] =
                [line |-> n, pos |-> i, sym |-> IF i > Len(l) THEN Newline ELSE l[i]]
           /\ Len(l) \in Nat /\ DOMAIN l = 1 .. Len(l) /\ \A i \in 1 .. Len(l) : l[i] # Newline
<1>1. /\ l \in Seq(ToSet(l)) /\ Newline \notin ToSet(l)  BY SyslogAssumption
<1>2. /\ Len(l) \in Nat /\ DOMAIN l = 1 .. Len(l)
      /\ \A i \in 1 .. Len(l) : l[i] \in ToSet(l) /\ l[i] # Newline
  BY <1>1
<1>3. \A i \in 1 .. Len(l) + 1 :
        [line |-> n, pos |-> i, sym |-> IF i > Len(l) THEN Newline ELSE l[i]] \in Cells
  BY <1>2 DEF Cells, Words
<1>4. QED  BY <1>2, <1>3 DEF NewCells

\* The connection is opened or closed; no message in hand is touched.
ConnCalm ==
    /\ conn' \in Conns /\ conn'.pieces = conn.pieces /\ (kind # "syslog" => conn' = NoConn)
    /\ conn'.pc = "pushing" <=> conn.pc = "pushing"
    /\ \/ conn'.stream = conn.stream /\ conn'.sent = conn.sent
       \/ conn'.stream = << >> /\ conn'.sent = << >>

LEMMA Calm ==
    ASSUME PlacesTyped,
           \/ Accept \/ HandlerExits \/ PeerCloses \/ Stop
           \/ \E a, b, c \in BOOLEAN : StartsUp(a, b, c)
    PROVE  ConnCalm
<1>1. /\ conn \in Conns /\ (conn.pc = "pushing" <=> conn.pieces # << >>)
      /\ kind # "syslog" => conn = NoConn
  BY DEF PlacesTyped
<1>2. CASE UNCHANGED conn  BY <1>1, <1>2 DEF ConnCalm
<1>3. ASSUME NEW x \in {"none", "listen", "armed"}, conn' = [conn EXCEPT !.pc = x],
             conn.pc # "pushing", kind = "syslog"
      PROVE  ConnCalm
  <2>1. << >> \in Seq(RawMessages("syslog")) /\ << >> \in Seq(Cells) /\ << >> \in Seq(Lines)
    OBVIOUS
  <2>2. Becomes([conn EXCEPT !.pc = x], x, conn.pieces, conn.stream, conn.sent)
    BY <1>1, <2>1, ConnChanges
  <2>3. QED  BY <1>3, <2>2 DEF ConnCalm, Becomes, HasFields
<1>4. ASSUME conn' = NoConn, conn.pc = "armed", kind = "syslog" PROVE ConnCalm
  <2>1. conn.pieces = << >>  BY <1>1, <1>4
  <2>2. NoConn.stream = << >> /\ NoConn.sent = << >>  BY DEF NoConn
  <2>3. QED  BY <1>4, <2>1, <2>2, NoConnTyped DEF ConnCalm
<1>5. CASE Accept
  BY <1>3, <1>5 DEF Accept, ConnStep
<1>6. CASE HandlerExits \/ PeerCloses
  BY <1>4, <1>6 DEF HandlerExits, PeerCloses, ConnStep
<1>7. CASE Stop
  <2>1. conn.pc = "listen" => kind = "syslog"  BY <1>1, NoConnTyped
  <2>2. \/ UNCHANGED conn
        \/ conn.pc = "listen" /\ conn' = [conn EXCEPT !.pc = "none"]
    BY <1>7 DEF Stop
  <2>3. QED  BY <1>2, <1>3, <2>1, <2>2
<1>8. ASSUME NEW a \in BOOLEAN, NEW b \in BOOLEAN, NEW c \in BOOLEAN, StartsUp(a, b, c)
      PROVE  ConnCalm
  <2>1. \/ UNCHANGED conn
        \/ conn.pc = "none" /\ conn' = [conn EXCEPT !.pc = "listen"] /\ kind = "syslog"
    BY <1>8 DEF StartsUp, Launch
  <2>2. QED  BY <1>2, <1>3, <2>1
<1>9. QED  BY <1>5, <1>6, <1>7, <1>8

\* A line more in the stream.
LEMMA PeerSendsEffect ==
    ASSUME PlacesTyped, PeerSends
    PROVE  \E l \in TcpLines :
              /\ kind = "syslog" /\ conn' \in Conns /\ conn'.pieces = conn.pieces
              /\ conn'.pc = conn.pc
              /\ conn'.stream = conn.stream \o NewCells(l, inputs + 1)
              /\ conn'.sent = Append(conn.sent, [line |-> inputs + 1, text |-> l])
              /\ inputs' = inputs + 1 /\ inputs + 1 \in Nat \ {0}
              /\ NewCells(l, inputs + 1) \in Seq(Cells)
<1>1. conn \in Conns /\ inputs \in Nat  BY DEF PlacesTyped
<1>2. PICK l \in TcpLines :
        conn' = [conn EXCEPT !.stream = @ \o NewCells(l, inputs + 1),
                             !.sent = Append(@, [line |-> inputs + 1, text |-> l])]
  BY DEF PeerSends, ConnStep, NewCells
<1>3. kind = "syslog" /\ inputs' = inputs + 1  BY DEF PeerSends, ConnStep
<1>4. inputs + 1 \in Nat \ {0}  BY <1>1
<1> DEFINE s == conn.stream \o NewCells(l, inputs + 1)
           t == Append(conn.sent, [line |-> inputs + 1, text |-> l])
<1>6. NewCells(l, inputs + 1) \in Seq(Cells)  BY <1>4, NewCellsTyped
<1>7. s \in Seq(Cells)
  <2>1. conn.stream \in Seq(Cells)  BY <1>1, ConnFields
  <2>2. QED  BY <1>6, <2>1, ConcatProperties
<1>8. t \in Seq(Lines)
  <2>1. [line |-> inputs + 1, text |-> l] \in Lines  BY <1>4 DEF Lines
  <2>2. conn.sent \in Seq(Lines)  BY <1>1, ConnFields
  <2>3. QED  BY <2>1, <2>2, AppendEffect
<1> HIDE DEF s, t
<1>9. Becomes(conn', conn.pc, conn.pieces, s, t)
  <2>1. << >> \in Seq(RawMessages("syslog"))  OBVIOUS
  <2>2. Becomes([conn EXCEPT !.stream = s, !.sent = t], conn.pc, conn.pieces, s, t)
    BY <1>1, <1>7, <1>8, <2>1, ConnChanges
  <2>3. QED  BY <1>2, <2>2 DEF s, t
<1>10. QED  BY <1>3, <1>4, <1>6, <1>9 DEF s, t, Becomes, HasFields

\* The handler reads: the first cells of the stream become pieces.
Reads(n) ==
    /\ n \in Nat \ {0} /\ n <= Len(conn.stream) /\ kind = "syslog"
    /\ conn' \in Conns /\ conn.pieces = << >> /\ conn.pc = "armed" /\ conn'.pc = "pushing"
    /\ conn'.pieces = Frame(SubSeq(conn.stream, 1, n))
    /\ conn'.stream = From(conn.stream, n + 1) /\ conn'.sent = conn.sent
    /\ conn'.pieces # << >>

LEMMA HandlerReadsEffect ==
    ASSUME PlacesTyped, HandlerReads
    PROVE  \E n : Reads(n)
<1>1. conn \in Conns /\ conn.pc = "armed" /\ conn.pieces = << >> /\ kind = "syslog"
  BY DEF PlacesTyped, HandlerReads, ConnStep
<1>2. PICK n \in 1 .. RecvMax :
        /\ n <= Len(conn.stream)
        /\ conn' = [conn EXCEPT !.pc = "pushing", !.pieces = Frame(SubSeq(conn.stream, 1, n)),
                                !.stream = From(@, n + 1)]
  BY DEF HandlerReads, ConnStep
<1>3. n \in Nat \ {0}  OBVIOUS
<1> DEFINE cells == SubSeq(conn.stream, 1, n)
           p == Frame(cells)
           s == From(conn.stream, n + 1)
<1>4. cells \in Seq(Cells) /\ cells # << >> /\ s \in Seq(Cells)
  BY <1>1, <1>2, <1>3, CutStream
<1> HIDE DEF cells, s
<1>5. p \in Seq(RawMessages("syslog")) /\ p # << >>
  BY <1>4, FrameEffect DEF FrameMade
<1>6. conn' = [conn EXCEPT !.pc = "pushing", !.pieces = p, !.stream = s]
  BY <1>2 DEF p, s, cells
<1> HIDE DEF p
<1>7. Becomes(conn', "pushing", p, s, conn.sent)
  <2>1. conn.sent \in Seq(Lines)  BY <1>1, ConnFields
  <2>2. QED  BY <1>1, <1>4, <1>5, <1>6, <2>1, ConnChanges
<1>8. Reads(n)
  BY <1>1, <1>2, <1>3, <1>5, <1>7 DEF Reads, Becomes, HasFields, p, s, cells
<1>9. QED  BY <1>8

\* The handler pushes the first piece.
Pushes ==
    /\ kind = "syslog" /\ conn' \in Conns /\ conn.pieces # << >>
    /\ conn'.pieces = Tail(conn.pieces)
    /\ conn'.pc = "pushing" <=> Tail(conn.pieces) # << >>
    /\ \/ conn'.stream = conn.stream /\ conn'.sent = conn.sent
       \/ conn'.stream = << >> /\ conn'.sent = << >>

LEMMA HandlerPushesEffect ==
    ASSUME PlacesTyped, HandlerPushes
    PROVE  Pushes
<1>1. /\ conn \in Conns /\ conn.pieces # << >> /\ kind = "syslog"
      /\ conn.pieces \in Seq(RawMessages("syslog")) /\ conn.pc = "pushing"
  BY ConnFields DEF PlacesTyped, HandlerPushes, ConnStep
<1> DEFINE p == conn.pieces
           t == Tail(p)
<1>2. t \in Seq(RawMessages("syslog")) /\ Len(t) = Len(p) - 1 /\ Len(p) \in Nat \ {0}
  BY <1>1, HeadTail
<1>3. CASE Len(p) > 1 /\ conn' = [conn EXCEPT !.pieces = Tail(@)]
  <2>1. t # << >>
    <3>1. Len(p) > 1  BY <1>3
    <3> HIDE DEF p, t
    <3>2. \A n \in Nat : n > 1 => n - 1 # 0  OBVIOUS
    <3>3. Len(t) # 0  BY <1>2, <3>1, <3>2
    <3>4. QED  BY <3>3
  <2>2. conn' = [conn EXCEPT !.pieces = t]  BY <1>3
  <2>3. conn.stream \in Seq(Cells) /\ conn.sent \in Seq(Lines)  BY <1>1, ConnFields
  <2> HIDE DEF t
  <2>4. Becomes(conn', conn.pc, t, conn.stream, conn.sent)
    BY <1>1, <1>2, <2>2, <2>3, ConnChanges
  <2>5. QED  BY <1>1, <2>1, <2>4 DEF Pushes, Becomes, HasFields, t
<1>4. CASE Len(p) = 1 /\ conn' = IF running THEN [conn EXCEPT !.pieces = << >>, !.pc = "armed"]
                                  ELSE NoConn
  <2>1. t = << >>
    <3>1. Len(t) = 0  BY <1>2, <1>4
    <3> HIDE DEF t
    <3>2. QED  BY <1>2, <3>1
  <2>2. CASE running
    <3>1. << >> \in Seq(RawMessages("syslog"))  OBVIOUS
    <3>2. conn.stream \in Seq(Cells) /\ conn.sent \in Seq(Lines)  BY <1>1, ConnFields
    <3>3. conn' = [conn EXCEPT !.pieces = << >>, !.pc = "armed"]  BY <1>4, <2>2
    <3>4. Becomes(conn', "armed", << >>, conn.stream, conn.sent)
      BY <1>1, <3>1, <3>2, <3>3, ConnChanges
    <3>5. QED  BY <1>1, <2>1, <3>4 DEF Pushes, Becomes, HasFields
  <2>3. CASE ~running
    <3>1. conn' = NoConn /\ NoConn.stream = << >> /\ NoConn.sent = << >>
      BY <1>4, <2>3 DEF NoConn
    <3>2. QED  BY <1>1, <2>1, <3>1, NoConnTyped DEF Pushes
  <2>4. QED  BY <2>2, <2>3
<1>5. QED  BY <1>3, <1>4 DEF HandlerPushes, ConnStep

-----------------------------------------------------------------------------
(* How messages move *)

\* Nothing but an opened or closed socket.
Still ==
    /\ UNCHANGED <<queue, delivered, dropped, hand, inputs>>
    /\ ConnCalm /\ socket' \in {socket, << >>} /\ stats'.received = stats.received

\* Receiver r has message m, and the rest stays.
Taken(r, m) ==
    /\ hand[r] = NoMsg /\ m \in RawMessages(kind)
    /\ hand' = [hand EXCEPT ![r] = m]
    /\ UNCHANGED <<queue, delivered, dropped, conn>>
    /\ stats'.received = stats.received + 1

\* A message that came: the next input.
Input(m) == m \in RawMessages(kind) /\ m.id = <<inputs + 1, 1>> /\ inputs' = inputs + 1

\* The message m goes to the ring or is dropped.
Leaves(m) ==
    \/ Ring!Put(m) /\ UNCHANGED dropped
    \/ dropped' = dropped \cup {m} /\ UNCHANGED <<queue, delivered>>

Moves ==
    /\ kind' = kind
    /\ \/ Still
       \/ \E r \in Receivers :
            /\ socket # << >> /\ Taken(r, Head(socket)) /\ socket' = Tail(socket)
            /\ inputs' = inputs
       \/ \E r \in Receivers : \E m : Taken(r, m) /\ Input(m) /\ socket' = socket
       \/ \E r \in Receivers :
            /\ hand[r] # NoMsg /\ Leaves(hand[r]) /\ hand' = [hand EXCEPT ![r] = NoMsg]
            /\ UNCHANGED <<conn, socket, inputs>> /\ stats'.received = stats.received
       \/ /\ Ring!Take /\ UNCHANGED <<dropped, hand, conn, socket, inputs>>
          /\ stats'.received = stats.received
       \/ /\ \E m : Input(m) /\ socket' = Append(socket, m)
          /\ UNCHANGED <<queue, delivered, dropped, hand, conn>>
          /\ stats'.received = stats.received
       \/ PeerSends
       \/ HandlerReads
       \/ HandlerPushes

LEMMA Move ==
    ASSUME Typed, Does
    PROVE  Moves
<1>1. /\ PlacesTyped /\ ControlTyped /\ stats \in Statistics
      /\ inputs \in Nat /\ rpc \in [Receivers -> {"armed", "push", "exited"}]
      /\ hand \in [Receivers -> RawMessages(kind) \cup {NoMsg}]
      /\ \A r \in Receivers : rpc[r] = "push" <=> hand[r] # NoMsg
  BY DEF Typed, ControlTyped, PlacesTyped, BooksTyped
<1>3. (UNCHANGED conn) => ConnCalm
  BY <1>1 DEF PlacesTyped, ConnCalm
<1>4. CASE UNCHANGED vars
  BY <1>3, <1>4 DEF Moves, Still, vars, threadVars, ringVars, envVars, bookVars
<1>5. CASE \E a, b, c \in BOOLEAN : StartsUp(a, b, c)
  <2>1. ConnCalm  BY <1>1, <1>5, Calm
  <2>2. QED
    BY <1>5, <2>1 DEF StartsUp, Launch, Moves, Still, ringVars, bookVars
<1>6. CASE Stop
  <2>1. ConnCalm  BY <1>1, <1>6, Calm
  <2>2. QED
    BY <1>6, <2>1 DEF Stop, Moves, Still, ringVars, threadVars
<1>7. CASE Stopped
  BY <1>3, <1>7 DEF Stopped, Moves, Still, ringVars, threadVars, envVars, bookVars
<1>8. ASSUME NEW r \in Receivers,
             NothingReceived(r) \/ Receives(r) \/ CalledIn(r) \/ PushOrDrop(r)
      PROVE  Moves
  <2>1. CASE NothingReceived(r)
    BY <1>3, <2>1 DEF NothingReceived, Moves, Still, ringVars, envVars, bookVars
  <2>2. (rpc[r] = "armed" => hand[r] = NoMsg) /\ (rpc[r] = "push" => hand[r] # NoMsg)
    BY <1>1
  <2>3. ASSUME NEW m \in RawMessages(kind), Took(r, m)
        PROVE  Taken(r, m) /\ kind' = kind
    <3>1. Counters(stats', stats, 0, 0, 0, 0) /\ stats' = [stats EXCEPT !.received = @ + 1]
      BY <1>1, <2>3, Counted1 DEF Took
    <3>2. stats'.received = stats.received + 1  BY <1>1, <3>1 DEF Statistics
    <3>3. QED  BY <2>2, <2>3, <3>2 DEF Took, Taken, ringVars
  <2>4. CASE Receives(r)
    <3>1. socket # << >> /\ Took(r, Head(socket)) /\ socket' = Tail(socket) /\ inputs' = inputs
      BY <2>4 DEF Receives, ReceiveDatagram
    <3>2. socket \in Seq(RawMessages(kind))  BY <1>1 DEF PlacesTyped
    <3>3. Head(socket) \in RawMessages(kind)  BY <3>1, <3>2, HeadTail
    <3>4. Taken(r, Head(socket)) /\ kind' = kind  BY <2>3, <3>1, <3>3
    <3>5. QED  BY <3>1, <3>4 DEF Moves
  <2>5. CASE CalledIn(r)
    <3>1. PICK body \in Bodies(kind) : CallIn(r, body)  BY <2>5 DEF CalledIn
    <3> DEFINE m == [id |-> <<inputs + 1, 1>>, body |-> body]
    <3>2. m \in RawMessages(kind)  BY <1>1, NewMessage
    <3>3. Took(r, m) /\ inputs' = inputs + 1 /\ socket' = socket  BY <3>1 DEF CallIn
    <3>4. m.id = <<inputs + 1, 1>>  OBVIOUS
    <3> HIDE DEF m
    <3>5. Taken(r, m) /\ kind' = kind  BY <2>3, <3>2, <3>3
    <3>6. Input(m)  BY <3>2, <3>3, <3>4 DEF Input
    <3>7. QED  BY <3>3, <3>5, <3>6 DEF Moves
  <2>6. CASE PushOrDrop(r)
    <3>1. Leaves(hand[r])  BY <2>6 DEF PushOrDrop, Leaves, ringVars
    <3>2. QED  BY <2>2, <2>6, <3>1 DEF PushOrDrop, Moves, envVars
  <2>7. QED  BY <1>8, <2>1, <2>4, <2>5, <2>6
<1>9. ASSUME NEW evts, NEW parsed, NEW errors, Works(evts, parsed, errors) PROVE Moves
  <2>1. PICK n : stats' = [stats EXCEPT !.parsed = @ + parsed, !.errors = @ + errors,
                                        !.produced = @ + n]
    BY <1>9 DEF Works, Process
  <2>2. stats'.received = stats.received  BY <1>1, <2>1 DEF Statistics
  <2>3. QED  BY <1>9, <2>2 DEF Works, Process, Moves, envVars
<1>10. CASE FlushBatch \/ FinishLoop
  <2>1. PICK n : stats' = [stats EXCEPT !.produced = @ + n]
    BY <1>10 DEF FlushBatch, FinishLoop
  <2>2. stats'.received = stats.received  BY <1>1, <2>1 DEF Statistics
  <2>3. QED  BY <1>3, <1>10, <2>2 DEF FlushBatch, FinishLoop, Moves, Still, envVars, ringVars
<1>11. CASE CollectionExits
  BY <1>3, <1>11 DEF CollectionExits, Moves, Still, envVars, ringVars, bookVars
<1>12. CASE Beat
  <2>1. stats'.received = stats.received  BY <1>1, <1>12 DEF Beat, Statistics
  <2>2. QED  BY <1>3, <1>12, <2>1 DEF Beat, Moves, Still, envVars, ringVars
<1>13. CASE execute_action
  <2>1. stats'.received = stats.received  BY <1>1, <1>13 DEF execute_action, Statistics
  <2>2. QED
    BY <1>3, <1>13, <2>1 DEF execute_action, Moves, Still, envVars, ringVars, threadVars
<1>14. CASE Arrives
  <2>1. PICK d \in Bodies(kind) :
          socket' = Append(socket, [id |-> <<inputs + 1, 1>>, body |-> d])
    BY <1>14 DEF Arrives
  <2> DEFINE m == [id |-> <<inputs + 1, 1>>, body |-> d]
  <2>2. m \in RawMessages(kind) /\ m.id = <<inputs + 1, 1>>  BY <1>1, NewMessage
  <2>3. socket' = Append(socket, m)  BY <2>1
  <2> HIDE DEF m
  <2>4. Input(m)  BY <1>14, <2>2 DEF Input, Arrives
  <2>5. QED
    BY <1>14, <2>3, <2>4 DEF Moves, Arrives, threadVars, ringVars, bookVars
<1>15. CASE Accept \/ HandlerExits \/ PeerCloses
  <2>1. ConnCalm  BY <1>1, <1>15, Calm
  <2>2. QED
    BY <1>15, <2>1 DEF Accept, HandlerExits, PeerCloses, ConnStep, Moves, Still, ringVars, threadVars
<1>16. CASE PeerSends \/ HandlerReads \/ HandlerPushes
  BY <1>16 DEF Moves, PeerSends, HandlerReads, HandlerPushes, ConnStep
<1>17. CASE NetflowSticks
  BY <1>17 DEF NetflowSticks, Moves, envVars, bookVars
<1>18. QED
  BY <1>4, <1>5, <1>6, <1>7, <1>8, <1>9, <1>10, <1>11, <1>12, <1>13, <1>14, <1>15, <1>16, <1>17
  DEF Does, Connection

\* A message goes to the ring or is dropped: types.
LEMMA LeavesTyped ==
    ASSUME PlacesTyped, NEW m \in RawMessages(kind), Leaves(m)
    PROVE  /\ queue' \in Seq(RawMessages(kind)) /\ delivered' = delivered
           /\ dropped' \subseteq RawMessages(kind) /\ IsFiniteSet(dropped')
           /\ Len(queue') <= RingLimit
<1>1. /\ queue \in Seq(RawMessages(kind)) /\ Len(queue) <= RingLimit /\ RingLimit \in Nat
      /\ dropped \subseteq RawMessages(kind) /\ IsFiniteSet(dropped)
  BY PipelineAssumption DEF PlacesTyped
<1>2. CASE Ring!Put(m) /\ UNCHANGED dropped
  <2>1. queue' = Append(queue, m) /\ delivered' = delivered /\ Len(queue) < RingLimit
    BY <1>2 DEF Ring!Put
  <2>2. Append(queue, m) \in Seq(RawMessages(kind)) /\ Len(Append(queue, m)) = Len(queue) + 1
        /\ Len(queue) \in Nat
    BY <1>1, AppendEffect
  <2>3. Len(queue) + 1 <= RingLimit  BY <1>1, <2>1, <2>2
  <2>4. QED  BY <1>1, <1>2, <2>1, <2>2, <2>3
<1>3. CASE dropped' = dropped \cup {m} /\ UNCHANGED <<queue, delivered>>
  <2>1. IsFiniteSet(dropped \cup {m})  BY <1>1, FS_AddElement
  <2>2. QED  BY <1>1, <1>3, <2>1
<1>4. QED  BY <1>2, <1>3 DEF Leaves

\* Each place holds messages.
LEMMA PlacesKept ==
    ASSUME Typed, Moves
    PROVE  PlacesTyped'
<1>1. /\ PlacesTyped /\ queue \in Seq(RawMessages(kind)) /\ delivered \in Seq(RawMessages(kind))
      /\ socket \in Seq(RawMessages(kind))
      /\ dropped \subseteq RawMessages(kind) /\ IsFiniteSet(dropped)
      /\ Len(queue) <= RingLimit
      /\ conn \in Conns /\ (kind # "syslog" => conn = NoConn)
      /\ (conn.pc = "pushing" <=> conn.pieces # << >>)
      /\ inputs \in Nat /\ kind' = kind
  BY DEF Typed, PlacesTyped, Moves
<1> DEFINE Q == /\ queue' \in Seq(RawMessages(kind)) /\ delivered' \in Seq(RawMessages(kind))
                /\ dropped' \subseteq RawMessages(kind) /\ IsFiniteSet(dropped')
                /\ Len(queue') <= RingLimit
           S == socket' \in Seq(RawMessages(kind))
           C == /\ conn' \in Conns /\ (kind # "syslog" => conn' = NoConn)
                /\ (conn'.pc = "pushing" <=> conn'.pieces # << >>)
           N == inputs' \in Nat
<1>2. SUFFICES Q /\ S /\ C /\ N
  BY <1>1 DEF PlacesTyped
<1>3. UNCHANGED <<queue, delivered, dropped>> => Q  BY <1>1
<1>4. UNCHANGED conn => C  BY <1>1
<1>5. socket' = socket => S  BY <1>1
<1>6. (inputs' = inputs => N) /\ (inputs' = inputs + 1 => N)  BY <1>1
<1>7. CASE Still
  <2>1. ConnCalm => C  BY <1>1 DEF ConnCalm
  <2>2. << >> \in Seq(RawMessages(kind))  OBVIOUS
  <2>3. socket' \in {socket, << >>} => S  BY <1>1, <2>2
  <2> HIDE DEF Q, S, C, N
  <2>4. QED  BY <1>3, <1>6, <1>7, <2>1, <2>3 DEF Still
<1>8. ASSUME NEW r \in Receivers, socket # << >>, Taken(r, Head(socket)), socket' = Tail(socket),
             inputs' = inputs
      PROVE  Q /\ S /\ C /\ N
  <2>1. S  BY <1>1, <1>8, HeadTail
  <2> HIDE DEF Q, S, C, N
  <2>2. QED  BY <1>3, <1>4, <1>6, <1>8, <2>1 DEF Taken
<1>9. ASSUME NEW r \in Receivers, NEW m, Taken(r, m), Input(m), socket' = socket
      PROVE  Q /\ S /\ C /\ N
  <2> HIDE DEF Q, S, C, N
  <2>1. QED  BY <1>3, <1>4, <1>5, <1>6, <1>9 DEF Taken, Input
<1>10. ASSUME NEW r \in Receivers, hand[r] # NoMsg, Leaves(hand[r]),
              UNCHANGED <<conn, socket, inputs>>
       PROVE  Q /\ S /\ C /\ N
  <2>1. hand[r] \in RawMessages(kind)  BY <1>10 DEF Typed, ControlTyped
  <2>2. Q  BY <1>1, <1>10, <2>1, LeavesTyped
  <2> HIDE DEF Q, S, C, N
  <2>3. QED  BY <1>4, <1>5, <1>6, <1>10, <2>2
<1>11. CASE Ring!Take /\ UNCHANGED <<dropped, hand, conn, socket, inputs>>
  <2>1. queue # << >> /\ delivered' = Append(delivered, Head(queue)) /\ queue' = Tail(queue)
    BY <1>11 DEF Ring!Take
  <2>2. Head(queue) \in RawMessages(kind) /\ Tail(queue) \in Seq(RawMessages(kind))
        /\ Len(Tail(queue)) = Len(queue) - 1 /\ Len(queue) \in Nat \ {0}
    BY <1>1, <2>1, HeadTail
  <2>3. Append(delivered, Head(queue)) \in Seq(RawMessages(kind))
    BY <1>1, <2>2, AppendEffect
  <2>4. Len(queue) - 1 <= RingLimit  BY <1>1, <2>2, PipelineAssumption
  <2>5. Q  BY <1>1, <1>11, <2>1, <2>2, <2>3, <2>4
  <2> HIDE DEF Q, S, C, N
  <2>6. QED  BY <1>4, <1>5, <1>6, <1>11, <2>5
<1>12. ASSUME NEW m, Input(m), socket' = Append(socket, m),
              UNCHANGED <<queue, delivered, dropped, hand, conn>>
       PROVE  Q /\ S /\ C /\ N
  <2>1. m \in RawMessages(kind)  BY <1>12 DEF Input
  <2>2. S  BY <1>1, <1>12, <2>1, AppendEffect
  <2> HIDE DEF Q, S, C, N
  <2>3. QED  BY <1>3, <1>4, <1>6, <1>12, <2>2 DEF Input
<1>13. CASE PeerSends
  <2>1. C /\ inputs' = inputs + 1  BY <1>1, <1>13, PeerSendsEffect
  <2>2. UNCHANGED <<queue, delivered, dropped, socket>>
    BY <1>13 DEF PeerSends, ConnStep, ringVars
  <2> HIDE DEF Q, S, C, N
  <2>3. QED  BY <1>3, <1>5, <1>6, <2>1, <2>2
<1>14. CASE HandlerReads
  <2>1. PICK n : Reads(n)  BY <1>1, <1>14, HandlerReadsEffect
  <2>2. C  BY <2>1 DEF Reads
  <2>3. UNCHANGED <<queue, delivered, dropped, socket, inputs>>
    BY <1>14 DEF HandlerReads, ConnStep, ringVars
  <2> HIDE DEF Q, S, C, N
  <2>4. QED  BY <1>3, <1>5, <1>6, <2>2, <2>3
<1>15. CASE HandlerPushes
  <2>1. Pushes  BY <1>1, <1>15, HandlerPushesEffect
  <2>2. C  BY <2>1 DEF Pushes
  <2>3. Leaves(Head(conn.pieces)) /\ UNCHANGED <<socket, inputs>>
    BY <1>15 DEF HandlerPushes, ConnStep, Leaves, ringVars
  <2>4. Head(conn.pieces) \in RawMessages(kind)
    <3>1. conn.pieces \in Seq(RawMessages("syslog")) /\ conn.pieces # << >> /\ kind = "syslog"
      BY <1>1, <2>1, ConnFields DEF Pushes
    <3>2. QED  BY <3>1, HeadTail
  <2>5. Q  BY <1>1, <2>3, <2>4, LeavesTyped
  <2> HIDE DEF Q, S, C, N
  <2>6. QED  BY <1>5, <1>6, <2>2, <2>3, <2>5
<1> HIDE DEF Q, S, C, N
<1>16. QED
  BY <1>7, <1>8, <1>9, <1>10, <1>11, <1>12, <1>13, <1>14, <1>15 DEF Moves

-----------------------------------------------------------------------------
(* What was announced *)

\* A packet that is never parsed is popped, and nothing else.
Stuck == /\ kind = "netflow" /\ queue # << >> /\ delivered' = Append(delivered, Head(queue))
         /\ UNCHANGED <<kind, templates, made, batch, stats, producerVars>>
         /\ ppc' = "parsing"

\* Messages are popped, and events made of them, by the processing loop only,
\* and a loop that begins has empty tables.
LEMMA Work ==
    ASSUME Does
    PROVE  \/ UNCHANGED <<kind, templates, delivered, made>>
           \/ templates' = NoTemplates /\ UNCHANGED <<kind, delivered, made>>
           \/ \E evts, parsed, errors : Works(evts, parsed, errors)
           \/ Stuck
<1>1. CASE UNCHANGED vars
  BY <1>1 DEF vars, ringVars, bookVars
<1>2. CASE \E a, b, c \in BOOLEAN : StartsUp(a, b, c)
  BY <1>2 DEF StartsUp, Launch, ringVars, bookVars
<1>3. CASE Stop \/ Stopped
  BY <1>3 DEF Stop, Stopped, ringVars, bookVars
<1>4. CASE \E r \in Receivers : NothingReceived(r) \/ Receives(r) \/ CalledIn(r) \/ PushOrDrop(r)
  BY <1>4 DEF NothingReceived, Receives, ReceiveDatagram, CalledIn, CallIn, Took, PushOrDrop,
              Ring!Put, ringVars, bookVars
<1>5. CASE FlushBatch \/ FinishLoop \/ CollectionExits \/ Beat \/ execute_action
  BY <1>5 DEF FlushBatch, FinishLoop, CollectionExits, Beat, execute_action, ringVars, bookVars
<1>6. CASE Arrives
  BY <1>6 DEF Arrives, ringVars, bookVars
<1>7. CASE Connection
  BY <1>7 DEF Connection, Accept, PeerSends, HandlerReads, HandlerPushes, HandlerExits,
              PeerCloses, ConnStep, Ring!Put, ringVars
<1>8. CASE NetflowSticks
  BY <1>8 DEF NetflowSticks, Stuck, Ring!Take, bookVars
<1>9. QED  BY <1>1, <1>2, <1>3, <1>4, <1>5, <1>6, <1>7, <1>8 DEF Does

\* The tables after a packet more.
LEMMA TablesAfterPacket ==
    ASSUME Typed, TablesKnown, kind = "netflow", queue # << >>,
           delivered' = Append(delivered, Head(queue)),
           templates' = TablesAfter(Head(queue).body)
    PROVE  TemplatesTyped' /\ TablesKnown'
<1> DEFINE m == Head(queue)
           p == m.body
           i == templates.since + 1
           more == Append(delivered, m)
<1>1. m \in RawMessages(kind)  BY OldestMessage DEF Typed
<1>2. /\ delivered \in Seq(RawMessages(kind)) /\ TemplatesTyped
      /\ templates = [v9 |-> templates.v9, ipfix |-> templates.ipfix, since |-> templates.since]
      /\ GoodTable(templates.v9) /\ GoodTable(templates.ipfix)
      /\ templates.since \in 0 .. Len(delivered)
  BY DEF Typed, PlacesTyped, TemplatesTyped
<1>3. Len(more) = Len(delivered) + 1 /\ Len(delivered) \in Nat  BY <1>1, <1>2, AppendEffect
<1>4. i \in 1 .. Len(delivered) + 1 /\ templates.since \in 0 .. Len(more)  BY <1>2, <1>3
<1> HIDE DEF m, i
<1>5. /\ Pairs(delivered, 9, i) \subseteq Pairs(more, 9, i)
      /\ Pairs(delivered, 10, i) \subseteq Pairs(more, 10, i)
  BY <1>1, <1>2, <1>4, PairsGrow
<1>6. Fits(Pairs(more, 9, i), templates.v9) /\ Fits(Pairs(more, 10, i), templates.ipfix)
  BY <1>5 DEF TablesKnown, Fits, i
<1>7. delivered' = more  BY DEF m
<1> DEFINE After(t) ==
      /\ t = [v9 |-> t.v9, ipfix |-> t.ipfix, since |-> templates.since]
      /\ GoodTable(t.v9) /\ GoodTable(t.ipfix)
      /\ Fits(Pairs(more, 9, i), t.v9) /\ Fits(Pairs(more, 10, i), t.ipfix)
<1>8. SUFFICES After(templates')
  <2>1. i = templates.since + 1  BY DEF i
  <2> HIDE DEF more
  <2> DEFINE t == templates'
  <2>2. /\ t = [v9 |-> t.v9, ipfix |-> t.ipfix, since |-> templates.since]
        /\ GoodTable(t.v9) /\ GoodTable(t.ipfix)
        /\ Fits(Pairs(more, 9, i), t.v9) /\ Fits(Pairs(more, 10, i), t.ipfix)
    BY <1>8
  <2>3. t.since = templates.since  BY <2>2
  <2>4. TemplatesTyped'  BY <1>4, <1>7, <2>2, <2>3 DEF TemplatesTyped
  <2>5. TablesKnown'  BY <1>7, <2>1, <2>2, <2>3 DEF TablesKnown
  <2>6. QED  BY <2>4, <2>5
<1>9. After(templates)  BY <1>2, <1>6
<1>10. CASE p.version = 9
  <2> DEFINE t == ParseSets(9, templates.v9, p).table
  <2>1. templates' = [templates EXCEPT !.v9 = t]  BY <1>10 DEF TablesAfter, parse_v9, m
  <2>2. ParsedWith(Pairs(more, 9, i), 9, ParseSets(9, templates.v9, p))
    BY <1>10, PacketKnown DEF m, i
  <2>3. GoodTable(t) /\ Fits(Pairs(more, 9, i), t)  BY <2>2 DEF ParsedWith
  <2> HIDE DEF t, more
  <2>4. /\ templates' = [v9 |-> t, ipfix |-> templates.ipfix, since |-> templates.since]
    BY <1>2, <2>1
  <2>5. QED  BY <1>2, <1>6, <2>3, <2>4
<1>11. CASE p.version = 10
  <2> DEFINE t == ParseSets(10, templates.ipfix, p).table
  <2>1. templates' = [templates EXCEPT !.ipfix = t]  BY <1>11 DEF TablesAfter, parse_ipfix, m
  <2>2. ParsedWith(Pairs(more, 10, i), 10, ParseSets(10, templates.ipfix, p))
    BY <1>11, PacketKnown DEF m, i
  <2>3. GoodTable(t) /\ Fits(Pairs(more, 10, i), t)  BY <2>2 DEF ParsedWith
  <2> HIDE DEF t, more
  <2>4. /\ templates' = [v9 |-> templates.v9, ipfix |-> t, since |-> templates.since]
    BY <1>2, <2>1
  <2>5. QED  BY <1>2, <1>6, <2>3, <2>4
<1>12. CASE p.version \notin {9, 10}
  <2>1. templates' = templates  BY <1>12 DEF TablesAfter, m
  <2> HIDE DEF After
  <2>2. QED  BY <1>9, <2>1
<1>13. QED  BY <1>10, <1>11, <1>12

\* A message more of which no template is taken.
LEMMA TablesStay ==
    ASSUME Typed, TablesKnown, queue # << >>, delivered' = Append(delivered, Head(queue)),
           templates' = templates
    PROVE  TemplatesTyped' /\ TablesKnown'
<1> DEFINE i == templates.since + 1
           more == Append(delivered, Head(queue))
<1>1. delivered \in Seq(RawMessages(kind)) /\ TemplatesTyped  BY DEF Typed, PlacesTyped
<1>2. Head(queue) \in RawMessages(kind)  BY OldestMessage DEF Typed
<1>3. Len(more) = Len(delivered) + 1 /\ Len(delivered) \in Nat
  BY <1>1, <1>2, AppendEffect
<1>4. i \in 1 .. Len(delivered) + 1 /\ templates.since \in 0 .. Len(more)
  BY <1>1, <1>3 DEF TemplatesTyped
<1> HIDE DEF i
<1>5. /\ Pairs(delivered, 9, i) \subseteq Pairs(more, 9, i)
      /\ Pairs(delivered, 10, i) \subseteq Pairs(more, 10, i)
  BY <1>1, <1>2, <1>4, PairsGrow
<1>6. Fits(Pairs(more, 9, i), templates.v9) /\ Fits(Pairs(more, 10, i), templates.ipfix)
  BY <1>5 DEF TablesKnown, Fits, i
<1>7. delivered' = more  OBVIOUS
<1> HIDE DEF more
<1>8. QED  BY <1>1, <1>4, <1>6, <1>7 DEF TemplatesTyped, TablesKnown, i

LEMMA TablesKept ==
    ASSUME Typed, TablesKnown, Does
    PROVE  TemplatesTyped' /\ TablesKnown'
<1>1. delivered \in Seq(RawMessages(kind)) /\ TemplatesTyped  BY DEF Typed, PlacesTyped
<1>2. CASE UNCHANGED <<kind, templates, delivered, made>>
  BY <1>1, <1>2 DEF TemplatesTyped, TablesKnown
<1>3. CASE templates' = NoTemplates /\ UNCHANGED <<kind, delivered, made>>
  <2>1. templates' = [v9 |-> << >>, ipfix |-> << >>, since |-> Len(delivered)]
    BY <1>3 DEF NoTemplates
  <2>2. DOMAIN << >> = {} /\ Len(delivered) \in 0 .. Len(delivered)  BY <1>1
  <2>3. \A K : GoodTable(<< >>) /\ Fits(K, << >>)  BY <2>2 DEF GoodTable, Fits
  <2> DEFINE t == templates'
  <2>4. /\ t = [v9 |-> t.v9, ipfix |-> t.ipfix, since |-> t.since]
        /\ t.v9 = << >> /\ t.ipfix = << >> /\ t.since = Len(delivered)
    BY <2>1
  <2>5. TemplatesTyped'  BY <1>3, <2>2, <2>3, <2>4 DEF TemplatesTyped
  <2>6. TablesKnown'  BY <2>3, <2>4 DEF TablesKnown
  <2>7. QED  BY <2>5, <2>6
<1>4. ASSUME NEW evts, NEW parsed, NEW errors, Works(evts, parsed, errors)
      PROVE  TemplatesTyped' /\ TablesKnown'
  <2>1. queue # << >> /\ delivered' = Append(delivered, Head(queue))
    BY <1>4 DEF Works, Process, Ring!Take
  <2>2. CASE kind = "netflow"
    <3>1. templates' = TablesAfter(Head(queue).body)  BY <1>4, <2>2 DEF Works
    <3>2. QED  BY <2>1, <2>2, <3>1, TablesAfterPacket
  <2>3. CASE kind # "netflow"
    <3>1. templates' = templates  BY <1>4, <2>3 DEF Works
    <3>2. QED  BY <2>1, <3>1, TablesStay
  <2>4. QED  BY <2>2, <2>3
<1>5. ASSUME Stuck PROVE TemplatesTyped' /\ TablesKnown'
  BY <1>5, TablesStay DEF Stuck
<1>6. QED  BY <1>2, <1>3, <1>4, <1>5, Work

-----------------------------------------------------------------------------
(* The books after a step *)

\* Two counters that grow by a and b.
Sums(p, e, a, b, x, y) ==
    /\ p \in Nat /\ e \in Nat /\ a \in Nat /\ b \in Nat /\ x \in Nat /\ y \in Nat
    /\ p + e = x /\ a + b = y - x
Summed(p, e, a, b, y) == (p + a) + (e + b) = y
LEMMA SumsMove ==
    ASSUME NEW p, NEW e, NEW a, NEW b, NEW x, NEW y, Sums(p, e, a, b, x, y)
    PROVE  Summed(p, e, a, b, y)
BY DEF Sums, Summed

\* A counter that is not above another one, and grows by no more.
NotAbove(p, c, q, n) == {p, c, q, n} \subseteq Nat /\ p <= q /\ c <= n
StillNotAbove(p, c, q, n) == p + c <= q + n
LEMMA NotAboveMoves ==
    ASSUME NEW p, NEW c, NEW q, NEW n, NotAbove(p, c, q, n)
    PROVE  StillNotAbove(p, c, q, n)
BY DEF NotAbove, StillNotAbove

\* Events are made and join the batch, and the first f events of the batch go
\* to the producer, cnt of which are counted.
LEMMA BooksAfterBatch ==
    ASSUME Typed, EventsInv, kind' = kind, delivered' \in Seq(RawMessages(kind)),
           NEW evts \in Seq(EventType), made' = made \o evts,
           MadeOnce(kind, made \o evts, delivered'),
           NEW f \in 0 .. Len(batch \o evts), ProduceBatch(SubSeq(batch \o evts, 1, f)),
           batch' = SubSeq(batch \o evts, f + 1, Len(batch \o evts)),
           Len(batch \o evts) - f < BatchSize,
           ppc' = "exited" => f = Len(batch \o evts),
           NEW a \in Nat, NEW b \in Nat, NEW cnt \in Nat, Counters(stats', stats, a, b, cnt, 0),
           stats'.received = stats.received,
           kind \in {"syslog", "winlog"} => a + b = Len(delivered') - Len(delivered),
           kind # "agent" => a = Len(evts),
           kind = "syslog" => cnt = Len(Accepted(SubSeq(batch \o evts, 1, f))),
           kind = "agent" => cnt <= Len(Accepted(SubSeq(batch \o evts, 1, f)))
    PROVE  BooksTyped' /\ EventsInv'
<1> DEFINE all == made \o evts
           bat == batch \o evts
           left == SubSeq(bat, f + 1, Len(bat))
           h == stats.heartbeats
<1>1. /\ made \in Seq(EventType) /\ batch \in Seq(EventType) /\ stats \in Statistics
      /\ outq \in Seq(EventType) /\ settled \in Seq(EventType)
      /\ ProducerTyped /\ BatchSize \in Nat \ {0} /\ delivered \in Seq(RawMessages(kind))
  BY PipelineAssumption DEF Typed, BooksTyped, PlacesTyped, ProducerTyped
<1>2. /\ all \in Seq(EventType) /\ Len(all) = Len(made) + Len(evts)
      /\ bat \in Seq(EventType) /\ Len(bat) = Len(batch) + Len(evts)
      /\ Len(made) \in Nat /\ Len(batch) \in Nat /\ Len(evts) \in Nat
  BY <1>1, ConcatProperties
<1>3. /\ left \in Seq(EventType) /\ Len(left) = Len(bat) - f /\ Len(bat) \in Nat
  BY <1>2, Cut
<1>4. InBooks(made, batch, Sent, refused, h) /\ Tally(kind, stats, pstats, delivered, made, Sent, refused)
  BY DEF EventsInv
<1>5. Distinct(all) /\ \A k \in 1 .. Len(all) : ~IsBeat(all[k])
  BY DEF MadeOnce
<1> HIDE DEF h, left
<1>6. InBooks(all, bat, Sent, refused, h)
  <2>1. BatchedAt(Len(made) - Len(batch), made, batch, Sent, refused)  BY <1>4 DEF InBooks
  <2> DEFINE c == Len(made) - Len(batch)
  <2>2. c = Len(all) - Len(bat)  BY <1>2
  <2> HIDE DEF c, all, bat
  <2>3. BatchedAt(c, all, bat, Sent, refused)  BY <1>1, <2>1, Join DEF c, all, bat
  <2>4. QED  BY <1>4, <2>2, <2>3 DEF InBooks
<1>7. PICK n \in 0 .. f : WentOut(all, left, f, n) /\ Len(Accepted(SubSeq(bat, 1, f))) = n
  <2> HIDE DEF all, bat
  <2>1. f \in 0 .. Len(bat) /\ ProduceBatch(SubSeq(bat, 1, f))  BY DEF bat
  <2>2. InBooks(all, bat, Sent, refused, stats.heartbeats)  BY <1>6 DEF h
  <2>3. \E n \in 0 .. f : WentOut(all, SubSeq(bat, f + 1, Len(bat)), f, n)
                          /\ Len(Accepted(SubSeq(bat, 1, f))) = n
    BY <1>1, <1>2, <1>5, <2>1, <2>2, Sending
  <2>4. QED  BY <2>3 DEF left
<1>8. made' = all /\ batch' = left  BY DEF left
<1>9. stats' \in Statistics /\ stats'.heartbeats = h /\ stats'.parsed = stats.parsed + a
      /\ stats'.errors = stats.errors + b /\ stats'.produced = stats.produced + cnt
  BY <1>1 DEF Counters, Statistics, h
<1>10. /\ Len(left) < BatchSize /\ (ppc' = "exited" => Len(left) = 0)
  BY <1>2, <1>3
<1>11. ppc' = "exited" => left = << >>  BY <1>3, <1>10
<1> HIDE DEF all, bat
<1>12. BooksTyped'
  BY <1>2, <1>3, <1>7, <1>8, <1>9, <1>10, <1>11 DEF BooksTyped, WentOut, ProducerTyped
<1>13. InBooks(made', batch', Sent', refused', stats'.heartbeats)
  BY <1>7, <1>8, <1>9 DEF WentOut, h
<1>14. Tally(kind, stats', pstats', delivered', made', Sent', refused')
  <2>1. /\ pstats.produced = Len(Sent) /\ pstats.failed = Cardinality(refused)
        /\ kind \in {"syslog", "winlog"} => stats.parsed + stats.errors = Len(delivered)
        /\ kind # "agent" => stats.parsed = Len(made)
        /\ kind = "syslog" => stats.produced = pstats.produced
        /\ kind = "agent" => stats.produced <= pstats.produced
    BY <1>4 DEF Tally
  <2>2. /\ Len(Sent') = Len(Sent) + n /\ Cardinality(refused') = Cardinality(refused) + (f - n)
        /\ pstats'.produced = pstats.produced + n /\ pstats'.failed = pstats.failed + (f - n)
    BY <1>7 DEF WentOut
  <2>3. /\ stats.parsed \in Nat /\ stats.errors \in Nat /\ stats.produced \in Nat
        /\ pstats.produced \in Nat
    BY <1>1 DEF Statistics, ProducerTyped
  <2>4. Len(delivered) \in Nat /\ Len(delivered') \in Nat  BY <1>1
  <2>5. /\ kind = "syslog" => cnt = n
        /\ kind = "agent" => cnt <= n
    BY <1>7 DEF bat
  <2>6. Len(made') = Len(made) + Len(evts)  BY <1>2, <1>8
  <2>7. n \in Nat  BY <1>2, <1>7
  <2>8. /\ kind \in {"syslog", "winlog"} => stats'.parsed + stats'.errors = Len(delivered')
        /\ kind # "agent" => stats'.parsed = Len(made')
        /\ kind = "syslog" => stats'.produced = pstats'.produced
        /\ kind = "agent" => stats'.produced <= pstats'.produced
    <3>1. kind \in {"syslog", "winlog"} => stats'.parsed + stats'.errors = Len(delivered')
      <4>1. SUFFICES ASSUME kind \in {"syslog", "winlog"}
                     PROVE  stats'.parsed + stats'.errors = Len(delivered')
        OBVIOUS
      <4>2. a + b = Len(delivered') - Len(delivered)  BY <4>1
      <4>3. stats.parsed + stats.errors = Len(delivered)  BY <2>1, <4>1
      <4> DEFINE P == stats.parsed
                 E == stats.errors
                 X == Len(delivered)
                 Y == Len(delivered')
      <4>4. P \in Nat /\ E \in Nat /\ X \in Nat /\ Y \in Nat /\ P + E = X /\ a + b = Y - X
        BY <2>3, <2>4, <4>2, <4>3
      <4>5. stats'.parsed = P + a /\ stats'.errors = E + b  BY <1>9
      <4> HIDE DEF P, E, X, Y
      <4>6. (P + a) + (E + b) = Y
        <5>1. Sums(P, E, a, b, X, Y)  BY <4>4 DEF Sums
        <5>2. Summed(P, E, a, b, Y)  BY <5>1, SumsMove
        <5>3. QED  BY <5>2 DEF Summed
      <4>7. QED  BY <4>5, <4>6 DEF Y
    <3>2. kind # "agent" => stats'.parsed = Len(made')
      BY <1>9, <2>1, <2>6
    <3>3. kind = "syslog" => stats'.produced = pstats'.produced
      BY <1>9, <2>1, <2>2, <2>5
    <3>4. kind = "agent" => stats'.produced <= pstats'.produced
      <4>1. SUFFICES ASSUME kind = "agent" PROVE stats'.produced <= pstats'.produced
        OBVIOUS
      <4>2. NotAbove(stats.produced, cnt, pstats.produced, n)
        BY <2>1, <2>3, <2>5, <2>7, <4>1 DEF NotAbove
      <4>3. StillNotAbove(stats.produced, cnt, pstats.produced, n)  BY <4>2, NotAboveMoves
      <4>4. stats'.produced = stats.produced + cnt  BY <1>9
      <4>5. pstats'.produced = pstats.produced + n  BY <2>2
      <4>6. QED  BY <4>3, <4>4, <4>5 DEF StillNotAbove
    <3>5. QED  BY <3>1, <3>2, <3>3, <3>4
  <2>9. pstats'.produced = Len(Sent') /\ pstats'.failed = Cardinality(refused')
    BY <2>1, <2>2
  <2>10. QED  BY <2>8, <2>9 DEF Tally
<1>15. MadeOnce(kind, made', delivered')  BY <1>8 DEF all
<1>16. QED  BY <1>12, <1>13, <1>14, <1>15 DEF EventsInv

\* Nothing is made or sent.
LEMMA BooksStill ==
    ASSUME Typed, EventsInv, UNCHANGED <<kind, delivered, made, batch, producerVars>>,
           ppc' \in {ppc, "loop"}, Counters(stats', stats, 0, 0, 0, 0)
    PROVE  BooksTyped' /\ EventsInv'
<1>1. stats \in Statistics  BY DEF Typed, BooksTyped
<1>2. stats' \in Statistics /\ stats'.parsed = stats.parsed /\ stats'.errors = stats.errors
      /\ stats'.produced = stats.produced /\ stats'.heartbeats = stats.heartbeats
  BY <1>1 DEF Counters, Statistics
<1>3. Sent' = Sent /\ UNCHANGED <<outq, settled, refused, pstats>> /\ queue_size' = queue_size
  BY DEF producerVars, Sent, queue_size
<1>4. BooksTyped'  BY <1>2, <1>3 DEF Typed, BooksTyped
<1>5. EventsInv'  BY <1>2, <1>3 DEF EventsInv, Tally
<1>6. QED  BY <1>4, <1>5

\* The producer is flushed: nothing is sent anew.
LEMMA BooksAfterFlush ==
    ASSUME Typed, EventsInv, UNCHANGED <<kind, delivered, made, batch, stats, ppc>>, Flush
    PROVE  BooksTyped' /\ EventsInv'
<1>1. outq \in Seq(EventType) /\ settled \in Seq(EventType) /\ queue_size <= QueueMax
  BY DEF Typed, BooksTyped
<1>2. /\ outq' \in Seq(EventType) /\ settled' \in Seq(EventType) /\ queue_size' <= QueueMax
      /\ UNCHANGED <<refused, pstats>> /\ Sent' = Sent
  BY <1>1, FlushEffect
<1>3. BooksTyped'  BY <1>2 DEF Typed, BooksTyped
<1>4. EventsInv'  BY <1>2 DEF EventsInv
<1>5. QED  BY <1>3, <1>4

\* A heartbeat.
LEMMA BooksAfterBeat ==
    ASSUME Typed, EventsInv, Beat
    PROVE  BooksTyped' /\ EventsInv'
<1>1. /\ stats \in Statistics /\ ProducerTyped /\ pstats \in [produced : Nat, failed : Nat]
      /\ kind = "agent"
  BY DEF Typed, BooksTyped, ProducerTyped, Beat
<1> DEFINE h == stats.heartbeats
<1>2. h \in Nat  BY <1>1 DEF Statistics
<1>3. InBooks(made, batch, Sent, refused, h)  BY DEF EventsInv
<1>4. ProduceBatch(<<Heartbeat(h + 1)>>)  BY DEF Beat
<1>5. Counters(stats', stats, 0, 0, 0, 1)  BY <1>1, Counted1 DEF Beat
<1>6. stats' \in Statistics /\ stats'.parsed = stats.parsed /\ stats'.errors = stats.errors
      /\ stats'.produced = stats.produced /\ stats'.heartbeats = h + 1
  BY <1>1, <1>5 DEF Counters, Statistics
<1>7. UNCHANGED <<kind, delivered, made, batch, ppc>>  BY DEF Beat, ringVars
<1> HIDE DEF h
<1>8. PICK n \in 0 .. 1 :
         /\ ProducerTyped' /\ InBooks(made, batch, Sent', refused', h + 1)
         /\ Len(Sent') = Len(Sent) + n /\ Cardinality(refused') = Cardinality(refused) + (1 - n)
         /\ pstats'.produced = pstats.produced + n /\ pstats'.failed = pstats.failed + (1 - n)
  BY <1>1, <1>2, <1>3, <1>4, Beating
<1>9. BooksTyped'  BY <1>6, <1>7, <1>8 DEF Typed, BooksTyped, ProducerTyped
<1>10. Tally(kind, stats', pstats', delivered, made, Sent', refused')
  <2>1. /\ pstats.produced = Len(Sent) /\ pstats.failed = Cardinality(refused)
        /\ stats.produced <= pstats.produced
    BY <1>1 DEF EventsInv, Tally
  <2>2. stats.produced \in Nat /\ pstats.produced \in Nat  BY <1>1 DEF Statistics
  <2>3. pstats'.produced = Len(Sent') /\ pstats'.failed = Cardinality(refused')
        /\ stats'.produced <= pstats'.produced
    BY <1>6, <1>8, <2>1, <2>2
  <2>4. QED  BY <1>1, <2>3 DEF Tally
<1>11. EventsInv'  BY <1>6, <1>7, <1>8, <1>10 DEF EventsInv
<1>12. QED  BY <1>9, <1>11

\* The message at the head of the ring was not popped before.
LEMMA FirstIsNew ==
    ASSUME NEW M, NEW d \in Seq(M), NEW q \in Seq(M), q # << >>, DistinctIds(d \o q)
    PROVE  \A j \in 1 .. Len(d) : d[j].id # Head(q).id
<1>1. Head(q) = q[1] /\ Len(q) \in Nat \ {0}  BY HeadTail
<1>2. /\ Len(d \o q) = Len(d) + Len(q) /\ Len(d) \in Nat
      /\ \A i \in 1 .. Len(d) + Len(q) :
           (d \o q)[i] = IF i <= Len(d) THEN d[i] ELSE q[i - Len(d)]
  BY <1>1, ConcatProperties
<1> DEFINE c == d \o q
<1>3. c[Len(d) + 1] = q[1] /\ Len(d) + 1 \in 1 .. Len(c)
  <2>1. Len(d) + 1 \in 1 .. Len(d) + Len(q) /\ ~(Len(d) + 1 <= Len(d)) /\ Len(d) + 1 - Len(d) = 1
    BY <1>1, <1>2
  <2>2. QED  BY <1>2, <2>1
<1>4. ASSUME NEW j \in 1 .. Len(d), d[j].id = Head(q).id PROVE FALSE
  <2>1. j \in 1 .. Len(d) + Len(q) /\ j <= Len(d) /\ j # Len(d) + 1  BY <1>1, <1>2
  <2>2. c[j] = d[j] /\ j \in 1 .. Len(c)  BY <1>2, <2>1
  <2>3. c[j].id = c[Len(d) + 1].id  BY <1>1, <1>3, <1>4, <2>2
  <2> HIDE DEF c
  <2>4. QED  BY <1>3, <2>1, <2>2, <2>3 DEF DistinctIds, c
<1>5. QED  BY <1>4

\* Two sequences without a common member.
LEMMA DistinctBehind ==
    ASSUME NEW E, NEW s \in Seq(E), NEW t \in Seq(E), Distinct(s), Distinct(t),
           \A i \in 1 .. Len(s) : \A j \in 1 .. Len(t) : s[i] # t[j]
    PROVE  Distinct(s \o t)
<1> DEFINE c == s \o t
<1>1. /\ Len(c) = Len(s) + Len(t) /\ Len(s) \in Nat /\ Len(t) \in Nat
      /\ \A i \in 1 .. Len(s) + Len(t) : c[i] = IF i <= Len(s) THEN s[i] ELSE t[i - Len(s)]
  BY ConcatProperties
<1> HIDE DEF c
<1>2. ASSUME NEW i \in 1 .. Len(c), NEW j \in 1 .. Len(c), c[i] = c[j] PROVE i = j
  <2>1. CASE i <= Len(s) /\ j <= Len(s)
    <3>1. i \in 1 .. Len(s) /\ j \in 1 .. Len(s) /\ s[i] = s[j]  BY <1>1, <1>2, <2>1
    <3>2. QED  BY <3>1 DEF Distinct
  <2>2. CASE ~(i <= Len(s)) /\ ~(j <= Len(s))
    <3>1. i - Len(s) \in 1 .. Len(t) /\ j - Len(s) \in 1 .. Len(t)  BY <1>1, <2>2
    <3>2. t[i - Len(s)] = t[j - Len(s)]  BY <1>1, <1>2, <2>2
    <3>3. i - Len(s) = j - Len(s)  BY <3>1, <3>2 DEF Distinct
    <3>4. QED  BY <1>1, <3>3
  <2>3. CASE i <= Len(s) /\ ~(j <= Len(s))
    <3>1. i \in 1 .. Len(s) /\ j - Len(s) \in 1 .. Len(t)  BY <1>1, <2>3
    <3>2. s[i] = t[j - Len(s)]  BY <1>1, <1>2, <2>3
    <3>3. QED  BY <3>1, <3>2
  <2>4. CASE ~(i <= Len(s)) /\ j <= Len(s)
    <3>1. j \in 1 .. Len(s) /\ i - Len(s) \in 1 .. Len(t)  BY <1>1, <2>4
    <3>2. s[j] = t[i - Len(s)]  BY <1>1, <1>2, <2>4
    <3>3. QED  BY <3>1, <3>2
  <2>5. QED  BY <2>1, <2>2, <2>3, <2>4
<1>3. QED  BY <1>2 DEF Distinct, c

\* Events of a new message are new.
LEMMA MadeMore ==
    ASSUME NEW k, NEW M, NEW all \in Seq(EventType), NEW popped \in Seq(M), NEW m \in M,
           MadeOnce(k, all, popped), \A j \in 1 .. Len(popped) : popped[j].id # m.id,
           NEW evts \in Seq(EventType), Distinct(evts),
           \A i \in 1 .. Len(evts) : ~IsBeat(evts[i]) /\ Origin(k, evts[i].src) = m.id
    PROVE  MadeOnce(k, all \o evts, Append(popped, m))
<1> DEFINE more == Append(popped, m)
           c == all \o evts
<1>1. /\ Len(c) = Len(all) + Len(evts) /\ Len(all) \in Nat /\ Len(evts) \in Nat
      /\ \A i \in 1 .. Len(all) + Len(evts) :
           c[i] = IF i <= Len(all) THEN all[i] ELSE evts[i - Len(all)]
  BY ConcatProperties
<1>2. /\ Len(more) = Len(popped) + 1 /\ Len(popped) \in Nat /\ more[Len(popped) + 1] = m
      /\ \A i \in 1 .. Len(popped) : more[i] = popped[i]
  BY AppendEffect
<1>3. \A i \in 1 .. Len(all) :
        ~IsBeat(all[i]) /\ \E j \in 1 .. Len(popped) : popped[j].id = Origin(k, all[i].src)
  BY DEF MadeOnce
<1>4. Distinct(c)
  <2>1. \A i \in 1 .. Len(all) : \A j \in 1 .. Len(evts) : all[i] # evts[j]
    BY <1>3
  <2>2. Distinct(all)  BY DEF MadeOnce
  <2>3. QED  BY <2>1, <2>2, DistinctBehind
<1> HIDE DEF c, more
<1>5. ASSUME NEW i \in 1 .. Len(c)
      PROVE  ~IsBeat(c[i]) /\ \E j \in 1 .. Len(more) : more[j].id = Origin(k, c[i].src)
  <2>1. CASE i <= Len(all)
    <3>1. i \in 1 .. Len(all) /\ c[i] = all[i]  BY <1>1, <2>1
    <3>2. PICK j \in 1 .. Len(popped) : popped[j].id = Origin(k, all[i].src)  BY <1>3, <3>1
    <3>3. j \in 1 .. Len(more) /\ more[j] = popped[j]  BY <1>2
    <3>4. QED  BY <1>3, <3>1, <3>2, <3>3
  <2>2. CASE ~(i <= Len(all))
    <3>1. i - Len(all) \in 1 .. Len(evts) /\ c[i] = evts[i - Len(all)]
      <4>1. i \in 1 .. Len(all) + Len(evts)  BY <1>1
      <4>2. c[i] = evts[i - Len(all)]  BY <1>1, <2>2, <4>1
      <4>3. Len(all) \in Nat /\ Len(evts) \in Nat  BY <1>1
      <4>4. i - Len(all) \in 1 .. Len(evts)  BY <2>2, <4>1, <4>3
      <4>5. QED  BY <4>2, <4>4
    <3>2. Len(popped) + 1 \in 1 .. Len(more)  BY <1>2
    <3>3. QED  BY <1>2, <3>1, <3>2
  <2>3. QED  BY <2>1, <2>2
<1>6. QED  BY <1>4, <1>5 DEF MadeOnce, c, more

\* A packet that is never parsed.
LEMMA BooksStuck ==
    ASSUME Typed, EventsInv, Stuck, MadeOnce(kind, made, delivered')
    PROVE  BooksTyped' /\ EventsInv'
<1>1. Sent' = Sent /\ UNCHANGED <<kind, made, batch, stats, outq, settled, refused, pstats>>
      /\ queue_size' = queue_size /\ kind = "netflow" /\ ppc' = "parsing"
  BY DEF Stuck, producerVars, Sent, queue_size
<1>2. BooksTyped'  BY <1>1 DEF Typed, BooksTyped
<1>3. EventsInv'  BY <1>1 DEF EventsInv, Tally
<1>4. QED  BY <1>2, <1>3

\* The books agree after every step.
LEMMA BooksKept ==
    ASSUME Typed, EventsInv, MessagesInv, Does
    PROVE  BooksTyped' /\ EventsInv'
<1>1. /\ stats \in Statistics /\ made \in Seq(EventType) /\ batch \in Seq(EventType)
      /\ delivered \in Seq(RawMessages(kind)) /\ queue \in Seq(RawMessages(kind))
      /\ Len(batch) < BatchSize /\ BatchSize \in Nat \ {0}
      /\ (ppc = "exited" => batch = << >>) /\ ppc \in {"exited", "loop", "parsing"}
  BY PipelineAssumption DEF Typed, BooksTyped, PlacesTyped, ControlTyped
<1>2. Counters(stats, stats, 0, 0, 0, 0)  BY <1>1 DEF Counters, Statistics
<1>3. /\ Counters([stats EXCEPT !.received = @ + 1], stats, 0, 0, 0, 0)
      /\ Counters([stats EXCEPT !.actions = @ + 1], stats, 0, 0, 0, 0)
  BY <1>1, Counted1
<1>4. CASE UNCHANGED vars
  BY <1>2, <1>4, BooksStill
  DEF vars, threadVars, ringVars, envVars, bookVars
<1>5. CASE \E a, b, c \in BOOLEAN : StartsUp(a, b, c)
  BY <1>2, <1>5, BooksStill DEF StartsUp, Launch, ringVars, bookVars
<1>6. CASE Stop
  BY <1>2, <1>6, BooksStill DEF Stop, ringVars, threadVars
<1>7. CASE Stopped
  BY <1>7, BooksAfterFlush DEF Stopped, threadVars, ringVars, bookVars
<1>8. ASSUME NEW r \in Receivers,
             NothingReceived(r) \/ Receives(r) \/ CalledIn(r) \/ PushOrDrop(r)
      PROVE  BooksTyped' /\ EventsInv'
  <2>1. CASE NothingReceived(r)
    BY <1>2, <2>1, BooksStill DEF NothingReceived, ringVars, bookVars
  <2>2. CASE \E m : Took(r, m)
    BY <1>3, <2>2, BooksStill DEF Took, ringVars
  <2>3. CASE PushOrDrop(r)
    BY <1>2, <2>3, BooksStill DEF PushOrDrop, Ring!Put, ringVars
  <2>4. Receives(r) \/ CalledIn(r) => \E m : Took(r, m)
    BY DEF Receives, ReceiveDatagram, CalledIn, CallIn
  <2>5. QED  BY <1>8, <2>1, <2>2, <2>3, <2>4
<1>9. ASSUME NEW evts, NEW parsed, NEW errors, Works(evts, parsed, errors)
      PROVE  BooksTyped' /\ EventsInv'
  <2> DEFINE all == batch \o evts
             f == Full(all)
             cnt == Counted(SubSeq(all, 1, f))
             m == Head(queue)
  <2>1. /\ evts \in Seq(EventType) /\ Distinct(evts)
        /\ \A i \in 1 .. Len(evts) : ~IsBeat(evts[i]) /\ Origin(kind, evts[i].src) = m.id
        /\ parsed \in Nat /\ errors \in Nat
        /\ kind \in {"syslog", "winlog"} => parsed + errors = 1
        /\ kind # "agent" => parsed = Len(evts)
    BY <1>9 DEF Works, Makes
  <2>2. /\ queue # << >> /\ delivered' = Append(delivered, m) /\ made' = made \o evts
        /\ ProduceBatch(SubSeq(all, 1, f)) /\ batch' = SubSeq(all, f + 1, Len(all))
        /\ stats' = [stats EXCEPT !.parsed = @ + parsed, !.errors = @ + errors,
                                  !.produced = @ + cnt]
        /\ kind' = kind /\ ppc' = "loop"
    BY <1>9 DEF Works, Process, Ring!Take
  <2>3. m \in RawMessages(kind)  BY <2>2, OldestMessage DEF Typed
  <2>4. /\ delivered' \in Seq(RawMessages(kind)) /\ Len(delivered') = Len(delivered) + 1
        /\ Len(delivered) \in Nat
    BY <1>1, <2>2, <2>3, AppendEffect
  <2>5. MadeOnce(kind, made \o evts, delivered')
    <3>1. DistinctIds(delivered \o queue)  BY DEF MessagesInv, PlacesApart
    <3>2. \A j \in 1 .. Len(delivered) : delivered[j].id # m.id
      BY <1>1, <2>2, <3>1, FirstIsNew
    <3>3. MadeOnce(kind, made, delivered)  BY DEF EventsInv
    <3> HIDE DEF m
    <3>4. MadeOnce(kind, made \o evts, Append(delivered, m))
      BY <1>1, <2>1, <2>3, <3>2, <3>3, MadeMore
    <3>5. QED  BY <2>2, <3>4
  <2>6. all \in Seq(EventType) /\ Len(all) \in Nat  BY <1>1, <2>1, ConcatProperties
  <2>7. f \in 0 .. Len(all) /\ Len(all) - f < BatchSize  BY <2>6, FullFits DEF Full
  <2>8. /\ cnt = Len(IF kind \in {"syslog", "agent"} THEN Accepted(SubSeq(all, 1, f))
                     ELSE SubSeq(all, 1, f))
    BY DEF Counted
  <2>9. SubSeq(all, 1, f) \in Seq(EventType) /\ Len(SubSeq(all, 1, f)) \in Nat
    BY <2>6, <2>7, Cut
  <2>10. Len(Accepted(SubSeq(all, 1, f))) \in Nat
    <3>1. /\ outq \in Seq(EventType) /\ queue_size <= QueueMax
          /\ pstats \in [produced : Nat, failed : Nat]
      BY DEF Typed, BooksTyped
    <3> HIDE DEF all, f
    <3>2. PICK n \in 0 .. Len(SubSeq(all, 1, f)) : Produced(SubSeq(all, 1, f), n)
      BY <2>2, <2>9, <3>1, ProduceEffect
    <3>3. QED  BY <3>2 DEF Produced
  <2> HIDE DEF f, m, all
  <2>11. cnt \in Nat  BY <2>8, <2>9, <2>10
  <2> HIDE DEF cnt
  <2>12. Counters(stats', stats, parsed, errors, cnt, 0)
    BY <1>1, <2>1, <2>2, <2>11, Counted3
  <2>13. stats'.received = stats.received  BY <1>1, <2>2 DEF Statistics
  <2>14. /\ kind = "syslog" => cnt = Len(Accepted(SubSeq(all, 1, f)))
         /\ kind = "agent" => cnt <= Len(Accepted(SubSeq(all, 1, f)))
    BY <2>8, <2>10
  <2>15. kind \in {"syslog", "winlog"} => parsed + errors = Len(delivered') - Len(delivered)
    BY <2>1, <2>4
  <2>16. QED
    BY <2>1, <2>2, <2>4, <2>5, <2>7, <2>11, <2>12, <2>13, <2>14, <2>15, BooksAfterBatch DEF all
<1>10. CASE FlushBatch \/ FinishLoop
  <2> DEFINE n == IF FlushBatch THEN Counted(batch) ELSE CountedAtEnd(batch)
             none == << >>
  <2>1. /\ ProduceBatch(batch) /\ batch' = << >> /\ ppc' \in {"loop", "exited"}
        /\ UNCHANGED <<kind, delivered, made>>
        /\ stats' = [stats EXCEPT !.produced = @ + n]
    <3>1. CASE FlushBatch  BY <3>1 DEF FlushBatch, ringVars
    <3>2. CASE ~FlushBatch  BY <1>10, <3>2 DEF FinishLoop, ringVars, Leftover
    <3>3. QED  BY <3>1, <3>2
  <2>2. /\ batch \o none = batch /\ made \o none = made /\ none \in Seq(EventType)
        /\ Len(none) = 0 /\ SubSeq(batch, 1, Len(batch)) = batch /\ Len(batch) \in Nat
        /\ SubSeq(batch, Len(batch) + 1, Len(batch)) = << >>
    BY <1>1
  <2>3. PICK k \in 0 .. Len(batch) : Produced(batch, k)
    <3>1. /\ outq \in Seq(EventType) /\ queue_size <= QueueMax
          /\ pstats \in [produced : Nat, failed : Nat]
      BY DEF Typed, BooksTyped
    <3>2. QED  BY <1>1, <2>1, <3>1, ProduceEffect
  <2>4. Len(Accepted(batch)) \in Nat  BY <2>2, <2>3 DEF Produced
  <2>5. /\ n \in Nat /\ (kind = "syslog" => n = Len(Accepted(batch)))
        /\ kind = "agent" => n <= Len(Accepted(batch))
    BY <2>2, <2>4 DEF Counted, CountedAtEnd
  <2> HIDE DEF n, none
  <2>6. Counters(stats', stats, 0, 0, n, 0)  BY <1>1, <2>1, <2>5, Counted1
  <2>7. stats'.received = stats.received  BY <1>1, <2>1 DEF Statistics
  <2>8. MadeOnce(kind, made, delivered)  BY DEF EventsInv
  <2>9. Len(batch) - Len(batch) = 0 /\ 0 < BatchSize /\ Len(batch) \in 0 .. Len(batch)
        /\ Len(delivered) - Len(delivered) = 0
    BY <1>1, <2>2
  <2> DEFINE f == Len(batch)
             b == batch \o none
             a == made \o none
  <2>10. /\ f \in 0 .. Len(b) /\ ProduceBatch(SubSeq(b, 1, f))
         /\ batch' = SubSeq(b, f + 1, Len(b)) /\ Len(b) - f < BatchSize
         /\ f = Len(b) /\ made' = a /\ MadeOnce(kind, a, delivered')
         /\ kind = "syslog" => n = Len(Accepted(SubSeq(b, 1, f)))
         /\ kind = "agent" => n <= Len(Accepted(SubSeq(b, 1, f)))
    BY <2>1, <2>2, <2>5, <2>8, <2>9
  <2>11. /\ kind' = kind /\ delivered' \in Seq(RawMessages(kind)) /\ none \in Seq(EventType)
         /\ 0 = Len(none)
    BY <1>1, <2>1, <2>2
  <2> DEFINE z == 0
  <2>12. z \in Nat /\ z = Len(none) /\ z + z = Len(delivered') - Len(delivered)
         /\ Counters(stats', stats, z, z, n, 0)
    BY <2>1, <2>2, <2>6, <2>9
  <2> HIDE DEF f, z
  <2>13. QED
    BY <2>5, <2>7, <2>10, <2>11, <2>12, BooksAfterBatch
<1>11. CASE CollectionExits
  BY <1>2, <1>11, BooksStill DEF CollectionExits, ringVars, bookVars
<1>12. CASE Beat
  BY <1>12, BooksAfterBeat
<1>13. CASE execute_action
  BY <1>3, <1>13, BooksStill DEF execute_action, ringVars, threadVars
<1>14. CASE Arrives
  BY <1>2, <1>14, BooksStill DEF Arrives, threadVars, ringVars, bookVars
<1>15. CASE Connection
  <2>1. /\ UNCHANGED <<kind, delivered, made, batch, ppc, producerVars>>
        /\ stats' \in {stats, [stats EXCEPT !.received = @ + 1]}
    BY <1>15 DEF Connection, Accept, PeerSends, HandlerReads, HandlerPushes, HandlerExits,
                 PeerCloses, ConnStep, Ring!Put, ringVars, threadVars
  <2>2. QED  BY <1>2, <1>3, <2>1, BooksStill
<1>16. CASE NetflowSticks
  <2> DEFINE m == Head(queue)
             none == << >>
  <2>1. Stuck  BY <1>16 DEF NetflowSticks, Stuck, Ring!Take, bookVars
  <2>2. kind = "netflow" /\ queue # << >> /\ delivered' = Append(delivered, m)  BY <2>1 DEF Stuck
  <2>3. m \in RawMessages(kind)  BY <2>2, OldestMessage DEF Typed
  <2>4. MadeOnce(kind, made, delivered) /\ DistinctIds(delivered \o queue)
    BY DEF EventsInv, MessagesInv, PlacesApart
  <2>5. \A j \in 1 .. Len(delivered) : delivered[j].id # m.id
    BY <1>1, <2>2, <2>4, FirstIsNew
  <2>6. none \in Seq(EventType) /\ Len(none) = 0 /\ Distinct(none) /\ made \o none = made
    BY <1>1 DEF Distinct
  <2> HIDE DEF m, none
  <2>7. MadeOnce(kind, made \o none, Append(delivered, m))
    <3>1. \A i \in 1 .. Len(none) : ~IsBeat(none[i]) /\ Origin(kind, none[i].src) = m.id
      BY <2>6
    <3>2. QED  BY <1>1, <2>3, <2>4, <2>5, <2>6, <3>1, MadeMore
  <2>8. MadeOnce(kind, made, delivered')  BY <2>2, <2>6, <2>7
  <2>9. QED  BY <2>1, <2>2, <2>8, BooksStuck
<1>17. QED
  BY <1>4, <1>5, <1>6, <1>7, <1>8, <1>9, <1>10, <1>11, <1>12, <1>13, <1>14, <1>15, <1>16 DEF Does

\* A record known is known when a packet more was popped: it is none of that
\* packet's.
KnownOf(e, popped, since) ==
    e.data.version # 5 =>
        /\ e.data.version \in {9, 10}
        /\ <<e.data.id, e.data.used>> \in Pairs(popped, e.data.version, 1)
        /\ \A j \in since + 1 .. Len(popped) :
             popped[j].id[1] = e.src[1] =>
                <<e.data.id, e.data.used>> \in Pairs(popped, e.data.version, since + 1)

LEMMA RecordsKnownOf ==
    RecordsKnown <=>
        (kind = "netflow" =>
            \A i \in 1 .. Len(made) : KnownOf(made[i], delivered, templates.since))
BY DEF RecordsKnown, KnownOf

LEMMA KnownLater ==
    ASSUME NEW M, NEW popped \in Seq(M), NEW m \in M, NEW since \in 0 .. Len(popped), NEW e,
           KnownOf(e, popped, since), m.id[1] # e.src[1]
    PROVE  KnownOf(e, Append(popped, m), since)
<1> DEFINE more == Append(popped, m)
           v == e.data.version
           x == <<e.data.id, e.data.used>>
<1>1. /\ Len(more) = Len(popped) + 1 /\ Len(popped) \in Nat /\ more[Len(popped) + 1] = m
      /\ \A i \in 1 .. Len(popped) : more[i] = popped[i]
  BY AppendEffect
<1>2. 1 \in 1 .. Len(popped) + 1 /\ since + 1 \in 1 .. Len(popped) + 1  BY <1>1
<1>3. SUFFICES ASSUME v # 5
               PROVE  /\ v \in {9, 10} /\ x \in Pairs(more, v, 1)
                      /\ \A j \in since + 1 .. Len(more) :
                           more[j].id[1] = e.src[1] => x \in Pairs(more, v, since + 1)
  BY DEF KnownOf
<1>4. /\ v \in {9, 10} /\ x \in Pairs(popped, v, 1)
      /\ \A j \in since + 1 .. Len(popped) :
           popped[j].id[1] = e.src[1] => x \in Pairs(popped, v, since + 1)
  BY <1>3 DEF KnownOf
<1> HIDE DEF x, v
<1>5. Pairs(popped, v, 1) \subseteq Pairs(more, v, 1)  BY <1>2, PairsGrow
<1>6. Pairs(popped, v, since + 1) \subseteq Pairs(more, v, since + 1)  BY <1>2, PairsGrow
<1> HIDE DEF more
<1>7. ASSUME NEW j \in since + 1 .. Len(more), more[j].id[1] = e.src[1]
      PROVE  x \in Pairs(more, v, since + 1)
  <2>1. j # Len(popped) + 1  BY <1>1, <1>7
  <2>2. j \in since + 1 .. Len(popped) /\ j \in 1 .. Len(popped)  BY <1>1, <2>1
  <2>3. popped[j].id[1] = e.src[1]  BY <1>1, <1>7, <2>2
  <2>4. QED  BY <1>4, <1>6, <2>2, <2>3
<1>8. QED  BY <1>4, <1>5, <1>7

\* What is known of the records made stays so when a packet more is popped.
LEMMA KnownStays ==
    ASSUME Typed, RecordsKnown, MessagesInv, EventsInv, kind = "netflow", queue # << >>
    PROVE  \A i \in 1 .. Len(made) :
              KnownOf(made[i], Append(delivered, Head(queue)), templates.since)
<1> DEFINE m == Head(queue)
           s == templates.since
<1>1. /\ delivered \in Seq(RawMessages(kind)) /\ queue \in Seq(RawMessages(kind))
      /\ Len(delivered) \in Nat /\ templates.since \in 0 .. Len(delivered)
  BY DEF Typed, PlacesTyped, TemplatesTyped
<1>2. m \in RawMessages(kind) /\ m.id = <<m.id[1], m.id[2]>>
  BY OldestMessage DEF Typed
<1>3. m.id[2] = 1
  <2>1. Len(queue) \in Nat \ {0} /\ m = queue[1]  BY <1>1, HeadTail
  <2>2. /\ Len(delivered \o queue) = Len(delivered) + Len(queue)
        /\ (delivered \o queue)[Len(delivered) + 1] = queue[1]
    BY <1>1, <2>1, ConcatProperties
  <2>3. Len(delivered) + 1 \in 1 .. Len(delivered \o queue)  BY <1>1, <2>1, <2>2
  <2>4. m.id \in ArrivedIds
    <3> HIDE DEF m
    <3>1. QED  BY <2>1, <2>2, <2>3 DEF ArrivedIds, IdsOf
  <2>5. IdSets[1] = ArrivedIds  BY DEF IdSets
  <2>6. QED  BY <2>4, <2>5 DEF MessagesInv, IdsBounded
<1>4. \A j \in 1 .. Len(delivered) : delivered[j].id # m.id
  BY <1>1, FirstIsNew DEF MessagesInv, PlacesApart
<1>5. ASSUME NEW i \in 1 .. Len(made) PROVE KnownOf(made[i], Append(delivered, m), s)
  <2>1. PICK j \in 1 .. Len(delivered) : delivered[j].id = Origin(kind, made[i].src)
    BY DEF EventsInv, MadeOnce
  <2>2. delivered[j].id = <<made[i].src[1], 1>>  BY <2>1 DEF Origin
  <2>3. m.id[1] # made[i].src[1]  BY <1>2, <1>3, <1>4, <2>2
  <2>4. KnownOf(made[i], delivered, s)  BY RecordsKnownOf
  <2> HIDE DEF m, s
  <2>5. QED  BY <1>1, <1>2, <2>3, <2>4, KnownLater DEF s
<1>6. QED  BY <1>5

\* Each record was decoded with what was announced, since the thread began if
\* it came since.
LEMMA RecordsKept ==
    ASSUME Typed, TablesKnown, RecordsKnown, MessagesInv, EventsInv, Does
    PROVE  RecordsKnown'
<1>1. /\ delivered \in Seq(RawMessages(kind)) /\ queue \in Seq(RawMessages(kind))
      /\ made \in Seq(EventType) /\ Len(delivered) \in Nat
      /\ templates = [v9 |-> templates.v9, ipfix |-> templates.ipfix, since |-> templates.since]
      /\ templates.since \in 0 .. Len(delivered)
  BY DEF Typed, PlacesTyped, BooksTyped, TemplatesTyped
<1>2. CASE UNCHANGED <<kind, templates, delivered, made>>
  BY <1>2 DEF RecordsKnown
<1>3. CASE templates' = NoTemplates /\ UNCHANGED <<kind, delivered, made>>
  <2>1. templates'.since = Len(delivered)  BY <1>3 DEF NoTemplates
  <2>2. Len(delivered) + 1 .. Len(delivered) = {}  BY <1>1
  <2>3. QED  BY <1>3, <2>1, <2>2 DEF RecordsKnown
<1>4. ASSUME NEW evts, NEW parsed, NEW errors, Works(evts, parsed, errors), kind = "netflow"
      PROVE  RecordsKnown'
  <2> DEFINE m == Head(queue)
             more == Append(delivered, m)
             s == templates.since
  <2>1. /\ queue # << >> /\ delivered' = more /\ made' = made \o evts /\ kind' = kind
        /\ evts \in Seq(EventType) /\ Decoded(evts) /\ templates' = TablesAfter(m.body)
    BY <1>4 DEF Works, Process, Ring!Take, Makes
  <2>2. m \in RawMessages(kind) /\ m.id = <<m.id[1], m.id[2]>>
    BY <2>1, OldestMessage DEF Typed
  <2>3. templates'.since = s  BY <1>1, <2>1 DEF TablesAfter
  <2>6. \A i \in 1 .. Len(made) : KnownOf(made[i], more, s)  BY <1>4, <2>1, KnownStays
  <2>7. ASSUME NEW i \in 1 .. Len(evts) PROVE KnownOf(evts[i], more, s)
    <3> DEFINE r == evts[i].data
    <3>1. r.version # 5 => /\ r.version \in {9, 10}
                           /\ <<r.id, r.used>> \in Pairs(more, r.version, s + 1)
      BY <2>1 DEF Decoded, KnownRecord
    <3>2. Len(more) \in Nat  BY <1>1, <2>2, AppendEffect
    <3>3. 1 \in Nat /\ s + 1 \in Nat /\ 1 <= s + 1  BY <1>1
    <3>4. Pairs(more, r.version, s + 1) \subseteq Pairs(more, r.version, 1)
      <4> HIDE DEF more, s, r
      <4>1. QED  BY <3>2, <3>3, PairsLater
    <3>5. QED  BY <3>1, <3>4 DEF KnownOf
  <2> HIDE DEF more, s
  <2>8. ASSUME NEW i \in 1 .. Len(made') PROVE KnownOf((made \o evts)[i], more, s)
    <3>1. /\ Len(made \o evts) = Len(made) + Len(evts) /\ Len(made) \in Nat /\ Len(evts) \in Nat
          /\ \A k \in 1 .. Len(made) + Len(evts) :
               (made \o evts)[k] = IF k <= Len(made) THEN made[k] ELSE evts[k - Len(made)]
      BY <1>1, <2>1, ConcatProperties
    <3>2. i \in 1 .. Len(made) + Len(evts)  BY <2>1, <3>1
    <3>3. CASE i <= Len(made)
      <4>1. i \in 1 .. Len(made) /\ (made \o evts)[i] = made[i]  BY <3>1, <3>2, <3>3
      <4>2. QED  BY <2>6, <4>1
    <3>4. CASE ~(i <= Len(made))
      <4>1. i - Len(made) \in 1 .. Len(evts) /\ (made \o evts)[i] = evts[i - Len(made)]
        BY <3>1, <3>2, <3>4
      <4>2. QED  BY <2>7, <4>1
    <3>5. QED  BY <3>3, <3>4
  <2>9. \A i \in 1 .. Len(made') : KnownOf(made'[i], delivered', templates'.since)
    BY <2>1, <2>3, <2>8
  <2>10. QED  BY <2>9 DEF RecordsKnown, KnownOf
<1>5. ASSUME NEW evts, NEW parsed, NEW errors, Works(evts, parsed, errors), kind # "netflow"
      PROVE  RecordsKnown'
  <2>1. kind' = kind  BY <1>5 DEF Works, Process
  <2>2. QED  BY <1>5, <2>1 DEF RecordsKnown
<1>6. ASSUME Stuck PROVE RecordsKnown'
  <2> DEFINE more == Append(delivered, Head(queue))
             s == templates.since
  <2>1. kind = "netflow" /\ queue # << >> /\ delivered' = more /\ made' = made /\ templates'.since = s
    BY <1>6 DEF Stuck
  <2>2. \A i \in 1 .. Len(made) : KnownOf(made[i], more, s)  BY <2>1, KnownStays
  <2> HIDE DEF more, s
  <2>3. \A i \in 1 .. Len(made') : KnownOf(made'[i], delivered', templates'.since)
    BY <2>1, <2>2
  <2>4. QED  BY <2>3 DEF RecordsKnown, KnownOf
<1>7. QED  BY <1>2, <1>3, <1>4, <1>5, <1>6, Work

-----------------------------------------------------------------------------
(* Every message stays in one place *)

\* A set of hands with one more, or one less.
LEMMA HandTaken ==
    ASSUME ControlTyped, HandsApart, NEW r \in Receivers, NEW m \in RawMessages(kind),
           hand[r] = NoMsg, hand' = [hand EXCEPT ![r] = m], m.id \notin HandIds
    PROVE  /\ HandIds' = HandIds \cup {m.id} /\ HandsApart'
           /\ Cardinality(InHand') = Cardinality(InHand) + 1 /\ Cardinality(InHand) \in Nat
<1>1. hand \in [Receivers -> RawMessages(kind) \cup {NoMsg}]  BY DEF ControlTyped
<1>2. m # NoMsg  BY NoMsgIsNone
<1>3. hand'[r] = m /\ \A q \in Receivers \ {r} : hand'[q] = hand[q]  BY <1>1
<1>4. InHand' = InHand \cup {r} /\ r \notin InHand /\ InHand \subseteq Receivers
  BY <1>2, <1>3 DEF InHand
<1>5. IsFiniteSet(InHand)  BY <1>4, FS_Subset, PipelineAssumption
<1>6. /\ Cardinality(InHand \cup {r}) = Cardinality(InHand) + 1
      /\ Cardinality(InHand) \in Nat
  BY <1>4, <1>5, FS_AddElement, FS_CardinalityType
<1>7. HandIds' = {hand'[q].id : q \in InHand \cup {r}}  BY <1>4 DEF HandIds
<1>8. \A q \in InHand : hand'[q] = hand[q]  BY <1>3, <1>4
<1>9. {hand'[q].id : q \in InHand \cup {r}} = HandIds \cup {m.id}
  BY <1>3, <1>8 DEF HandIds
<1>10. HandsApart'
  <2>1. ASSUME NEW p \in InHand \cup {r}, NEW q \in InHand \cup {r}, hand'[p].id = hand'[q].id
        PROVE  p = q
    <3>1. CASE p \in InHand /\ q \in InHand
      BY <1>8, <2>1, <3>1 DEF HandsApart
    <3>2. CASE p = r /\ q # r
      <4>1. hand[q].id \in HandIds  BY <3>2 DEF HandIds
      <4>2. QED  BY <1>3, <1>8, <2>1, <3>2, <4>1
    <3>3. CASE p # r /\ q = r
      <4>1. hand[p].id \in HandIds  BY <3>3 DEF HandIds
      <4>2. QED  BY <1>3, <1>8, <2>1, <3>3, <4>1
    <3>4. QED  BY <1>4, <3>1, <3>2, <3>3
  <2>2. QED  BY <1>4, <2>1 DEF HandsApart
<1>11. QED  BY <1>4, <1>6, <1>7, <1>9, <1>10

LEMMA HandEmptied ==
    ASSUME ControlTyped, HandsApart, NEW r \in Receivers, hand[r] # NoMsg,
           hand' = [hand EXCEPT ![r] = NoMsg]
    PROVE  /\ HandIds' \subseteq HandIds \ {hand[r].id} /\ HandsApart'
           /\ hand[r].id \in HandIds
           /\ Cardinality(InHand') = Cardinality(InHand) - 1 /\ Cardinality(InHand) \in Nat
<1>1. hand \in [Receivers -> RawMessages(kind) \cup {NoMsg}]  BY DEF ControlTyped
<1>2. hand'[r] = NoMsg /\ \A q \in Receivers \ {r} : hand'[q] = hand[q]  BY <1>1
<1>3. InHand' = InHand \ {r} /\ r \in InHand /\ InHand \subseteq Receivers
  BY <1>2 DEF InHand
<1>4. IsFiniteSet(InHand)  BY <1>3, FS_Subset, PipelineAssumption
<1>5. /\ Cardinality(InHand \ {r}) = Cardinality(InHand) - 1
      /\ Cardinality(InHand) \in Nat
  BY <1>3, <1>4, FS_RemoveElement, FS_CardinalityType
<1>6. \A q \in InHand \ {r} : hand'[q] = hand[q]  BY <1>2, <1>3
<1>7. hand[r].id \in HandIds  BY <1>3 DEF HandIds
<1>8. ASSUME NEW x \in HandIds' PROVE x \in HandIds \ {hand[r].id}
  <2>1. PICK q \in InHand \ {r} : x = hand'[q].id  BY <1>3 DEF HandIds
  <2>2. x = hand[q].id  BY <1>6, <2>1
  <2>3. x \in HandIds  BY <2>2 DEF HandIds
  <2>4. x # hand[r].id  BY <1>3, <2>2 DEF HandsApart
  <2>5. QED  BY <2>3, <2>4
<1>9. HandsApart'  BY <1>3, <1>6 DEF HandsApart
<1>10. QED  BY <1>3, <1>5, <1>7, <1>8, <1>9

\* A message in a place of its own goes to the ring or is dropped.
InRing == Len(queue) + Len(delivered) + Cardinality(dropped)
LeftTo(b, id) ==
    /\ b \in {1, 3}
    /\ ArrivedIds' = IF b = 1 THEN ArrivedIds \cup {id} ELSE ArrivedIds
    /\ DroppedIds' = IF b = 3 THEN DroppedIds \cup {id} ELSE DroppedIds
    /\ DistinctIds(delivered' \o queue') /\ DroppedApart'
    /\ InRing' = InRing + 1 /\ InRing \in Nat

LEMMA LeavesTo ==
    ASSUME PlacesTyped, NEW m \in RawMessages(kind), Leaves(m), DroppedApart,
           DistinctIds(delivered \o queue), m.id \notin ArrivedIds, m.id \notin DroppedIds
    PROVE  \E b : LeftTo(b, m.id)
<1>1. /\ queue \in Seq(RawMessages(kind)) /\ delivered \in Seq(RawMessages(kind))
      /\ IsFiniteSet(dropped) /\ Len(queue) \in Nat /\ Len(delivered) \in Nat
  BY DEF PlacesTyped
<1>2. Cardinality(dropped) \in Nat /\ InRing \in Nat
  BY <1>1, FS_CardinalityType DEF InRing
<1>3. CASE Ring!Put(m) /\ UNCHANGED dropped
  <2>1. queue' = Append(queue, m) /\ delivered' = delivered  BY <1>3 DEF Ring!Put
  <2>2. /\ delivered \o queue \in Seq(RawMessages(kind))
        /\ delivered \o Append(queue, m) = Append(delivered \o queue, m)
    BY <1>1, Arrive
  <2>3. /\ DistinctIds(Append(delivered \o queue, m))
        /\ IdsOf(Append(delivered \o queue, m)) = IdsOf(delivered \o queue) \cup {m.id}
    <3> DEFINE s == delivered \o queue
    <3>1. DistinctIds(s) /\ m.id \notin IdsOf(s)  BY DEF ArrivedIds
    <3>2. s \in Seq(RawMessages(kind))  BY <2>2
    <3> HIDE DEF s
    <3>3. DistinctIds(Append(s, m)) /\ IdsOf(Append(s, m)) = IdsOf(s) \cup {m.id}
      BY <3>1, <3>2, MessageBehind
    <3>4. QED  BY <3>3 DEF s
  <2>4. Len(queue') = Len(queue) + 1  BY <1>1, <2>1, AppendEffect
  <2>5. ArrivedIds' = ArrivedIds \cup {m.id} /\ DistinctIds(delivered' \o queue')
    BY <2>1, <2>2, <2>3 DEF ArrivedIds
  <2>6. DroppedIds' = DroppedIds /\ DroppedApart'  BY <1>3 DEF DroppedIds, DroppedApart
  <2>7. InRing' = InRing + 1  BY <1>1, <1>2, <1>3, <2>1, <2>4 DEF InRing
  <2>8. LeftTo(1, m.id)  BY <1>2, <2>5, <2>6, <2>7 DEF LeftTo
  <2>9. QED  BY <2>8
<1>4. CASE dropped' = dropped \cup {m} /\ UNCHANGED <<queue, delivered>>
  <2>1. m \notin dropped  BY DEF DroppedIds
  <2>2. Cardinality(dropped \cup {m}) = Cardinality(dropped) + 1
    BY <1>1, <2>1, FS_AddElement
  <2>3. ArrivedIds' = ArrivedIds /\ DistinctIds(delivered' \o queue')
    BY <1>4 DEF ArrivedIds
  <2>4. DroppedIds' = DroppedIds \cup {m.id}  BY <1>4 DEF DroppedIds
  <2>5. DroppedApart'  BY <1>4 DEF DroppedApart, DroppedIds
  <2>6. InRing' = InRing + 1  BY <1>1, <1>2, <1>4, <2>2 DEF InRing
  <2>7. LeftTo(3, m.id)  BY <1>2, <2>3, <2>4, <2>5, <2>6 DEF LeftTo
  <2>8. QED  BY <2>7
<1>5. QED  BY <1>3, <1>4 DEF Leaves

\* Place by place.
LEMMA PlaceIds ==
    /\ IdSets[1] = ArrivedIds /\ IdSets[2] = HandIds /\ IdSets[3] = DroppedIds
    /\ IdSets[4] = PieceIds /\ IdSets[5] = SocketIds /\ IdSets[6] = StreamIds
    /\ IdSets'[1] = ArrivedIds' /\ IdSets'[2] = HandIds' /\ IdSets'[3] = DroppedIds'
    /\ IdSets'[4] = PieceIds' /\ IdSets'[5] = SocketIds' /\ IdSets'[6] = StreamIds'
BY DEF IdSets

LEMMA IdsTyped ==
    ASSUME PlacesTyped, ControlTyped
    PROVE  \A i \in 1 .. 6 : IdSets[i] \subseteq MsgIds
<1>1. \A k : \A s \in Seq(RawMessages(k)) : IdsOf(s) \subseteq MsgIds
  <2>1. ASSUME NEW k, NEW s \in Seq(RawMessages(k)) PROVE IdsOf(s) \subseteq MsgIds
    <3>1. \A i \in 1 .. Len(s) : s[i] \in RawMessages(k)  OBVIOUS
    <3>2. \A m \in RawMessages(k) : m.id \in MsgIds  BY DEF RawMessages
    <3>3. QED  BY <3>1, <3>2 DEF IdsOf
  <2>2. QED  BY <2>1
<1>2. \A m \in RawMessages(kind) : m.id \in MsgIds  BY DEF RawMessages
<1>3. /\ queue \in Seq(RawMessages(kind)) /\ delivered \in Seq(RawMessages(kind))
      /\ socket \in Seq(RawMessages(kind)) /\ conn.pieces \in Seq(RawMessages("syslog"))
      /\ conn.stream \in Seq(Cells)
      /\ dropped \subseteq RawMessages(kind)
  BY ConnFields DEF PlacesTyped
<1>4. ArrivedIds \subseteq MsgIds
  <2>1. delivered \o queue \in Seq(RawMessages(kind))  BY <1>3, ConcatProperties
  <2>2. QED  BY <1>1, <2>1 DEF ArrivedIds
<1>5. HandIds \subseteq MsgIds  BY <1>2 DEF HandIds, InHand, ControlTyped
<1>6. DroppedIds \subseteq MsgIds  BY <1>2, <1>3 DEF DroppedIds
<1>7. PieceIds \subseteq MsgIds /\ SocketIds \subseteq MsgIds
  BY <1>1, <1>3 DEF PieceIds, SocketIds
<1>8. StreamIds \subseteq MsgIds
  <2>1. \A i \in 1 .. Len(conn.stream) : conn.stream[i] \in Cells  BY <1>3
  <2>2. \A c \in Cells : CellId(c) \in MsgIds  BY DEF Cells, CellId, MsgIds
  <2>3. QED  BY <2>1, <2>2 DEF StreamIds, CellIds
<1>9. QED  BY <1>4, <1>5, <1>6, <1>7, <1>8, PlaceIds

\* The ids of M leave where they were, if anywhere, and go to place b.
Landing(b, M) ==
    /\ b \in 1 .. 6 /\ IdSets'[b] \subseteq IdSets[b] \cup M
    /\ \A i \in 1 .. 6 : i # b => IdSets'[i] \subseteq IdSets[i] \ M
    /\ \A x \in M : x[1] <= inputs' /\ (kind # "syslog" => x[2] = 1)

LEMMA Land ==
    ASSUME Typed, Apart(IdSets), IdsBounded, kind' = kind, inputs' \in {inputs, inputs + 1},
           NEW b, NEW M, Landing(b, M)
    PROVE  Apart(IdSets') /\ IdsBounded'
<1> DEFINE F == IdSets
           G == IdSets'
<1>1. /\ b \in 1 .. 6 /\ G[b] \subseteq F[b] \cup M
      /\ \A i \in 1 .. 6 : i # b => G[i] \subseteq F[i] \ M
  BY DEF Landing
<1>2. \A i \in 1 .. 6 : F[i] \subseteq MsgIds  BY IdsTyped DEF Typed
<1>3. inputs \in Nat  BY DEF Typed, PlacesTyped
<1>4. \A i \in 1 .. 6 : \A x \in F[i] : x[1] <= inputs'
  <2>1. ASSUME NEW i \in 1 .. 6, NEW x \in F[i] PROVE x[1] <= inputs'
    <3>1. x[1] \in Nat  BY <1>2 DEF MsgIds
    <3>2. x[1] <= inputs  BY DEF IdsBounded
    <3>3. QED  BY <1>3, <3>1, <3>2
  <2>2. QED  BY <2>1
<1>5. ASSUME NEW i \in 1 .. 6, NEW x \in G[i]
      PROVE  x[1] <= inputs' /\ (kind # "syslog" => x[2] = 1)
  <2>1. x \in F[i] \/ x \in M  BY <1>1
  <2>2. QED  BY <1>4, <2>1 DEF IdsBounded, Landing
<1>6. IdsBounded'  BY <1>5 DEF IdsBounded
<1>7. Apart(F)  OBVIOUS
<1> HIDE DEF F, G
<1>8. Apart(G)  BY <1>1, <1>7, IdsMove
<1>9. QED  BY <1>6, <1>8 DEF G

\* What is new is nowhere yet.
LEMMA NewId ==
    ASSUME Typed, IdsBounded, NEW i \in 1 .. 6, NEW x, x[1] = inputs + 1
    PROVE  x \notin IdSets[i]
<1>1. inputs \in Nat  BY DEF Typed, PlacesTyped
<1>2. QED  BY <1>1 DEF IdsBounded

\* Messages are in one place each, and counted.
LEMMA MessagesKeptStill ==
    ASSUME Typed, MessagesInv, kind' = kind, Still
    PROVE  MessagesInv'
<1>1. /\ DistinctIds(delivered \o queue) /\ DistinctIds(socket) /\ DistinctIds(conn.pieces)
      /\ HandsApart /\ DroppedApart /\ CellsApart(conn.stream)
      /\ Apart(IdSets) /\ IdsBounded /\ AllCounted
  BY DEF MessagesInv, PlacesApart
<1>2. /\ conn'.pieces = conn.pieces /\ conn'.stream \in {conn.stream, << >>}
      /\ socket' \in {socket, << >>} /\ inputs' = inputs
      /\ UNCHANGED <<queue, delivered, hand, dropped>> /\ stats'.received = stats.received
  BY DEF Still, ConnCalm
<1>3. DistinctIds(<< >>) /\ CellsApart(<< >>) /\ IdsOf(<< >>) = {} /\ CellIds(<< >>) = {}
  BY DEF DistinctIds, CellsApart, IdsOf, CellIds
<1>4. InHand' = InHand  BY <1>2 DEF InHand
<1>5. PlacesApart'
  <2>1. DistinctIds(socket') /\ CellsApart(conn'.stream)  BY <1>1, <1>2, <1>3
  <2>2. HandsApart' /\ DroppedApart'  BY <1>1, <1>2, <1>4 DEF HandsApart, DroppedApart
  <2>3. QED  BY <1>1, <1>2, <2>1, <2>2 DEF PlacesApart
<1>6. /\ ArrivedIds' = ArrivedIds /\ HandIds' = HandIds /\ DroppedIds' = DroppedIds
      /\ PieceIds' = PieceIds
  BY <1>2, <1>4 DEF ArrivedIds, HandIds, DroppedIds, PieceIds
<1>7. SocketIds' \subseteq SocketIds /\ StreamIds' \subseteq StreamIds
  BY <1>2, <1>3 DEF SocketIds, StreamIds
<1>8. Landing(1, {})
  BY <1>6, <1>7, PlaceIds DEF Landing
<1>9. Apart(IdSets') /\ IdsBounded'  BY <1>1, <1>2, <1>8, Land
<1>10. AllCounted'  BY <1>1, <1>2, <1>4 DEF AllCounted
<1>11. QED  BY <1>5, <1>9, <1>10 DEF MessagesInv

\* What is in place j is in no other.
LEMMA Elsewhere ==
    ASSUME Apart(IdSets), NEW j \in 1 .. 6, NEW x \in IdSets[j]
    PROVE  \A i \in 1 .. 6 : i # j => x \notin IdSets[i]
BY DEF Apart

\* Places that did not change.
LEMMA SamePlaces ==
    /\ UNCHANGED <<queue, delivered>> => ArrivedIds' = ArrivedIds
    /\ UNCHANGED hand => HandIds' = HandIds /\ InHand' = InHand /\ (HandsApart => HandsApart')
    /\ UNCHANGED dropped => DroppedIds' = DroppedIds /\ (DroppedApart => DroppedApart')
    /\ UNCHANGED conn => PieceIds' = PieceIds /\ StreamIds' = StreamIds
    /\ UNCHANGED socket => SocketIds' = SocketIds
BY DEF ArrivedIds, HandIds, InHand, HandsApart, DroppedIds, DroppedApart, PieceIds, StreamIds,
       SocketIds

\* A message with a new id, or one from the socket, comes into a hand.
LEMMA MessagesKeptTaken ==
    ASSUME Typed, MessagesInv, kind' = kind, NEW r \in Receivers, NEW m, Taken(r, m),
           \/ Input(m) /\ socket' = socket
           \/ /\ socket # << >> /\ m = Head(socket) /\ socket' = Tail(socket)
              /\ inputs' = inputs
    PROVE  MessagesInv'
<1>1. /\ DistinctIds(delivered \o queue) /\ DistinctIds(socket) /\ DistinctIds(conn.pieces)
      /\ HandsApart /\ DroppedApart /\ CellsApart(conn.stream)
      /\ Apart(IdSets) /\ IdsBounded /\ AllCounted
  BY DEF MessagesInv, PlacesApart
<1>2. /\ hand[r] = NoMsg /\ m \in RawMessages(kind) /\ hand' = [hand EXCEPT ![r] = m]
      /\ UNCHANGED <<queue, delivered, dropped, conn>>
      /\ stats'.received = stats.received + 1
  BY DEF Taken
<1>3. socket \in Seq(RawMessages(kind)) /\ inputs \in Nat /\ ControlTyped /\ PlacesTyped
  BY DEF Typed, PlacesTyped
<1>4. /\ \A i \in 1 .. 6 : i # 5 => m.id \notin IdSets[i]
      /\ SocketIds' \subseteq SocketIds \ {m.id} /\ DistinctIds(socket')
      /\ m.id[1] <= inputs' /\ (kind # "syslog" => m.id[2] = 1)
      /\ inputs' \in {inputs, inputs + 1}
  <2>1. CASE Input(m) /\ socket' = socket
    <3>1. m.id = <<inputs + 1, 1>> /\ inputs' = inputs + 1  BY <2>1 DEF Input
    <3>2. m.id[1] = inputs + 1 /\ m.id[2] = 1  BY <3>1
    <3>3. \A i \in 1 .. 6 : m.id \notin IdSets[i]  BY <1>1, <3>2, NewId
    <3>4. m.id \notin SocketIds  BY <3>3, PlaceIds
    <3>5. SocketIds' = SocketIds  BY <2>1, SamePlaces
    <3>6. QED  BY <1>1, <1>3, <2>1, <3>1, <3>2, <3>3, <3>4, <3>5
  <2>2. CASE /\ socket # << >> /\ m = Head(socket) /\ socket' = Tail(socket)
             /\ inputs' = inputs
    <3>1. /\ DistinctIds(Tail(socket)) /\ m.id \in IdsOf(socket)
          /\ IdsOf(Tail(socket)) = IdsOf(socket) \ {m.id}
      BY <1>1, <1>3, <2>2, FirstLeaves
    <3>2. m.id \in IdSets[5]  BY <3>1, PlaceIds DEF SocketIds
    <3>3. \A i \in 1 .. 6 : i # 5 => m.id \notin IdSets[i]
      <4>1. 5 \in 1 .. 6  OBVIOUS
      <4>2. QED  BY <1>1, <3>2, <4>1, Elsewhere
    <3>4. m.id[1] <= inputs /\ (kind # "syslog" => m.id[2] = 1)
      BY <1>1, <3>2 DEF IdsBounded
    <3>5. SocketIds' = SocketIds \ {m.id}  BY <2>2, <3>1 DEF SocketIds
    <3>6. QED  BY <2>2, <3>1, <3>3, <3>4, <3>5
  <2>3. QED  BY <2>1, <2>2
<1>5. /\ HandIds' = HandIds \cup {m.id} /\ HandsApart'
      /\ Cardinality(InHand') = Cardinality(InHand) + 1 /\ Cardinality(InHand) \in Nat
  <2>1. m.id \notin HandIds  BY <1>4, PlaceIds
  <2>2. QED  BY <1>1, <1>2, <1>3, <2>1, HandTaken
<1>6. Landing(2, {m.id})
  <2>1. /\ ArrivedIds' = ArrivedIds /\ DroppedIds' = DroppedIds
        /\ PieceIds' = PieceIds /\ StreamIds' = StreamIds
    BY <1>2, SamePlaces
  <2>2. QED  BY <1>4, <1>5, <2>1, PlaceIds DEF Landing
<1>7. Apart(IdSets') /\ IdsBounded'  BY <1>1, <1>4, <1>6, Land
<1>8. PlacesApart'
  <2>1. DroppedApart'  BY <1>1, <1>2, SamePlaces
  <2>2. QED  BY <1>1, <1>2, <1>4, <1>5, <2>1 DEF PlacesApart
<1>9. AllCounted'
  <2>1. InRing' = InRing /\ InRing \in Nat
    <3>1. Cardinality(dropped) \in Nat /\ Len(queue) \in Nat /\ Len(delivered) \in Nat
      BY <1>3, FS_CardinalityType DEF PlacesTyped
    <3>2. QED  BY <1>2, <3>1 DEF InRing
  <2>2. kind # "syslog" => stats.received = InRing + Cardinality(InHand)
    BY <1>1 DEF AllCounted, InRing
  <2>3. kind # "syslog" => stats'.received = InRing' + Cardinality(InHand')
    BY <1>2, <1>5, <2>1, <2>2
  <2>4. QED  BY <2>3 DEF AllCounted, InRing
<1>10. QED  BY <1>7, <1>8, <1>9 DEF MessagesInv

\* A message in a hand goes to the ring or is dropped.
LEMMA MessagesKeptPushed ==
    ASSUME Typed, MessagesInv, kind' = kind, NEW r \in Receivers, hand[r] # NoMsg,
           Leaves(hand[r]), hand' = [hand EXCEPT ![r] = NoMsg],
           UNCHANGED <<conn, socket, inputs>>, stats'.received = stats.received
    PROVE  MessagesInv'
<1>1. /\ DistinctIds(delivered \o queue) /\ DistinctIds(socket) /\ DistinctIds(conn.pieces)
      /\ HandsApart /\ DroppedApart /\ CellsApart(conn.stream)
      /\ Apart(IdSets) /\ IdsBounded /\ AllCounted
  BY DEF MessagesInv, PlacesApart
<1>2. ControlTyped /\ PlacesTyped /\ hand[r] \in RawMessages(kind)
  BY DEF Typed, ControlTyped
<1> DEFINE m == hand[r]
<1>3. /\ HandIds' \subseteq HandIds \ {m.id} /\ HandsApart' /\ m.id \in HandIds
      /\ Cardinality(InHand') = Cardinality(InHand) - 1 /\ Cardinality(InHand) \in Nat
  BY <1>1, <1>2, HandEmptied
<1> HIDE DEF m
<1>4. m.id \in IdSets[2]  BY <1>3, PlaceIds
<1>5. \A i \in 1 .. 6 : i # 2 => m.id \notin IdSets[i]
  <2>1. 2 \in 1 .. 6  OBVIOUS
  <2>2. QED  BY <1>1, <1>4, <2>1, Elsewhere
<1>6. m.id \notin ArrivedIds /\ m.id \notin DroppedIds  BY <1>5, PlaceIds
<1>7. PICK b : LeftTo(b, m.id)
  BY <1>1, <1>2, <1>6, LeavesTo DEF m
<1>8. m.id[1] <= inputs /\ (kind # "syslog" => m.id[2] = 1)  BY <1>1, <1>4 DEF IdsBounded
<1>9. Landing(b, {m.id})
  <2>1. /\ PieceIds' = PieceIds /\ StreamIds' = StreamIds /\ SocketIds' = SocketIds
    BY SamePlaces
  <2>2. CASE b = 1
    <3>1. ArrivedIds' = ArrivedIds \cup {m.id} /\ DroppedIds' = DroppedIds
      BY <1>7, <2>2 DEF LeftTo
    <3>2. QED  BY <1>3, <1>5, <1>8, <2>1, <2>2, <3>1, PlaceIds DEF Landing
  <2>3. CASE b = 3
    <3>1. ArrivedIds' = ArrivedIds /\ DroppedIds' = DroppedIds \cup {m.id}
      BY <1>7, <2>3 DEF LeftTo
    <3>2. QED  BY <1>3, <1>5, <1>8, <2>1, <2>3, <3>1, PlaceIds DEF Landing
  <2>4. QED  BY <1>7, <2>2, <2>3 DEF LeftTo
<1>10. Apart(IdSets') /\ IdsBounded'  BY <1>1, <1>9, Land
<1>11. PlacesApart'  BY <1>1, <1>3, <1>7 DEF PlacesApart, LeftTo
<1>12. AllCounted'
  <2>1. InRing' = InRing + 1 /\ InRing \in Nat  BY <1>7 DEF LeftTo
  <2>2. kind # "syslog" => stats.received = InRing + Cardinality(InHand)
    BY <1>1 DEF AllCounted, InRing
  <2>3. kind # "syslog" => stats'.received = InRing' + Cardinality(InHand')
    BY <1>3, <2>1, <2>2
  <2>4. QED  BY <2>3 DEF AllCounted, InRing
<1>13. QED  BY <1>10, <1>11, <1>12 DEF MessagesInv

\* A message is popped.
LEMMA MessagesKeptPopped ==
    ASSUME Typed, MessagesInv, kind' = kind, Ring!Take,
           UNCHANGED <<dropped, hand, conn, socket, inputs>>, stats'.received = stats.received
    PROVE  MessagesInv'
<1>1. /\ DistinctIds(delivered \o queue) /\ DistinctIds(socket) /\ DistinctIds(conn.pieces)
      /\ HandsApart /\ DroppedApart /\ CellsApart(conn.stream)
      /\ Apart(IdSets) /\ IdsBounded /\ AllCounted
  BY DEF MessagesInv, PlacesApart
<1>2. /\ queue \in Seq(RawMessages(kind)) /\ delivered \in Seq(RawMessages(kind))
      /\ IsFiniteSet(dropped)
  BY DEF Typed, PlacesTyped
<1>3. queue # << >> /\ delivered' = Append(delivered, Head(queue)) /\ queue' = Tail(queue)
  BY DEF Ring!Take
<1>4. delivered' \o queue' = delivered \o queue  BY <1>2, <1>3, Arrive
<1>5. /\ ArrivedIds' = ArrivedIds /\ HandIds' = HandIds /\ DroppedIds' = DroppedIds
      /\ PieceIds' = PieceIds /\ SocketIds' = SocketIds /\ StreamIds' = StreamIds
      /\ InHand' = InHand /\ HandsApart' /\ DroppedApart'
  BY <1>1, <1>4, SamePlaces DEF ArrivedIds
<1>6. Apart(IdSets') /\ IdsBounded'
  <2>1. IdSets' = IdSets  BY <1>5 DEF IdSets
  <2>2. QED  BY <1>1, <2>1 DEF IdsBounded
<1>7. PlacesApart'  BY <1>1, <1>4, <1>5 DEF PlacesApart
<1>8. AllCounted'
  <2>1. /\ Head(queue) \in RawMessages(kind) /\ Len(queue') = Len(queue) - 1
        /\ Len(queue) \in Nat
    BY <1>2, <1>3, HeadTail
  <2>2. Len(delivered') = Len(delivered) + 1 /\ Len(delivered) \in Nat
    BY <1>2, <1>3, <2>1, AppendEffect
  <2>3. Len(queue') + Len(delivered') = Len(queue) + Len(delivered)  BY <2>1, <2>2
  <2>4. QED  BY <1>1, <1>5, <2>3 DEF AllCounted
<1>9. QED  BY <1>6, <1>7, <1>8 DEF MessagesInv

\* A datagram comes.
LEMMA MessagesKeptCame ==
    ASSUME Typed, MessagesInv, kind' = kind, NEW m, Input(m), socket' = Append(socket, m),
           UNCHANGED <<queue, delivered, dropped, hand, conn>>,
           stats'.received = stats.received
    PROVE  MessagesInv'
<1>1. /\ DistinctIds(delivered \o queue) /\ DistinctIds(socket) /\ DistinctIds(conn.pieces)
      /\ HandsApart /\ DroppedApart /\ CellsApart(conn.stream)
      /\ Apart(IdSets) /\ IdsBounded /\ AllCounted
  BY DEF MessagesInv, PlacesApart
<1>2. socket \in Seq(RawMessages(kind)) /\ inputs \in Nat  BY DEF Typed, PlacesTyped
<1>3. m \in RawMessages(kind) /\ m.id = <<inputs + 1, 1>> /\ inputs' = inputs + 1
  BY DEF Input
<1>4. m.id[1] = inputs + 1 /\ m.id[2] = 1 /\ m.id[1] <= inputs'  BY <1>2, <1>3
<1>5. \A i \in 1 .. 6 : m.id \notin IdSets[i]  BY <1>1, <1>4, NewId
<1>6. m.id \notin IdsOf(socket)  BY <1>5, PlaceIds DEF SocketIds
<1>7. DistinctIds(socket') /\ SocketIds' = SocketIds \cup {m.id}
  BY <1>1, <1>2, <1>3, <1>6, MessageBehind DEF SocketIds
<1>8. /\ ArrivedIds' = ArrivedIds /\ HandIds' = HandIds /\ DroppedIds' = DroppedIds
      /\ PieceIds' = PieceIds /\ StreamIds' = StreamIds
      /\ InHand' = InHand /\ HandsApart' /\ DroppedApart'
  BY <1>1, SamePlaces
<1>9. Landing(5, {m.id})  BY <1>4, <1>5, <1>7, <1>8, PlaceIds DEF Landing
<1>10. Apart(IdSets') /\ IdsBounded'  BY <1>1, <1>3, <1>9, Land
<1>11. PlacesApart'  BY <1>1, <1>7, <1>8 DEF PlacesApart
<1>12. AllCounted'  BY <1>1, <1>8 DEF AllCounted
<1>13. QED  BY <1>10, <1>11, <1>12 DEF MessagesInv

\* The cells of a new line behind others.
LEMMA CellsBehind ==
    ASSUME NEW s \in Seq(Cells), NEW l \in TcpLines, NEW n \in Nat \ {0}, CellsApart(s),
           \A x \in CellIds(s) : x[1] # n
    PROVE  /\ CellsApart(s \o NewCells(l, n))
           /\ CellIds(s \o NewCells(l, n)) = CellIds(s) \cup CellIds(NewCells(l, n))
           /\ \A x \in CellIds(NewCells(l, n)) : x[1] = n
           /\ \A i \in 1 .. Len(s) : (s \o NewCells(l, n))[i] = s[i]
           /\ \A i \in 1 .. Len(l) + 1 : (s \o NewCells(l, n))[Len(s) + i] = NewCells(l, n)[i]
           /\ Len(s \o NewCells(l, n)) = Len(s) + Len(l) + 1
<1> DEFINE t == NewCells(l, n)
           c == s \o t
<1>1. /\ t \in Seq(Cells) /\ Len(t) = Len(l) + 1 /\ Len(l) \in Nat
      /\ \A i \in 1 .. Len(l) + 1 : t[i].line = n /\ t[i].pos = i
  <2>1. /\ t \in Seq(Cells) /\ Len(t) = Len(l) + 1 /\ Len(l) \in Nat
        /\ \A i \in 1 .. Len(l) + 1 : t[i] =
              [line |-> n, pos |-> i, sym |-> IF i > Len(l) THEN Newline ELSE l[i]]
    BY NewCellsTyped
  <2> HIDE DEF t
  <2>2. ASSUME NEW i \in 1 .. Len(l) + 1 PROVE t[i].line = n /\ t[i].pos = i
    <3>1. t[i] = [line |-> n, pos |-> i, sym |-> IF i > Len(l) THEN Newline ELSE l[i]]
      BY <2>1
    <3> DEFINE x == IF i > Len(l) THEN Newline ELSE l[i]
    <3> HIDE DEF x
    <3>2. t[i] = [line |-> n, pos |-> i, sym |-> x]  BY <3>1 DEF x
    <3>3. QED  BY <3>2
  <2>3. QED  BY <2>1, <2>2
<1> HIDE DEF t
<1>2. t \in Seq(Cells)  BY <1>1
<1>3. /\ Len(c) = Len(s) + Len(t) /\ Len(s) \in Nat /\ Len(t) \in Nat
      /\ \A i \in 1 .. Len(s) + Len(t) : c[i] = IF i <= Len(s) THEN s[i] ELSE t[i - Len(s)]
  BY <1>2, ConcatProperties
<1> HIDE DEF c
<1>4. \A i \in 1 .. Len(s) : c[i] = s[i] /\ CellId(c[i]) \in CellIds(s) /\ i \in 1 .. Len(c)
  BY <1>3 DEF CellIds
<1>5. \A i \in 1 .. Len(t) : c[Len(s) + i] = t[i] /\ CellId(t[i]) = <<n, i>>
                             /\ Len(s) + i \in 1 .. Len(c)
  <2>1. ASSUME NEW i \in 1 .. Len(t)
        PROVE  c[Len(s) + i] = t[i] /\ CellId(t[i]) = <<n, i>> /\ Len(s) + i \in 1 .. Len(c)
    <3>1. Len(s) + i \in 1 .. Len(s) + Len(t) /\ ~(Len(s) + i <= Len(s)) /\ Len(s) + i - Len(s) = i
      BY <1>3
    <3>2. c[Len(s) + i] = t[i]  BY <1>3, <3>1
    <3>3. t[i].line = n /\ t[i].pos = i  BY <1>1
    <3>4. QED  BY <1>3, <3>1, <3>2, <3>3 DEF CellId
  <2>2. QED  BY <2>1
<1>6. ASSUME NEW i \in 1 .. Len(c), ~(i <= Len(s))
      PROVE  i - Len(s) \in 1 .. Len(t) /\ CellId(c[i]) = <<n, i - Len(s)>>
  <2>1. i - Len(s) \in 1 .. Len(t) /\ Len(s) + (i - Len(s)) = i  BY <1>3, <1>6
  <2>2. CellId(c[Len(s) + (i - Len(s))]) = <<n, i - Len(s)>>  BY <1>5, <2>1
  <2>3. QED  BY <2>1, <2>2
<1>7. CellsApart(c)
  <2>1. ASSUME NEW i \in 1 .. Len(c), NEW j \in 1 .. Len(c), CellId(c[i]) = CellId(c[j])
        PROVE  i = j
    <3>1. CASE i <= Len(s) /\ j <= Len(s)
      <4>1. i \in 1 .. Len(s) /\ j \in 1 .. Len(s)  BY <1>3, <3>1
      <4>2. CellId(s[i]) = CellId(s[j])  BY <1>4, <2>1, <4>1
      <4>3. QED  BY <4>1, <4>2 DEF CellsApart
    <3>2. CASE i <= Len(s) /\ ~(j <= Len(s))
      <4>1. i \in 1 .. Len(s)  BY <1>3, <3>2
      <4>2. CellId(c[i])[1] # n  BY <1>4, <4>1
      <4>3. CellId(c[j])[1] = n  BY <1>6, <3>2
      <4>4. QED  BY <2>1, <4>2, <4>3
    <3>3. CASE ~(i <= Len(s)) /\ j <= Len(s)
      <4>1. j \in 1 .. Len(s)  BY <1>3, <3>3
      <4>2. CellId(c[j])[1] # n  BY <1>4, <4>1
      <4>3. CellId(c[i])[1] = n  BY <1>6, <3>3
      <4>4. QED  BY <2>1, <4>2, <4>3
    <3>4. CASE ~(i <= Len(s)) /\ ~(j <= Len(s))
      <4>1. CellId(c[i]) = <<n, i - Len(s)>> /\ CellId(c[j]) = <<n, j - Len(s)>>
        BY <1>6, <3>4
      <4>2. CellId(c[i])[2] = i - Len(s) /\ CellId(c[j])[2] = j - Len(s)  BY <4>1
      <4>3. i - Len(s) = j - Len(s)  BY <2>1, <4>2
      <4>4. QED  BY <1>3, <4>3
    <3>5. QED  BY <3>1, <3>2, <3>3, <3>4
  <2>2. QED  BY <2>1 DEF CellsApart
<1>8. CellIds(c) = CellIds(s) \cup CellIds(t)
  <2>1. ASSUME NEW x \in CellIds(c) PROVE x \in CellIds(s) \cup CellIds(t)
    <3>1. PICK i \in 1 .. Len(c) : x = CellId(c[i])  BY DEF CellIds
    <3>2. CASE i <= Len(s)
      <4>1. i \in 1 .. Len(s)  BY <1>3, <3>2
      <4>2. QED  BY <1>4, <3>1, <4>1
    <3>3. CASE ~(i <= Len(s))
      <4>1. i - Len(s) \in 1 .. Len(t) /\ x = <<n, i - Len(s)>>  BY <1>6, <3>1, <3>3
      <4>2. x = CellId(t[i - Len(s)])  BY <1>5, <4>1
      <4>3. QED  BY <4>1, <4>2 DEF CellIds
    <3>4. QED  BY <3>2, <3>3
  <2>2. ASSUME NEW x \in CellIds(s) PROVE x \in CellIds(c)
    <3>1. PICK i \in 1 .. Len(s) : x = CellId(s[i])  BY DEF CellIds
    <3>2. QED  BY <1>4, <3>1 DEF CellIds
  <2>3. ASSUME NEW x \in CellIds(t) PROVE x \in CellIds(c)
    <3>1. PICK i \in 1 .. Len(t) : x = CellId(t[i])  BY DEF CellIds
    <3>2. c[Len(s) + i] = t[i] /\ Len(s) + i \in 1 .. Len(c)  BY <1>5
    <3>3. QED  BY <3>1, <3>2 DEF CellIds
  <2>4. QED  BY <2>1, <2>2, <2>3
<1>9. \A x \in CellIds(t) : x[1] = n
  <2>1. ASSUME NEW x \in CellIds(t) PROVE x[1] = n
    <3>1. PICK i \in 1 .. Len(t) : x = CellId(t[i])  BY DEF CellIds
    <3>2. x = <<n, i>>  BY <1>5, <3>1
    <3>3. QED  BY <3>2
  <2>2. QED  BY <2>1
<1>10. /\ \A i \in 1 .. Len(s) : c[i] = s[i]
      /\ \A i \in 1 .. Len(l) + 1 : c[Len(s) + i] = t[i]
      /\ Len(c) = Len(s) + Len(l) + 1
  BY <1>1, <1>3, <1>4, <1>5
<1>11. QED  BY <1>7, <1>8, <1>9, <1>10 DEF c, t

\* The peer sends a line.
LEMMA MessagesKeptSent ==
    ASSUME Typed, MessagesInv, kind' = kind, PeerSends
    PROVE  MessagesInv'
<1>1. /\ DistinctIds(delivered \o queue) /\ DistinctIds(socket) /\ DistinctIds(conn.pieces)
      /\ HandsApart /\ DroppedApart /\ CellsApart(conn.stream)
      /\ Apart(IdSets) /\ IdsBounded /\ AllCounted
  BY DEF MessagesInv, PlacesApart
<1>2. PICK l \in TcpLines :
        /\ kind = "syslog" /\ conn'.pieces = conn.pieces
        /\ conn'.stream = conn.stream \o NewCells(l, inputs + 1)
        /\ inputs' = inputs + 1 /\ inputs + 1 \in Nat \ {0}
  BY PeerSendsEffect DEF Typed
<1>3. UNCHANGED <<queue, delivered, dropped, hand, socket>>
  BY DEF PeerSends, ConnStep, ringVars, threadVars
<1>4. conn.stream \in Seq(Cells) /\ inputs \in Nat
  BY ConnFields DEF Typed, PlacesTyped
<1> DEFINE n == inputs + 1
           M == CellIds(NewCells(l, n))
<1>5. \A x \in CellIds(conn.stream) : x[1] # n
  <2>1. \A x : x[1] = n => x \notin IdSets[6]
    <3>1. 6 \in 1 .. 6  OBVIOUS
    <3>2. QED  BY <1>1, <3>1, NewId
  <2>2. QED  BY <2>1, PlaceIds DEF StreamIds
<1>6. /\ CellsApart(conn'.stream) /\ StreamIds' = StreamIds \cup M
      /\ \A x \in M : x[1] = n
  <2> HIDE DEF n
  <2>1. conn'.stream = conn.stream \o NewCells(l, n) /\ n \in Nat \ {0}  BY <1>2 DEF n
  <2>2. QED  BY <1>1, <1>4, <1>5, <2>1, CellsBehind DEF StreamIds
<1> HIDE DEF M
<1>7. \A i \in 1 .. 6 : IdSets[i] \cap M = {}  BY <1>1, <1>6, NewId
<1>8. /\ ArrivedIds' = ArrivedIds /\ HandIds' = HandIds /\ DroppedIds' = DroppedIds
      /\ SocketIds' = SocketIds /\ HandsApart' /\ DroppedApart'
  BY <1>1, <1>3, SamePlaces
<1>9. PieceIds' = PieceIds  BY <1>2 DEF PieceIds
<1>10. \A x \in M : x[1] <= inputs'  BY <1>2, <1>4, <1>6
<1>11. Landing(6, M)  BY <1>2, <1>6, <1>7, <1>8, <1>9, <1>10, PlaceIds DEF Landing
<1>12. Apart(IdSets') /\ IdsBounded'  BY <1>1, <1>2, <1>11, Land
<1>13. PlacesApart'  BY <1>1, <1>2, <1>3, <1>6, <1>8 DEF PlacesApart
<1>14. AllCounted'  BY <1>2 DEF AllCounted
<1>15. QED  BY <1>12, <1>13, <1>14 DEF MessagesInv

\* The handler reads.
LEMMA MessagesKeptRead ==
    ASSUME Typed, MessagesInv, kind' = kind, HandlerReads
    PROVE  MessagesInv'
<1>1. /\ DistinctIds(delivered \o queue) /\ DistinctIds(socket) /\ DistinctIds(conn.pieces)
      /\ HandsApart /\ DroppedApart /\ CellsApart(conn.stream)
      /\ Apart(IdSets) /\ IdsBounded /\ AllCounted
  BY DEF MessagesInv, PlacesApart
<1>2. PICK n : Reads(n)  BY HandlerReadsEffect DEF Typed
<1>3. UNCHANGED <<queue, delivered, dropped, hand, socket, inputs>>
  BY DEF HandlerReads, ConnStep, ringVars, threadVars
<1> DEFINE s == conn.stream
           cells == SubSeq(s, 1, n)
           rest == From(s, n + 1)
           M == CellIds(cells)
<1>4. n \in Nat \ {0} /\ n <= Len(s) /\ kind = "syslog" /\ conn.pieces = << >>
      /\ conn'.pieces = Frame(cells) /\ conn'.stream = rest
  BY <1>2 DEF Reads
<1>5. /\ cells \in Seq(Cells) /\ cells # << >> /\ Len(cells) = n
      /\ \A i \in 1 .. n : cells[i] = s[i]
      /\ Len(rest) = Len(s) - n /\ \A i \in 1 .. Len(s) - n : rest[i] = s[n + i]
      /\ Len(s) \in Nat
  BY <1>4, CutStream DEF Typed, PlacesTyped
<1> HIDE DEF s, cells, rest
<1>6. PICK k, b, e : FrameMade(cells, k, b, e)  BY <1>5, FrameEffect
<1> DEFINE p == Frame(cells)
<1>7. /\ p \in Seq(RawMessages("syslog")) /\ Len(p) = k /\ k \in Nat
      /\ \A i \in 1 .. k : p[i] = Piece(cells, b[i], e[i]) /\ b[i] \in 1 .. n
      /\ \A i, j \in 1 .. k : i # j => b[i] # b[j]
  BY <1>5, <1>6 DEF FrameMade, CutAt
<1>8. \A i \in 1 .. k : p[i].id = CellId(s[b[i]]) /\ b[i] \in 1 .. Len(s)
                        /\ p[i].id = CellId(cells[b[i]])
  <2>1. ASSUME NEW i \in 1 .. k
        PROVE  p[i].id = CellId(s[b[i]]) /\ b[i] \in 1 .. Len(s)
               /\ p[i].id = CellId(cells[b[i]])
    <3>1. p[i].id = CellId(cells[b[i]])  BY <1>7 DEF Piece, CellId
    <3>2. b[i] \in 1 .. n  BY <1>7
    <3>3. cells[b[i]] = s[b[i]]  BY <1>5, <3>2
    <3>4. b[i] \in 1 .. Len(s)  BY <1>4, <1>5, <3>2
    <3>5. QED  BY <3>1, <3>3, <3>4
  <2>2. QED  BY <2>1
<1> HIDE DEF p
<1>9. CellsApart(s)  BY <1>1 DEF s
<1>10. DistinctIds(p)
  <2>1. ASSUME NEW i \in 1 .. Len(p), NEW j \in 1 .. Len(p), p[i].id = p[j].id PROVE i = j
    <3>1. i \in 1 .. k /\ j \in 1 .. k  BY <1>7
    <3>2. b[i] = b[j]  BY <1>8, <1>9, <2>1, <3>1 DEF CellsApart
    <3>3. QED  BY <1>7, <3>1, <3>2
  <2>2. QED  BY <2>1 DEF DistinctIds
<1>11. IdsOf(p) \subseteq M
  <2>1. ASSUME NEW i \in 1 .. k PROVE p[i].id \in M
    <3>1. b[i] \in 1 .. Len(cells)  BY <1>5, <1>7
    <3>2. p[i].id = CellId(cells[b[i]])  BY <1>8
    <3>3. QED  BY <3>1, <3>2 DEF CellIds
  <2>2. QED  BY <1>7, <2>1 DEF IdsOf
<1>12. \A x \in M : \E i \in 1 .. n : x = CellId(s[i])  BY <1>5 DEF CellIds
<1>13. \A x \in CellIds(rest) : \E i \in n + 1 .. Len(s) : x = CellId(s[i])
  <2>1. ASSUME NEW x \in CellIds(rest) PROVE \E i \in n + 1 .. Len(s) : x = CellId(s[i])
    <3>1. PICK i \in 1 .. Len(s) - n : x = CellId(rest[i])  BY <1>5 DEF CellIds
    <3>2. n + i \in n + 1 .. Len(s) /\ x = CellId(s[n + i])  BY <1>4, <1>5, <3>1
    <3>3. QED  BY <3>2
  <2>2. QED  BY <2>1
<1>14. M \subseteq CellIds(s) /\ CellIds(rest) \subseteq CellIds(s) \ M
  <2>1. \A i \in 1 .. n : i \in 1 .. Len(s)  BY <1>4, <1>5
  <2>2. \A i \in n + 1 .. Len(s) : i \in 1 .. Len(s) /\ i \notin 1 .. n  BY <1>4, <1>5
  <2>3. M \subseteq CellIds(s)  BY <1>12, <2>1 DEF CellIds
  <2>4. CellIds(rest) \subseteq CellIds(s)  BY <1>13, <2>2 DEF CellIds
  <2>5. ASSUME NEW x \in CellIds(rest), x \in M PROVE FALSE
    <3>1. PICK i \in n + 1 .. Len(s) : x = CellId(s[i])  BY <1>13, <2>5
    <3>2. PICK j \in 1 .. n : x = CellId(s[j])  BY <1>12, <2>5
    <3>3. i \in 1 .. Len(s) /\ j \in 1 .. Len(s) /\ i # j  BY <2>1, <2>2
    <3>4. QED  BY <1>9, <3>1, <3>2, <3>3 DEF CellsApart
  <2>6. QED  BY <2>3, <2>4, <2>5
<1>15. CellsApart(rest)
  <2>1. ASSUME NEW i \in 1 .. Len(rest), NEW j \in 1 .. Len(rest),
               CellId(rest[i]) = CellId(rest[j])
        PROVE  i = j
    <3>1. n + i \in 1 .. Len(s) /\ n + j \in 1 .. Len(s)  BY <1>4, <1>5
    <3>2. CellId(s[n + i]) = CellId(s[n + j])  BY <1>5, <2>1
    <3>3. n + i = n + j  BY <1>9, <3>1, <3>2 DEF CellsApart
    <3>4. QED  BY <1>4, <1>5, <3>3
  <2>2. QED  BY <2>1 DEF CellsApart
<1>16. StreamIds = CellIds(s) /\ StreamIds' = CellIds(rest) /\ PieceIds' = IdsOf(p)
  BY <1>4 DEF StreamIds, PieceIds, s, p
<1> HIDE DEF M
<1>17. \A i \in 1 .. 6 : i # 6 => IdSets[i] \cap M = {}
  <2>1. 6 \in 1 .. 6 /\ M \subseteq IdSets[6]  BY <1>14, <1>16, PlaceIds
  <2>2. QED  BY <1>1, <2>1, Elsewhere
<1>18. /\ ArrivedIds' = ArrivedIds /\ HandIds' = HandIds /\ DroppedIds' = DroppedIds
       /\ SocketIds' = SocketIds /\ HandsApart' /\ DroppedApart'
  BY <1>1, <1>3, SamePlaces
<1>19. \A x \in M : x[1] <= inputs'
  <2>1. 6 \in 1 .. 6 /\ M \subseteq IdSets[6]  BY <1>14, <1>16, PlaceIds
  <2>2. QED  BY <1>1, <1>3, <2>1 DEF IdsBounded
<1>20. Landing(4, M)
  BY <1>4, <1>11, <1>14, <1>16, <1>17, <1>18, <1>19, PlaceIds DEF Landing
<1>21. Apart(IdSets') /\ IdsBounded'  BY <1>1, <1>3, <1>20, Land
<1>22. PlacesApart'
  BY <1>1, <1>3, <1>4, <1>10, <1>15, <1>18 DEF PlacesApart, p
<1>23. AllCounted'  BY <1>4 DEF AllCounted
<1>24. QED  BY <1>21, <1>22, <1>23 DEF MessagesInv

\* The handler pushes a piece, or drops it.
LEMMA MessagesKeptHandled ==
    ASSUME Typed, MessagesInv, kind' = kind, HandlerPushes
    PROVE  MessagesInv'
<1>1. /\ DistinctIds(delivered \o queue) /\ DistinctIds(socket) /\ DistinctIds(conn.pieces)
      /\ HandsApart /\ DroppedApart /\ CellsApart(conn.stream)
      /\ Apart(IdSets) /\ IdsBounded /\ AllCounted
  BY DEF MessagesInv, PlacesApart
<1>2. /\ kind = "syslog" /\ conn.pieces # << >> /\ conn'.pieces = Tail(conn.pieces)
      /\ conn'.stream = conn.stream \/ conn'.stream = << >>
  BY HandlerPushesEffect DEF Typed, Pushes
<1>3. Leaves(Head(conn.pieces)) /\ UNCHANGED <<hand, socket, inputs>>
  BY DEF HandlerPushes, ConnStep, Leaves, ringVars, threadVars
<1>4. PlacesTyped /\ conn.pieces \in Seq(RawMessages("syslog"))
  BY ConnFields DEF Typed, PlacesTyped
<1> DEFINE m == Head(conn.pieces)
<1>5. m \in RawMessages(kind)  BY <1>2, <1>4, HeadTail
<1>6. /\ DistinctIds(Tail(conn.pieces)) /\ m.id \in PieceIds
      /\ PieceIds' = PieceIds \ {m.id}
  BY <1>1, <1>2, <1>4, FirstLeaves DEF PieceIds
<1>7. Leaves(m)  BY <1>3
<1> HIDE DEF m
<1>8. m.id \in IdSets[4]  BY <1>6, PlaceIds
<1>9. \A i \in 1 .. 6 : i # 4 => m.id \notin IdSets[i]
  <2>1. 4 \in 1 .. 6  OBVIOUS
  <2>2. QED  BY <1>1, <1>8, <2>1, Elsewhere
<1>10. m.id \notin ArrivedIds /\ m.id \notin DroppedIds  BY <1>9, PlaceIds
<1>11. PICK b : LeftTo(b, m.id)
  BY <1>1, <1>4, <1>5, <1>7, <1>10, LeavesTo
<1>12. m.id[1] <= inputs  BY <1>1, <1>8 DEF IdsBounded
<1>13. StreamIds' \subseteq StreamIds /\ CellsApart(conn'.stream)
  <2>1. CellsApart(<< >>) /\ CellIds(<< >>) = {}  BY DEF CellsApart, CellIds
  <2>2. QED  BY <1>1, <1>2, <2>1 DEF StreamIds
<1>14. HandIds' = HandIds /\ SocketIds' = SocketIds /\ HandsApart'
  BY <1>1, <1>3, SamePlaces
<1>15. Landing(b, {m.id})
  <2>1. CASE b = 1
    <3>1. ArrivedIds' = ArrivedIds \cup {m.id} /\ DroppedIds' = DroppedIds
      BY <1>11, <2>1 DEF LeftTo
    <3>2. QED  BY <1>2, <1>3, <1>6, <1>9, <1>12, <1>13, <1>14, <2>1, <3>1, PlaceIds DEF Landing
  <2>2. CASE b = 3
    <3>1. ArrivedIds' = ArrivedIds /\ DroppedIds' = DroppedIds \cup {m.id}
      BY <1>11, <2>2 DEF LeftTo
    <3>2. QED  BY <1>2, <1>3, <1>6, <1>9, <1>12, <1>13, <1>14, <2>2, <3>1, PlaceIds DEF Landing
  <2>3. QED  BY <1>11, <2>1, <2>2 DEF LeftTo
<1>16. Apart(IdSets') /\ IdsBounded'  BY <1>1, <1>3, <1>15, Land
<1>17. PlacesApart'
  BY <1>1, <1>2, <1>3, <1>6, <1>11, <1>13, <1>14 DEF PlacesApart, LeftTo
<1>18. AllCounted'  BY <1>2 DEF AllCounted
<1>19. QED  BY <1>16, <1>17, <1>18 DEF MessagesInv

LEMMA MessagesKeptAll ==
    ASSUME Typed, MessagesInv, Moves
    PROVE  MessagesInv'
<1>1. kind' = kind  BY DEF Moves
<1>2. CASE Still  BY <1>1, <1>2, MessagesKeptStill
<1>3. ASSUME NEW r \in Receivers, NEW m, Taken(r, m),
             \/ Input(m) /\ socket' = socket
             \/ /\ socket # << >> /\ m = Head(socket) /\ socket' = Tail(socket)
                /\ inputs' = inputs
      PROVE  MessagesInv'
  BY <1>1, <1>3, MessagesKeptTaken
<1>4. ASSUME NEW r \in Receivers, hand[r] # NoMsg, Leaves(hand[r]),
             hand' = [hand EXCEPT ![r] = NoMsg], UNCHANGED <<conn, socket, inputs>>,
             stats'.received = stats.received
      PROVE  MessagesInv'
  BY <1>1, <1>4, MessagesKeptPushed
<1>5. CASE Ring!Take /\ UNCHANGED <<dropped, hand, conn, socket, inputs>>
           /\ stats'.received = stats.received
  BY <1>1, <1>5, MessagesKeptPopped
<1>6. ASSUME NEW m, Input(m), socket' = Append(socket, m),
             UNCHANGED <<queue, delivered, dropped, hand, conn>>,
             stats'.received = stats.received
      PROVE  MessagesInv'
  BY <1>1, <1>6, MessagesKeptCame
<1>7. CASE PeerSends \/ HandlerReads \/ HandlerPushes
  BY <1>1, <1>7, MessagesKeptSent, MessagesKeptRead, MessagesKeptHandled
<1>8. QED  BY <1>2, <1>3, <1>4, <1>5, <1>6, <1>7 DEF Moves

-----------------------------------------------------------------------------
(* The invariant *)

LEMMA InitIInv == Init => IInv
<1> SUFFICES ASSUME Init PROVE IInv
  OBVIOUS
<1>1. /\ kind \in Kinds /\ running = FALSE /\ phase = "idle"
      /\ rpc = [r \in Receivers |-> IF kind \in {"winlog", "agent"} THEN "armed" ELSE "exited"]
      /\ hand = [r \in Receivers |-> NoMsg]
      /\ apc = "exited" /\ ppc = "exited" /\ batch = << >>
      /\ queue = << >> /\ delivered = << >> /\ socket = << >> /\ conn = NoConn
      /\ templates = [v9 |-> << >>, ipfix |-> << >>, since |-> Len(delivered)]
      /\ stats = [received |-> 0, parsed |-> 0, errors |-> 0, produced |-> 0, heartbeats |-> 0,
                  actions |-> 0]
      /\ made = << >> /\ dropped = {} /\ inputs = 0
      /\ outq = << >> /\ settled = << >> /\ refused = {}
      /\ pstats = [produced |-> 0, failed |-> 0]
  BY DEF Init, PipelineInit, ProducerInit, Ring!Init, NoTemplates
<1>2. /\ RingLimit \in Nat \ {0} /\ BatchSize \in Nat \ {0} /\ QueueMax \in Nat \ {0}
  BY PipelineAssumption, ProducerAssumption
<1>3. \A S : << >> \in Seq(S)  OBVIOUS
<1>4. Len(<< >>) = 0 /\ DOMAIN << >> = {} /\ 1 .. 0 = {} /\ << >> \o << >> = << >>
      /\ ToSet(<< >>) = {}
  BY DEF ToSet
<1>5. ControlTyped
  <2>1. kind \in {"winlog", "agent"} => \A r \in Receivers : rpc[r] = "armed"  BY <1>1
  <2>2. kind \in {"syslog", "netflow"} => \A r \in Receivers : rpc[r] = "exited"  BY <1>1
  <2>3. rpc \in [Receivers -> {"armed", "push", "exited"}]
        /\ \A r \in Receivers : rpc[r] # "push"
    BY <1>1
  <2>4. hand \in [Receivers -> RawMessages(kind) \cup {NoMsg}]
        /\ \A r \in Receivers : hand[r] = NoMsg
    BY <1>1
  <2>5. QED  BY <1>1, <2>2, <2>3, <2>4 DEF ControlTyped
<1>6. PlacesTyped
  <2>1. IsFiniteSet({})  BY FS_EmptySet
  <2>2. Len(queue) <= RingLimit  BY <1>1, <1>2, <1>4
  <2>3. QED  BY <1>1, <1>3, <2>1, <2>2, NoConnTyped DEF PlacesTyped
<1>7. TemplatesTyped
  <2>1. templates.v9 = << >> /\ templates.ipfix = << >> /\ templates.since = 0
    BY <1>1, <1>4
  <2>2. QED  BY <1>1, <1>4, <2>1 DEF TemplatesTyped, GoodTable
<1>8. BooksTyped
  <2>1. IsFiniteSet({})  BY FS_EmptySet
  <2>2. stats \in Statistics /\ pstats \in [produced : Nat, failed : Nat]
    BY <1>1 DEF Statistics
  <2>3. Len(batch) < BatchSize /\ queue_size <= QueueMax
    BY <1>1, <1>2, <1>4 DEF queue_size
  <2>4. QED  BY <1>1, <1>3, <2>1, <2>2, <2>3 DEF BooksTyped
<1>9. TablesKnown
  <2>1. templates.v9 = << >> /\ templates.ipfix = << >>  BY <1>1
  <2>2. QED  BY <1>4, <2>1 DEF TablesKnown, Fits
<1>10. RecordsKnown  BY <1>1, <1>4 DEF RecordsKnown
<1>11. InHand = {}  BY <1>1 DEF InHand
<1>12. MessagesInv
  <2>1. IdsOf(<< >>) = {} /\ CellIds(<< >>) = {}  BY <1>4 DEF IdsOf, CellIds
  <2>2. DistinctIds(<< >>) /\ CellsApart(<< >>)  BY <1>4 DEF DistinctIds, CellsApart
  <2>3. conn.pieces = << >> /\ conn.stream = << >>  BY <1>1 DEF NoConn
  <2>4. PlacesApart
    BY <1>1, <1>4, <1>11, <2>2, <2>3 DEF PlacesApart, HandsApart, DroppedApart
  <2>5. \A i \in 1 .. 6 : IdSets[i] = {}
    <3>1. ArrivedIds = {} /\ HandIds = {} /\ DroppedIds = {} /\ PieceIds = {} /\ SocketIds = {}
          /\ StreamIds = {}
      BY <1>1, <1>4, <1>11, <2>1, <2>3
      DEF ArrivedIds, HandIds, DroppedIds, PieceIds, SocketIds, StreamIds
    <3>2. QED  BY <3>1, PlaceIds
  <2>6. Apart(IdSets) /\ IdsBounded  BY <2>5 DEF Apart, IdsBounded
  <2>7. AllCounted
    <3>1. Cardinality({}) = 0  BY FS_EmptySet
    <3>2. stats.received = 0  BY <1>1
    <3>3. QED  BY <1>1, <1>4, <1>11, <3>1, <3>2 DEF AllCounted
  <2>8. QED  BY <2>4, <2>6, <2>7 DEF MessagesInv
<1>13. EventsInv
  <2>1. Sent = << >>  BY <1>1, <1>4 DEF Sent
  <2>2. MadeOnce(kind, made, delivered)  BY <1>1, <1>4 DEF MadeOnce, Distinct
  <2>3. BatchedAt(0, << >>, << >>, << >>, {})
    BY <1>4 DEF BatchedAt
  <2>4. Len(made) - Len(batch) = 0  BY <1>1, <1>4
  <2>5. Once(<< >>, {})  BY <1>4 DEF Once, Distinct
  <2>6. InBooks(made, batch, Sent, refused, stats.heartbeats)
    BY <1>1, <1>4, <2>1, <2>3, <2>4, <2>5 DEF InBooks
  <2>7. Cardinality({}) = 0  BY FS_EmptySet
  <2>8. /\ stats.parsed = 0 /\ stats.errors = 0 /\ stats.produced = 0
        /\ pstats.produced = 0 /\ pstats.failed = 0
    BY <1>1
  <2>9. Tally(kind, stats, pstats, delivered, made, Sent, refused)
    BY <1>1, <1>4, <2>1, <2>7, <2>8 DEF Tally
  <2>10. QED  BY <2>2, <2>6, <2>9 DEF EventsInv
<1>14. QED
  BY <1>5, <1>6, <1>7, <1>8, <1>9, <1>10, <1>12, <1>13 DEF IInv, Typed

LEMMA NextIInv == IInv /\ [Next]_vars => IInv'
<1> SUFFICES ASSUME IInv, [Next]_vars PROVE IInv'
  OBVIOUS
<1>1. Typed /\ TablesKnown /\ RecordsKnown /\ MessagesInv /\ EventsInv /\ IdsBounded
  BY DEF IInv, MessagesInv
<1>2. Does  BY <1>1, Steps
<1>3. Moves  BY <1>1, <1>2, Move
<1>4. ControlTyped'  BY <1>1, <1>2, ControlKept
<1>5. PlacesTyped'  BY <1>1, <1>3, PlacesKept
<1>6. TemplatesTyped' /\ TablesKnown'  BY <1>1, <1>2, TablesKept
<1>7. BooksTyped' /\ EventsInv'  BY <1>1, <1>2, BooksKept
<1>8. RecordsKnown'  BY <1>1, <1>2, RecordsKept
<1>9. MessagesInv'  BY <1>1, <1>3, MessagesKeptAll
<1>10. QED
  BY <1>4, <1>5, <1>6, <1>7, <1>8, <1>9 DEF IInv, Typed

\* The collectors keep the invariant for ever.
THEOREM CollectorsInvariant == Spec => []IInv
BY InitIInv, NextIInv, PTL DEF Spec

\* Once stop() has returned nothing is produced until the next start().
THEOREM QuietAfterStop == Spec => QuietWhenIdle
<1>1. ASSUME IInv, [Next]_vars PROVE [phase = "idle" => UNCHANGED <<producerVars, batch>>]_vars
  <2>1. Typed /\ TablesKnown /\ IdsBounded  BY <1>1 DEF IInv, MessagesInv
  <2>2. Does  BY <1>1, <2>1, Steps
  <2>3. SUFFICES ASSUME phase = "idle" PROVE UNCHANGED <<producerVars, batch>>
    OBVIOUS
  <2>4. apc = "exited" /\ ppc = "exited"  BY <2>1, <2>3 DEF Typed, ControlTyped
  <2>5. CASE UNCHANGED vars  BY <2>5 DEF vars, threadVars
  <2>6. CASE \E a, b, c \in BOOLEAN : StartsUp(a, b, c)  BY <2>6 DEF StartsUp, Launch
  <2>7. CASE Stop \/ Stopped  BY <2>3, <2>7 DEF Stop, Stopped
  <2>8. CASE \E r \in Receivers : NothingReceived(r) \/ Receives(r) \/ CalledIn(r) \/ PushOrDrop(r)
    BY <2>8 DEF NothingReceived, Receives, ReceiveDatagram, CalledIn, CallIn, Took, PushOrDrop
  <2>9. CASE \E evts, parsed, errors : Works(evts, parsed, errors)
    BY <2>4, <2>9 DEF Works, Process
  <2>10. CASE FlushBatch \/ FinishLoop \/ CollectionExits \/ Beat
    BY <2>4, <2>10 DEF FlushBatch, FinishLoop, CollectionExits, Beat
  <2>11. CASE execute_action \/ Arrives
    BY <2>11 DEF execute_action, Arrives, threadVars
  <2>12. CASE Connection
    BY <2>12 DEF Connection, Accept, PeerSends, HandlerReads, HandlerPushes, HandlerExits,
                 PeerCloses, ConnStep, threadVars
  <2>13. CASE NetflowSticks
    BY <2>4, <2>13 DEF NetflowSticks
  <2>14. QED
    BY <2>2, <2>5, <2>6, <2>7, <2>8, <2>9, <2>10, <2>11, <2>12, <2>13 DEF Does
<1>2. QED  BY <1>1, CollectorsInvariant, PTL DEF Spec, QuietWhenIdle

-----------------------------------------------------------------------------
(* Every message in one place *)

\* An image has as many members when no two have one image.
Image(g, T) == {g[x] : x \in T}

LEMMA ImageCount ==
    ASSUME NEW T, NEW g, IsFiniteSet(T), DOMAIN g = T, \A x, y \in T : g[x] = g[y] => x = y
    PROVE  IsFiniteSet(Image(g, T)) /\ Cardinality(Image(g, T)) = Cardinality(T)
BY ImageFinite DEF Image

\* As many ids as messages.
LEMMA IdCount ==
    ASSUME NEW M, NEW s \in Seq(M), DistinctIds(s)
    PROVE  IsFiniteSet(IdsOf(s)) /\ Cardinality(IdsOf(s)) = Len(s) /\ Len(s) \in Nat
<1> DEFINE n == Len(s)
           f == [i \in 1 .. n |-> s[i].id]
<1>1. n \in Nat  OBVIOUS
<1>2. DOMAIN f = 1 .. n /\ {f[i] : i \in 1 .. n} = IdsOf(s)  BY DEF IdsOf
<1>3. \A i, j \in 1 .. n : f[i] = f[j] => i = j  BY DEF DistinctIds
<1> HIDE DEF n, f
<1>4. IsFiniteSet(1 .. n) /\ Cardinality(1 .. n) = n  BY <1>1, RangeSize
<1>5. IsFiniteSet(Image(f, 1 .. n)) /\ Cardinality(Image(f, 1 .. n)) = n
  <2>1. IsFiniteSet(1 .. n) /\ DOMAIN f = 1 .. n  BY <1>2, <1>4
  <2>2. /\ IsFiniteSet(Image(f, 1 .. n))
        /\ Cardinality(Image(f, 1 .. n)) = Cardinality(1 .. n)
    BY <1>3, <2>1, ImageCount
  <2>3. QED  BY <1>4, <2>2
<1>6. QED  BY <1>1, <1>2, <1>5 DEF n, Image

\* Four sets that have nothing in common.
LEMMA TwoSets ==
    ASSUME NEW A, NEW B, IsFiniteSet(A), IsFiniteSet(B), A \cap B = {}
    PROVE  /\ IsFiniteSet(A \cup B) /\ Cardinality(A) \in Nat /\ Cardinality(B) \in Nat
           /\ Cardinality(A \cup B) = Cardinality(A) + Cardinality(B)
<1>1. /\ IsFiniteSet(A \cup B)
      /\ Cardinality(A \cup B) = Cardinality(A) + Cardinality(B) - Cardinality(A \cap B)
  BY FS_Union
<1>2. Cardinality({}) = 0  BY FS_EmptySet
<1>3. Cardinality(A \cap B) = 0  BY <1>2
<1>4. Cardinality(A) \in Nat /\ Cardinality(B) \in Nat  BY FS_CardinalityType
<1> DEFINE a == Cardinality(A)
           b == Cardinality(B)
           c == Cardinality(A \cap B)
<1>5. a \in Nat /\ b \in Nat /\ c = 0  BY <1>3, <1>4
<1> HIDE DEF a, b, c
<1>6. a + b - c = a + b  BY <1>5
<1>7. QED  BY <1>1, <1>4, <1>6 DEF a, b, c

LEMMA FourSets ==
    ASSUME NEW A, NEW B, NEW C, NEW D,
           IsFiniteSet(A), IsFiniteSet(B), IsFiniteSet(C), IsFiniteSet(D),
           A \cap B = {}, A \cap C = {}, A \cap D = {}, B \cap C = {}, B \cap D = {}, C \cap D = {}
    PROVE  Cardinality(((A \cup B) \cup C) \cup D)
             = Cardinality(A) + Cardinality(B) + Cardinality(C) + Cardinality(D)
<1> DEFINE E == A \cup B
           F == E \cup C
<1>1. IsFiniteSet(E) /\ Cardinality(E) = Cardinality(A) + Cardinality(B)  BY TwoSets
<1>2. E \cap C = {} /\ F \cap D = {}  OBVIOUS
<1> HIDE DEF E
<1>3. IsFiniteSet(F) /\ Cardinality(F) = Cardinality(E) + Cardinality(C)
  BY <1>1, <1>2, TwoSets
<1> HIDE DEF F
<1>4. Cardinality(F \cup D) = Cardinality(F) + Cardinality(D)  BY <1>2, <1>3, TwoSets
<1>5. QED  BY <1>1, <1>3, <1>4 DEF F, E

\* The events that exist: those of the loop, and the heartbeats.
LEMMA EventsExist ==
    ASSUME Typed, EventsInv
    PROVE  refused \cup ToSet(Sent) \subseteq ToSet(Events)
<1> DEFINE h == stats.heartbeats
           beats == [i \in 1 .. h |-> Heartbeat(i)]
           n == Len(made)
<1>1. h \in Nat /\ made \in Seq(EventType)  BY DEF Typed, BooksTyped, Statistics
<1>2. beats \in Seq(EventType) /\ Len(beats) = h /\ \A i \in 1 .. h : beats[i] = Heartbeat(i)
  <2>1. \A i \in 1 .. h : Heartbeat(i) \in EventType
    <3>1. "heartbeat" \in Contents  BY DEF Contents
    <3>2. \A i \in 1 .. h : i \in Nat \ {0}  BY <1>1
    <3>3. QED  BY <3>1, <3>2 DEF Heartbeat, EventType
  <2> HIDE DEF h
  <2>2. QED  BY <1>1, <2>1
<1>3. Events = made \o beats  BY DEF Events
<1> HIDE DEF h, beats
<1>4. /\ Len(Events) = n + h /\ n \in Nat
      /\ \A i \in 1 .. n + h : Events[i] = IF i <= n THEN made[i] ELSE beats[i - n]
      /\ Events \in Seq(EventType)
  <2>1. beats \in Seq(EventType)  BY <1>2
  <2> DEFINE c == made \o beats
  <2>2. /\ Len(c) = n + Len(beats) /\ n \in Nat
        /\ \A i \in 1 .. n + Len(beats) : c[i] = IF i <= n THEN made[i] ELSE beats[i - n]
        /\ c \in Seq(EventType)
    BY <1>1, <2>1, ConcatProperties
  <2> HIDE DEF c, n
  <2>3. QED  BY <1>2, <1>3, <2>2 DEF c
<1>5. ToSet(Events) = {Events[i] : i \in 1 .. Len(Events)}  BY <1>4, Members
<1> HIDE DEF n
<1>6. ASSUME NEW e \in refused \cup ToSet(Sent) PROVE e \in ToSet(Events)
  <2>1. InBooks(made, batch, Sent, refused, h)  BY DEF EventsInv, h
  <2>2. CASE IsBeat(e)
    <3>1. PICK i \in 1 .. h : e = Heartbeat(i)  BY <2>1, <2>2 DEF InBooks
    <3>2. n + i \in 1 .. n + h /\ ~(n + i <= n) /\ n + i - n = i  BY <1>1, <1>4
    <3>3. Events[n + i] = beats[i]  BY <1>4, <3>2
    <3>4. QED  BY <1>2, <1>4, <1>5, <3>1, <3>2, <3>3
  <2>3. CASE ~IsBeat(e)
    <3> DEFINE c == Len(made) - Len(batch)
    <3>1. PICK k \in 1 .. c : made[k] = e  BY <2>1, <2>3 DEF InBooks, BatchedAt
    <3>2. c <= n /\ c \in Nat
      <4>1. c \in Nat /\ Len(made) = c + Len(batch)  BY <2>1 DEF InBooks, BatchedAt
      <4>2. Len(batch) \in Nat  BY DEF Typed, BooksTyped
      <4> HIDE DEF c
      <4>3. QED  BY <1>4, <4>1, <4>2 DEF n
    <3> HIDE DEF c
    <3>3. k \in 1 .. n + h /\ k <= n  BY <1>1, <1>4, <3>2
    <3>4. Events[k] = e  BY <1>4, <3>1, <3>3
    <3>5. QED  BY <1>4, <1>5, <3>3, <3>4
  <2>4. QED  BY <2>2, <2>3
<1>7. QED  BY <1>6

LEMMA IInvTypeOK == IInv => TypeOK
<1> SUFFICES ASSUME IInv PROVE TypeOK
  OBVIOUS
<1>1. ControlTyped /\ PlacesTyped /\ BooksTyped  BY DEF IInv, Typed
<1>2. refused \cup ToSet(Sent) \subseteq ToSet(Events)  BY EventsExist DEF IInv
<1>3. QED  BY <1>1, <1>2 DEF TypeOK, ControlTyped, PlacesTyped, BooksTyped

\* A message that a receiver or a handler took is in its hand, in the ring,
\* popped, or dropped, and nowhere twice.
THEOREM MessagesKept == Spec => []MessagesConserved
<1>1. IInv => MessagesConserved
  <2> SUFFICES ASSUME IInv PROVE MessagesConserved
    OBVIOUS
  <2>1. ControlTyped /\ PlacesTyped /\ MessagesInv  BY DEF IInv, Typed
  <2>2. /\ DistinctIds(delivered \o queue) /\ DistinctIds(conn.pieces)
        /\ HandsApart /\ DroppedApart /\ Apart(IdSets) /\ AllCounted
    BY <2>1 DEF MessagesInv, PlacesApart
  <2>3. /\ queue \in Seq(RawMessages(kind)) /\ delivered \in Seq(RawMessages(kind))
        /\ IsFiniteSet(dropped) /\ conn.pieces \in Seq(RawMessages("syslog"))
    BY <2>1, ConnFields DEF PlacesTyped
  <2>4. /\ delivered \o queue \in Seq(RawMessages(kind))
        /\ Len(delivered \o queue) = Len(delivered) + Len(queue)
        /\ Len(delivered) \in Nat /\ Len(queue) \in Nat
    BY <2>3, ConcatProperties
  <2>5. /\ IsFiniteSet(ArrivedIds) /\ Cardinality(ArrivedIds) = Len(delivered) + Len(queue)
    BY <2>2, <2>4, IdCount DEF ArrivedIds
  <2>6. /\ IsFiniteSet(PieceIds) /\ Cardinality(PieceIds) = Len(conn.pieces)
        /\ Len(conn.pieces) \in Nat
    BY <2>2, <2>3, IdCount DEF PieceIds
  <2>7. IsFiniteSet(HandIds) /\ Cardinality(HandIds) = Cardinality(InHand)
    <3> DEFINE f == [r \in InHand |-> hand[r].id]
    <3>1. IsFiniteSet(InHand)  BY FS_Subset, PipelineAssumption DEF InHand
    <3>2. DOMAIN f = InHand /\ {f[r] : r \in InHand} = HandIds  BY DEF HandIds
    <3>3. \A r, q \in InHand : f[r] = f[q] => r = q  BY <2>2 DEF HandsApart
    <3> HIDE DEF f
    <3>4. IsFiniteSet({f[r] : r \in InHand}) /\ Cardinality({f[r] : r \in InHand}) = Cardinality(InHand)
      BY <3>1, <3>2, <3>3, ImageFinite
    <3>5. QED  BY <3>2, <3>4
  <2>8. IsFiniteSet(DroppedIds) /\ Cardinality(DroppedIds) = Cardinality(dropped)
    <3> DEFINE f == [m \in dropped |-> m.id]
    <3>1. DOMAIN f = dropped /\ {f[m] : m \in dropped} = DroppedIds  BY DEF DroppedIds
    <3>2. \A m, n \in dropped : f[m] = f[n] => m = n  BY <2>2 DEF DroppedApart
    <3> HIDE DEF f
    <3>3. IsFiniteSet({f[m] : m \in dropped}) /\ Cardinality({f[m] : m \in dropped}) = Cardinality(dropped)
      <4>1. IsFiniteSet(dropped) /\ DOMAIN f = dropped  BY <2>3, <3>1
      <4>2. QED  BY <3>2, <4>1, ImageFinite
    <3>4. QED  BY <3>1, <3>3
  <2>9. /\ ArrivedIds \cap HandIds = {} /\ ArrivedIds \cap DroppedIds = {}
        /\ ArrivedIds \cap PieceIds = {} /\ HandIds \cap DroppedIds = {}
        /\ HandIds \cap PieceIds = {} /\ DroppedIds \cap PieceIds = {}
    BY <2>2, PlaceIds DEF Apart
  <2> DEFINE all == ((ArrivedIds \cup HandIds) \cup DroppedIds) \cup PieceIds
  <2>10. Cardinality(all) = (Len(delivered) + Len(queue)) + Cardinality(InHand)
                            + Cardinality(dropped) + Len(conn.pieces)
    BY <2>5, <2>6, <2>7, <2>8, <2>9, FourSets
  <2>11. {m.id : m \in Messages} = all
    <3>1. ToSet(conn.pieces) = {conn.pieces[i] : i \in 1 .. Len(conn.pieces)}
      BY <2>3, Members
    <3>2. ToSet(delivered \o queue) = ToSet(delivered) \cup ToSet(queue)
      BY <2>3, ConcatMembers
    <3>3. ToSet(delivered \o queue)
            = {(delivered \o queue)[i] : i \in 1 .. Len(delivered \o queue)}
      BY <2>4, Members
    <3>4. {m.id : m \in ToSet(conn.pieces)} = PieceIds
      BY <3>1 DEF PieceIds, IdsOf
    <3>5. {m.id : m \in ToSet(delivered) \cup ToSet(queue)} = ArrivedIds
      BY <3>2, <3>3 DEF ArrivedIds, IdsOf
    <3>6. {m.id : m \in {hand[r] : r \in InHand}} = HandIds  BY DEF HandIds
    <3>7. QED  BY <3>4, <3>5, <3>6 DEF Messages, DroppedIds
  <2>12. Cardinality(InHand) \in Nat /\ Cardinality(dropped) \in Nat
    <3>1. IsFiniteSet(InHand)  BY FS_Subset, PipelineAssumption DEF InHand
    <3>2. QED  BY <2>3, <3>1, FS_CardinalityType
  <2> DEFINE q == Len(queue)
             d == Len(delivered)
             p == Len(conn.pieces)
             x == Cardinality(dropped)
             h == Cardinality(InHand)
             count == q + d + p + x + h
  <2> HIDE DEF all
  <2>13. /\ q \in Nat /\ d \in Nat /\ p \in Nat /\ x \in Nat /\ h \in Nat
         /\ Cardinality(all) = (d + q) + h + x + p
         /\ kind # "syslog" => stats.received = q + d + x + h /\ p = 0
    <3>1. kind # "syslog" => Len(conn.pieces) = 0
      BY <2>1, NoConnTyped DEF PlacesTyped
    <3>2. QED  BY <2>2, <2>4, <2>6, <2>10, <2>12, <3>1 DEF AllCounted
  <2> HIDE DEF q, d, p, x, h
  <2>14. Cardinality(all) = count /\ (kind # "syslog" => stats.received = count)
    BY <2>13
  <2>15. TypeOK  BY IInvTypeOK
  <2> HIDE DEF count
  <2>16. QED  BY <2>11, <2>14, <2>15 DEF MessagesConserved, count, q, d, p, x, h
<1>2. QED  BY <1>1, CollectorsInvariant, PTL

-----------------------------------------------------------------------------
(* Every event sent once, in order *)

\* Events s and the refused ones are the events made and heartbeats, each once,
\* and those in s are in the order they were made in.
MadeInOrder(all, s, ref) ==
    /\ \A e : e \in ToSet(all) <=> (~IsBeat(e) /\ (e \in ToSet(s) \/ e \in ref))
    /\ Distinct(s) /\ ToSet(s) \cap ref = {}
    /\ \A i, j \in 1 .. Len(s) :
         i < j /\ ~IsBeat(s[i]) /\ ~IsBeat(s[j]) =>
           \E k, l \in 1 .. Len(all) : k < l /\ all[k] = s[i] /\ all[l] = s[j]

\* What was sent and after it the batch: the events made, in order.
LEMMA OrderKept ==
    ASSUME NEW E, NEW c, NEW all \in Seq(E), NEW bat \in Seq(E), NEW out \in Seq(E), NEW ref,
           BatchedAt(c, all, bat, out, ref), Once(out, ref), Distinct(all),
           \A k \in 1 .. Len(all) : ~IsBeat(all[k])
    PROVE  MadeInOrder(all, out \o bat, ref)
<1> DEFINE s == out \o bat
<1>1. /\ Len(s) = Len(out) + Len(bat) /\ Len(out) \in Nat /\ Len(bat) \in Nat
      /\ \A i \in 1 .. Len(out) + Len(bat) : s[i] = IF i <= Len(out) THEN out[i] ELSE bat[i - Len(out)]
  BY ConcatProperties
<1>2. /\ ToSet(s) = ToSet(out) \cup ToSet(bat)
      /\ ToSet(out) = {out[i] : i \in 1 .. Len(out)}
  BY ConcatMembers
<1>3. ToSet(bat) = {bat[i] : i \in 1 .. Len(bat)} /\ ToSet(all) = {all[i] : i \in 1 .. Len(all)}
  BY Members
<1>4. /\ c \in Nat /\ Len(all) = c + Len(bat)
      /\ \A i \in 1 .. Len(bat) : bat[i] = all[c + i]
      /\ \A k \in 1 .. c : all[k] \in ToSet(out) \cup ref
      /\ \A e \in ToSet(out) \cup ref : ~IsBeat(e) => \E k \in 1 .. c : all[k] = e
      /\ \A i, j \in 1 .. Len(out) :
           i < j /\ ~IsBeat(out[i]) /\ ~IsBeat(out[j]) =>
              \E k, l \in 1 .. c : k < l /\ all[k] = out[i] /\ all[l] = out[j]
  BY DEF BatchedAt
<1>5. /\ Distinct(bat) /\ \A i \in 1 .. Len(bat) : bat[i] \notin ToSet(out) \cup ref
      /\ \A i \in 1 .. Len(bat) : ~IsBeat(bat[i])
  BY Unsent
<1>6. Distinct(out) /\ ToSet(out) \cap ref = {}  BY DEF Once
<1>7. Distinct(s)
  <2>1. \A i \in 1 .. Len(out) : \A j \in 1 .. Len(bat) : out[i] # bat[j]  BY <1>2, <1>5
  <2>2. QED  BY <1>5, <1>6, <2>1, DistinctBehind
<1> HIDE DEF s
<1>8. ToSet(s) \cap ref = {}  BY <1>2, <1>3, <1>5, <1>6
<1>9. \A k \in 1 .. c : k \in 1 .. Len(all)  BY <1>1, <1>4
<1>10. \A i \in 1 .. Len(bat) : c + i \in 1 .. Len(all) /\ \A k \in 1 .. c : k < c + i
  BY <1>1, <1>4
<1>11. ASSUME NEW e \in ToSet(all) PROVE ~IsBeat(e) /\ (e \in ToSet(s) \/ e \in ref)
  <2>1. PICK k \in 1 .. Len(all) : e = all[k]  BY <1>3
  <2>2. CASE k <= c
    <3>1. k \in 1 .. c  BY <1>4, <2>2
    <3>2. QED  BY <1>2, <1>4, <2>1, <3>1
  <2>3. CASE ~(k <= c)
    <3>1. k - c \in 1 .. Len(bat) /\ c + (k - c) = k  BY <1>1, <1>4, <2>3
    <3>2. bat[k - c] = e  BY <1>4, <2>1, <3>1
    <3>3. QED  BY <1>2, <1>3, <2>1, <3>1, <3>2
  <2>4. QED  BY <2>2, <2>3
<1>12. ASSUME NEW e, ~IsBeat(e), e \in ToSet(s) \/ e \in ref PROVE e \in ToSet(all)
  <2>1. CASE e \in ToSet(out) \cup ref
    <3>1. PICK k \in 1 .. c : all[k] = e  BY <1>4, <1>12, <2>1
    <3>2. QED  BY <1>3, <1>9, <3>1
  <2>2. CASE e \in ToSet(bat)
    <3>1. PICK i \in 1 .. Len(bat) : e = bat[i]  BY <1>3, <2>2
    <3>2. QED  BY <1>3, <1>4, <1>10, <3>1
  <2>3. QED  BY <1>2, <1>12, <2>1, <2>2
<1>13. ASSUME NEW i \in 1 .. Len(s), NEW j \in 1 .. Len(s), i < j, ~IsBeat(s[i]), ~IsBeat(s[j])
       PROVE  \E k, l \in 1 .. Len(all) : k < l /\ all[k] = s[i] /\ all[l] = s[j]
  <2>1. CASE j <= Len(out)
    <3>1. i \in 1 .. Len(out) /\ j \in 1 .. Len(out)  BY <1>1, <1>13, <2>1
    <3>2. s[i] = out[i] /\ s[j] = out[j]  BY <1>1, <3>1
    <3>3. PICK k \in 1 .. c, l \in 1 .. c : k < l /\ all[k] = out[i] /\ all[l] = out[j]
      BY <1>4, <1>13, <3>1, <3>2
    <3>4. QED  BY <1>9, <3>2, <3>3
  <2>2. CASE i <= Len(out) /\ ~(j <= Len(out))
    <3>1. i \in 1 .. Len(out) /\ j - Len(out) \in 1 .. Len(bat)  BY <1>1, <2>2
    <3>2. s[i] = out[i] /\ s[j] = bat[j - Len(out)]  BY <1>1, <2>2
    <3>3. out[i] \in ToSet(out)  BY <1>2, <3>1
    <3>4. PICK k \in 1 .. c : all[k] = out[i]  BY <1>4, <1>13, <3>2, <3>3
    <3>5. bat[j - Len(out)] = all[c + (j - Len(out))]  BY <1>4, <3>1
    <3>6. k < c + (j - Len(out)) /\ c + (j - Len(out)) \in 1 .. Len(all) /\ k \in 1 .. Len(all)
      BY <1>9, <1>10, <3>1
    <3>7. QED  BY <3>2, <3>4, <3>5, <3>6
  <2>3. CASE ~(i <= Len(out))
    <3> DEFINE x == i - Len(out)
               y == j - Len(out)
    <3>1. x \in 1 .. Len(bat) /\ y \in 1 .. Len(bat) /\ x < y /\ ~(j <= Len(out))
      BY <1>1, <1>13, <2>3
    <3>2. s[i] = bat[x] /\ s[j] = bat[y]  BY <1>1, <2>3, <3>1
    <3> HIDE DEF x, y
    <3>3. bat[x] = all[c + x] /\ bat[y] = all[c + y]  BY <1>4, <3>1
    <3>4. c + x \in 1 .. Len(all) /\ c + y \in 1 .. Len(all) /\ c + x < c + y
      BY <1>4, <1>10, <3>1
    <3>5. QED  BY <3>2, <3>3, <3>4
  <2>4. QED  BY <2>1, <2>2, <2>3
<1>14. MadeInOrder(all, s, ref)  BY <1>7, <1>8, <1>11, <1>12, <1>13 DEF MadeInOrder
<1>15. QED  BY <1>14 DEF s

\* The events of the processing loop reach the broker in order, each once, and
\* the statistics agree.
THEOREM EventsKept == Spec => []EventsConserved
<1>1. IInv => EventsConserved
  <2> SUFFICES ASSUME IInv PROVE EventsConserved
    OBVIOUS
  <2>1. BooksTyped /\ EventsInv /\ delivered \in Seq(RawMessages(kind))
    BY DEF IInv, Typed, PlacesTyped
  <2>2. /\ made \in Seq(EventType) /\ batch \in Seq(EventType)
        /\ outq \in Seq(EventType) /\ settled \in Seq(EventType)
    BY <2>1 DEF BooksTyped
  <2>3. /\ Sent \in Seq(EventType) /\ Len(Sent) = Len(settled) + Len(outq)
    BY <2>2, ConcatProperties DEF Sent
  <2> DEFINE c == Len(made) - Len(batch)
             out == Sent \o batch
  <2>4. /\ BatchedAt(c, made, batch, Sent, refused) /\ Once(Sent, refused)
        /\ Distinct(made) /\ \A k \in 1 .. Len(made) : ~IsBeat(made[k])
    BY <2>1 DEF EventsInv, InBooks, MadeOnce
  <2> HIDE DEF c
  <2>5. MadeInOrder(made, out, refused)
    <3>1. made \in Seq(EventType) /\ batch \in Seq(EventType) /\ Sent \in Seq(EventType)
      BY <2>2, <2>3
    <3>2. QED  BY <2>4, <3>1, OrderKept
  <2>6. out \in Seq(EventType)  BY <2>2, <2>3, ConcatProperties
  <2> HIDE DEF out
  <2>7. DOMAIN out = 1 .. Len(out) /\ DOMAIN made = 1 .. Len(made)  BY <2>2, <2>6
  <2>8. ToSet(made) = FromLoop(ToSet(out) \cup refused)  BY <2>5 DEF FromLoop, IsBeat, MadeInOrder
  <2>9. IsInjective(made) /\ IsInjective(out)
    BY <2>4, <2>5, <2>7 DEF IsInjective, Distinct, MadeInOrder
  <2>10. ASSUME NEW i \in DOMAIN out, NEW j \in DOMAIN out,
                i < j, {out[i], out[j]} \subseteq ToSet(made)
         PROVE  \E k, l \in DOMAIN made : k < l /\ made[k] = out[i] /\ made[l] = out[j]
    <3>1. ~IsBeat(out[i]) /\ ~IsBeat(out[j])  BY <2>5, <2>10 DEF MadeInOrder
    <3>2. i \in 1 .. Len(out) /\ j \in 1 .. Len(out)  BY <2>7
    <3>3. PICK k \in 1 .. Len(made), l \in 1 .. Len(made) :
            k < l /\ made[k] = out[i] /\ made[l] = out[j]
      BY <2>5, <2>10, <3>1, <3>2 DEF MadeInOrder
    <3>4. QED  BY <2>7, <3>3
  <2>11. InOrder
    <3>1. ToSet(out) \cap refused = {}  BY <2>5 DEF MadeInOrder
    <3>2. QED  BY <2>8, <2>9, <2>10, <3>1 DEF InOrder, out
  <2>12. StatsAgree
    <3>1. Tally(kind, stats, pstats, delivered, made, Sent, refused)  BY <2>1 DEF EventsInv
    <3>2. QED  BY <2>3, <3>1 DEF Tally, StatsAgree
  <2>13. QED  BY <2>11, <2>12 DEF EventsConserved
<1>2. QED  BY <1>1, CollectorsInvariant, PTL

-----------------------------------------------------------------------------
(* NetFlow records have layouts of their own *)

\* What Announced says and what the pairs say.
LEMMA AnnouncedPairs ==
    ASSUME NEW v, NEW x, NEW i
    PROVE  \A l : l \in Announced(v, x, i) <=> <<x, l>> \in Pairs(delivered, v, i)
BY DEF Announced, Pairs, Defs

\* A record is decoded with a layout announced for its id in its version, since
\* the last start() if its packet was popped since.
THEOREM RecordsKeepLayout == Spec => []RecordsOwnLayout
<1>1. IInv => RecordsOwnLayout
  <2> SUFFICES ASSUME IInv, kind = "netflow", NEW i \in DOMAIN made
               PROVE  LET r == made[i].data
                          from == CHOOSE j \in DOMAIN delivered :
                                    delivered[j].id[1] = made[i].src[1]
                          known == Announced(r.version, r.id, 1)
                      IN  r.version # 5 =>
                            /\ r.used \in known
                            /\ known = {r.sent} => r.used = r.sent
                            /\ from > templates.since =>
                                 r.used \in Announced(r.version, r.id, templates.since + 1)
    BY DEF RecordsOwnLayout
  <2>1. /\ delivered \in Seq(RawMessages(kind)) /\ made \in Seq(EventType)
        /\ templates.since \in 0 .. Len(delivered)
        /\ RecordsKnown /\ EventsInv
    BY DEF IInv, Typed, PlacesTyped, BooksTyped, TemplatesTyped
  <2>2. i \in 1 .. Len(made) /\ DOMAIN delivered = 1 .. Len(delivered) /\ Len(delivered) \in Nat
    BY <2>1
  <2> DEFINE r == made[i].data
             from == CHOOSE j \in DOMAIN delivered : delivered[j].id[1] = made[i].src[1]
             s == templates.since
  <2>3. SUFFICES ASSUME r.version # 5
                 PROVE  /\ r.used \in Announced(r.version, r.id, 1)
                        /\ Announced(r.version, r.id, 1) = {r.sent} => r.used = r.sent
                        /\ from > s => r.used \in Announced(r.version, r.id, s + 1)
    OBVIOUS
  <2>4. /\ <<r.id, r.used>> \in Pairs(delivered, r.version, 1)
        /\ \A j \in s + 1 .. Len(delivered) :
             delivered[j].id[1] = made[i].src[1] =>
               <<r.id, r.used>> \in Pairs(delivered, r.version, s + 1)
    BY <2>1, <2>2, <2>3 DEF RecordsKnown
  <2>5. r.used \in Announced(r.version, r.id, 1)
    <3> HIDE DEF r
    <3>1. QED  BY <2>4, AnnouncedPairs
  <2>6. \E j \in DOMAIN delivered : delivered[j].id[1] = made[i].src[1]
    <3>1. PICK j \in 1 .. Len(delivered) : delivered[j].id = Origin(kind, made[i].src)
      BY <2>1, <2>2 DEF EventsInv, MadeOnce
    <3>2. delivered[j].id[1] = made[i].src[1]  BY <3>1 DEF Origin
    <3>3. QED  BY <2>2, <3>1, <3>2
  <2>7. from \in DOMAIN delivered /\ delivered[from].id[1] = made[i].src[1]
    BY <2>6
  <2>8. ASSUME from > s PROVE r.used \in Announced(r.version, r.id, s + 1)
    <3>1. from \in s + 1 .. Len(delivered)
      <4> HIDE DEF from
      <4>1. QED  BY <2>1, <2>2, <2>7, <2>8
    <3> HIDE DEF r, from
    <3>2. <<r.id, r.used>> \in Pairs(delivered, r.version, s + 1)  BY <2>4, <2>7, <3>1
    <3> HIDE DEF s
    <3>3. QED  BY <3>2, AnnouncedPairs
  <2> HIDE DEF r, from, s
  <2>9. QED  BY <2>5, <2>8
<1>2. QED  BY <1>1, CollectorsInvariant, PTL

-----------------------------------------------------------------------------
(* TCP lines *)

\* The place in its line of the ith symbol of message m.
At(m, i) == m.id[2] + i - 1

\* The symbols of m are those of line l, and were read: ids are to be read.
Stands(l, m, ids) ==
    \A i \in DOMAIN m.body : /\ At(m, i) \in DOMAIN l.text /\ m.body[i] = l.text[At(m, i)]
                             /\ <<l.line, At(m, i)>> \notin ids

\* One of the messages ms has the symbol at place p of line l.
Holds(ms, l, p) ==
    \E m \in ms : m.id[1] = l.line /\ \E i \in DOMAIN m.body : At(m, i) = p

\* Two messages of one line have no place in common.
NoOverlap(m, n) == \A i \in DOMAIN m.body, j \in DOMAIN n.body : At(m, i) = At(n, j) => m = n

\* The messages ms have of line l what is not to be read any more.
Framed(l, ms, ids) ==
    /\ \A m \in ms : m.id[1] = l.line => Stands(l, m, ids)
    /\ \A p \in DOMAIN l.text : <<l.line, p>> \in ids \/ Holds(ms, l, p)
    /\ \A m, n \in ms : m.id[1] = l.line /\ n.id[1] = l.line => NoOverlap(m, n)

\* The cell c is one of line l, or its newline.
CellOf(c, l) ==
    c.line = l.line /\ c.sym = IF c.pos > Len(l.text) THEN Newline ELSE l.text[c.pos]

\* A stream is made of the lines, and has each from some place to its end.
Streamed(lines, stream) ==
    /\ \A i \in 1 .. Len(stream) : \E l \in lines : CellOf(stream[i], l)
    /\ \A i \in 1 .. Len(stream) - 1 : stream[i].sym # Newline =>
         stream[i + 1].line = stream[i].line /\ stream[i + 1].pos = stream[i].pos + 1
    /\ Len(stream) > 0 => stream[Len(stream)].sym = Newline

\* No line has the number of another, of a datagram, or of what is to come.
LineKept(l) ==
    /\ l.line <= inputs /\ \A m \in ToSet(conn.sent) : m.line = l.line => m = l
    /\ \A m \in ToSet(socket) : m.id[1] # l.line

FramingInv ==
    /\ \A l \in ToSet(conn.sent) : LineKept(l) /\ Framed(l, Messages, StreamIds)
    /\ Streamed(ToSet(conn.sent), conn.stream)

\* Members of longer and shorter sequences.
LEMMA MembersMove ==
    ASSUME NEW S, NEW s \in Seq(S)
    PROVE  /\ \A x \in S : ToSet(Append(s, x)) = ToSet(s) \cup {x}
           /\ s # << >> => ToSet(s) = ToSet(Tail(s)) \cup {Head(s)}
<1>1. ASSUME NEW x \in S PROVE ToSet(Append(s, x)) = ToSet(s) \cup {x}
  <2> DEFINE t == Append(s, x)
  <2>1. /\ t \in Seq(S) /\ Len(t) = Len(s) + 1 /\ Len(s) \in Nat /\ t[Len(s) + 1] = x
        /\ \A i \in 1 .. Len(s) : t[i] = s[i]
    BY AppendEffect
  <2> HIDE DEF t
  <2>2. /\ ToSet(t) = {t[i] : i \in 1 .. Len(t)} /\ ToSet(s) = {s[i] : i \in 1 .. Len(s)}
    BY <2>1, Members
  <2>3. 1 .. Len(t) = (1 .. Len(s)) \cup {Len(s) + 1}  BY <2>1
  <2>4. ToSet(t) = ToSet(s) \cup {x}  BY <2>1, <2>2, <2>3
  <2>5. QED  BY <2>4 DEF t
<1>2. ASSUME s # << >> PROVE ToSet(s) = ToSet(Tail(s)) \cup {Head(s)}
  <2> DEFINE t == Tail(s)
  <2>1. /\ t \in Seq(S) /\ Len(t) = Len(s) - 1 /\ Len(s) \in Nat \ {0} /\ Head(s) = s[1]
        /\ \A i \in 1 .. Len(s) - 1 : t[i] = s[i + 1]
    BY <1>2, HeadTail
  <2> HIDE DEF t
  <2>2. /\ ToSet(t) = {t[i] : i \in 1 .. Len(t)} /\ ToSet(s) = {s[i] : i \in 1 .. Len(s)}
    BY <2>1, Members
  <2>3. ASSUME NEW i \in 1 .. Len(t) PROVE t[i] \in ToSet(s)
    <3>1. i + 1 \in 1 .. Len(s) /\ t[i] = s[i + 1]  BY <2>1
    <3>2. QED  BY <2>2, <3>1
  <2>4. ASSUME NEW i \in 1 .. Len(s), i # 1 PROVE s[i] \in ToSet(t)
    <3>1. i - 1 \in 1 .. Len(t) /\ (i - 1) + 1 = i  BY <2>1, <2>4
    <3>2. t[i - 1] = s[i]  BY <2>1, <3>1
    <3>3. QED  BY <2>2, <3>1, <3>2
  <2>5. 1 \in 1 .. Len(s)  BY <2>1
  <2>6. ToSet(s) = ToSet(t) \cup {Head(s)}  BY <2>1, <2>2, <2>3, <2>4, <2>5
  <2>7. QED  BY <2>6 DEF t
<1>3. QED  BY <1>1, <1>2

\* Messages of other lines do not matter.
LEMMA FramedStill ==
    ASSUME NEW l, NEW ms, NEW ns, NEW ids, Framed(l, ms, ids), ms \subseteq ns,
           \A m \in ns : m.id[1] = l.line => m \in ms
    PROVE  Framed(l, ns, ids)
BY DEF Framed, Holds

\* Nothing is read of the connection and no line comes.
LEMMA FramingStill ==
    ASSUME FramingInv, inputs \in Nat, inputs' \in {inputs, inputs + 1},
           Messages \subseteq Messages',
           \A m \in Messages' : m \in Messages \/ m \in ToSet(socket) \/ m.id[1] = inputs + 1,
           \A m \in ToSet(socket') : m \in ToSet(socket) \/ m.id[1] = inputs + 1,
           \/ conn'.stream = conn.stream /\ conn'.sent = conn.sent
           \/ conn'.stream = << >> /\ conn'.sent = << >>,
           conn.sent \in Seq(Lines)
    PROVE  FramingInv'
<1>1. CASE conn'.stream = << >> /\ conn'.sent = << >>
  <2>1. ToSet(conn'.sent) = {}  BY <1>1 DEF ToSet
  <2>2. Len(conn'.stream) = 0  BY <1>1
  <2>3. Streamed(ToSet(conn'.sent), conn'.stream)  BY <2>2 DEF Streamed
  <2>4. QED  BY <2>1, <2>3 DEF FramingInv
<1>2. CASE conn'.stream = conn.stream /\ conn'.sent = conn.sent
  <2>1. StreamIds' = StreamIds  BY <1>2 DEF StreamIds
  <2>2. ASSUME NEW l \in ToSet(conn.sent) PROVE LineKept(l)' /\ Framed(l, Messages', StreamIds)
    <3>1. LineKept(l) /\ Framed(l, Messages, StreamIds) /\ l \in Lines
      BY Members DEF FramingInv
    <3>2. l.line \in Nat /\ l.line # inputs + 1  BY <3>1 DEF LineKept, Lines
    <3>3. \A m \in Messages' : m.id[1] = l.line => m \in Messages
      BY <3>1, <3>2 DEF LineKept
    <3>4. Framed(l, Messages', StreamIds)  BY <3>1, <3>3, FramedStill
    <3>5. l.line <= inputs'  BY <3>1, <3>2 DEF LineKept
    <3>6. LineKept(l)'  BY <1>2, <3>1, <3>2, <3>5 DEF LineKept
    <3>7. QED  BY <3>4, <3>6
  <2>3. QED  BY <1>2, <2>1, <2>2 DEF FramingInv
<1>3. QED  BY <1>1, <1>2

\* A message from elsewhere joins a receiver's hand.
LEMMA FramingTaken ==
    ASSUME Typed, FramingInv, kind' = kind, NEW r \in Receivers, NEW m, Taken(r, m),
           \/ Input(m) /\ socket' = socket
           \/ /\ socket # << >> /\ m = Head(socket) /\ socket' = Tail(socket)
              /\ inputs' = inputs
    PROVE  FramingInv'
<1>1. /\ hand \in [Receivers -> RawMessages(kind) \cup {NoMsg}] /\ inputs \in Nat
      /\ socket \in Seq(RawMessages(kind)) /\ conn \in Conns
  BY DEF Typed, ControlTyped, PlacesTyped
<1>2. /\ hand[r] = NoMsg /\ m \in RawMessages(kind) /\ hand' = [hand EXCEPT ![r] = m]
      /\ queue' = queue /\ delivered' = delivered /\ dropped' = dropped /\ conn' = conn
  BY DEF Taken
<1>3. m # NoMsg  BY <1>2, NoMsgIsNone
<1>4. /\ hand'[r] = m /\ \A q \in Receivers : q # r => hand'[q] = hand[q]
  BY <1>1, <1>2
<1>5. InHand' = InHand \cup {r} /\ r \notin InHand  BY <1>2, <1>3, <1>4 DEF InHand
<1>6. {hand'[q] : q \in InHand'} = {hand[q] : q \in InHand} \cup {m}
  BY <1>4, <1>5 DEF InHand
<1>7. Messages' = Messages \cup {m}  BY <1>2, <1>6 DEF Messages
<1>8. /\ m \in ToSet(socket) \/ m.id[1] = inputs + 1
      /\ ToSet(socket') \subseteq ToSet(socket) /\ inputs' \in {inputs, inputs + 1}
  <2>1. CASE Input(m) /\ socket' = socket  BY <2>1 DEF Input
  <2>2. CASE socket # << >> /\ m = Head(socket) /\ socket' = Tail(socket) /\ inputs' = inputs
    BY <1>1, <2>2, MembersMove
  <2>3. QED  BY <2>1, <2>2
<1>9. conn.sent \in Seq(Lines)  BY <1>1, ConnFields
<1>10. QED  BY <1>1, <1>2, <1>7, <1>8, <1>9, FramingStill

\* A message from a hand or of the connection goes to the ring or is dropped.
LEMMA LeavesMembers ==
    ASSUME PlacesTyped, NEW m \in RawMessages(kind), Leaves(m)
    PROVE  ToSet(queue') \cup ToSet(delivered') \cup dropped'
             = (ToSet(queue) \cup ToSet(delivered) \cup dropped) \cup {m}
<1>1. queue \in Seq(RawMessages(kind))  BY DEF PlacesTyped
<1>2. CASE dropped' = dropped \cup {m} /\ UNCHANGED <<queue, delivered>>  BY <1>2
<1>3. CASE Ring!Put(m) /\ UNCHANGED dropped
  <2>1. queue' = Append(queue, m) /\ delivered' = delivered  BY <1>3 DEF Ring!Put
  <2>2. ToSet(Append(queue, m)) = ToSet(queue) \cup {m}  BY <1>1, MembersMove
  <2>3. QED  BY <1>3, <2>1, <2>2
<1>4. QED  BY <1>2, <1>3 DEF Leaves

LEMMA FramingPushed ==
    ASSUME Typed, FramingInv, kind' = kind, NEW r \in Receivers, hand[r] # NoMsg,
           Leaves(hand[r]), hand' = [hand EXCEPT ![r] = NoMsg],
           UNCHANGED <<conn, socket, inputs>>
    PROVE  FramingInv'
<1>1. /\ hand \in [Receivers -> RawMessages(kind) \cup {NoMsg}] /\ inputs \in Nat
      /\ conn \in Conns /\ PlacesTyped
  BY DEF Typed, ControlTyped, PlacesTyped
<1>2. hand[r] \in RawMessages(kind)  BY <1>1
<1>3. ToSet(queue') \cup ToSet(delivered') \cup dropped'
        = (ToSet(queue) \cup ToSet(delivered) \cup dropped) \cup {hand[r]}
  BY <1>1, <1>2, LeavesMembers
<1>4. hand'[r] = NoMsg /\ \A q \in Receivers : q # r => hand'[q] = hand[q]  BY <1>1
<1>5. InHand = InHand' \cup {r} /\ r \notin InHand'  BY <1>4 DEF InHand
<1>6. {hand[q] : q \in InHand} = {hand'[q] : q \in InHand'} \cup {hand[r]}
  BY <1>4, <1>5 DEF InHand
<1>7. Messages' = Messages  BY <1>3, <1>6 DEF Messages
<1>8. conn.sent \in Seq(Lines)  BY <1>1, ConnFields
<1>9. QED  BY <1>1, <1>7, <1>8, FramingStill

\* The handler pushes a piece, or drops it.
LEMMA FramingHandled ==
    ASSUME Typed, FramingInv, kind' = kind, HandlerPushes
    PROVE  FramingInv'
<1>1. inputs \in Nat /\ conn \in Conns /\ PlacesTyped  BY DEF Typed, PlacesTyped
<1>2. Pushes  BY <1>1, HandlerPushesEffect
<1>3. conn.pieces \in Seq(RawMessages("syslog")) /\ conn.sent \in Seq(Lines)
  BY <1>1, ConnFields
<1>4. /\ kind = "syslog" /\ conn.pieces # << >> /\ conn'.pieces = Tail(conn.pieces)
      /\ \/ conn'.stream = conn.stream /\ conn'.sent = conn.sent
         \/ conn'.stream = << >> /\ conn'.sent = << >>
  BY <1>2 DEF Pushes
<1> DEFINE m == Head(conn.pieces)
<1>5. m \in RawMessages(kind) /\ ToSet(conn.pieces) = ToSet(conn'.pieces) \cup {m}
  BY <1>3, <1>4, HeadTail, MembersMove
<1>6. Leaves(m)  BY DEF HandlerPushes, Leaves, ringVars
<1>7. hand' = hand /\ socket' = socket /\ inputs' = inputs
  BY DEF HandlerPushes, ConnStep, threadVars
<1> HIDE DEF m
<1>8. ToSet(queue') \cup ToSet(delivered') \cup dropped'
        = (ToSet(queue) \cup ToSet(delivered) \cup dropped) \cup {m}
  BY <1>1, <1>5, <1>6, LeavesMembers
<1>9. InHand' = InHand  BY <1>7 DEF InHand
<1>10. Messages' = Messages  BY <1>5, <1>7, <1>8, <1>9 DEF Messages
<1>11. QED  BY <1>1, <1>3, <1>4, <1>7, <1>10, FramingStill

\* Messages that move within the ring, datagrams that come, sockets that open
\* and close.
LEMMA FramingElsewhere ==
    ASSUME Typed, FramingInv, kind' = kind,
           \/ Still
           \/ Ring!Take /\ UNCHANGED <<dropped, hand, conn, socket, inputs>>
           \/ /\ \E m : Input(m) /\ socket' = Append(socket, m)
              /\ UNCHANGED <<queue, delivered, dropped, hand, conn>>
    PROVE  FramingInv'
<1>1. /\ inputs \in Nat /\ conn \in Conns
      /\ queue \in Seq(RawMessages(kind)) /\ delivered \in Seq(RawMessages(kind))
      /\ socket \in Seq(RawMessages(kind))
  BY DEF Typed, PlacesTyped
<1>2. conn.sent \in Seq(Lines)  BY <1>1, ConnFields
<1>3. CASE Still
  <2>1. /\ queue' = queue /\ delivered' = delivered /\ dropped' = dropped /\ hand' = hand
        /\ inputs' = inputs /\ conn'.pieces = conn.pieces /\ socket' \in {socket, << >>}
        /\ \/ conn'.stream = conn.stream /\ conn'.sent = conn.sent
           \/ conn'.stream = << >> /\ conn'.sent = << >>
    BY <1>3 DEF Still, ConnCalm
  <2>2. Messages' = Messages  BY <2>1 DEF Messages, InHand
  <2>3. ToSet(socket') \subseteq ToSet(socket)  BY <2>1 DEF ToSet
  <2>4. QED  BY <1>1, <1>2, <2>1, <2>2, <2>3, FramingStill
<1>4. CASE Ring!Take /\ UNCHANGED <<dropped, hand, conn, socket, inputs>>
  <2>1. queue # << >> /\ queue' = Tail(queue) /\ delivered' = Append(delivered, Head(queue))
    BY <1>4 DEF Ring!Take
  <2>2. Head(queue) \in RawMessages(kind)  BY <1>1, <2>1, HeadTail
  <2>3. ToSet(delivered') = ToSet(delivered) \cup {Head(queue)}  BY <1>1, <2>1, <2>2, MembersMove
  <2>4. ToSet(queue) = ToSet(queue') \cup {Head(queue)}  BY <1>1, <2>1, MembersMove
  <2>5. Messages' = Messages  BY <1>4, <2>3, <2>4 DEF Messages, InHand
  <2>6. QED  BY <1>1, <1>2, <1>4, <2>5, FramingStill
<1>5. CASE /\ \E m : Input(m) /\ socket' = Append(socket, m)
           /\ UNCHANGED <<queue, delivered, dropped, hand, conn>>
  <2>1. PICK m : Input(m) /\ socket' = Append(socket, m)  BY <1>5
  <2>2. m \in RawMessages(kind) /\ m.id[1] = inputs + 1 /\ inputs' = inputs + 1
    BY <2>1 DEF Input
  <2>3. ToSet(socket') = ToSet(socket) \cup {m}  BY <1>1, <2>1, <2>2, MembersMove
  <2>4. Messages' = Messages  BY <1>5 DEF Messages, InHand
  <2>5. QED  BY <1>1, <1>2, <1>5, <2>2, <2>3, <2>4, FramingStill
<1>6. QED  BY <1>3, <1>4, <1>5

\* The messages that are somewhere came with an input there was.
LEMMA MessagesBounded ==
    ASSUME Typed, IdsBounded
    PROVE  \A m \in Messages \cup ToSet(socket) : m.id[1] <= inputs
<1>1. /\ queue \in Seq(RawMessages(kind)) /\ delivered \in Seq(RawMessages(kind))
      /\ socket \in Seq(RawMessages(kind)) /\ conn \in Conns
  BY DEF Typed, PlacesTyped
<1>2. conn.pieces \in Seq(RawMessages("syslog"))  BY <1>1, ConnFields
<1>3. \A i \in 1 .. 6 : \A x \in IdSets[i] : x[1] <= inputs  BY DEF IdsBounded
<1>4. \A x \in ArrivedIds \cup HandIds \cup DroppedIds \cup PieceIds \cup SocketIds : x[1] <= inputs
  BY <1>3, PlaceIds
<1>5. ASSUME NEW S, NEW s \in Seq(S), NEW m \in ToSet(s) PROVE m.id \in IdsOf(s)
  BY Members DEF IdsOf
<1>6. ASSUME NEW m \in ToSet(queue) \cup ToSet(delivered) PROVE m.id \in ArrivedIds
  <2>1. ToSet(delivered \o queue) = ToSet(delivered) \cup ToSet(queue)  BY <1>1, ConcatMembers
  <2>2. delivered \o queue \in Seq(RawMessages(kind))  BY <1>1, Arrive
  <2>3. m \in ToSet(delivered \o queue)  BY <2>1
  <2>4. m.id \in IdsOf(delivered \o queue)  BY <1>5, <2>2, <2>3
  <2>5. QED  BY <2>4 DEF ArrivedIds
<1>7. ASSUME NEW m \in ToSet(conn.pieces) PROVE m.id \in PieceIds  BY <1>2, <1>5 DEF PieceIds
<1>8. ASSUME NEW m \in ToSet(socket) PROVE m.id \in SocketIds  BY <1>1, <1>5 DEF SocketIds
<1>9. ASSUME NEW m \in dropped PROVE m.id \in DroppedIds  BY DEF DroppedIds
<1>10. ASSUME NEW r \in InHand PROVE hand[r].id \in HandIds  BY DEF HandIds
<1>11. QED  BY <1>4, <1>6, <1>7, <1>8, <1>9, <1>10 DEF Messages

\* Behind the first a places of t are the cells of the line l with number n.
LineCells(t, a, c, l, n) ==
    \A i \in 1 .. c + 1 : /\ t[a + i].line = n /\ t[a + i].pos = i
                          /\ t[a + i].sym = IF i > c THEN Newline ELSE l[i]
LastCell(t, a, c) == c + 1 \in 1 .. c + 1 /\ a + (c + 1) = Len(t) /\ c + 1 > c

\* A line more behind the stream.
LEMMA StreamedMore ==
    ASSUME NEW lines, NEW s, NEW t, NEW l, NEW n, NEW a \in Nat, NEW c \in Nat,
           Streamed(lines, s), Len(s) = a, Len(l) = c, Len(t) = a + c + 1,
           \A i \in 1 .. a : t[i] = s[i], LineCells(t, a, c, l, n)
    PROVE  Streamed(lines \cup {[line |-> n, text |-> l]}, t)
<1> DEFINE new == [line |-> n, text |-> l]
<1>1. Len(t) = a + c + 1 /\ \A i \in 1 .. a : t[i] = s[i]  OBVIOUS
<1>c. \A i \in 1 .. c + 1 : /\ t[a + i].line = n /\ t[a + i].pos = i
                            /\ t[a + i].sym = IF i > c THEN Newline ELSE l[i]
  BY DEF LineCells
<1>2. /\ \A i \in 1 .. a : \E x \in lines : CellOf(s[i], x)
      /\ \A i \in 1 .. a - 1 : s[i].sym # Newline =>
           s[i + 1].line = s[i].line /\ s[i + 1].pos = s[i].pos + 1
      /\ a > 0 => s[a].sym = Newline
  BY DEF Streamed
<1>3. new.line = n /\ new.text = l /\ Len(new.text) = c  OBVIOUS
<1> HIDE DEF new
<1>4. ASSUME NEW i \in 1 .. Len(t) PROVE \E x \in lines \cup {new} : CellOf(t[i], x)
  <2>1. CASE i <= a
    <3>1. i \in 1 .. a  BY <1>1, <2>1
    <3>2. QED  BY <1>1, <1>2, <3>1
  <2>2. CASE ~(i <= a)
    <3>1. i - a \in 1 .. c + 1 /\ a + (i - a) = i  BY <1>1, <2>2
    <3>2. /\ t[i].line = n /\ t[i].pos = i - a
          /\ t[i].sym = IF i - a > c THEN Newline ELSE l[i - a]
      BY <1>c, <3>1
    <3>3. CellOf(t[i], new)  BY <1>3, <3>2 DEF CellOf
    <3>4. QED  BY <3>3
  <2>3. QED  BY <2>1, <2>2
<1>5. ASSUME NEW i \in 1 .. Len(t) - 1, t[i].sym # Newline
      PROVE  t[i + 1].line = t[i].line /\ t[i + 1].pos = t[i].pos + 1
  <2>1. CASE i < a
    <3>1. i \in 1 .. a - 1 /\ i \in 1 .. a /\ i + 1 \in 1 .. a  BY <1>1, <2>1
    <3>2. QED  BY <1>1, <1>2, <1>5, <3>1
  <2>2. CASE i = a
    <3>1. a \in 1 .. a /\ a > 0  BY <1>1, <2>2
    <3>2. t[i].sym = Newline  BY <1>1, <1>2, <2>2, <3>1
    <3>3. QED  BY <1>5, <3>2
  <2>3. CASE i > a
    <3> DEFINE j == i - a
    <3>1. j \in 1 .. c + 1 /\ j + 1 \in 1 .. c + 1 /\ a + j = i /\ a + (j + 1) = i + 1
      BY <1>1, <2>3
    <3> HIDE DEF j
    <3>2. t[a + j].line = n /\ t[a + j].pos = j  BY <1>c, <3>1
    <3>3. t[a + (j + 1)].line = n /\ t[a + (j + 1)].pos = j + 1  BY <1>c, <3>1
    <3>4. QED  BY <3>1, <3>2, <3>3
  <2>4. QED  BY <1>1, <2>1, <2>2, <2>3
<1>6. t[Len(t)].sym = Newline
  <2>1. LastCell(t, a, c)  BY <1>1 DEF LastCell
  <2>2. t[a + (c + 1)].sym = Newline  BY <1>c, <2>1 DEF LastCell
  <2>3. QED  BY <2>1, <2>2 DEF LastCell
<1>7. QED  BY <1>4, <1>5, <1>6 DEF Streamed, new

\* The peer sends a line.
LEMMA FramingSent ==
    ASSUME Typed, MessagesInv, FramingInv, kind' = kind, PeerSends
    PROVE  FramingInv'
<1>1. inputs \in Nat /\ conn \in Conns /\ PlacesTyped  BY DEF Typed, PlacesTyped
<1>2. PICK l \in TcpLines :
         /\ conn' \in Conns /\ conn'.pieces = conn.pieces
         /\ conn'.stream = conn.stream \o NewCells(l, inputs + 1)
         /\ conn'.sent = Append(conn.sent, [line |-> inputs + 1, text |-> l])
         /\ inputs' = inputs + 1 /\ inputs + 1 \in Nat \ {0}
  BY <1>1, PeerSendsEffect
<1> PICK n \in Nat \ {0} : n = inputs + 1  BY <1>2
<1> DEFINE s == conn.stream
           t == s \o NewCells(l, n)
           new == [line |-> n, text |-> l]
<1>3. s \in Seq(Cells) /\ conn.sent \in Seq(Lines) /\ conn'.stream \in Seq(Cells)
  BY <1>1, <1>2, ConnFields
<1>4. UNCHANGED <<queue, delivered, dropped, hand, socket>>
  BY DEF PeerSends, ConnStep, threadVars, ringVars
<1>5. Messages' = Messages  BY <1>2, <1>4 DEF Messages, InHand
<1>6. \A m \in Messages \cup ToSet(socket) : m.id[1] <= inputs
  BY MessagesBounded DEF MessagesInv
<1>7. new \in Lines /\ n \in Nat \ {0} /\ ~(n <= inputs) /\ inputs <= n
  BY <1>1, <1>2 DEF Lines
<1>8. ToSet(conn'.sent) = ToSet(conn.sent) \cup {new}
  BY <1>2, <1>3, <1>7, MembersMove
<1>9. /\ CellsApart(s) /\ \A x \in CellIds(s) : x[1] <= inputs
  <2>1. \A x \in IdSets[6] : x[1] <= inputs  BY DEF MessagesInv, IdsBounded
  <2>2. \A x \in CellIds(s) : x[1] <= inputs  BY <2>1, PlaceIds DEF StreamIds
  <2>3. QED  BY <2>2 DEF MessagesInv, PlacesApart
<1>10. \A x \in CellIds(s) : x[1] # n  BY <1>7, <1>9
<1>11. conn'.stream = t /\ inputs' = n  BY <1>2
<1> HIDE DEF s
<1>12. /\ CellIds(t) = CellIds(s) \cup CellIds(NewCells(l, n))
       /\ \A x \in CellIds(NewCells(l, n)) : x[1] = n
       /\ \A i \in 1 .. Len(s) : t[i] = s[i]
       /\ \A i \in 1 .. Len(l) + 1 : t[Len(s) + i] = NewCells(l, n)[i]
       /\ Len(t) = Len(s) + Len(l) + 1
  <2>1. s \in Seq(Cells) /\ n \in Nat \ {0} /\ CellsApart(s) /\ \A x \in CellIds(s) : x[1] # n
    BY <1>3, <1>7, <1>9, <1>10
  <2>2. QED  BY <2>1, CellsBehind
<1> HIDE DEF t
<1>13. StreamIds = CellIds(s) /\ StreamIds' = CellIds(t)  BY <1>11 DEF StreamIds, s
<1>14. ASSUME NEW x \in ToSet(conn.sent)
       PROVE  LineKept(x)' /\ Framed(x, Messages, StreamIds')
  <2>1. LineKept(x) /\ Framed(x, Messages, StreamIds) /\ x \in Lines
    BY <1>3, Members DEF FramingInv
  <2>2. x.line \in Nat /\ x.line <= inputs /\ x.line # n  BY <1>7, <2>1 DEF LineKept, Lines
  <2>3. \A p : <<x.line, p>> \in StreamIds' <=> <<x.line, p>> \in StreamIds
    BY <1>12, <1>13, <2>2
  <2>4. Framed(x, Messages, StreamIds')  BY <2>1, <2>3 DEF Framed, Stands
  <2>5. x.line <= n  BY <1>1, <1>7, <2>2
  <2>6. LineKept(x)'  BY <1>4, <1>8, <1>11, <2>1, <2>2, <2>5 DEF LineKept
  <2>7. QED  BY <2>4, <2>6
<1>15. LineKept(new)' /\ Framed(new, Messages, StreamIds')
  <2>1. \A m \in Messages \cup ToSet(socket) : m.id[1] # n  BY <1>6, <1>7
  <2>2. \A x \in ToSet(conn.sent) : x.line # n
    <3>1. \A x \in ToSet(conn.sent) : x.line <= inputs  BY DEF FramingInv, LineKept
    <3>2. QED  BY <1>7, <3>1
  <2>3. n <= n /\ new.line = n /\ new.text = l  BY <1>7
  <2> HIDE DEF new
  <2>4. LineKept(new)'
    <3>1. new.line <= inputs'  BY <1>11, <2>3
    <3>2. \A m \in ToSet(conn.sent)' : m.line = new.line => m = new  BY <1>8, <2>2, <2>3
    <3>3. \A m \in ToSet(socket)' : m.id[1] # new.line  BY <1>4, <2>1, <2>3
    <3>4. QED  BY <3>1, <3>2, <3>3 DEF LineKept, new
  <2>5. ASSUME NEW p \in DOMAIN l PROVE <<n, p>> \in StreamIds'
    <3>1. p \in 1 .. Len(l) + 1 /\ Len(NewCells(l, n)) = Len(l) + 1
          /\ NewCells(l, n)[p] = [line |-> n, pos |-> p,
                                  sym |-> IF p > Len(l) THEN Newline ELSE l[p]]
      BY <1>7, NewCellsTyped
    <3>2. <<n, p>> = CellId(NewCells(l, n)[p])  BY <3>1 DEF CellId
    <3>3. <<n, p>> \in CellIds(NewCells(l, n))  BY <3>1, <3>2 DEF CellIds
    <3>4. QED  BY <1>12, <1>13, <3>3
  <2>6. Framed(new, Messages, StreamIds')  BY <2>1, <2>3, <2>5 DEF Framed
  <2>7. QED  BY <2>4, <2>6
<1>16. Streamed(ToSet(conn.sent) \cup {new}, t)
  <2>1. Streamed(ToSet(conn.sent), s)  BY DEF FramingInv, s
  <2>2. /\ \A i \in 1 .. Len(l) + 1 : NewCells(l, n)[i] =
             [line |-> n, pos |-> i, sym |-> IF i > Len(l) THEN Newline ELSE l[i]]
        /\ Len(l) \in Nat
    BY NewCellsTyped
  <2>3. LineCells(t, Len(s), Len(l), l, n)
    <3>1. \A i \in 1 .. Len(l) + 1 :
            t[Len(s) + i] = [line |-> n, pos |-> i, sym |-> IF i > Len(l) THEN Newline ELSE l[i]]
      BY <1>12, <2>2
    <3> SUFFICES ASSUME NEW i \in 1 .. Len(l) + 1
                 PROVE  /\ t[Len(s) + i].line = n /\ t[Len(s) + i].pos = i
                        /\ t[Len(s) + i].sym = IF i > Len(l) THEN Newline ELSE l[i]
      BY DEF LineCells
    <3> DEFINE y == IF i > Len(l) THEN Newline ELSE l[i]
    <3>2. t[Len(s) + i] = [line |-> n, pos |-> i, sym |-> y]  BY <3>1
    <3> HIDE DEF y
    <3>3. t[Len(s) + i].line = n /\ t[Len(s) + i].pos = i /\ t[Len(s) + i].sym = y  BY <3>2
    <3>4. QED  BY <3>3 DEF y
  <2>4. Len(s) \in Nat  BY <1>3
  <2>5. QED  BY <1>12, <2>1, <2>2, <2>3, <2>4, StreamedMore
<1> HIDE DEF new
<1>17. QED  BY <1>5, <1>8, <1>11, <1>14, <1>15, <1>16 DEF FramingInv

\* A line goes on until its newline.
OnLine(s, a, d) == s[a + d].line = s[a].line /\ s[a + d].pos = s[a].pos + d
GoesOn(s, a, d) == /\ a + d <= Len(s) /\ \A i \in 1 .. Len(s) : s[i].pos \in Nat
                   /\ \A i \in a .. a + d - 1 : s[i].sym # Newline
LEMMA RunOfLine ==
    ASSUME NEW lines, NEW s, Len(s) \in Nat, Streamed(lines, s),
           NEW a \in Nat \ {0}, NEW d \in Nat, GoesOn(s, a, d)
    PROVE  OnLine(s, a, d)
<1> DEFINE T == {i \in 0 .. d : OnLine(s, a, i)}
<1>1. 0 \in T
  <2>1. a + 0 = a /\ a \in 1 .. Len(s)  BY DEF GoesOn
  <2>2. s[a].pos \in Nat  BY <2>1 DEF GoesOn
  <2>3. s[a].pos + 0 = s[a].pos  BY <2>2
  <2>4. QED  BY <2>1, <2>3 DEF OnLine
<1>2. ASSUME NEW i \in 1 .. d, i - 1 \in T PROVE i \in T
  <2> DEFINE x == a + (i - 1)
  <2>1. /\ x \in a .. a + d - 1 /\ x \in 1 .. Len(s) - 1 /\ x + 1 = a + i /\ a \in 1 .. Len(s)
    BY DEF GoesOn
  <2>2. s[x].line = s[a].line /\ s[x].pos = s[a].pos + (i - 1)  BY <1>2 DEF OnLine
  <2> HIDE DEF x
  <2>3. s[x].sym # Newline  BY <2>1 DEF GoesOn
  <2>4. s[x + 1].line = s[x].line /\ s[x + 1].pos = s[x].pos + 1  BY <2>1, <2>3 DEF Streamed
  <2>5. s[a].pos \in Nat  BY <2>1 DEF GoesOn
  <2>6. (s[a].pos + (i - 1)) + 1 = s[a].pos + i  BY <2>5
  <2>7. OnLine(s, a, i)  BY <2>1, <2>2, <2>4, <2>6 DEF OnLine
  <2>8. QED  BY <2>7
<1>3. d \in T
  <2> HIDE DEF T
  <2>1. QED  BY <1>1, <1>2, HandedOn
<1>4. QED  BY <1>3

\* The cell c is the ith symbol of m.
IsCellOf(c, m, i) == CellId(c) = <<m.id[1], At(m, i)>> /\ c.sym = m.body[i]

\* The messages ms are what the first n cells of s hold.
PiecesOf(ms, s, n) ==
    /\ \A m \in ms : \A i \in DOMAIN m.body :
         \E x \in 1 .. n : IsCellOf(s[x], m, i) /\ s[x].sym # Newline
    /\ \A x \in 1 .. n : s[x].sym # Newline =>
         \E m \in ms : \E i \in DOMAIN m.body : IsCellOf(s[x], m, i)
    /\ \A m, o \in ms : m.id[1] = o.id[1] => NoOverlap(m, o)

\* The first n cells of s, cut at the newlines.
FrontOf(c, s, n) == Len(c) = n /\ n <= Len(s) /\ \A i \in 1 .. n : c[i] = s[i]

\* A symbol of a message, and the place where it was.
SymbolAt(s, m, i, x) == IsCellOf(s[x], m, i) /\ s[x].sym # Newline
SymbolsFrom(s, m, a, e) ==
    /\ DOMAIN m.body = 1 .. e - a + 1
    /\ \A i \in 1 .. e - a + 1 : a + i - 1 \in a .. e /\ SymbolAt(s, m, i, a + i - 1)
LEMMA PieceSymbols ==
    ASSUME NEW lines, NEW s \in Seq(Cells), Streamed(lines, s), NEW c, NEW n \in Nat \ {0},
           FrontOf(c, s, n), NEW a \in 1 .. n, NEW e \in a - 1 .. n,
           \A i \in a .. e : c[i].sym # Newline
    PROVE  SymbolsFrom(s, Piece(c, a, e), a, e)
<1> DEFINE m == Piece(c, a, e)
<1>1. Len(s) \in Nat /\ \A i \in 1 .. Len(s) : s[i].pos \in Nat
  <2>1. Len(s) \in Nat /\ \A i \in 1 .. Len(s) : s[i] \in Cells  OBVIOUS
  <2>2. \A y \in Cells : y.pos \in Nat  BY DEF Cells
  <2>3. QED  BY <2>1, <2>2
<1>2. n <= Len(s) /\ \A i \in 1 .. n : c[i] = s[i]  BY DEF FrontOf
<1>3. /\ m.id = <<c[a].line, c[a].pos>> /\ DOMAIN m.body = 1 .. e - a + 1
      /\ \A i \in 1 .. e - a + 1 : m.body[i] = c[a + i - 1].sym
  BY DEF Piece
<1> HIDE DEF m
<1>4. ASSUME NEW i \in 1 .. e - a + 1
      PROVE  a + i - 1 \in a .. e /\ SymbolAt(s, m, i, a + i - 1)
  <2> DEFINE d == i - 1
  <2>1. d \in Nat /\ a + d \in a .. e /\ a + d \in 1 .. n /\ a + i - 1 = a + d
        /\ \A j \in a .. a + d - 1 : j \in a .. e /\ j \in 1 .. n
    OBVIOUS
  <2> HIDE DEF d
  <2>2. GoesOn(s, a, d)
    <3>1. a + d <= Len(s)  BY <1>1, <1>2, <2>1
    <3>2. \A j \in a .. a + d - 1 : s[j].sym # Newline  BY <1>2, <2>1
    <3>3. QED  BY <1>1, <3>1, <3>2 DEF GoesOn
  <2>3. a \in Nat \ {0}  OBVIOUS
  <2>4. OnLine(s, a, d)  BY <1>1, <2>1, <2>2, <2>3, RunOfLine
  <2>5. s[a + d].sym # Newline /\ s[a + d].sym = m.body[i]  BY <1>2, <1>3, <2>1
  <2>6. m.id[1] = s[a].line /\ m.id[2] = s[a].pos /\ s[a].pos \in Nat
    <3>1. a \in 1 .. Len(s) /\ c[a] = s[a]  BY <1>1, <1>2
    <3>2. QED  BY <1>1, <1>3, <3>1
  <2>7. m.id[2] + i - 1 = m.id[2] + d  BY <2>6 DEF d
  <2>8. CellId(s[a + d]) = <<m.id[1], At(m, i)>>
    BY <2>4, <2>6, <2>7 DEF CellId, OnLine, At
  <2>9. SymbolAt(s, m, i, a + d)  BY <2>5, <2>8 DEF SymbolAt, IsCellOf
  <2>10. QED  BY <2>1, <2>9
<1>5. SymbolsFrom(s, m, a, e)  BY <1>3, <1>4 DEF SymbolsFrom
<1>6. QED  BY <1>5 DEF m

\* A place counted from the first of an interval.
LEMMA PlaceFrom ==
    ASSUME NEW a \in Nat, NEW e \in Int, NEW x \in a .. e
    PROVE  x - a + 1 \in 1 .. e - a + 1 /\ a + (x - a + 1) - 1 = x
OBVIOUS

LEMMA PiecesFramed ==
    ASSUME NEW lines, NEW s \in Seq(Cells), Streamed(lines, s), CellsApart(s), NEW c,
           NEW n \in Nat \ {0}, FrontOf(c, s, n), NEW k, NEW b, NEW e, FrameMade(c, k, b, e)
    PROVE  PiecesOf(ToSet(Frame(c)), s, n)
<1> DEFINE p == Frame(c)
<1>1. /\ k \in Nat \ {0} /\ Len(c) = n /\ n <= Len(s) /\ \A i \in 1 .. n : c[i] = s[i]
      /\ \A j \in 1 .. k : /\ b[j] \in 1 .. n /\ e[j] \in b[j] - 1 .. n
                           /\ \A i \in b[j] .. e[j] : c[i].sym # Newline
      /\ \A i, j \in 1 .. k : i # j => (b[i] .. e[i]) \cap (b[j] .. e[j]) = {}
      /\ \A i \in 1 .. n : c[i].sym # Newline => \E j \in 1 .. k : i \in b[j] .. e[j]
  BY DEF FrameMade, CutAt, FrontOf
<1>2. p \in Seq(RawMessages("syslog")) /\ Len(p) = k /\ \A j \in 1 .. k : p[j] = Piece(c, b[j], e[j])
  BY DEF FrameMade
<1>3. ToSet(p) = {p[j] : j \in 1 .. k}
  <2> HIDE DEF p
  <2>1. QED  BY <1>2, Members
<1> HIDE DEF p
<1>4. ASSUME NEW j \in 1 .. k
      PROVE  /\ DOMAIN p[j].body = 1 .. e[j] - b[j] + 1
             /\ \A i \in 1 .. e[j] - b[j] + 1 :
                  b[j] + i - 1 \in b[j] .. e[j] /\ SymbolAt(s, p[j], i, b[j] + i - 1)
  <2>1. /\ b[j] \in 1 .. n /\ e[j] \in b[j] - 1 .. n /\ \A i \in b[j] .. e[j] : c[i].sym # Newline
    BY <1>1
  <2>2. SymbolsFrom(s, Piece(c, b[j], e[j]), b[j], e[j])  BY <2>1, PieceSymbols
  <2>3. p[j] = Piece(c, b[j], e[j])  BY <1>2
  <2>4. SymbolsFrom(s, p[j], b[j], e[j])  BY <2>2, <2>3
  <2>5. QED  BY <2>4 DEF SymbolsFrom
<1>5. \A j \in 1 .. k : \A x \in b[j] .. e[j] : x \in 1 .. n  BY <1>1
<1>6. \A j \in 1 .. k : \A i \in DOMAIN p[j].body :
        \E x \in b[j] .. e[j] : SymbolAt(s, p[j], i, x)
  BY <1>4
<1>7. ASSUME NEW x \in 1 .. n, s[x].sym # Newline
      PROVE  \E m \in ToSet(p) : \E i \in DOMAIN m.body : IsCellOf(s[x], m, i)
  <2>1. c[x].sym # Newline  BY <1>1, <1>7
  <2>2. PICK j \in 1 .. k : x \in b[j] .. e[j]  BY <1>1, <2>1
  <2> DEFINE i == x - b[j] + 1
  <2>3. i \in 1 .. e[j] - b[j] + 1 /\ b[j] + i - 1 = x
    <3>1. b[j] \in 1 .. n /\ e[j] \in b[j] - 1 .. n  BY <1>1
    <3>2. b[j] \in Nat /\ e[j] \in Int  BY <3>1
    <3>3. QED  BY <2>2, <3>2, PlaceFrom
  <2> HIDE DEF i
  <2>4. SymbolAt(s, p[j], i, x) /\ i \in DOMAIN p[j].body  BY <1>4, <2>3
  <2>5. QED  BY <1>3, <2>4 DEF SymbolAt
<1>8. ASSUME NEW m \in ToSet(p), NEW o \in ToSet(p), m.id[1] = o.id[1] PROVE NoOverlap(m, o)
  <2>1. PICK j \in 1 .. k, h \in 1 .. k : m = p[j] /\ o = p[h]  BY <1>3
  <2>2. ASSUME NEW i \in DOMAIN m.body, NEW g \in DOMAIN o.body, At(m, i) = At(o, g)
        PROVE  m = o
    <3>1. PICK x \in b[j] .. e[j] : SymbolAt(s, p[j], i, x)  BY <1>6, <2>1
    <3>2. PICK y \in b[h] .. e[h] : SymbolAt(s, p[h], g, y)  BY <1>6, <2>1
    <3>3. x \in 1 .. Len(s) /\ y \in 1 .. Len(s)
      <4>1. x \in 1 .. n /\ y \in 1 .. n  BY <1>5
      <4>2. Len(s) \in Nat /\ n <= Len(s)  BY <1>1
      <4>3. QED  BY <4>1, <4>2
    <3>4. CellId(s[x]) = CellId(s[y])
      BY <1>8, <2>1, <2>2, <3>1, <3>2 DEF SymbolAt, IsCellOf
    <3>5. x = y  BY <3>3, <3>4 DEF CellsApart
    <3>6. j = h  BY <1>1, <3>5
    <3>7. QED  BY <2>1, <3>6
  <2>3. QED  BY <2>2 DEF NoOverlap
<1>9. \A m \in ToSet(p) : \A i \in DOMAIN m.body :
        \E x \in 1 .. n : IsCellOf(s[x], m, i) /\ s[x].sym # Newline
  <2>1. ASSUME NEW m \in ToSet(p), NEW i \in DOMAIN m.body
        PROVE  \E x \in 1 .. n : IsCellOf(s[x], m, i) /\ s[x].sym # Newline
    <3>1. PICK j \in 1 .. k : m = p[j]  BY <1>3
    <3>2. PICK x \in b[j] .. e[j] : SymbolAt(s, p[j], i, x)  BY <1>6, <3>1
    <3>3. x \in 1 .. n  BY <1>5
    <3>4. QED  BY <3>1, <3>2, <3>3 DEF SymbolAt
  <2>2. QED  BY <2>1
<1>10. QED  BY <1>7, <1>8, <1>9 DEF PiecesOf, p

\* The numbers of lines are their own.
LinesApart(lines) ==
    /\ \A l, z \in lines : l.line = z.line => l = z
    /\ \A l \in lines : /\ DOMAIN l.text = 1 .. Len(l.text) /\ Len(l.text) \in Nat
                        /\ \A p \in DOMAIN l.text : l.text[p] # Newline

\* A cell of the stream that is no newline is a symbol of its line.
LEMMA CellOfLine ==
    ASSUME NEW lines, LinesApart(lines), NEW s, Streamed(lines, s), NEW x \in 1 .. Len(s),
           s[x].pos \in Nat \ {0}, NEW l \in lines, s[x].line = l.line
    PROVE  /\ s[x].sym # Newline <=> s[x].pos \in DOMAIN l.text
           /\ s[x].sym # Newline => s[x].sym = l.text[s[x].pos]
<1>1. PICK z \in lines : CellOf(s[x], z)  BY DEF Streamed
<1>2. z = l  BY <1>1 DEF CellOf, LinesApart
<1>3. /\ DOMAIN l.text = 1 .. Len(l.text) /\ Len(l.text) \in Nat
      /\ \A p \in DOMAIN l.text : l.text[p] # Newline
  BY DEF LinesApart
<1>4. CASE s[x].pos > Len(l.text)
  <2>1. s[x].sym = Newline  BY <1>1, <1>2, <1>4 DEF CellOf
  <2>2. s[x].pos \notin DOMAIN l.text  BY <1>3, <1>4
  <2>3. QED  BY <2>1, <2>2
<1>5. CASE ~(s[x].pos > Len(l.text))
  <2>1. s[x].sym = l.text[s[x].pos]  BY <1>1, <1>2, <1>5 DEF CellOf
  <2>2. s[x].pos \in DOMAIN l.text  BY <1>3, <1>5
  <2>3. QED  BY <1>3, <2>1, <2>2
<1>6. QED  BY <1>4, <1>5

\* What is left of the stream is behind its first n cells.
Behind(r, s, n) == \A x : x \in r <=> \E i \in n + 1 .. Len(s) : x = CellId(s[i])

\* A line of which more is read.
LEMMA LineRead ==
    ASSUME NEW lines, LinesApart(lines), NEW s \in Seq(Cells), Streamed(lines, s), CellsApart(s),
           NEW n \in Nat, n <= Len(s), NEW ps, PiecesOf(ps, s, n), NEW rest, Behind(rest, s, n),
           NEW l \in lines, NEW ms, Framed(l, ms, CellIds(s))
    PROVE  Framed(l, ms \cup ps, rest)
<1>1. Len(s) \in Nat /\ \A i \in 1 .. Len(s) : s[i].pos \in Nat \ {0}
  <2>1. Len(s) \in Nat /\ \A i \in 1 .. Len(s) : s[i] \in Cells  OBVIOUS
  <2>2. \A y \in Cells : y.pos \in Nat \ {0}  BY DEF Cells
  <2>3. QED  BY <2>1, <2>2
<1>2. \A i \in 1 .. n : i \in 1 .. Len(s)  BY <1>1
<1>3. \A x \in rest : x \in CellIds(s)
  <2>1. \A i \in n + 1 .. Len(s) : i \in 1 .. Len(s)  BY <1>1
  <2>2. QED  BY <2>1 DEF Behind, CellIds
<1>4. ASSUME NEW i \in 1 .. n, CellId(s[i]) \in rest PROVE FALSE
  <2>1. PICK j \in n + 1 .. Len(s) : CellId(s[i]) = CellId(s[j])  BY <1>4 DEF Behind
  <2>2. i \in 1 .. Len(s) /\ j \in 1 .. Len(s) /\ i # j  BY <1>1
  <2>3. QED  BY <2>1, <2>2 DEF CellsApart
<1>5. ASSUME NEW m \in ps, m.id[1] = l.line, NEW i \in DOMAIN m.body
      PROVE  /\ At(m, i) \in DOMAIN l.text /\ m.body[i] = l.text[At(m, i)]
             /\ <<l.line, At(m, i)>> \notin rest /\ <<l.line, At(m, i)>> \in CellIds(s)
  <2>1. PICK x \in 1 .. n : IsCellOf(s[x], m, i) /\ s[x].sym # Newline  BY DEF PiecesOf
  <2>2. x \in 1 .. Len(s) /\ s[x].pos \in Nat \ {0}  BY <1>1, <1>2
  <2>3. /\ CellId(s[x]) = <<l.line, At(m, i)>> /\ s[x].line = l.line /\ s[x].pos = At(m, i)
        /\ s[x].sym = m.body[i]
    BY <1>5, <2>1 DEF IsCellOf, CellId
  <2>4. s[x].pos \in DOMAIN l.text /\ s[x].sym = l.text[s[x].pos]
    BY <2>1, <2>2, <2>3, CellOfLine
  <2>5. CellId(s[x]) \in CellIds(s)  BY <2>2 DEF CellIds
  <2>6. QED  BY <1>4, <2>3, <2>4, <2>5
<1>6. ASSUME NEW m \in ms, m.id[1] = l.line PROVE Stands(l, m, rest)
  BY <1>3, <1>6 DEF Framed, Stands
<1>7. \A m \in ms \cup ps : m.id[1] = l.line => Stands(l, m, rest)
  BY <1>5, <1>6 DEF Stands
<1>8. ASSUME NEW p \in DOMAIN l.text PROVE <<l.line, p>> \in rest \/ Holds(ms \cup ps, l, p)
  <2>1. <<l.line, p>> \in CellIds(s) \/ Holds(ms, l, p)  BY DEF Framed
  <2>2. CASE Holds(ms, l, p)  BY <2>2 DEF Holds
  <2>3. CASE <<l.line, p>> \in CellIds(s)
    <3>1. PICK x \in 1 .. Len(s) : CellId(s[x]) = <<l.line, p>>  BY <2>3 DEF CellIds
    <3>2. CASE x \in 1 .. n
      <4>1. s[x].line = l.line /\ s[x].pos = p  BY <3>1 DEF CellId
      <4>2. s[x].pos \in Nat \ {0}  BY <1>1
      <4>3. s[x].sym # Newline  BY <4>1, <4>2, CellOfLine
      <4>4. PICK m \in ps : \E i \in DOMAIN m.body : IsCellOf(s[x], m, i)
        BY <3>2, <4>3 DEF PiecesOf
      <4>5. m.id[1] = l.line /\ \E i \in DOMAIN m.body : At(m, i) = p
        BY <3>1, <4>4 DEF IsCellOf
      <4>6. QED  BY <4>4, <4>5 DEF Holds
    <3>3. CASE x \notin 1 .. n
      <4>1. x \in n + 1 .. Len(s)  BY <1>1, <3>3
      <4>2. QED  BY <3>1, <4>1 DEF Behind
    <3>4. QED  BY <3>2, <3>3
  <2>4. QED  BY <2>1, <2>2, <2>3
<1>9. ASSUME NEW m \in ms \cup ps, NEW o \in ms \cup ps, m.id[1] = l.line, o.id[1] = l.line,
             NEW i \in DOMAIN m.body, NEW j \in DOMAIN o.body, At(m, i) = At(o, j)
      PROVE  m = o
  <2>1. \A w \in ms : w.id[1] = l.line => \A h \in DOMAIN w.body : <<l.line, At(w, h)>> \notin CellIds(s)
    BY DEF Framed, Stands
  <2>2. \A w \in ps : w.id[1] = l.line => \A h \in DOMAIN w.body : <<l.line, At(w, h)>> \in CellIds(s)
    BY <1>5
  <2>3. CASE m \in ms /\ o \in ms  BY <1>9, <2>3 DEF Framed, NoOverlap
  <2>4. CASE m \in ps /\ o \in ps  BY <1>9, <2>4 DEF PiecesOf, NoOverlap
  <2>5. CASE m \in ms /\ o \in ps  BY <1>9, <2>1, <2>2, <2>5
  <2>6. CASE m \in ps /\ o \in ms  BY <1>9, <2>1, <2>2, <2>6
  <2>7. QED  BY <2>3, <2>4, <2>5, <2>6
<1>10. QED  BY <1>7, <1>8, <1>9 DEF Framed, NoOverlap

\* What is left of a stream is one.
LEMMA StreamedRest ==
    ASSUME NEW lines, NEW s, Len(s) \in Nat, Streamed(lines, s), NEW n \in Nat, NEW r,
           Len(r) = Len(s) - n, n <= Len(s), \A i \in 1 .. Len(s) - n : r[i] = s[n + i]
    PROVE  Streamed(lines, r)
<1>1. ASSUME NEW i \in 1 .. Len(r) PROVE \E l \in lines : CellOf(r[i], l)
  <2>1. n + i \in 1 .. Len(s) /\ r[i] = s[n + i]  OBVIOUS
  <2>2. QED  BY <2>1 DEF Streamed
<1>2. ASSUME NEW i \in 1 .. Len(r) - 1, r[i].sym # Newline
      PROVE  r[i + 1].line = r[i].line /\ r[i + 1].pos = r[i].pos + 1
  <2> DEFINE x == n + i
  <2>1. x \in 1 .. Len(s) - 1 /\ r[i] = s[x] /\ r[i + 1] = s[x + 1]
    <3>1. x \in 1 .. Len(s) - 1 /\ x + 1 = n + (i + 1)
          /\ i \in 1 .. Len(s) - n /\ i + 1 \in 1 .. Len(s) - n
      OBVIOUS
    <3> HIDE DEF x
    <3>2. r[i + 1] = s[n + (i + 1)]  BY <3>1
    <3>3. r[i] = s[x]  BY <3>1 DEF x
    <3>4. QED  BY <3>1, <3>2, <3>3
  <2> HIDE DEF x
  <2>2. QED  BY <1>2, <2>1 DEF Streamed
<1>3. ASSUME Len(r) > 0 PROVE r[Len(r)].sym = Newline
  <2>1. Len(r) \in 1 .. Len(s) - n /\ n + Len(r) = Len(s) /\ Len(s) > 0  BY <1>3
  <2>2. r[Len(r)] = s[n + Len(r)]  BY <2>1
  <2>3. QED  BY <2>1, <2>2 DEF Streamed
<1>4. QED  BY <1>1, <1>2, <1>3 DEF Streamed

LEMMA BehindRest ==
    ASSUME NEW s, Len(s) \in Nat, NEW n \in Nat, n <= Len(s), NEW r,
           Len(r) = Len(s) - n, \A i \in 1 .. Len(s) - n : r[i] = s[n + i]
    PROVE  Behind(CellIds(r), s, n)
<1>1. ASSUME NEW i \in 1 .. Len(r) PROVE n + i \in n + 1 .. Len(s) /\ CellId(r[i]) = CellId(s[n + i])
  <2>1. i \in 1 .. Len(s) - n /\ n + i \in n + 1 .. Len(s)  OBVIOUS
  <2>2. QED  BY <2>1
<1>2. ASSUME NEW i \in n + 1 .. Len(s)
      PROVE  i - n \in 1 .. Len(r) /\ CellId(s[i]) = CellId(r[i - n])
  <2>1. i - n \in 1 .. Len(s) - n /\ n + (i - n) = i  OBVIOUS
  <2>2. r[i - n] = s[n + (i - n)]  BY <2>1
  <2>3. QED  BY <2>1, <2>2
<1>3. QED  BY <1>1, <1>2 DEF Behind, CellIds

\* The handler reads.
LEMMA FramingRead ==
    ASSUME Typed, MessagesInv, FramingInv, kind' = kind, HandlerReads
    PROVE  FramingInv'
<1>1. PICK n : Reads(n)  BY HandlerReadsEffect DEF Typed
<1>2. UNCHANGED <<queue, delivered, dropped, hand, socket, inputs>>
  BY DEF HandlerReads, ConnStep, ringVars, threadVars
<1> DEFINE s == conn.stream
           cells == SubSeq(s, 1, n)
           rest == From(s, n + 1)
           lines == ToSet(conn.sent)
<1>3. n \in Nat \ {0} /\ n <= Len(s) /\ conn.pieces = << >> /\ conn'.pieces = Frame(cells)
      /\ conn'.stream = rest /\ conn'.sent = conn.sent
  BY <1>1 DEF Reads
<1>4. /\ cells \in Seq(Cells) /\ cells # << >> /\ Len(cells) = n
      /\ \A i \in 1 .. n : cells[i] = s[i]
      /\ Len(rest) = Len(s) - n /\ \A i \in 1 .. Len(s) - n : rest[i] = s[n + i]
      /\ Len(s) \in Nat
  BY <1>3, CutStream DEF Typed, PlacesTyped
<1>5. s \in Seq(Cells) /\ conn.sent \in Seq(Lines)  BY ConnFields DEF Typed, PlacesTyped
<1>6. CellsApart(s) /\ Streamed(lines, s)  BY DEF MessagesInv, PlacesApart, FramingInv
<1>7. StreamIds = CellIds(s) /\ StreamIds' = CellIds(rest)  BY <1>3 DEF StreamIds
<1>8. LinesApart(lines)
  <2>1. lines \subseteq Lines  BY <1>5, Members
  <2>2. ASSUME NEW l \in lines
        PROVE  /\ DOMAIN l.text = 1 .. Len(l.text) /\ Len(l.text) \in Nat
               /\ \A p \in DOMAIN l.text : l.text[p] # Newline
    <3>1. l.text \in TcpLines  BY <2>1 DEF Lines
    <3>2. 1 \in Nat \ {0}  OBVIOUS
    <3>3. QED  BY <3>1, <3>2, NewCellsTyped
  <2>3. \A l, z \in lines : l.line = z.line => l = z  BY DEF FramingInv, LineKept
  <2>4. QED  BY <2>2, <2>3 DEF LinesApart
<1> HIDE DEF s, cells, rest, lines
<1>9. PICK k, b, e : FrameMade(cells, k, b, e)  BY <1>4, FrameEffect
<1>10. PiecesOf(ToSet(Frame(cells)), s, n)
  <2>1. FrontOf(cells, s, n)  BY <1>3, <1>4 DEF FrontOf
  <2>2. n \in Nat \ {0}  BY <1>3
  <2>3. QED  BY <1>5, <1>6, <1>9, <2>1, <2>2, PiecesFramed
<1> DEFINE ps == ToSet(Frame(cells))
<1>11. Messages' = Messages \cup ps
  <2>1. InHand' = InHand  BY <1>2 DEF InHand
  <2>2. ToSet(conn.pieces) = {}  BY <1>3 DEF ToSet
  <2>3. ToSet(conn'.pieces) = ps  BY <1>3
  <2> HIDE DEF ps
  <2>4. QED  BY <1>2, <2>1, <2>2, <2>3 DEF Messages
<1> HIDE DEF ps
<1>12. Behind(CellIds(rest), s, n)  BY <1>3, <1>4, BehindRest
<1>13. n \in Nat /\ n <= Len(s) /\ PiecesOf(ps, s, n)  BY <1>3, <1>10 DEF ps
<1>14. ASSUME NEW l \in lines PROVE LineKept(l)' /\ Framed(l, Messages', StreamIds')
  <2>1. LineKept(l) /\ Framed(l, Messages, CellIds(s))  BY <1>7 DEF FramingInv, lines
  <2>2. Framed(l, Messages \cup ps, CellIds(rest))
    BY <1>5, <1>6, <1>8, <1>12, <1>13, <2>1, LineRead
  <2>3. LineKept(l)'  BY <1>2, <1>3, <2>1 DEF LineKept
  <2>4. QED  BY <1>7, <1>11, <2>2, <2>3
<1>15. Streamed(lines, rest)  BY <1>4, <1>6, <1>13, StreamedRest
<1>16. ToSet(conn'.sent) = lines /\ conn'.stream = rest  BY <1>3 DEF lines
<1>17. QED  BY <1>14, <1>15, <1>16 DEF FramingInv

LEMMA InitFraming == Init => FramingInv
<1> SUFFICES ASSUME Init PROVE FramingInv
  OBVIOUS
<1>1. conn.stream = << >> /\ conn.sent = << >>
  BY DEF Init, PipelineInit, NoConn
<1>2. ToSet(conn.sent) = {} /\ Len(conn.stream) = 0  BY <1>1 DEF ToSet
<1>3. QED  BY <1>2 DEF FramingInv, Streamed

LEMMA NextFraming == IInv /\ FramingInv /\ [Next]_vars => FramingInv'
<1> SUFFICES ASSUME IInv, FramingInv, [Next]_vars PROVE FramingInv'
  OBVIOUS
<1>1. Typed /\ TablesKnown /\ MessagesInv /\ IdsBounded
  BY DEF IInv, MessagesInv
<1>2. Moves
  <2>1. Does  BY <1>1, Steps
  <2>2. QED  BY <1>1, <2>1, Move
<1>3. kind' = kind  BY <1>2 DEF Moves
<1>4. CASE Still  BY <1>1, <1>3, <1>4, FramingElsewhere
<1>5. ASSUME NEW r \in Receivers, NEW m, Taken(r, m),
             \/ Input(m) /\ socket' = socket
             \/ /\ socket # << >> /\ m = Head(socket) /\ socket' = Tail(socket)
                /\ inputs' = inputs
      PROVE  FramingInv'
  BY <1>1, <1>3, <1>5, FramingTaken
<1>6. ASSUME NEW r \in Receivers, hand[r] # NoMsg, Leaves(hand[r]),
             hand' = [hand EXCEPT ![r] = NoMsg], UNCHANGED <<conn, socket, inputs>>
      PROVE  FramingInv'
  BY <1>1, <1>3, <1>6, FramingPushed
<1>7. CASE Ring!Take /\ UNCHANGED <<dropped, hand, conn, socket, inputs>>
  BY <1>1, <1>3, <1>7, FramingElsewhere
<1>8. ASSUME NEW m, Input(m), socket' = Append(socket, m),
             UNCHANGED <<queue, delivered, dropped, hand, conn>>
      PROVE  FramingInv'
  BY <1>1, <1>3, <1>8, FramingElsewhere
<1>9. CASE PeerSends \/ HandlerReads \/ HandlerPushes
  BY <1>1, <1>3, <1>9, FramingSent, FramingRead, FramingHandled
<1>10. QED  BY <1>2, <1>4, <1>5, <1>6, <1>7, <1>8, <1>9 DEF Moves

\* Wherever recv() cuts: what is not to be read any more of a line is in messages of
\* that line, each symbol once and in its place.  One line may be several messages.
THEOREM LinesFramed == Spec => []FramingExact
<1>1. IInv /\ FramingInv => FramingExact
  <2> SUFFICES ASSUME IInv, FramingInv, NEW s \in ToSet(conn.sent)
               PROVE  LET pieces == {m \in Messages : m.id[1] = s.line}
                          unread == {c.pos : c \in {d \in ToSet(conn.stream) : d.line = s.line}}
                          cells(m) == {<<m.id[2] + i - 1, m.body[i]>> : i \in DOMAIN m.body}
                      IN  /\ UNION {cells(m) : m \in pieces}
                               = {<<i, s.text[i]>> : i \in DOMAIN s.text \ unread}
                          /\ \A m, n \in pieces : m # n => cells(m) \cap cells(n) = {}
    BY DEF FramingExact
  <2> DEFINE pieces == {m \in Messages : m.id[1] = s.line}
             unread == {c.pos : c \in {d \in ToSet(conn.stream) : d.line = s.line}}
             cells(m) == {<<m.id[2] + i - 1, m.body[i]>> : i \in DOMAIN m.body}
             shown == {<<i, s.text[i]>> : i \in DOMAIN s.text \ unread}
  <2>1. Framed(s, Messages, StreamIds)  BY DEF FramingInv
  <2>2. \A p : p \in unread <=> <<s.line, p>> \in StreamIds
    <3>1. conn.stream \in Seq(Cells)  BY ConnFields DEF IInv, Typed, PlacesTyped
    <3>2. ToSet(conn.stream) = {conn.stream[i] : i \in 1 .. Len(conn.stream)}  BY <3>1, Members
    <3>3. \A p : <<s.line, p>> \in StreamIds <=>
            \E d \in ToSet(conn.stream) : d.line = s.line /\ d.pos = p
      BY <3>2 DEF StreamIds, CellIds, CellId
    <3>4. QED  BY <3>3
  <2> HIDE DEF unread
  <2>3. \A m : \A x : x \in cells(m) <=> \E i \in DOMAIN m.body : x = <<At(m, i), m.body[i]>>
    BY DEF At
  <2>4. \A m : m \in pieces <=> m \in Messages /\ m.id[1] = s.line  OBVIOUS
  <2>5. \A x : x \in shown <=> \E p \in DOMAIN s.text : p \notin unread /\ x = <<p, s.text[p]>>
    OBVIOUS
  <2> HIDE DEF cells, pieces, shown
  <2>6. ASSUME NEW m \in pieces, NEW x \in cells(m) PROVE x \in shown
    <3>1. PICK i \in DOMAIN m.body : x = <<At(m, i), m.body[i]>>  BY <2>3
    <3>2. Stands(s, m, StreamIds)  BY <2>1, <2>4 DEF Framed
    <3>3. QED  BY <2>2, <2>5, <3>1, <3>2 DEF Stands
  <2>7. ASSUME NEW x \in shown PROVE \E m \in pieces : x \in cells(m)
    <3>1. PICK p \in DOMAIN s.text : p \notin unread /\ x = <<p, s.text[p]>>  BY <2>5
    <3>2. Holds(Messages, s, p)  BY <2>1, <2>2, <3>1 DEF Framed
    <3>3. PICK m \in Messages : m.id[1] = s.line /\ \E i \in DOMAIN m.body : At(m, i) = p
      BY <3>2 DEF Holds
    <3>4. PICK i \in DOMAIN m.body : At(m, i) = p  BY <3>3
    <3>5. m.body[i] = s.text[p]  BY <2>1, <3>3, <3>4 DEF Framed, Stands
    <3>6. m \in pieces /\ x \in cells(m)  BY <2>3, <2>4, <3>1, <3>3, <3>4, <3>5
    <3>7. QED  BY <3>6
  <2>8. UNION {cells(m) : m \in pieces} = shown
    <3>1. \A x : x \in UNION {cells(m) : m \in pieces} <=> \E m \in pieces : x \in cells(m)
      OBVIOUS
    <3>2. QED  BY <2>6, <2>7, <3>1
  <2>9. ASSUME NEW m \in pieces, NEW n \in pieces, NEW x \in cells(m), x \in cells(n) PROVE m = n
    <3>1. PICK i \in DOMAIN m.body : x = <<At(m, i), m.body[i]>>  BY <2>3
    <3>2. PICK j \in DOMAIN n.body : x = <<At(n, j), n.body[j]>>  BY <2>3, <2>9
    <3>3. NoOverlap(m, n)  BY <2>1, <2>4 DEF Framed
    <3>4. QED  BY <3>1, <3>2, <3>3 DEF NoOverlap
  <2>10. \A m, n \in pieces : m # n => cells(m) \cap cells(n) = {}  BY <2>9
  <2>11. QED  BY <2>8, <2>10 DEF cells, pieces, unread, shown
<1>2. QED  BY <1>1, InitFraming, NextFraming, CollectorsInvariant, PTL DEF Spec
-----------------------------------------------------------------------------
(* A syslog message and the event made of it *)

\* Event e was made of message m.
MadeFrom(e, m) == e.src = m.id /\ e.data = SyslogFields(m.body)

\* Every event was made of a popped message, every popped message that parses
\* has an event.
FieldsOf(all, popped) ==
    /\ \A i \in 1 .. Len(all) : \E j \in 1 .. Len(popped) : MadeFrom(all[i], popped[j])
    /\ \A j \in 1 .. Len(popped) :
         SyslogFields(popped[j].body) # NoMessage =>
            \E i \in 1 .. Len(all) : MadeFrom(all[i], popped[j])

FieldsKept == kind = "syslog" => FieldsOf(made, delivered)

\* A message more, and its events.
LEMMA FieldsMore ==
    ASSUME NEW S, NEW popped \in Seq(S), NEW m \in S, NEW E, NEW all \in Seq(E), NEW evts \in Seq(E),
           evts = SyslogEvents(m), FieldsOf(all, popped)
    PROVE  FieldsOf(all \o evts, Append(popped, m))
<1> DEFINE c == all \o evts
           more == Append(popped, m)
<1>1. /\ Len(c) = Len(all) + Len(evts) /\ Len(all) \in Nat /\ Len(evts) \in Nat
      /\ \A i \in 1 .. Len(all) + Len(evts) :
           c[i] = IF i <= Len(all) THEN all[i] ELSE evts[i - Len(all)]
  BY ConcatProperties
<1>2. /\ Len(more) = Len(popped) + 1 /\ Len(popped) \in Nat /\ more[Len(popped) + 1] = m
      /\ \A i \in 1 .. Len(popped) : more[i] = popped[i]
  BY AppendEffect
<1> HIDE DEF c, more
<1>3. IF SyslogFields(m.body) = NoMessage THEN Len(evts) = 0
      ELSE Len(evts) = 1 /\ MadeFrom(evts[1], m)
  <2> DEFINE data == SyslogFields(m.body)
  <2>1. evts = IF data = NoMessage THEN << >> ELSE <<[src |-> m.id, data |-> data]>>
    BY DEF SyslogEvents
  <2>2. data # NoMessage => evts[1] = [src |-> m.id, data |-> data] /\ Len(evts) = 1
    <3> HIDE DEF data
    <3>1. QED  BY <2>1
  <2>3. data = NoMessage => Len(evts) = 0  BY <2>1
  <2>4. QED  BY <2>2, <2>3 DEF MadeFrom
<1>4. \A i \in 1 .. Len(all) : i \in 1 .. Len(c) /\ c[i] = all[i]
  <2>1. \A i \in 1 .. Len(all) : i \in 1 .. Len(all) + Len(evts) /\ i <= Len(all)  BY <1>1
  <2>2. QED  BY <1>1, <2>1
<1>5. \A j \in 1 .. Len(popped) : j \in 1 .. Len(more) /\ more[j] = popped[j]  BY <1>2
<1>6. Len(popped) + 1 \in 1 .. Len(more)  BY <1>2
<1>7. ASSUME NEW i \in 1 .. Len(c) PROVE \E j \in 1 .. Len(more) : MadeFrom(c[i], more[j])
  <2>1. CASE i \in 1 .. Len(all)
    <3>1. PICK j \in 1 .. Len(popped) : MadeFrom(all[i], popped[j])  BY <2>1 DEF FieldsOf
    <3>2. QED  BY <1>4, <1>5, <2>1, <3>1
  <2>2. CASE i \notin 1 .. Len(all)
    <3>1. i \in 1 .. Len(all) + Len(evts) /\ ~(i <= Len(all))  BY <1>1, <2>2
    <3>2. Len(evts) = 1 /\ MadeFrom(evts[1], m)  BY <1>1, <1>3, <3>1
    <3>3. i - Len(all) = 1  BY <1>1, <3>1, <3>2
    <3>4. c[i] = evts[1]  BY <1>1, <3>1, <3>3
    <3>5. QED  BY <1>2, <1>6, <3>2, <3>4
  <2>3. QED  BY <2>1, <2>2
<1>8. ASSUME NEW j \in 1 .. Len(more), SyslogFields(more[j].body) # NoMessage
      PROVE  \E i \in 1 .. Len(c) : MadeFrom(c[i], more[j])
  <2>1. CASE j \in 1 .. Len(popped)
    <3>1. PICK i \in 1 .. Len(all) : MadeFrom(all[i], popped[j])
      BY <1>5, <1>8, <2>1 DEF FieldsOf
    <3>2. QED  BY <1>4, <1>5, <2>1, <3>1
  <2>2. CASE j \notin 1 .. Len(popped)
    <3>1. j = Len(popped) + 1  BY <1>2, <2>2
    <3>2. Len(evts) = 1 /\ MadeFrom(evts[1], m)  BY <1>2, <1>3, <1>8, <3>1
    <3>3. Len(all) + 1 \in 1 .. Len(c) /\ c[Len(all) + 1] = evts[1]
      <4>1. Len(all) + 1 \in 1 .. Len(all) + Len(evts) /\ ~(Len(all) + 1 <= Len(all))
            /\ Len(all) + 1 - Len(all) = 1
        BY <1>1, <3>2
      <4>2. QED  BY <1>1, <4>1
    <3>4. QED  BY <1>2, <3>1, <3>2, <3>3
  <2>3. QED  BY <2>1, <2>2
<1>9. QED  BY <1>7, <1>8 DEF FieldsOf, c, more

LEMMA InitFields == Init => FieldsKept
<1> SUFFICES ASSUME Init PROVE FieldsKept
  OBVIOUS
<1>1. made = << >> /\ delivered = << >>
  BY DEF Init, PipelineInit, Ring!Init
<1>2. Len(made) = 0 /\ Len(delivered) = 0  BY <1>1
<1>3. QED  BY <1>2 DEF FieldsKept, FieldsOf

LEMMA NextFields == IInv /\ FieldsKept /\ [Next]_vars => FieldsKept'
<1> SUFFICES ASSUME IInv, FieldsKept, [Next]_vars PROVE FieldsKept'
  OBVIOUS
<1>1. Typed /\ TablesKnown /\ IdsBounded  BY DEF IInv, MessagesInv
<1>2. Does  BY <1>1, Steps
<1>3. CASE UNCHANGED <<kind, delivered, made>>  BY <1>3 DEF FieldsKept
<1>4. ASSUME NEW evts, NEW parsed, NEW errors, Works(evts, parsed, errors), kind = "syslog"
      PROVE  FieldsKept'
  <2>1. /\ queue # << >> /\ delivered' = Append(delivered, Head(queue))
        /\ made' = made \o evts /\ kind' = kind /\ evts \in Seq(EventType)
        /\ evts = SyslogEvents(Head(queue))
    BY <1>4 DEF Works, Process, Ring!Take, Makes
  <2>2. Head(queue) \in RawMessages(kind)  BY <1>1, <2>1, OldestMessage DEF Typed
  <2>3. delivered \in Seq(RawMessages(kind)) /\ made \in Seq(EventType)
    BY <1>1 DEF Typed, PlacesTyped, BooksTyped
  <2>4. FieldsOf(made \o evts, Append(delivered, Head(queue)))
    BY <1>4, <2>1, <2>2, <2>3, FieldsMore DEF FieldsKept
  <2>5. QED  BY <2>1, <2>4 DEF FieldsKept
<1>5. ASSUME NEW evts, NEW parsed, NEW errors, Works(evts, parsed, errors), kind # "syslog"
      PROVE  FieldsKept'
  <2>1. kind' = kind  BY <1>5 DEF Works, Process
  <2>2. QED  BY <1>5, <2>1 DEF FieldsKept
<1>6. ASSUME Stuck PROVE FieldsKept'
  BY <1>6 DEF Stuck, FieldsKept
<1>7. QED  BY <1>2, <1>3, <1>4, <1>5, <1>6, Work

-----------------------------------------------------------------------------
(* What the parser makes of a message laid out as the RFCs say *)

\* The back and the front of a sequence.
LEMMA BackIs ==
    ASSUME NEW S, NEW t \in Seq(S), NEW r \in Seq(S), NEW n \in Nat, Len(t) = n + Len(r),
           \A i \in 1 .. Len(r) : t[n + i] = r[i]
    PROVE  From(t, n + 1) = r
<1> DEFINE b == SubSeq(t, n + 1, Len(t))
<1>1. Len(r) \in Nat /\ n \in 0 .. Len(t)  OBVIOUS
<1>2. b \in Seq(S) /\ Len(b) = Len(t) - n /\ \A i \in 1 .. Len(t) - n : b[i] = t[n + i]
  BY <1>1, Cut
<1>3. Len(t) - n = Len(r)  BY <1>1
<1> HIDE DEF b
<1>4. b = r  BY <1>2, <1>3, SeqEqual
<1>5. QED  BY <1>4 DEF From, b

LEMMA FrontIs ==
    ASSUME NEW S, NEW t \in Seq(S), NEW r \in Seq(S), Len(r) <= Len(t),
           \A i \in 1 .. Len(r) : t[i] = r[i]
    PROVE  SubSeq(t, 1, Len(r)) = r
<1> DEFINE a == SubSeq(t, 1, Len(r))
<1>1. Len(r) \in 0 .. Len(t)  OBVIOUS
<1>2. a \in Seq(S) /\ Len(a) = Len(r) /\ \A i \in 1 .. Len(r) : a[i] = t[i]
  BY <1>1, Cut
<1> HIDE DEF a
<1>3. a = r  BY <1>2, SeqEqual
<1>4. QED  BY <1>3 DEF a

\* The text behind the priority p.
Behind1(t, s, x) ==
    Len(t) = Len(s) /\ t[1] = <<x>> /\ \A i \in 2 .. Len(s) : t[i] = s[i]

LEMMA PriorityDropped ==
    ASSUME NEW S, NEW s \in Seq(S), Len(s) > 0, NEW p, NEW x, s[1] = <<p, x>>, <<x>> \in S
    PROVE  Drop(s, 1) \in Seq(S) /\ Behind1(Drop(s, 1), s, x)
<1>1. s # << >> /\ Len(s) \in Nat  OBVIOUS
<1>2. Tail(s) \in Seq(S) /\ Len(Tail(s)) = Len(s) - 1
      /\ \A i \in 1 .. Len(s) - 1 : Tail(s)[i] = s[i + 1]
  BY <1>1, HeadTail
<1>3. From(s[1], 2) = <<x>> /\ ~(1 >= Len(s[1]))
  <2> DEFINE t == <<p, x>>
             r == <<x>>
             T == {p, x}
  <2>1. /\ t \in Seq(T) /\ r \in Seq(T) /\ Len(t) = 2 /\ Len(r) = 1 /\ t[1 + 1] = r[1]
        /\ \A i \in 1 .. 1 : i = 1
    OBVIOUS
  <2> HIDE DEF t, r, T
  <2>2. 1 \in Nat /\ Len(t) = 1 + Len(r) /\ \A i \in 1 .. Len(r) : t[1 + i] = r[i]  BY <2>1
  <2>3. From(t, 1 + 1) = r  BY <2>1, <2>2, BackIs
  <2>4. 1 + 1 = 2 /\ ~(1 >= 2)  OBVIOUS
  <2>5. s[1] = t  BY DEF t
  <2>6. QED  BY <2>1, <2>3, <2>4, <2>5 DEF r
<1>4. Drop(s, 1) = <<<<x>>>> \o Tail(s)
  <2>1. 1 + 1 = 2  OBVIOUS
  <2>2. QED  BY <1>3, <2>1 DEF Drop
<1> DEFINE h == <<<<x>>>>
<1>5. h \in Seq(S) /\ Len(h) = 1 /\ h[1] = <<x>>  OBVIOUS
<1> HIDE DEF h
<1>6. /\ h \o Tail(s) \in Seq(S) /\ Len(h \o Tail(s)) = 1 + Len(Tail(s))
      /\ \A i \in 1 .. 1 + Len(Tail(s)) :
           (h \o Tail(s))[i] = IF i <= 1 THEN h[i] ELSE Tail(s)[i - 1]
  BY <1>2, <1>5, ConcatProperties
<1> DEFINE t == h \o Tail(s)
<1>7. t[1] = <<x>> /\ Len(t) = Len(s)
  <2>1. 1 \in 1 .. 1 + Len(Tail(s))  BY <1>1, <1>2
  <2>2. QED  BY <1>1, <1>2, <1>5, <1>6, <2>1
<1>8. ASSUME NEW i \in 2 .. Len(s) PROVE t[i] = s[i]
  <2>1. i \in 1 .. 1 + Len(Tail(s)) /\ ~(i <= 1) /\ i - 1 \in 1 .. Len(s) - 1
        /\ i - 1 + 1 = i
    BY <1>1, <1>2
  <2>2. t[i] = Tail(s)[i - 1]  BY <1>6, <2>1
  <2>3. Tail(s)[i - 1] = s[i - 1 + 1]  BY <1>2, <2>1
  <2>4. QED  BY <2>1, <2>2, <2>3
<1> HIDE DEF t
<1>9. QED  BY <1>4, <1>6, <1>7, <1>8 DEF Behind1, h, t

\* What the levels are called.
LEMMA LevelNamed ==
    ASSUME NEW level \in 0 .. 7
    PROVE  map_severity(level) = Severities[level + 1]
<1>1. \/ level = 0 \/ level = 1 \/ level = 2 \/ level = 3
      \/ level = 4 \/ level = 5 \/ level = 6 \/ level = 7
  OBVIOUS
<1>2. QED  BY <1>1 DEF map_severity, Severities

\* Neither bracket.
Plain(x) == x # "[" /\ x # "]"

\* Elements as structured data may have them.
PlainElements(els) ==
    /\ Len(els) \in Nat \ {0}
    /\ \A j \in 1 .. Len(els) :
         /\ Plain(els[j].id) /\ Len(els[j].params) \in Nat \ {0}
         /\ els[j].params \in Seq(ToSet(els[j].params))
         /\ \A k \in 1 .. Len(els[j].params) : Plain(els[j].params[k])
         /\ \A k \in 1 .. Len(els[j].params) : els[j].params[k] \in DOMAIN KeyOf

\* No two parameters have one id and one key.
KeysApart(els) ==
    \A i, j \in 1 .. Len(els) :
        \A k \in 1 .. Len(els[i].params), l \in 1 .. Len(els[j].params) :
            /\ els[i].id = els[j].id
            /\ KeyOf[els[i].params[k]] = KeyOf[els[j].params[l]]
            => i = j /\ k = l

\* The word in which the kth parameter of element j is.
WordOf(els, j, k) ==
    LET p == els[j].params[k]
    IN  IF k < Len(els[j].params) THEN <<p>>
        ELSE IF j = Len(els) THEN <<p, "]">> ELSE <<p, "]", "[", els[j + 1].id>>

\* Words of structured data, element j beginning in word at[j].
DataAt(sd, els, at) ==
    /\ at \in [1 .. Len(els) + 1 -> 1 .. Len(sd)]
    /\ at[1] = 1 /\ at[Len(els) + 1] = Len(sd) /\ sd[1] = <<"[", els[1].id>>
    /\ \A j \in 1 .. Len(els) :
         /\ at[j + 1] = at[j] + Len(els[j].params)
         /\ \A k \in 1 .. Len(els[j].params) : sd[at[j] + k] = WordOf(els, j, k)

\* What laid out means.
LEMMA LaidOutAt ==
    ASSUME NEW sd, NEW els, LaidOut(sd, els), PlainElements(els)
    PROVE  \E at : DataAt(sd, els, at)
<1> DEFINE n == Len(els)
<1>1. PICK at \in [1 .. n + 1 -> 1 .. Len(sd)] :
        /\ at[1] = 1 /\ at[n + 1] = Len(sd) /\ sd[1] = <<"[", els[1].id>>
        /\ \A j \in 1 .. n :
             LET ps == els[j].params
             IN  /\ at[j + 1] = at[j] + Len(ps)
                 /\ \A k \in 1 .. Len(ps) - 1 : sd[at[j] + k] = <<ps[k]>>
                 /\ sd[at[j + 1]] =
                      IF j = n THEN <<ps[Len(ps)], "]">>
                      ELSE <<ps[Len(ps)], "]", "[", els[j + 1].id>>
  BY DEF LaidOut
<1>2. ASSUME NEW j \in 1 .. n, NEW k \in 1 .. Len(els[j].params)
      PROVE  sd[at[j] + k] = WordOf(els, j, k)
  <2>1. Len(els[j].params) \in Nat \ {0}  BY DEF PlainElements
  <2>2. CASE k < Len(els[j].params)
    <3>1. k \in 1 .. Len(els[j].params) - 1  BY <2>1, <2>2
    <3>2. sd[at[j] + k] = <<els[j].params[k]>>  BY <1>1, <3>1
    <3>3. QED  BY <2>2, <3>2 DEF WordOf
  <2>3. CASE ~(k < Len(els[j].params))
    <3>1. k = Len(els[j].params)  BY <2>1, <2>3
    <3>2. at[j + 1] = at[j] + k  BY <1>1, <3>1
    <3>3. sd[at[j + 1]] = WordOf(els, j, k)  BY <1>1, <2>3, <3>1 DEF WordOf
    <3>4. QED  BY <3>2, <3>3
  <2>4. QED  BY <2>2, <2>3
<1>3. QED  BY <1>1, <1>2 DEF DataAt

\* Which brackets a word has, and its ends.
LEMMA WordEnds ==
    ASSUME NEW els, PlainElements(els), NEW j \in 1 .. Len(els),
           NEW k \in 1 .. Len(els[j].params), NEW w, w = WordOf(els, j, k)
    PROVE  /\ w[1] = els[j].params[k]
           /\ "[" \in ToSet(w) <=> k = Len(els[j].params) /\ j # Len(els)
           /\ w[Len(w)] = "]" <=> k = Len(els[j].params) /\ j = Len(els)
           /\ k = Len(els[j].params) /\ j # Len(els) => w[Len(w)] = els[j + 1].id
<1> DEFINE p == els[j].params[k]
           q == els[j + 1].id
<1>1. Len(els) \in Nat /\ Len(els[j].params) \in Nat  BY DEF PlainElements
<1>2. p # "[" /\ p # "]"  BY DEF PlainElements, Plain
<1>3. "[" # "]"  OBVIOUS
<1> HIDE DEF p
<1>4. CASE k < Len(els[j].params)
  <2>1. w = <<p>>  BY <1>4 DEF WordOf, p
  <2>2. Len(w) = 1 /\ w[1] = p /\ ToSet(w) = {p}  BY <2>1 DEF ToSet
  <2>3. QED  BY <1>1, <1>2, <1>4, <2>2 DEF p
<1>5. CASE ~(k < Len(els[j].params)) /\ j = Len(els)
  <2>1. w = <<p, "]">>  BY <1>5 DEF WordOf, p
  <2>2. Len(w) = 2 /\ w[1] = p /\ w[2] = "]" /\ ToSet(w) = {p, "]"}  BY <2>1 DEF ToSet
  <2>3. k = Len(els[j].params)  BY <1>1, <1>5
  <2>4. QED  BY <1>2, <1>3, <1>5, <2>2, <2>3 DEF p
<1>6. CASE ~(k < Len(els[j].params)) /\ j # Len(els)
  <2>1. j + 1 \in 1 .. Len(els)  BY <1>1, <1>6
  <2>2. q # "[" /\ q # "]"  BY <2>1 DEF PlainElements, Plain
  <2> HIDE DEF q
  <2>3. w = <<p, "]", "[", q>>  BY <1>6 DEF WordOf, p, q
  <2>4. Len(w) = 4 /\ w[1] = p /\ w[3] = "[" /\ w[4] = q  BY <2>3
  <2>5. "[" \in ToSet(w)  BY <2>3 DEF ToSet
  <2>6. k = Len(els[j].params)  BY <1>1, <1>6
  <2>7. QED  BY <1>6, <2>2, <2>4, <2>5, <2>6 DEF p, q
<1>7. QED  BY <1>4, <1>5, <1>6

\* Where parameters are.
LEMMA WordPlace ==
    ASSUME NEW S, NEW sd \in Seq(S), NEW els, PlainElements(els), NEW at, DataAt(sd, els, at),
           NEW j \in 1 .. Len(els), NEW k \in 1 .. Len(els[j].params)
    PROVE  /\ at[j] \in 1 .. Len(sd) /\ at[j + 1] \in 1 .. Len(sd) /\ at[j] + k \in 1 .. Len(sd)
           /\ Len(sd) \in Nat /\ at[j + 1] = at[j] + Len(els[j].params)
           /\ sd[at[j] + k] = WordOf(els, j, k)
<1>1. Len(els) \in Nat /\ Len(els[j].params) \in Nat /\ Len(sd) \in Nat
  BY DEF PlainElements
<1>2. j \in 1 .. Len(els) + 1 /\ j + 1 \in 1 .. Len(els) + 1  BY <1>1
<1>3. at[j] \in 1 .. Len(sd) /\ at[j + 1] \in 1 .. Len(sd)  BY <1>2 DEF DataAt
<1>4. at[j + 1] = at[j] + Len(els[j].params) /\ sd[at[j] + k] = WordOf(els, j, k)
  BY DEF DataAt
<1>5. at[j] + k \in 1 .. Len(sd)  BY <1>1, <1>3, <1>4
<1>6. QED  BY <1>1, <1>3, <1>4, <1>5

\* Every word but the first is that of a parameter.
LEMMA WordIsOne ==
    ASSUME NEW S, NEW sd \in Seq(S), NEW els, PlainElements(els), NEW at, DataAt(sd, els, at),
           NEW w \in 2 .. Len(sd)
    PROVE  \E j \in 1 .. Len(els) : \E k \in 1 .. Len(els[j].params) : w = at[j] + k
<1> DEFINE n == Len(els)
           T == {j \in 1 .. n : w <= at[j + 1]}
<1>1. n \in Nat \ {0} /\ Len(sd) \in Nat  BY DEF PlainElements
<1>2. n \in T  BY <1>1 DEF DataAt
<1>3. T \in SUBSET Nat /\ T # {}  BY <1>2
<1>4. PICK j \in T : \A i \in T : j <= i
  <2> HIDE DEF T
  <2>1. QED  BY <1>3, LeastOf
<1>5. j \in 1 .. n /\ w <= at[j + 1]  OBVIOUS
<1>6. /\ at[j] \in 1 .. Len(sd) /\ at[j + 1] = at[j] + Len(els[j].params)
      /\ Len(els[j].params) \in Nat
  <2>1. Len(els[j].params) \in Nat \ {0}  BY <1>5 DEF PlainElements
  <2>2. 1 \in 1 .. Len(els[j].params)  BY <2>1
  <2>3. QED  BY <1>5, <2>1, <2>2, WordPlace
<1>7. at[j] < w
  <2>1. CASE j = 1  BY <2>1 DEF DataAt
  <2>2. CASE j # 1
    <3>1. j - 1 \in 1 .. n /\ j - 1 + 1 = j /\ ~(j <= j - 1)  BY <1>1, <1>5, <2>2
    <3>2. j - 1 \notin T  BY <1>4, <3>1
    <3>3. ~(w <= at[j])  BY <3>1, <3>2
    <3>4. QED  BY <1>6, <3>3
  <2>3. QED  BY <2>1, <2>2
<1>8. w - at[j] \in 1 .. Len(els[j].params) /\ w = at[j] + (w - at[j])
  BY <1>5, <1>6, <1>7
<1>9. QED  BY <1>5, <1>8

\* Where an element begins there is a bracket, and its id is the end of the word.
LEMMA ElementBegins ==
    ASSUME NEW S, NEW sd \in Seq(S), NEW els, PlainElements(els), NEW at, DataAt(sd, els, at),
           NEW j \in 1 .. Len(els)
    PROVE  /\ at[j] \in 1 .. Len(sd) /\ "[" \in ToSet(sd[at[j]])
           /\ sd[at[j]][Len(sd[at[j]])] = els[j].id
<1>1. Len(els) \in Nat \ {0} /\ Len(sd) \in Nat  BY DEF PlainElements
<1>2. CASE j = 1
  <2>1. at[1] = 1 /\ sd[1] = <<"[", els[1].id>>  BY DEF DataAt
  <2>2. at[1] \in 1 .. Len(sd)
    <3>1. 1 \in 1 .. Len(els) + 1  BY <1>1
    <3>2. QED  BY <3>1 DEF DataAt
  <2> DEFINE q == els[1].id
             w == <<"[", q>>
  <2>3. Len(w) = 2 /\ w[2] = q /\ "[" \in ToSet(w)  BY DEF ToSet
  <2>4. sd[at[j]] = w /\ els[j].id = q  BY <1>2, <2>1
  <2> HIDE DEF w, q
  <2>5. QED  BY <1>2, <2>2, <2>3, <2>4
<1>3. CASE j # 1
  <2> DEFINE i == j - 1
             k == Len(els[i].params)
  <2>1. i \in 1 .. Len(els) /\ i + 1 = j /\ i # Len(els)  BY <1>1, <1>3
  <2> HIDE DEF i
  <2>2. k \in Nat \ {0}  BY <2>1 DEF PlainElements
  <2>3. k \in 1 .. Len(els[i].params) /\ k = Len(els[i].params)  BY <2>2
  <2> HIDE DEF k
  <2> DEFINE w == sd[at[i] + k]
  <2>4. at[j] \in 1 .. Len(sd) /\ at[j] = at[i] + k /\ w = WordOf(els, i, k)
    <3>1. /\ at[i + 1] \in 1 .. Len(sd) /\ at[i + 1] = at[i] + Len(els[i].params)
          /\ sd[at[i] + k] = WordOf(els, i, k)
      BY <2>1, <2>3, WordPlace
    <3>2. QED  BY <2>1, <2>3, <3>1
  <2> HIDE DEF w
  <2>5. "[" \in ToSet(w) /\ w[Len(w)] = els[j].id  BY <2>1, <2>3, <2>4, WordEnds
  <2>6. QED  BY <2>4, <2>5 DEF w
<1>4. QED  BY <1>2, <1>3

\* A word with an opening bracket is where an element begins.
LEMMA ElementAt ==
    ASSUME NEW S, NEW sd \in Seq(S), NEW els, PlainElements(els), NEW at, DataAt(sd, els, at),
           NEW w \in 1 .. Len(sd), "[" \in ToSet(sd[w])
    PROVE  \E j \in 1 .. Len(els) : w = at[j]
<1>1. Len(els) \in Nat \ {0} /\ Len(sd) \in Nat  BY DEF PlainElements
<1>2. CASE w = 1
  <2>1. 1 \in 1 .. Len(els) /\ at[1] = 1  BY <1>1 DEF DataAt
  <2>2. QED  BY <1>2, <2>1
<1>3. CASE w # 1
  <2>1. w \in 2 .. Len(sd)  BY <1>1, <1>3
  <2>2. PICK j \in 1 .. Len(els) : \E k \in 1 .. Len(els[j].params) : w = at[j] + k
    BY <2>1, WordIsOne
  <2>3. PICK k \in 1 .. Len(els[j].params) : w = at[j] + k  BY <2>2
  <2>4. sd[w] = WordOf(els, j, k) /\ at[j + 1] = at[j] + Len(els[j].params)
    BY <2>3, WordPlace
  <2>5. k = Len(els[j].params) /\ j # Len(els)  BY <2>4, WordEnds
  <2>6. j + 1 \in 1 .. Len(els) /\ w = at[j + 1]  BY <1>1, <2>3, <2>4, <2>5
  <2>7. QED  BY <2>6
<1>4. QED  BY <1>2, <1>3

\* The structured data end with the first word that ends in a bracket.
LEMMA DataEnds ==
    ASSUME NEW S, NEW sd \in Seq(S), NEW els, PlainElements(els), NEW at, DataAt(sd, els, at),
           NEW w \in 1 .. Len(sd)
    PROVE  sd[w][Len(sd[w])] = "]" <=> w = Len(sd)
<1>1. Len(els) \in Nat \ {0} /\ Len(sd) \in Nat  BY DEF PlainElements
<1> DEFINE n == Len(els)
           k == Len(els[n].params)
<1>2. n \in 1 .. Len(els) /\ k \in 1 .. k
  <2>1. n \in 1 .. Len(els)  BY <1>1
  <2>2. k \in Nat \ {0}  BY <2>1 DEF PlainElements
  <2>3. QED  BY <2>1, <2>2
<1>3. at[n + 1] = at[n] + k /\ at[n + 1] = Len(sd) /\ sd[at[n] + k] = WordOf(els, n, k)
      /\ at[n] \in 1 .. Len(sd)
  BY <1>2, WordPlace DEF DataAt
<1>4. ASSUME w = Len(sd) PROVE sd[w][Len(sd[w])] = "]"
  <2>1. sd[w] = WordOf(els, n, k)  BY <1>3, <1>4
  <2>2. QED  BY <1>2, <2>1, WordEnds
<1>5. ASSUME sd[w][Len(sd[w])] = "]" PROVE w = Len(sd)
  <2>1. CASE w = 1
    <3>1. 1 \in 1 .. Len(els) /\ at[1] = 1  BY <1>1 DEF DataAt
    <3>2. sd[w][Len(sd[w])] = els[1].id  BY <2>1, <3>1, ElementBegins
    <3>3. els[1].id # "]"  BY <3>1 DEF PlainElements, Plain
    <3>4. QED  BY <1>5, <3>2, <3>3
  <2>2. CASE w # 1
    <3>1. w \in 2 .. Len(sd)  BY <1>1, <2>2
    <3>2. PICK j \in 1 .. Len(els) : \E i \in 1 .. Len(els[j].params) : w = at[j] + i
      BY <3>1, WordIsOne
    <3>3. PICK i \in 1 .. Len(els[j].params) : w = at[j] + i  BY <3>2
    <3>4. sd[w] = WordOf(els, j, i)  BY <3>3, WordPlace
    <3>5. i = Len(els[j].params) /\ j = Len(els)  BY <1>5, <3>4, WordEnds
    <3>6. QED  BY <1>3, <3>3, <3>5
  <2>3. QED  BY <2>1, <2>2
<1>6. QED  BY <1>4, <1>5

\* What parse_rfc5424 takes for structured data, and the parameters in them.
LEMMA DataCut ==
    ASSUME NEW S, NEW sd \in Seq(S), NEW els, PlainElements(els), NEW at, DataAt(sd, els, at),
           NEW r, Len(r) \in Nat, Len(r) > Len(sd), \A i \in 1 .. Len(sd) : r[i] = sd[i]
    PROVE  DataWords(r) = Len(sd) /\ Begins(r, "[") /\ ~Begins(r, "-")
<1>1. Len(els) \in Nat \ {0} /\ Len(sd) \in Nat  BY DEF PlainElements
<1>2. 1 \in 1 .. Len(els) /\ at[1] = 1 /\ sd[1] = <<"[", els[1].id>>  BY <1>1 DEF DataAt
<1>3. 1 \in 1 .. Len(sd)  BY <1>2, ElementBegins
<1>4. Begins(r, "[") /\ ~Begins(r, "-")
  <2>1. r # << >>  BY <1>1
  <2>2. r[1][1] = "["  BY <1>2, <1>3
  <2>3. QED  BY <2>1, <2>2 DEF Begins
<1> DEFINE ends == {i \in 1 .. Len(r) - 1 : r[i][Len(r[i])] = "]"}
<1>5. \A i \in 1 .. Len(sd) : r[i][Len(r[i])] = "]" <=> i = Len(sd)
  <2>1. ASSUME NEW i \in 1 .. Len(sd) PROVE r[i][Len(r[i])] = "]" <=> i = Len(sd)
    <3>1. sd[i][Len(sd[i])] = "]" <=> i = Len(sd)  BY DataEnds
    <3>2. r[i] = sd[i]  OBVIOUS
    <3>3. QED  BY <3>1, <3>2
  <2>2. QED  BY <2>1
<1>6. Len(sd) \in ends
  <2>1. Len(sd) \in 1 .. Len(sd) /\ Len(sd) \in 1 .. Len(r) - 1  BY <1>1, <1>3
  <2>2. QED  BY <1>5, <2>1
<1>7. \A j \in ends : Len(sd) <= j
  <2>1. ASSUME NEW j \in ends, ~(Len(sd) <= j) PROVE FALSE
    <3>1. j \in 1 .. Len(r) - 1 /\ r[j][Len(r[j])] = "]"  OBVIOUS
    <3>2. j \in 1 .. Len(sd)  BY <1>1, <2>1, <3>1
    <3>3. j = Len(sd)  BY <1>5, <3>1, <3>2
    <3>4. QED  BY <1>1, <2>1, <3>3
  <2>2. QED  BY <2>1
<1>8. ends \subseteq Int  BY <1>1
<1> DEFINE least(i) == i \in ends /\ \A j \in ends : i <= j
<1>9. DataWords(r) = IF Begins(r, "[") /\ ends # {}
                     THEN CHOOSE i \in ends : \A j \in ends : i <= j ELSE 0
  BY DEF DataWords
<1> HIDE DEF ends
<1>10. \A i \in ends : (\A j \in ends : i <= j) => i = Len(sd)
  <2>1. ASSUME NEW i \in ends, \A j \in ends : i <= j PROVE i = Len(sd)
    <3>1. i <= Len(sd) /\ Len(sd) <= i  BY <1>6, <1>7, <2>1
    <3>2. QED  BY <1>1, <1>8, <3>1
  <2>2. QED  BY <2>1
<1>11. (CHOOSE i \in ends : \A j \in ends : i <= j) = Len(sd)
  BY <1>6, <1>7, <1>10
<1>12. ends # {}  BY <1>6
<1>13. QED  BY <1>4, <1>9, <1>11, <1>12

\* The places that parse_structured_data looks at.
PairedIn(sd, a, b) ==
    /\ a \in DOMAIN sd /\ b \in DOMAIN sd /\ a < b /\ "[" \in ToSet(sd[a])
    /\ sd[b][1] \in DOMAIN KeyOf
    /\ \A k \in a + 1 .. b - 1 : "[" \notin ToSet(sd[k])

\* Parameter k of element j is the one at places a and b.
ParamAt(sd, els, at, a, b, j, k) ==
    /\ j \in 1 .. Len(els) /\ k \in 1 .. Len(els[j].params) /\ b = at[j] + k
    /\ sd[a][Len(sd[a])] = els[j].id /\ sd[b][1] = els[j].params[k]

LEMMA PlacesPaired ==
    ASSUME NEW sd
    PROVE  /\ \A q \in ParameterPlaces(sd) : PairedIn(sd, q[1], q[2])
           /\ \A a, b : PairedIn(sd, a, b) => <<a, b>> \in ParameterPlaces(sd)
<1>1. ASSUME NEW q \in ParameterPlaces(sd) PROVE PairedIn(sd, q[1], q[2])
  BY DEF PairedIn, ParameterPlaces
<1>2. ASSUME NEW a, NEW b, PairedIn(sd, a, b) PROVE <<a, b>> \in ParameterPlaces(sd)
  <2>1. <<a, b>> \in (DOMAIN sd) \X (DOMAIN sd) /\ <<a, b>>[1] = a /\ <<a, b>>[2] = b
    BY <1>2 DEF PairedIn
  <2>2. QED  BY <1>2, <2>1 DEF PairedIn, ParameterPlaces
<1>3. QED  BY <1>1, <1>2

\* A place is that of a parameter.
LEMMA PlaceHasParam ==
    ASSUME NEW S, NEW sd \in Seq(S), NEW els, PlainElements(els), NEW at,
           DataAt(sd, els, at), NEW a, NEW b, PairedIn(sd, a, b)
    PROVE  \E j, k : ParamAt(sd, els, at, a, b, j, k)
<1>1. Len(els) \in Nat \ {0} /\ Len(sd) \in Nat /\ DOMAIN sd = 1 .. Len(sd)
  BY DEF PlainElements
<1>2. a \in 1 .. Len(sd) /\ b \in 1 .. Len(sd) /\ a < b /\ "[" \in ToSet(sd[a])
      /\ \A k \in a + 1 .. b - 1 : "[" \notin ToSet(sd[k])
  BY <1>1 DEF PairedIn
<1>3. PICK j \in 1 .. Len(els) : a = at[j]  BY <1>2, ElementAt
<1>4. Len(els[j].params) \in Nat \ {0}  BY DEF PlainElements
<1>5. 1 \in 1 .. Len(els[j].params)  BY <1>4
<1>6. at[j + 1] = at[j] + Len(els[j].params)  BY <1>5, WordPlace
<1>7. b <= at[j + 1]
  <2>1. CASE j = Len(els)
    <3>1. at[j + 1] = Len(sd)  BY <2>1 DEF DataAt
    <3>2. QED  BY <1>2, <3>1
  <2>2. CASE j # Len(els)
    <3> DEFINE i == j + 1
               c == at[j + 1]
               n == Len(els[j].params)
    <3>1. i \in 1 .. Len(els)  BY <1>1, <2>2
    <3> HIDE DEF i
    <3>2. "[" \in ToSet(sd[at[i]])  BY <3>1, ElementBegins
    <3>3. c \notin a + 1 .. b - 1  BY <1>2, <3>2 DEF i
    <3>4. c = a + n /\ n \in Nat \ {0} /\ a \in Nat /\ b \in Nat
      BY <1>2, <1>3, <1>4, <1>6
    <3> HIDE DEF c, n
    <3>5. b <= c  BY <3>3, <3>4
    <3>6. QED  BY <3>5 DEF c
  <2>3. QED  BY <2>1, <2>2
<1> DEFINE k == b - at[j]
<1>8. k \in 1 .. Len(els[j].params) /\ b = at[j] + k
  <2>1. at[j] \in Nat /\ b \in Nat /\ at[j] < b /\ Len(els[j].params) \in Nat
        /\ b <= at[j] + Len(els[j].params)
    BY <1>2, <1>3, <1>4, <1>6, <1>7
  <2> DEFINE c == at[j]
  <2> HIDE DEF c
  <2>2. c \in Nat /\ c < b /\ b <= c + Len(els[j].params)  BY <2>1 DEF c
  <2>3. b - c \in 1 .. Len(els[j].params) /\ b = c + (b - c)  BY <2>1, <2>2
  <2>4. QED  BY <2>3 DEF c
<1> HIDE DEF k
<1>9. sd[b] = WordOf(els, j, k)  BY <1>8, WordPlace
<1>10. sd[b][1] = els[j].params[k]  BY <1>8, <1>9, WordEnds
<1>11. sd[a][Len(sd[a])] = els[j].id  BY <1>3, ElementBegins
<1>12. ParamAt(sd, els, at, a, b, j, k)  BY <1>8, <1>10, <1>11 DEF ParamAt
<1>13. QED  BY <1>12

\* A parameter has a place.
LEMMA ParamHasPlace ==
    ASSUME NEW S, NEW sd \in Seq(S), NEW els, PlainElements(els), NEW at,
           DataAt(sd, els, at), NEW j \in 1 .. Len(els), NEW k \in 1 .. Len(els[j].params)
    PROVE  \E a, b : PairedIn(sd, a, b) /\ ParamAt(sd, els, at, a, b, j, k)
<1>1. Len(els) \in Nat \ {0} /\ Len(sd) \in Nat /\ DOMAIN sd = 1 .. Len(sd)
  BY DEF PlainElements
<1> DEFINE a == at[j]
           b == at[j] + k
<1>2. a \in 1 .. Len(sd) /\ "[" \in ToSet(sd[a]) /\ sd[a][Len(sd[a])] = els[j].id
  BY ElementBegins
<1>3. b \in 1 .. Len(sd) /\ sd[b] = WordOf(els, j, k)  BY WordPlace
<1>4. sd[b][1] = els[j].params[k]  BY <1>3, WordEnds
<1>5. Len(els[j].params) \in Nat  BY DEF PlainElements
<1>6. ASSUME NEW i \in 1 .. Len(els[j].params), i # Len(els[j].params)
      PROVE  "[" \notin ToSet(sd[at[j] + i])
  <2> DEFINE w == sd[at[j] + i]
  <2>1. w = WordOf(els, j, i)  BY WordPlace
  <2> HIDE DEF w
  <2>2. "[" \in ToSet(w) => i = Len(els[j].params)  BY <2>1, WordEnds
  <2>3. QED  BY <1>6, <2>2 DEF w
<1>7. a \in Nat /\ k \in Nat /\ k <= Len(els[j].params) /\ a < b /\ b = a + k /\ a = at[j]
  BY <1>2, <1>5
<1> HIDE DEF a, b
<1>8. ASSUME NEW w \in a + 1 .. b - 1 PROVE "[" \notin ToSet(sd[w])
  <2> DEFINE n == Len(els[j].params)
  <2>1. w - a \in 1 .. n /\ w - a # n /\ w = a + (w - a)
    <3>1. n \in Nat /\ k <= n /\ a \in Nat /\ k \in Nat /\ b = a + k  BY <1>5, <1>7
    <3> HIDE DEF n
    <3>2. w \in a + 1 .. (a + k) - 1  BY <3>1
    <3>3. QED  BY <3>1, <3>2
  <2>2. "[" \notin ToSet(sd[at[j] + (w - a)])  BY <1>6, <2>1
  <2>3. at[j] + (w - a) = w  BY <1>7, <2>1
  <2>4. QED  BY <2>2, <2>3
<1>9. sd[b][1] \in DOMAIN KeyOf  BY <1>4 DEF PlainElements
<1>10. PairedIn(sd, a, b)  BY <1>1, <1>2, <1>3, <1>7, <1>8, <1>9 DEF PairedIn
<1>11. ParamAt(sd, els, at, a, b, j, k)  BY <1>2, <1>4, <1>7 DEF ParamAt
<1>12. QED  BY <1>10, <1>11

\* The places whose parameters are kept: the last ones of their names.
SameName(sd, q, o) ==
    /\ sd[o[1]][Len(sd[o[1]])] = sd[q[1]][Len(sd[q[1]])]
    /\ KeyOf[sd[o[2]][1]] = KeyOf[sd[q[2]][1]]

KeptPlaces(sd) ==
    {q \in ParameterPlaces(sd) : \A o \in ParameterPlaces(sd) : SameName(sd, q, o) => o[2] <= q[2]}

\* All are, as no two parameters have one name.
LEMMA AllKept ==
    ASSUME NEW S, NEW sd \in Seq(S), NEW els, PlainElements(els), KeysApart(els), NEW at,
           DataAt(sd, els, at)
    PROVE  KeptPlaces(sd) = ParameterPlaces(sd)
<1>1. ASSUME NEW q \in ParameterPlaces(sd), NEW o \in ParameterPlaces(sd), SameName(sd, q, o)
      PROVE  o[2] <= q[2]
  <2>1. PairedIn(sd, q[1], q[2]) /\ PairedIn(sd, o[1], o[2])  BY PlacesPaired
  <2>2. PICK j, k : ParamAt(sd, els, at, q[1], q[2], j, k)  BY <2>1, PlaceHasParam
  <2>3. PICK i, l : ParamAt(sd, els, at, o[1], o[2], i, l)  BY <2>1, PlaceHasParam
  <2>4. els[i].id = els[j].id /\ KeyOf[els[i].params[l]] = KeyOf[els[j].params[k]]
    BY <1>1, <2>2, <2>3 DEF SameName, ParamAt
  <2>5. i = j /\ l = k  BY <2>2, <2>3, <2>4 DEF KeysApart, ParamAt
  <2>6. o[2] = q[2]  BY <2>2, <2>3, <2>5 DEF ParamAt
  <2>7. q[2] \in Nat
    <3>1. q[2] \in 1 .. Len(sd) /\ Len(sd) \in Nat  BY <2>1 DEF PairedIn
    <3>2. QED  BY <3>1
  <2>8. QED  BY <2>6, <2>7
<1>2. QED  BY <1>1 DEF KeptPlaces

LEMMA DataParams ==
    ASSUME NEW S, NEW sd \in Seq(S), NEW E, NEW els \in Seq(E), PlainElements(els),
           KeysApart(els), NEW at, DataAt(sd, els, at)
    PROVE  parse_structured_data(sd) = ParamsOf(els)
<1>1. ToSet(els) = {els[j] : j \in 1 .. Len(els)}  BY Members
<1>2. \A x : x \in parse_structured_data(sd) <=>
        \E a, b : PairedIn(sd, a, b) /\ x = <<sd[a][Len(sd[a])], sd[b][1]>>
  <2> DEFINE Q == KeptPlaces(sd)
  <2>1. parse_structured_data(sd) = {<<sd[q[1]][Len(sd[q[1]])], sd[q[2]][1]>> : q \in Q}
    BY DEF parse_structured_data, KeptPlaces, SameName
  <2>2. Q = ParameterPlaces(sd)  BY AllKept
  <2> HIDE DEF Q
  <2>3. \A x : x \in parse_structured_data(sd) <=>
          \E q \in Q : x = <<sd[q[1]][Len(sd[q[1]])], sd[q[2]][1]>>
    BY <2>1
  <2>4. ASSUME NEW a, NEW b, PairedIn(sd, a, b)
        PROVE  <<sd[a][Len(sd[a])], sd[b][1]>> \in parse_structured_data(sd)
    <3>1. <<a, b>> \in Q /\ <<a, b>>[1] = a /\ <<a, b>>[2] = b  BY <2>2, <2>4, PlacesPaired
    <3>2. QED  BY <2>3, <3>1
  <2>5. \A q \in Q : PairedIn(sd, q[1], q[2])  BY <2>2, PlacesPaired
  <2>6. QED  BY <2>3, <2>4, <2>5
<1>3. \A x : x \in ParamsOf(els) <=>
        \E j \in 1 .. Len(els) : \E k \in 1 .. Len(els[j].params) :
            x = <<els[j].id, els[j].params[k]>>
  <2>1. ASSUME NEW j \in 1 .. Len(els)
        PROVE  ToSet(els[j].params) = {els[j].params[k] : k \in 1 .. Len(els[j].params)}
    <3> DEFINE ps == els[j].params
    <3>1. ps \in Seq(ToSet(ps))  BY DEF PlainElements
    <3> HIDE DEF ps
    <3>2. ToSet(ps) = {ps[k] : k \in 1 .. Len(ps)}  BY <3>1, Members
    <3>3. QED  BY <3>2 DEF ps
  <2>2. \A x : x \in ParamsOf(els) <=> \E e \in ToSet(els) : \E p \in ToSet(e.params) : x = <<e.id, p>>
    BY DEF ParamsOf
  <2>3. ASSUME NEW x, NEW e \in ToSet(els), NEW p \in ToSet(e.params), x = <<e.id, p>>
        PROVE  \E j \in 1 .. Len(els) : \E k \in 1 .. Len(els[j].params) :
                 x = <<els[j].id, els[j].params[k]>>
    <3>1. PICK j \in 1 .. Len(els) : e = els[j]  BY <1>1
    <3>2. PICK k \in 1 .. Len(els[j].params) : p = els[j].params[k]  BY <2>1, <3>1
    <3>3. QED  BY <2>3, <3>1, <3>2
  <2>4. ASSUME NEW j \in 1 .. Len(els), NEW k \in 1 .. Len(els[j].params)
        PROVE  els[j] \in ToSet(els) /\ els[j].params[k] \in ToSet(els[j].params)
    BY <1>1, <2>1
  <2>5. QED  BY <2>2, <2>3, <2>4
<1>4. ASSUME NEW x \in parse_structured_data(sd) PROVE x \in ParamsOf(els)
  <2>1. PICK a, b : PairedIn(sd, a, b) /\ x = <<sd[a][Len(sd[a])], sd[b][1]>>  BY <1>2
  <2>2. PICK j, k : ParamAt(sd, els, at, a, b, j, k)  BY <2>1, PlaceHasParam
  <2>3. /\ j \in 1 .. Len(els) /\ k \in 1 .. Len(els[j].params)
        /\ x = <<els[j].id, els[j].params[k]>>
    BY <2>1, <2>2 DEF ParamAt
  <2>4. QED  BY <1>3, <2>3
<1>5. ASSUME NEW x \in ParamsOf(els) PROVE x \in parse_structured_data(sd)
  <2>1. PICK j \in 1 .. Len(els) : \E k \in 1 .. Len(els[j].params) :
            x = <<els[j].id, els[j].params[k]>>
    BY <1>3
  <2>2. PICK k \in 1 .. Len(els[j].params) : x = <<els[j].id, els[j].params[k]>>  BY <2>1
  <2>3. PICK a, b : PairedIn(sd, a, b) /\ ParamAt(sd, els, at, a, b, j, k)
    BY ParamHasPlace
  <2>4. x = <<sd[a][Len(sd[a])], sd[b][1]>>  BY <2>2, <2>3 DEF ParamAt
  <2>5. QED  BY <1>2, <2>3, <2>4
<1>6. QED  BY <1>4, <1>5

\* A text behind its priority: of words h and then rest.
Opened(u, h, rest, x) ==
    /\ Len(u) = Len(h) + Len(rest) /\ u[1] = <<x>>
    /\ \A i \in 2 .. Len(h) : u[i] = h[i]
    /\ \A i \in 1 .. Len(rest) : u[Len(h) + i] = rest[i]

\* Text s is a head h, which begins with priority p and symbol x, and then rest.
Headed(S, s, h, rest, p, x) ==
    /\ h \in Seq(S) /\ rest \in Seq(S) /\ Len(h) > 0 /\ h[1] = <<p, x>> /\ <<x>> \in S
    /\ s = h \o rest

Opens(S, s, h, rest, p, x) ==
    /\ s # << >> /\ s[1] = <<p, x>>
    /\ Drop(s, 1) \in Seq(S) /\ Opened(Drop(s, 1), h, rest, x)

LEMMA TextOpened ==
    ASSUME NEW S, NEW h, NEW rest, NEW p, NEW x, NEW s, Headed(S, s, h, rest, p, x)
    PROVE  Opens(S, s, h, rest, p, x)
<1>0. /\ h \in Seq(S) /\ rest \in Seq(S) /\ Len(h) > 0 /\ h[1] = <<p, x>> /\ <<x>> \in S
      /\ s = h \o rest
  BY DEF Headed
<1>1. /\ s \in Seq(S) /\ Len(s) = Len(h) + Len(rest) /\ Len(h) \in Nat /\ Len(rest) \in Nat
      /\ \A i \in 1 .. Len(h) + Len(rest) : s[i] = IF i <= Len(h) THEN h[i] ELSE rest[i - Len(h)]
  BY <1>0, ConcatProperties
<1>2. 1 \in 1 .. Len(h) + Len(rest) /\ 1 <= Len(h)  BY <1>0, <1>1
<1>3. s[1] = <<p, x>>  BY <1>0, <1>1, <1>2
<1>4. Len(s) > 0 /\ s # << >>  BY <1>0, <1>1
<1> DEFINE u == Drop(s, 1)
<1>5. u \in Seq(S) /\ Behind1(u, s, x)
  BY <1>0, <1>1, <1>3, <1>4, PriorityDropped
<1> HIDE DEF u
<1>6. /\ Len(u) = Len(s) /\ u[1] = <<x>> /\ \A i \in 2 .. Len(s) : u[i] = s[i]
  BY <1>5 DEF Behind1
<1>7. ASSUME NEW i \in 2 .. Len(h) PROVE u[i] = h[i]
  <2>1. i \in 2 .. Len(s) /\ i \in 1 .. Len(h) + Len(rest) /\ i <= Len(h)  BY <1>1
  <2>2. QED  BY <1>1, <1>6, <2>1
<1>8. ASSUME NEW i \in 1 .. Len(rest) PROVE u[Len(h) + i] = rest[i]
  <2> DEFINE j == Len(h) + i
  <2>1. /\ j \in 2 .. Len(s) /\ j \in 1 .. Len(h) + Len(rest) /\ ~(j <= Len(h))
        /\ j - Len(h) = i
    BY <1>1, <1>2
  <2> HIDE DEF j
  <2>2. u[j] = s[j] /\ s[j] = rest[j - Len(h)]  BY <1>1, <1>6, <2>1
  <2>3. QED  BY <2>1, <2>2 DEF j
<1>9. Opened(u, h, rest, x)  BY <1>1, <1>6, <1>7, <1>8 DEF Opened
<1>10. QED  BY <1>3, <1>4, <1>5, <1>9 DEF u, Opens

\* What of a sequence is left behind its first n elements.
LeftBehind(S, b, s, n) ==
    b \in Seq(S) /\ Len(b) = Len(s) - n /\ \A i \in 1 .. Len(s) - n : b[i] = s[n + i]

LEMMA CutBehind ==
    ASSUME NEW S, NEW s \in Seq(S), NEW n \in 0 .. Len(s)
    PROVE  LeftBehind(S, SubSeq(s, n + 1, Len(s)), s, n)
<1> DEFINE b == SubSeq(s, n + 1, Len(s))
<1>1. b \in Seq(S) /\ Len(b) = Len(s) - n  BY Cut
<1>2. \A i \in 1 .. Len(s) - n : b[i] = s[n + i]  BY Cut
<1>3. QED  BY <1>1, <1>2 DEF LeftBehind

\* The fields of an RFC 5424 text.
DataOf(rest)  == SubSeq(rest, 1, DataWords(rest))
TextBehind(rest) == IF Begins(rest, "-") THEN Drop(rest, 1) ELSE From(rest, DataWords(rest) + 1)

Fields5424(f, ver, h, data, text) ==
    /\ f.version = <<ver>> /\ f.host = h[3] /\ f.app = h[4] /\ f.proc = h[5] /\ f.msgid = h[6]
    /\ f.sd = data /\ f.message = text

LEMMA Read5424 ==
    ASSUME NEW S, NEW u \in Seq(S), NEW h, Len(h) = 6, NEW rest \in Seq(S), NEW ver,
           Opened(u, h, rest, ver)
    PROVE  Fields5424(parse_rfc5424(u), ver, h, DataOf(rest), TextBehind(rest))
<1> DEFINE t == Drop(u, 1)
<1>1. Len(u) = 6 + Len(rest) /\ Len(rest) \in Nat /\ u[1] = <<ver>>  BY DEF Opened
<1>2. \A i \in 2 .. 6 : u[i] = h[i]  BY DEF Opened
<1>3. \A i \in 1 .. Len(rest) : u[6 + i] = rest[i]  BY DEF Opened
<1>4. LeftBehind(S, t, u, 1)
  <2>1. u # << >>  BY <1>1
  <2>2. Len(u[1]) = 1  BY <1>1
  <2>3. Drop(u, 1) = IF 1 >= Len(u[1]) THEN Tail(u) ELSE <<From(u[1], 1 + 1)>> \o Tail(u)
    BY DEF Drop
  <2>4. 1 >= Len(u[1])
    <3>1. 1 >= 1  OBVIOUS
    <3>2. QED  BY <2>2, <3>1, Zenon
  <2>5. t = Tail(u)  BY <2>3, <2>4, Zenon
  <2>6. Tail(u) = SubSeq(u, 2, Len(u))  BY <2>1, TailIsSubSeq
  <2> DEFINE n == 1
  <2>7. n \in 0 .. Len(u) /\ n = 1 /\ n + 1 = 2  BY <1>1
  <2> HIDE DEF t, n
  <2>8. t = SubSeq(u, n + 1, Len(u))  BY <2>5, <2>6, <2>7
  <2>9. LeftBehind(S, SubSeq(u, n + 1, Len(u)), u, n)  BY <2>7, CutBehind
  <2>10. QED  BY <2>7, <2>8, <2>9
<1> HIDE DEF t
<1>5. t \in Seq(S) /\ Len(t) = 5 + Len(rest) /\ \A i \in 1 .. 5 + Len(rest) : t[i] = u[1 + i]
  <2>1. Len(u) - 1 = 5 + Len(rest)  BY <1>1
  <2>2. QED  BY <1>4, <2>1 DEF LeftBehind
<1>6. From(t, 6) = rest
  <2>1. ASSUME NEW i \in 1 .. Len(rest) PROVE t[5 + i] = rest[i]
    <3>1. 5 + i \in 1 .. 5 + Len(rest) /\ 1 + (5 + i) = 6 + i  BY <1>1
    <3>2. t[5 + i] = u[1 + (5 + i)]  BY <1>5, <3>1
    <3>3. QED  BY <1>3, <3>1, <3>2
  <2>2. 5 \in Nat /\ 5 + 1 = 6  OBVIOUS
  <2>3. From(t, 5 + 1) = rest  BY <1>5, <2>1, <2>2, BackIs
  <2>4. QED  BY <2>2, <2>3
<1>7. ASSUME NEW k \in 1 .. 5 PROVE Word(t, k) = h[k + 1]
  <2>1. k <= Len(t) /\ k \in 1 .. 5 + Len(rest) /\ k + 1 \in 2 .. 6 /\ 1 + k = k + 1  BY <1>1, <1>5
  <2>2. t[k] = u[1 + k]  BY <1>5, <2>1
  <2>3. Word(t, k) = t[k]  BY <2>1 DEF Word
  <2>4. QED  BY <1>2, <2>1, <2>2, <2>3
<1>8. Word(t, 2) = h[3] /\ Word(t, 3) = h[4] /\ Word(t, 4) = h[5] /\ Word(t, 5) = h[6]
  <2>1. 2 + 1 = 3 /\ 3 + 1 = 4 /\ 4 + 1 = 5 /\ 5 + 1 = 6  OBVIOUS
  <2>2. QED  BY <1>7, <2>1
<1>9. u[1][1] = ver  BY <1>1
<1>10. parse_rfc5424(u) =
          [version |-> <<ver>>, host |-> Word(t, 2), app |-> Word(t, 3), proc |-> Word(t, 4),
           msgid |-> Word(t, 5), sd |-> DataOf(rest), message |-> TextBehind(rest)]
  BY <1>6, <1>9 DEF parse_rfc5424, DataOf, TextBehind, t
<1>11. QED  BY <1>8, <1>10 DEF Fields5424

\* Structured data or a hyphen, and then the message.
DataThenText(S, r, els, sd, message) ==
    /\ sd \in Seq(S) /\ message \in Seq(S) /\ <<"-">> \in S
    /\ sd # << >> => PlainElements(els) /\ LaidOut(sd, els) /\ message # << >>
    /\ r = (IF sd = << >> THEN <<<<"-">>>> ELSE sd) \o message

DataReadAs(r, sd, message) == DataOf(r) = sd /\ TextBehind(r) = message

LEMMA DataRead ==
    ASSUME NEW S, NEW r, NEW els, NEW sd, NEW message, DataThenText(S, r, els, sd, message)
    PROVE  DataReadAs(r, sd, message)
<1> DEFINE first == IF sd = << >> THEN <<<<"-">>>> ELSE sd
<1>0. /\ sd \in Seq(S) /\ message \in Seq(S) /\ <<"-">> \in S
      /\ sd # << >> => PlainElements(els) /\ LaidOut(sd, els) /\ message # << >>
      /\ r = first \o message
  BY DEF DataThenText
<1>a. first = (IF sd = << >> THEN <<<<"-">>>> ELSE sd) /\ first \in Seq(S)  BY <1>0
<1> HIDE DEF first
<1>1. first \in Seq(S)  BY <1>a
<1>2. /\ r \in Seq(S) /\ Len(r) = Len(first) + Len(message)
      /\ Len(first) \in Nat /\ Len(message) \in Nat
      /\ \A i \in 1 .. Len(first) + Len(message) :
           r[i] = IF i <= Len(first) THEN first[i] ELSE message[i - Len(first)]
  BY <1>0, <1>1, ConcatProperties
<1>3. \A i \in 1 .. Len(first) : r[i] = first[i]
  <2>1. \A i \in 1 .. Len(first) : i \in 1 .. Len(first) + Len(message) /\ i <= Len(first)
    BY <1>2
  <2>2. QED  BY <1>2, <2>1
<1>4. \A i \in 1 .. Len(message) : r[Len(first) + i] = message[i]
  <2>1. ASSUME NEW i \in 1 .. Len(message) PROVE r[Len(first) + i] = message[i]
    <3> DEFINE j == Len(first) + i
    <3>1. j \in 1 .. Len(first) + Len(message) /\ ~(j <= Len(first)) /\ j - Len(first) = i
      BY <1>2
    <3> HIDE DEF j
    <3>2. r[j] = message[j - Len(first)]  BY <1>2, <3>1
    <3>3. QED  BY <3>1, <3>2 DEF j
  <2>2. QED  BY <2>1
<1>5. SubSeq(r, 1, Len(first)) = first /\ From(r, Len(first) + 1) = message
  <2>1. Len(first) <= Len(r)  BY <1>2
  <2>2. SubSeq(r, 1, Len(first)) = first  BY <1>1, <1>2, <1>3, <2>1, FrontIs
  <2> DEFINE n == Len(first)
  <2>3. /\ n \in Nat /\ Len(r) = n + Len(message)
        /\ \A i \in 1 .. Len(message) : r[n + i] = message[i]
    BY <1>2, <1>4
  <2>4. r \in Seq(S) /\ message \in Seq(S)  BY <1>0, <1>2
  <2>5. From(r, n + 1) = message
    <3> HIDE DEF n
    <3>1. QED  BY <2>3, <2>4, BackIs
  <2>6. QED  BY <2>2, <2>5
<1>6. CASE sd = << >>
  <2>1. first = <<<<"-">>>> /\ Len(first) = 1 /\ first[1] = <<"-">>  BY <1>a, <1>6
  <2>2. r[1] = <<"-">> /\ r # << >>  BY <1>2, <1>3, <2>1
  <2>3. Len(r[1]) = 1 /\ r[1][1] = "-"  BY <2>2
  <2>4. Begins(r, "-") /\ ~Begins(r, "[")  BY <2>2, <2>3 DEF Begins
  <2>5. DataWords(r) = 0  BY <2>4 DEF DataWords
  <2>6. SubSeq(r, 1, 0) = << >>
    <3>1. Len(<< >>) = 0 /\ << >> \in Seq(S) /\ 0 <= Len(r) /\ \A i \in 1 .. 0 : FALSE  BY <1>2
    <3>2. QED  BY <1>2, <3>1, FrontIs
  <2>7. Drop(r, 1) = Tail(r)
    <3>1. 1 >= Len(r[1])
      <4>1. Len(r[1]) = 1  BY <2>3
      <4>2. 1 >= 1  OBVIOUS
      <4>3. QED  BY <4>1, <4>2, Zenon
    <3>2. Drop(r, 1) = IF 1 >= Len(r[1]) THEN Tail(r) ELSE <<From(r[1], 1 + 1)>> \o Tail(r)
      BY DEF Drop
    <3>3. QED  BY <3>1, <3>2, Zenon
  <2>8. Tail(r) = From(r, 2)
    <3>1. Tail(r) = SubSeq(r, 2, Len(r))  BY <1>2, <2>2, TailIsSubSeq
    <3>2. QED  BY <3>1 DEF From
  <2>9. Len(first) + 1 = 2  BY <2>1
  <2>10. QED
    BY <1>5, <1>6, <2>4, <2>5, <2>6, <2>7, <2>8, <2>9 DEF DataOf, TextBehind, DataReadAs
<1>7. CASE sd # << >>
  <2>1. first = sd /\ PlainElements(els) /\ LaidOut(sd, els) /\ message # << >>
    BY <1>0, <1>a, <1>7
  <2>2. PICK at : DataAt(sd, els, at)  BY <2>1, LaidOutAt
  <2>3. Len(message) > 0  BY <1>0, <2>1
  <2>4. Len(r) > Len(sd) /\ Len(r) \in Nat /\ \A i \in 1 .. Len(sd) : r[i] = sd[i]
    BY <1>2, <1>3, <2>1, <2>3
  <2>5. DataWords(r) = Len(sd) /\ ~Begins(r, "-")  BY <1>0, <2>1, <2>2, <2>4, DataCut
  <2>6. QED  BY <1>5, <2>1, <2>5 DEF DataOf, TextBehind, DataReadAs
<1>8. QED  BY <1>6, <1>7 DEF DataReadAs

\* A tag, a colon and the message behind it.
Tagged(S, r, T, app, message) ==
    /\ app \in Seq(T) /\ ":" \notin ToSet(app) /\ r \in Seq(S) /\ message \in Seq(S)
    /\ Len(r) = 1 + Len(message) /\ r[1] = Append(app, ":")
    /\ \A i \in 1 .. Len(message) : r[1 + i] = message[i]

LEMMA TagRead ==
    ASSUME NEW S, NEW r, NEW T, NEW app, NEW message, Tagged(S, r, T, app, message)
    PROVE  /\ TagAndMessage(r).app = app /\ TagAndMessage(r).proc = << >>
           /\ TagAndMessage(r).message = message
<1>0. /\ app \in Seq(T) /\ ":" \notin ToSet(app) /\ r \in Seq(S) /\ message \in Seq(S)
      /\ Len(r) = 1 + Len(message) /\ r[1] = Append(app, ":")
      /\ \A i \in 1 .. Len(message) : r[1 + i] = message[i]
  BY DEF Tagged
<1> DEFINE w == Append(app, ":")
           n == Len(app) + 1
           U == T \cup {":"}
<1>1. app \in Seq(U) /\ ":" \in U  BY <1>0, SeqMonotonic
<1>2. /\ w \in Seq(U) /\ Len(w) = n /\ Len(app) \in Nat /\ w[n] = ":"
      /\ \A i \in 1 .. Len(app) : w[i] = app[i]
  BY <1>1, AppendEffect
<1> HIDE DEF w
<1>3. ToSet(app) = {app[i] : i \in 1 .. Len(app)}  BY <1>0, Members
<1>4. \A i \in 1 .. Len(app) : w[i] \notin {":"}  BY <1>0, <1>2, <1>3
<1>5. DOMAIN w = 1 .. n  BY <1>2, LenProperties
<1>6. First(w, TagEnds) = n
  <2> DEFINE first(i) == w[i] \in {":"} /\ \A j \in 1 .. i - 1 : w[j] \notin {":"}
  <2>1. First(w, TagEnds) = IF \E i \in DOMAIN w : w[i] \in {":"}
                            THEN CHOOSE i \in DOMAIN w : first(i) ELSE Len(w) + 1
    BY DEF First, TagEnds
  <2>2. n \in DOMAIN w  BY <1>2, <1>5
  <2>3. first(n)
    <3>1. n - 1 = Len(app)  BY <1>2
    <3>2. QED  BY <1>2, <1>4, <3>1
  <2>4. \A i \in DOMAIN w : first(i) => i = n
    <3>1. ASSUME NEW i \in DOMAIN w, w[i] \in {":"} PROVE i = n
      <4>1. i \notin 1 .. Len(app)  BY <1>4, <3>1
      <4>2. QED  BY <1>2, <1>5, <4>1
    <3>2. QED  BY <3>1
  <2>5. \E i \in DOMAIN w : w[i] \in {":"}  BY <2>2, <2>3
  <2> HIDE DEF first
  <2>6. (CHOOSE i \in DOMAIN w : first(i)) = n  BY <2>2, <2>3, <2>4
  <2>7. QED  BY <2>1, <2>5, <2>6
<1>7. From(w, n + 1) = << >>
  <2> DEFINE e == << >>
  <2>1. e \in Seq(U) /\ Len(e) = 0 /\ \A i \in 1 .. 0 : FALSE  OBVIOUS
  <2>2. n \in Nat /\ Len(w) = n /\ n + 0 = n  BY <1>2
  <2>3. w \in Seq(U)  BY <1>2
  <2> HIDE DEF n, e
  <2>4. Len(w) = n + Len(e) /\ \A i \in 1 .. Len(e) : w[n + i] = e[i]  BY <2>1, <2>2
  <2>5. w \in Seq(U) /\ e \in Seq(U) /\ n \in Nat  BY <2>1, <2>2, <2>3
  <2>6. From(w, n + 1) = e  BY <2>4, <2>5, BackIs
  <2>7. QED  BY <2>6 DEF e
<1>8. SubSeq(w, 1, n - 1) = app
  <2>1. n - 1 = Len(app) /\ Len(app) <= Len(w)  BY <1>2
  <2>2. SubSeq(w, 1, Len(app)) = app  BY <1>1, <1>2, <2>1, FrontIs
  <2>3. QED  BY <2>1, <2>2
<1>9. Drop(r, n) = message
  <2>1. r # << >> /\ Len(r) \in Nat /\ r \in Seq(S)  BY <1>0
  <2>2. Tail(r) = From(r, 1 + 1)
    <3>1. Tail(r) = SubSeq(r, 2, Len(r))  BY <2>1, TailIsSubSeq
    <3>2. 1 + 1 = 2  OBVIOUS
    <3>3. QED  BY <3>1, <3>2 DEF From
  <2>3. From(r, 1 + 1) = message
    <3>1. 1 \in Nat  OBVIOUS
    <3>2. QED  BY <1>0, <3>1, BackIs
  <2>4. n >= Len(r[1])  BY <1>0, <1>2 DEF w
  <2>5. Drop(r, n) = IF n >= Len(r[1]) THEN Tail(r) ELSE <<From(r[1], n + 1)>> \o Tail(r)
    BY DEF Drop
  <2>6. QED  BY <2>2, <2>3, <2>4, <2>5
<1>10. r[1] = w /\ First(r[1], TagEnds) = n /\ From(r[1], n + 1) = << >>
       /\ SubSeq(r[1], 1, n - 1) = app /\ ~(n > Len(r[1]))
  <2>1. r[1] = w  BY <1>0 DEF w
  <2>2. ~(n > Len(w))  BY <1>2
  <2>3. QED  BY <1>6, <1>7, <1>8, <2>1, <2>2
<1> HIDE DEF n
<1> DEFINE close == First(<< >>, {"]"})
<1>11. TagAndMessage(r) = [app |-> app, proc |-> << >>, message |-> Drop(r, n)]
  BY <1>10 DEF TagAndMessage
<1>12. QED  BY <1>9, <1>11

\* The fields of an RFC 3164 text.
Fields3164(f, h, app, text) ==
    f.host = h[2] /\ f.app = app /\ f.proc = << >> /\ f.message = text /\ f.sd = << >>

LEMMA Read3164 ==
    ASSUME NEW T, NEW app \in Seq(T), ":" \notin ToSet(app), NEW S, NEW u \in Seq(S),
           NEW message \in Seq(S), NEW h, Len(h) = 3, h[3] = Append(app, ":"),
           Opened(u, h, message, "TS")
    PROVE  Fields3164(parse_rfc3164(u), h, app, message)
<1>1. Len(u) = 3 + Len(message) /\ Len(message) \in Nat /\ u[1] = <<"TS">>  BY DEF Opened
<1>2. u[2] = h[2] /\ u[3] = h[3]  BY DEF Opened
<1>3. \A i \in 1 .. Len(message) : u[3 + i] = message[i]  BY DEF Opened
<1>4. Word(u, 1) = <<"TS">> /\ Word(u, 2) = h[2]  BY <1>1, <1>2 DEF Word
<1> DEFINE r == From(u, 3)
<1>5. r \in Seq(S) /\ Len(r) = Len(u) - 2 /\ \A i \in 1 .. Len(u) - 2 : r[i] = u[2 + i]
  <2> DEFINE n == 2
             b == SubSeq(u, n + 1, Len(u))
  <2>1. n \in 0 .. Len(u) /\ n = 2 /\ n + 1 = 3  BY <1>1
  <2> HIDE DEF n
  <2>2. r = b  BY <2>1 DEF From
  <2>3. LeftBehind(S, b, u, n)  BY <2>1, CutBehind
  <2> HIDE DEF r, b
  <2>4. QED  BY <2>1, <2>2, <2>3 DEF LeftBehind
<1> HIDE DEF r
<1>6. Len(r) = 1 + Len(message) /\ r[1] = Append(app, ":")
  <2>1. 1 \in 1 .. Len(u) - 2 /\ 2 + 1 = 3  BY <1>1
  <2>2. r[1] = u[3]  BY <1>5, <2>1
  <2>3. QED  BY <1>1, <1>2, <1>5, <2>2
<1>7. ASSUME NEW i \in 1 .. Len(message) PROVE r[1 + i] = message[i]
  <2>1. 1 + i \in 1 .. Len(u) - 2 /\ 2 + (1 + i) = 3 + i  BY <1>1
  <2>2. r[1 + i] = u[2 + (1 + i)]  BY <1>5, <2>1
  <2>3. QED  BY <1>3, <2>1, <2>2
<1> DEFINE t == TagAndMessage(r)
<1>8. t.app = app /\ t.proc = << >> /\ t.message = message
  <2>1. Tagged(S, r, T, app, message)  BY <1>5, <1>6, <1>7 DEF Tagged
  <2>2. QED  BY <2>1, TagRead
<1>9. Len(u) > 2 /\ 2 + 1 = 3  BY <1>1
<1>10. parse_rfc3164(u) =
           [version |-> << >>, host |-> h[2], app |-> t.app, proc |-> t.proc,
            msgid |-> << >>, sd |-> << >>, message |-> t.message]
  BY <1>4, <1>9 DEF parse_rfc3164, r
<1> HIDE DEF t
<1>11. QED  BY <1>8, <1>10 DEF Fields3164

\* What MeantAssumption says of the elements of a message.
LEMMA MeantPlain ==
    ASSUME NEW m \in Meant, m.sd # << >>
    PROVE  /\ PlainElements(m.elements) /\ m.elements \in Seq(ToSet(m.elements))
           /\ KeysApart(m.elements)
<1> DEFINE els == m.elements
<1>1. els \in Seq(ToSet(els)) /\ els # << >>  BY MeantAssumption
<1>2. ASSUME NEW e \in ToSet(els)
      PROVE  /\ e.params \in Seq(ToSet(e.params)) /\ e.params # << >>
             /\ ToSet(e.params) \subseteq DOMAIN KeyOf
             /\ {"[", "]"} \cap ({e.id} \cup ToSet(e.params)) = {}
  <2>1. PlainElement(e)  BY MeantAssumption
  <2>2. QED  BY <2>1 DEF PlainElement
<1> HIDE DEF els
<1>3. Len(els) \in Nat \ {0} /\ ToSet(els) = {els[j] : j \in 1 .. Len(els)}
  BY <1>1, Members
<1>4. ASSUME NEW j \in 1 .. Len(els)
      PROVE  /\ Plain(els[j].id) /\ Len(els[j].params) \in Nat \ {0}
             /\ els[j].params \in Seq(ToSet(els[j].params))
             /\ \A k \in 1 .. Len(els[j].params) : Plain(els[j].params[k])
             /\ \A k \in 1 .. Len(els[j].params) : els[j].params[k] \in DOMAIN KeyOf
  <2> DEFINE id == els[j].id
             ps == els[j].params
  <2>1. els[j] \in ToSet(els)  BY <1>3
  <2>2. /\ ps \in Seq(ToSet(ps)) /\ ps # << >> /\ {"[", "]"} \cap ({id} \cup ToSet(ps)) = {}
        /\ ToSet(ps) \subseteq DOMAIN KeyOf
    BY <1>2, <2>1
  <2> HIDE DEF id, ps
  <2>3. Len(ps) \in Nat \ {0} /\ ToSet(ps) = {ps[k] : k \in 1 .. Len(ps)}
    BY <2>2, Members
  <2>4. \A x \in {id} \cup ToSet(ps) : Plain(x)  BY <2>2 DEF Plain
  <2>5. \A k \in 1 .. Len(ps) : ps[k] \in ToSet(ps)  BY <2>3
  <2>6. QED  BY <2>2, <2>3, <2>4, <2>5 DEF id, ps
<1>5. PlainElements(els)  BY <1>3, <1>4 DEF PlainElements
<1>6. KeysApart(els)
  <2>1. KeysDiffer(els)
    <3>1. KeysDiffer(m.elements)  BY MeantAssumption
    <3>2. QED  BY <3>1 DEF els
  <2>2. DOMAIN els = 1 .. Len(els)  BY <1>1, LenProperties
  <2>3. \A j \in 1 .. Len(els) : DOMAIN els[j].params = 1 .. Len(els[j].params)
    <3> SUFFICES ASSUME NEW j \in 1 .. Len(els)
                 PROVE  DOMAIN els[j].params = 1 .. Len(els[j].params)
      OBVIOUS
    <3>1. els[j].params \in Seq(ToSet(els[j].params))  BY <1>4
    <3>2. QED  BY <3>1, LenProperties
  <2>4. ASSUME NEW i \in 1 .. Len(els), NEW j \in 1 .. Len(els),
               NEW k \in 1 .. Len(els[i].params), NEW l \in 1 .. Len(els[j].params),
               els[i].id = els[j].id, KeyOf[els[i].params[k]] = KeyOf[els[j].params[l]]
        PROVE  i = j /\ k = l
    <3>1. /\ i \in DOMAIN els /\ j \in DOMAIN els
          /\ k \in DOMAIN els[i].params /\ l \in DOMAIN els[j].params
      BY <2>2, <2>3
    <3>2. QED  BY <2>1, <2>4, <3>1 DEF KeysDiffer
  <2>5. QED  BY <2>4 DEF KeysApart
<1>7. QED  BY <1>1, <1>5, <1>6 DEF els

\* No structured data, no parameters.
LEMMA NoData == parse_structured_data(<< >>) = {} /\ ParamsOf(<< >>) = {}
<1>1. DOMAIN << >> = {} /\ ToSet(<< >>) = {}  BY DEF ToSet
<1>2. parse_structured_data(<< >>) = {}
  <2>1. (DOMAIN << >>) \X (DOMAIN << >>) = {}  BY <1>1
  <2> DEFINE e == << >>
  <2>2. \A q \in (DOMAIN e) \X (DOMAIN e) : FALSE  BY <2>1
  <2> HIDE DEF e
  <2>3. ParameterPlaces(e) = {}  BY <2>2 DEF ParameterPlaces
  <2>4. parse_structured_data(e) = {}  BY <2>3 DEF parse_structured_data
  <2>5. QED  BY <2>4 DEF e
<1>3. ParamsOf(<< >>) = {}  BY <1>1 DEF ParamsOf
<1>4. QED  BY <1>2, <1>3

\* What is made of a text that begins with a priority.
FieldsBehind(s) ==
    IF Len(s[1]) > 1 /\ s[1][2] \in Versions THEN parse_rfc5424(Drop(s, 1))
    ELSE parse_rfc3164(Drop(s, 1))

LEMMA PriorityRead ==
    ASSUME NEW m \in Meant, NEW s, s # << >>, NEW x, s[1] = <<m.pri, x>>,
           NEW f, f = FieldsBehind(s)
    PROVE  /\ SyslogFields(s) # NoMessage
           /\ SyslogFields(s) = [severity |-> Severities[m.level + 1], facility |-> m.facility,
                                 fields |-> f, params |-> parse_structured_data(f.sd)]
<1> DEFINE p == Priority[m.pri]
<1>1. /\ m.facility \in Nat /\ m.level \in 0 .. 7
      /\ m.pri \in DOMAIN Priority /\ p = 8 * m.facility + m.level
  BY MeantAssumption
<1>2. s[1][1] = m.pri  OBVIOUS
<1>3. parse_priority(s) = p  BY <1>1, <1>2 DEF parse_priority
<1> HIDE DEF p
<1>4. ~(p < 0) /\ p \div 8 = m.facility /\ p % 8 = m.level /\ p # -1
  <2>1. \A a \in Nat, b \in 0 .. 7 :
          ~(8 * a + b < 0) /\ (8 * a + b) \div 8 = a /\ (8 * a + b) % 8 = b /\ 8 * a + b # -1
    OBVIOUS
  <2>2. QED  BY <1>1, <2>1
<1>5. parse(s) = [priority |-> p, facility |-> m.facility, severity |-> m.level, fields |-> f]
  BY <1>3, <1>4 DEF parse, FieldsBehind
<1>6. parse(s) # NoMessage
  <2>1. parse(s).priority = p /\ NoMessage.priority = -1  BY <1>5 DEF NoMessage
  <2>2. QED  BY <1>4, <2>1
<1>7. SyslogFields(s) = [severity |-> map_severity(m.level), facility |-> m.facility,
                         fields |-> f, params |-> parse_structured_data(f.sd)]
  <2>1. /\ parse(s).severity = m.level /\ parse(s).facility = m.facility
        /\ parse(s).fields = f
    BY <1>5
  <2>2. SyslogFields(s) = FieldsParsed(parse(s))  BY DEF SyslogFields
  <2>3. FieldsParsed(parse(s)) = [severity |-> map_severity(parse(s).severity),
            facility |-> parse(s).facility, fields |-> parse(s).fields,
            params |-> parse_structured_data(parse(s).fields.sd)]
    BY <1>6 DEF FieldsParsed
  <2>4. QED  BY <2>1, <2>2, <2>3
<1>8. map_severity(m.level) = Severities[m.level + 1]  BY <1>1, LevelNamed
<1>9. SyslogFields(s) # NoMessage
  <2>1. DOMAIN SyslogFields(s) = {"severity", "facility", "fields", "params"}  BY <1>7
  <2>2. DOMAIN NoMessage = {"priority"}  BY DEF NoMessage
  <2>3. QED  BY <2>1, <2>2
<1>10. QED  BY <1>7, <1>8, <1>9

\* What the data of an event say when they were read right.
LEMMA ReadRight ==
    ASSUME NEW m, NEW f, m.sd = << >> => m.elements = << >>,
           m.sd # << >> => parse_structured_data(m.sd) = ParamsOf(m.elements),
           f.host = m.host, f.app = m.app, f.proc = m.proc, f.message = m.message, f.sd = m.sd,
           m.rfc = 5424 => f.version = <<m.version>> /\ f.msgid = m.msgid,
           NEW data, data = [severity |-> Severities[m.level + 1], facility |-> m.facility,
                             fields |-> f, params |-> parse_structured_data(f.sd)]
    PROVE  Says(data, m)
<1>1. parse_structured_data(m.sd) = ParamsOf(m.elements)
  <2>1. CASE m.sd = << >>
    <3>1. m.elements = << >>  BY <2>1
    <3>2. parse_structured_data(m.sd) = {}  BY <2>1, NoData
    <3>3. ParamsOf(m.elements) = {}  BY <3>1, NoData
    <3>4. QED  BY <3>2, <3>3
  <2>2. CASE m.sd # << >>  BY <2>2
  <2>3. QED  BY <2>1, <2>2
<1>2. /\ data.fields = f /\ data.facility = m.facility
      /\ data.severity = Severities[m.level + 1] /\ data.params = ParamsOf(m.elements)
  BY <1>1
<1>3. QED  BY <1>2 DEF Says

\* An RFC 5424 text of these words, and what it is read as behind its priority.
Text5424(S, s, pri, ver, h, els, sd, message) ==
    /\ ver \in Versions
    /\ message \in Seq(S) /\ sd \in Seq(S) /\ <<ver>> \in S /\ <<"-">> \in S
    /\ sd # << >> => PlainElements(els) /\ LaidOut(sd, els) /\ message # << >>
    /\ h \in Seq(S) /\ Len(h) = 6 /\ h[1] = <<pri, ver>>
    /\ s = (h \o (IF sd = << >> THEN <<<<"-">>>> ELSE sd)) \o message

ReadAs5424(s, pri, ver, h, sd, message, f) ==
    /\ s # << >> /\ s[1] = <<pri, ver>> /\ f = FieldsBehind(s)
    /\ Fields5424(f, ver, h, sd, message)

LEMMA TextRead5424 ==
    ASSUME NEW S, NEW s, NEW pri, NEW ver, NEW h, NEW els, NEW sd, NEW message,
           Text5424(S, s, pri, ver, h, els, sd, message)
    PROVE  ReadAs5424(s, pri, ver, h, sd, message, parse_rfc5424(Drop(s, 1)))
<1> DEFINE first == IF sd = << >> THEN <<<<"-">>>> ELSE sd
           rest == first \o message
           u == Drop(s, 1)
<1>1. /\ ver \in Versions /\ message \in Seq(S) /\ sd \in Seq(S) /\ <<ver>> \in S /\ <<"-">> \in S
      /\ sd # << >> => PlainElements(els) /\ LaidOut(sd, els) /\ message # << >>
      /\ h \in Seq(S) /\ Len(h) = 6 /\ h[1] = <<pri, ver>>
      /\ s = (h \o first) \o message
  BY DEF Text5424
<1>2. first \in Seq(S) /\ first = (IF sd = << >> THEN <<<<"-">>>> ELSE sd)  BY <1>1
<1> HIDE DEF first
<1>3. rest \in Seq(S) /\ rest = first \o message  BY <1>1, <1>2, ConcatProperties
<1>4. s = h \o rest
  <2>1. Associates(h, first, message)  BY <1>1, <1>2, Association
  <2>2. QED  BY <1>1, <2>1 DEF Associates
<1> HIDE DEF rest
<1>5. DataOf(rest) = sd /\ TextBehind(rest) = message
  <2>1. DataThenText(S, rest, els, sd, message)  BY <1>1, <1>2, <1>3 DEF DataThenText
  <2>2. DataReadAs(rest, sd, message)  BY <2>1, DataRead
  <2>3. QED  BY <2>2 DEF DataReadAs
<1>6. Headed(S, s, h, rest, pri, ver)  BY <1>1, <1>3, <1>4 DEF Headed
<1>7. Opens(S, s, h, rest, pri, ver)  BY <1>6, TextOpened
<1>8. s # << >> /\ s[1] = <<pri, ver>> /\ u \in Seq(S) /\ Opened(u, h, rest, ver)
  BY <1>7 DEF Opens
<1> HIDE DEF u
<1>9. Fields5424(parse_rfc5424(u), ver, h, sd, message)
  <2>1. Fields5424(parse_rfc5424(u), ver, h, DataOf(rest), TextBehind(rest))
    BY <1>1, <1>3, <1>8, Read5424
  <2>2. QED  BY <1>5, <2>1
<1>10. parse_rfc5424(u) = FieldsBehind(s)
  <2>1. Len(s[1]) = 2 /\ s[1][2] = ver  BY <1>8
  <2>2. 2 > 1  OBVIOUS
  <2>3. Len(s[1]) > 1 /\ s[1][2] \in Versions  BY <1>1, <2>1, <2>2
  <2>4. FieldsBehind(s) = parse_rfc5424(Drop(s, 1))  BY <2>3 DEF FieldsBehind
  <2>5. QED  BY <2>4 DEF u
<1>11. QED  BY <1>8, <1>9, <1>10 DEF ReadAs5424, u

\* The same of an RFC 3164 text.
Text3164(S, s, pri, h, app, message) ==
    /\ message \in Seq(S) /\ <<"TS">> \in S
    /\ app \in Seq(ToSet(app)) /\ ":" \notin ToSet(app)
    /\ h \in Seq(S) /\ Len(h) = 3 /\ h[1] = <<pri, "TS">> /\ h[3] = Append(app, ":")
    /\ s = h \o message

ReadAs3164(s, pri, h, app, message, f) ==
    /\ s # << >> /\ s[1] = <<pri, "TS">> /\ f = FieldsBehind(s)
    /\ Fields3164(f, h, app, message)

LEMMA TextRead3164 ==
    ASSUME NEW S, NEW s, NEW pri, NEW h, NEW app, NEW message,
           Text3164(S, s, pri, h, app, message)
    PROVE  ReadAs3164(s, pri, h, app, message, parse_rfc3164(Drop(s, 1)))
<1> DEFINE u == Drop(s, 1)
           T == ToSet(app)
<1>1. /\ message \in Seq(S) /\ <<"TS">> \in S /\ app \in Seq(T) /\ ":" \notin ToSet(app)
      /\ h \in Seq(S) /\ Len(h) = 3 /\ h[1] = <<pri, "TS">> /\ h[3] = Append(app, ":")
      /\ s = h \o message
  BY DEF Text3164
<1> HIDE DEF T
<1>2. Headed(S, s, h, message, pri, "TS")  BY <1>1 DEF Headed
<1>3. Opens(S, s, h, message, pri, "TS")  BY <1>2, TextOpened
<1>4. s # << >> /\ s[1] = <<pri, "TS">> /\ u \in Seq(S) /\ Opened(u, h, message, "TS")
  BY <1>3 DEF Opens
<1> HIDE DEF u
<1>5. Fields3164(parse_rfc3164(u), h, app, message)  BY <1>1, <1>4, Read3164
<1>6. parse_rfc3164(u) = FieldsBehind(s)
  <2>1. s[1][2] = "TS"  BY <1>4
  <2>2. s[1][2] \notin Versions  BY <2>1, VersionsAssumption
  <2>3. QED  BY <2>2 DEF FieldsBehind, u
<1>7. QED  BY <1>4, <1>5, <1>6 DEF ReadAs3164, u

LEMMA Understood5424 ==
    ASSUME NEW m \in Meant, m.rfc = 5424
    PROVE  SyslogFields(Render(m)) # NoMessage /\ Says(SyslogFields(Render(m)), m)
<1> DEFINE h == <<<<m.pri, m.version>>, <<"TS">>, m.host, m.app, m.proc, m.msgid>>
           S == {<<m.pri, m.version>>, <<"TS">>, m.host, m.app, m.proc, m.msgid, <<m.version>>, <<"-">>}
                \cup ToSet(m.sd) \cup ToSet(m.message)
           first == IF m.sd = << >> THEN <<<<"-">>>> ELSE m.sd
           s == Render(m)
           f == parse_rfc5424(Drop(s, 1))
           els == m.elements
           sd == m.sd
           message == m.message
           pri == m.pri
           ver == m.version
<1>1. /\ ver \in Versions /\ message \in Seq(ToSet(message)) /\ sd \in Seq(ToSet(sd))
      /\ (sd = << >> <=> els = << >>)
      /\ sd # << >> => LaidOut(sd, els) /\ message # << >>
  BY MeantAssumption
<1>2. message \in Seq(S) /\ sd \in Seq(S)
  <2>1. ToSet(message) \subseteq S /\ ToSet(sd) \subseteq S  OBVIOUS
  <2> HIDE DEF S, message, sd
  <2>2. QED  BY <1>1, <2>1, SeqMonotonic
<1>3. /\ h \in Seq(S) /\ Len(h) = 6 /\ h[1] = <<pri, ver>> /\ h[3] = m.host
      /\ h[4] = m.app /\ h[5] = m.proc /\ h[6] = m.msgid
  OBVIOUS
<1>4. <<ver>> \in S /\ <<"-">> \in S  OBVIOUS
<1>5. s = (h \o first) \o message /\ first = IF sd = << >> THEN <<<<"-">>>> ELSE sd
  BY DEF Render
<1>6. sd # << >> => PlainElements(els) /\ KeysApart(els) /\ els \in Seq(ToSet(els))
  BY MeantPlain
<1>7. f = parse_rfc5424(Drop(s, 1))  OBVIOUS
<1> HIDE DEF h, S, first, s, els, sd, message, pri, ver
<1>8. ReadAs5424(s, pri, ver, h, sd, message, f)
  <2>1. Text5424(S, s, pri, ver, h, els, sd, message)
    BY <1>1, <1>2, <1>3, <1>4, <1>5, <1>6 DEF Text5424
  <2>2. QED  BY <1>7, <2>1, TextRead5424
<1> HIDE DEF f
<1>9. sd # << >> => parse_structured_data(sd) = ParamsOf(els)
  <2> SUFFICES ASSUME sd # << >> PROVE parse_structured_data(sd) = ParamsOf(els)
    OBVIOUS
  <2>1. PICK at : DataAt(sd, els, at)  BY <1>1, <1>6, LaidOutAt
  <2>2. QED  BY <1>2, <1>6, <2>1, DataParams
<1>10. /\ s # << >> /\ s[1] = <<m.pri, m.version>> /\ f = FieldsBehind(s)
       /\ f.version = <<m.version>> /\ f.host = m.host /\ f.app = m.app /\ f.proc = m.proc /\ f.msgid = m.msgid
       /\ f.sd = m.sd /\ f.message = m.message
  BY <1>3, <1>8 DEF ReadAs5424, Fields5424, sd, message, pri, ver
<1>11. /\ SyslogFields(s) # NoMessage
       /\ SyslogFields(s) = [severity |-> Severities[m.level + 1], facility |-> m.facility,
                             fields |-> f, params |-> parse_structured_data(f.sd)]
  BY <1>10, PriorityRead
<1>12. /\ m.sd = << >> => m.elements = << >>
       /\ m.sd # << >> => parse_structured_data(m.sd) = ParamsOf(m.elements)
  BY <1>1, <1>9 DEF sd, els
<1>13. Says(SyslogFields(s), m)  BY <1>10, <1>11, <1>12, ReadRight
<1>14. QED  BY <1>11, <1>13 DEF s

LEMMA Understood3164 ==
    ASSUME NEW m \in Meant, m.rfc # 5424, m.proc = << >>
    PROVE  SyslogFields(Render(m)) # NoMessage /\ Says(SyslogFields(Render(m)), m)
<1> DEFINE h == <<<<m.pri, "TS">>, m.host, Append(m.app, ":")>>
           S == {<<m.pri, "TS">>, m.host, Append(m.app, ":"), <<"TS">>} \cup ToSet(m.message)
           s == Render(m)
           f == parse_rfc3164(Drop(s, 1))
           app == m.app
           message == m.message
           pri == m.pri
<1>1. /\ message \in Seq(ToSet(message)) /\ (m.sd = << >> <=> m.elements = << >>)
      /\ app \in Seq(ToSet(app)) /\ ":" \notin ToSet(app) /\ m.sd = << >>
  <2>1. PlainApp(m.app)  BY MeantAssumption
  <2>2. m.app \in Seq(ToSet(m.app)) /\ ":" \notin ToSet(m.app)  BY <2>1 DEF PlainApp
  <2>3. /\ m.message \in Seq(ToSet(m.message)) /\ (m.sd = << >> <=> m.elements = << >>)
        /\ m.sd = << >>
    BY MeantAssumption
  <2>4. QED  BY <2>2, <2>3
<1>2. message \in Seq(S)
  <2>1. ToSet(message) \subseteq S  OBVIOUS
  <2> HIDE DEF S, message
  <2>2. QED  BY <1>1, <2>1, SeqMonotonic
<1>3. /\ h \in Seq(S) /\ Len(h) = 3 /\ h[1] = <<pri, "TS">> /\ h[2] = m.host
      /\ h[3] = Append(app, ":")
  OBVIOUS
<1>4. <<"TS">> \in S  OBVIOUS
<1>5. s = h \o message  BY DEF Render
<1>6. f = parse_rfc3164(Drop(s, 1))  OBVIOUS
<1> HIDE DEF h, S, s, app, message, pri
<1>7. ReadAs3164(s, pri, h, app, message, f)
  <2>1. Text3164(S, s, pri, h, app, message)
    BY <1>1, <1>2, <1>3, <1>4, <1>5 DEF Text3164
  <2>2. QED  BY <1>6, <2>1, TextRead3164
<1> HIDE DEF f
<1>8. /\ s # << >> /\ s[1] = <<m.pri, "TS">> /\ f = FieldsBehind(s)
      /\ f.host = m.host /\ f.app = m.app /\ f.proc = m.proc /\ f.sd = m.sd /\ f.message = m.message
  BY <1>1, <1>3, <1>7 DEF ReadAs3164, Fields3164, app, message, pri
<1>9. /\ SyslogFields(s) # NoMessage
      /\ SyslogFields(s) = [severity |-> Severities[m.level + 1], facility |-> m.facility,
                            fields |-> f, params |-> parse_structured_data(f.sd)]
  BY <1>8, PriorityRead
<1>10. Says(SyslogFields(s), m)  BY <1>1, <1>8, <1>9, ReadRight
<1>11. QED  BY <1>9, <1>10 DEF s

\* A message laid out by an RFC becomes an event that says what was meant.
LEMMA Understood ==
    ASSUME NEW m \in Meant, ~TagHasProc(m)
    PROVE  SyslogFields(Render(m)) # NoMessage /\ Says(SyslogFields(Render(m)), m)
BY Understood5424, Understood3164 DEF TagHasProc

\* Of every text laid out by RFC 5424, or by RFC 3164 with a tag without a process
\* id, an event is made when it is popped, and what it says is what the sender
\* meant, whatever else is received and however often the collector is restarted.
\* No two parameters of the text have the same element and key.
THEOREM EventsStayFaithful == Spec => []EventsFaithful
<1>1. IInv /\ FieldsKept => EventsFaithful
  <2> SUFFICES ASSUME IInv, FieldsKept, kind = "syslog", NEW d \in ToSet(delivered),
                      NEW m \in Meant, ~TagHasProc(m), d.body = Render(m)
               PROVE  LET about == {e \in ToSet(made) : e.src = d.id}
                      IN  about # {} /\ \A e \in about : Says(e.data, m)
    BY DEF EventsFaithful
  <2>1. delivered \in Seq(RawMessages(kind)) /\ queue \in Seq(RawMessages(kind))
        /\ made \in Seq(EventType) /\ DistinctIds(delivered \o queue)
    BY DEF IInv, Typed, PlacesTyped, BooksTyped, MessagesInv, PlacesApart
  <2>2. /\ ToSet(delivered) = {delivered[j] : j \in 1 .. Len(delivered)}
        /\ ToSet(made) = {made[i] : i \in 1 .. Len(made)}
    BY <2>1, Members
  <2>3. ASSUME NEW j \in 1 .. Len(delivered), NEW k \in 1 .. Len(delivered),
               delivered[j].id = delivered[k].id
        PROVE  j = k
    <3> DEFINE c == delivered \o queue
    <3>1. /\ Len(c) = Len(delivered) + Len(queue) /\ Len(delivered) \in Nat /\ Len(queue) \in Nat
          /\ \A i \in 1 .. Len(delivered) + Len(queue) :
               c[i] = IF i <= Len(delivered) THEN delivered[i] ELSE queue[i - Len(delivered)]
      BY <2>1, ConcatProperties
    <3> HIDE DEF c
    <3>2. /\ j \in 1 .. Len(c) /\ k \in 1 .. Len(c)
          /\ c[j] = delivered[j] /\ c[k] = delivered[k]
      BY <3>1
    <3>3. QED  BY <2>1, <2>3, <3>2 DEF DistinctIds, c
  <2>4. FieldsOf(made, delivered)  BY DEF FieldsKept
  <2>5. PICK j \in 1 .. Len(delivered) : d = delivered[j]  BY <2>2
  <2>6. SyslogFields(d.body) # NoMessage /\ Says(SyslogFields(d.body), m)
    BY Understood
  <2>7. PICK i \in 1 .. Len(made) : MadeFrom(made[i], d)
    BY <2>4, <2>5, <2>6 DEF FieldsOf
  <2>8. made[i] \in ToSet(made) /\ made[i].src = d.id  BY <2>2, <2>7 DEF MadeFrom
  <2>9. ASSUME NEW e \in ToSet(made), e.src = d.id PROVE Says(e.data, m)
    <3>1. PICK k \in 1 .. Len(delivered) : MadeFrom(e, delivered[k])
      BY <2>2, <2>4 DEF FieldsOf
    <3>2. delivered[k].id = delivered[j].id  BY <2>5, <2>9, <3>1 DEF MadeFrom
    <3>3. delivered[k] = d  BY <2>3, <2>5, <3>2
    <3>4. e.data = SyslogFields(d.body)  BY <3>1, <3>3 DEF MadeFrom
    <3>5. QED  BY <2>6, <3>4
  <2>10. QED  BY <2>8, <2>9
<1>2. QED  BY <1>1, InitFields, NextFields, CollectorsInvariant, PTL DEF Spec
=============================================================================
