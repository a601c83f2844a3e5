------------------------- MODULE PacketCaptureProofs -------------------------
(***************************************************************************)
(* Packet capture for any number of threads, any traffic and any modes:    *)
(* every packet is in one place and its event is published in order, both  *)
(* directions of a conversation are one flow, and no flow is lost on its   *)
(* way to the broker.                                                      *)
(***************************************************************************)
EXTENDS PacketCapture, FiniteSetTheorems, SequenceTheorems, TLAPS

-----------------------------------------------------------------------------
(* Sequences *)

\* Three sequences one behind the other.
Associates(a, b, c) == (a \o b) \o c = a \o (b \o c)

LEMMA Association ==
    ASSUME NEW S, NEW a \in Seq(S), NEW b \in Seq(S), NEW c \in Seq(S)
    PROVE  Associates(a, b, c)
BY ConcatAssociative DEF Associates

\* The members of a sequence.
LEMMA Members ==
    ASSUME NEW S, NEW s \in Seq(S)
    PROVE  ToSet(s) = {s[i] : i \in 1 .. Len(s)}
<1>1. ToSet(s) = Range(s)  BY DEF ToSet, Range
<1>2. Range(s) = {s[i] : i \in 1 .. Len(s)}  BY RangeEquality
<1>3. QED  BY <1>1, <1>2

-----------------------------------------------------------------------------
(* Conversations *)

\* A flow key whose addresses and ports are numbers.
KeyType(k) ==
    /\ k = [src |-> k.src, dst |-> k.dst, proto |-> k.proto, sport |-> k.sport, dport |-> k.dport]
    /\ k.src \in Nat /\ k.dst \in Nat /\ k.sport \in Nat /\ k.dport \in Nat

\* The endpoints of a key and its protocol, whichever way round.
Ends(k) == <<{<<k.src, k.sport>>, <<k.dst, k.dport>>}, k.proto>>

\* The five-tuple of a frame.
LEMMA FlowKeyType ==
    ASSUME NEW f \in Frames
    PROVE  KeyType(FlowKey(f)) /\ Conversation(f) = Ends(FlowKey(f))
<1>1. f.src \in Nat /\ f.dst \in Nat /\ f.sport \in Nat /\ f.dport \in Nat
  BY FlowAssumption
<1> DEFINE k == FlowKey(f)
<1>2. /\ k.src = f.src /\ k.dst = f.dst /\ k.proto = f.proto
      /\ k.sport \in {f.sport, 0} /\ k.dport \in {f.dport, 0}
      /\ k = [src |-> k.src, dst |-> k.dst, proto |-> k.proto, sport |-> k.sport,
              dport |-> k.dport]
  BY DEF FlowKey
<1>3. Conversation(f) = Ends(k)  BY DEF Conversation, Ends
<1> HIDE DEF k
<1>4. KeyType(k)  BY <1>1, <1>2 DEF KeyType
<1>5. QED  BY <1>3, <1>4 DEF k

\* Turning a key round exchanges its endpoints, and keeps the conversation.
LEMMA ReversedKey ==
    ASSUME NEW k, KeyType(k)
    PROVE  /\ KeyType(Reversed(k)) /\ Ends(Reversed(k)) = Ends(k)
           /\ Reversed(k).src = k.dst /\ Reversed(k).dst = k.src
           /\ Reversed(k).sport = k.dport /\ Reversed(k).dport = k.sport
           /\ Reversed(k).proto = k.proto
<1> DEFINE r == Reversed(k)
<1>1. r = [src |-> k.dst, dst |-> k.src, proto |-> k.proto, sport |-> k.dport,
           dport |-> k.sport]
  <2> DEFINE a == [k EXCEPT !.src = k.dst]
             b == [a EXCEPT !.dst = k.src]
             c == [b EXCEPT !.sport = k.dport]
  <2>1. a = [src |-> k.dst, dst |-> k.dst, proto |-> k.proto, sport |-> k.sport, dport |-> k.dport]
    BY DEF KeyType
  <2>2. b = [src |-> k.dst, dst |-> k.src, proto |-> k.proto, sport |-> k.sport, dport |-> k.dport]
    <3> HIDE DEF a
    <3>1. QED  BY <2>1
  <2>3. c = [src |-> k.dst, dst |-> k.src, proto |-> k.proto, sport |-> k.dport, dport |-> k.dport]
    <3> HIDE DEF b
    <3>1. QED  BY <2>2
  <2>4. r = [c EXCEPT !.dport = k.sport]  BY DEF Reversed
  <2> HIDE DEF c
  <2>5. QED  BY <2>3, <2>4
<1> HIDE DEF r
<1>2. /\ r.src = k.dst /\ r.dst = k.src /\ r.sport = k.dport /\ r.dport = k.sport
      /\ r.proto = k.proto
  BY <1>1
<1>3. KeyType(r)  BY <1>1, <1>2 DEF KeyType
<1>4. {<<k.dst, k.dport>>, <<k.src, k.sport>>} = {<<k.src, k.sport>>, <<k.dst, k.dport>>}
  OBVIOUS
<1>5. Ends(r) = Ends(k)  BY <1>2, <1>4 DEF Ends
<1>6. QED  BY <1>2, <1>3, <1>5 DEF r

\* normalize_key gives both directions of a conversation one key, and two
\* conversations two, also when a host talks to itself.
LEMMA OneKey ==
    ASSUME NEW j, NEW k, KeyType(j), KeyType(k)
    PROVE  NormalizeKey(j) = NormalizeKey(k) <=> Ends(j) = Ends(k)
<1>1. ASSUME NEW i, KeyType(i)
      PROVE  /\ KeyType(NormalizeKey(i)) /\ Ends(NormalizeKey(i)) = Ends(i)
             /\ IsForward(NormalizeKey(i))
  <2>1. CASE IsForward(i)  BY <1>1, <2>1 DEF NormalizeKey
  <2>2. CASE ~IsForward(i)
    <3>1. NormalizeKey(i) = Reversed(i)  BY <2>2 DEF NormalizeKey
    <3>2. IsForward(Reversed(i))
      BY <1>1, <2>2, ReversedKey DEF IsForward, KeyType
    <3>3. QED  BY <1>1, <3>1, <3>2, ReversedKey
  <2>3. QED  BY <2>1, <2>2
<1> DEFINE a == NormalizeKey(j)
           b == NormalizeKey(k)
<1>2. /\ KeyType(a) /\ KeyType(b) /\ IsForward(a) /\ IsForward(b)
      /\ Ends(a) = Ends(j) /\ Ends(b) = Ends(k)
  BY <1>1
<1> HIDE DEF a, b
<1>3. ASSUME Ends(a) = Ends(b) PROVE a = b
  <2> DEFINE p == <<a.src, a.sport>>
             q == <<a.dst, a.dport>>
             r == <<b.src, b.sport>>
             s == <<b.dst, b.dport>>
  <2>1. {p, q} = {r, s} /\ a.proto = b.proto
    BY <1>3 DEF Ends
  <2>2. (p = r /\ q = s) \/ (p = s /\ q = r)
    <3> HIDE DEF p, q, r, s
    <3>1. QED  BY <2>1
  <2>3. CASE p = r /\ q = s
    <3>1. a.src = b.src /\ a.sport = b.sport /\ a.dst = b.dst /\ a.dport = b.dport
      BY <2>3
    <3>2. QED  BY <1>2, <2>1, <3>1 DEF KeyType
  <2>4. CASE p = s /\ q = r
    <3>1. a.src = b.dst /\ a.sport = b.dport /\ a.dst = b.src /\ a.dport = b.sport
      BY <2>4
    <3>2. a.src = b.src /\ a.sport = b.sport /\ a.dst = b.dst /\ a.dport = b.dport
      BY <1>2, <3>1 DEF KeyType, IsForward
    <3>3. QED  BY <1>2, <2>1, <3>2 DEF KeyType
  <2>5. QED  BY <2>2, <2>3, <2>4
<1>4. QED  BY <1>2, <1>3 DEF a, b

-----------------------------------------------------------------------------
(* Types *)

\* A packet is known by its thread and its number; an event is that of a
\* packet, or of the flow that the packet began.
PacketIds == Captors \X (Nat \ {0})
Packets == [id : PacketIds, frame : Frames, ts : Nat]
FlowIds == {<<"flow", p>> : p \in PacketIds}
Messages == PacketIds \cup FlowIds

\* The counters of stats_.
Counters == [captured : Nat, dropped : Nat, expired : Nat]

\* Types, with what the properties' TypeOK leaves out, and: a thread sees only
\* frames that are on the wire, a processing thread leaves no batch behind.
Typed ==
    /\ TypeOK
    /\ config \in Configs /\ running \in BOOLEAN /\ phase \in {"idle", "running", "joining"}
    /\ tpc \in [Captors -> {"exited", "armed", "push"}]
    /\ hand \in [Captors -> Packets \cup {None}]
    /\ seen \in [Captors -> Nat] /\ \A t \in Captors : seen[t] <= Len(wire)
    /\ ppc \in {"exited", "loop"} /\ (ppc = "exited" => batch = << >>)
    /\ batch \in Seq(PacketIds)
    /\ xpc \in {"exited", "asleep", "publish"}
    /\ stats \in Counters
    /\ queue \in Seq(Packets) /\ delivered \in Seq(Packets)
    /\ wire \in Seq([frame : Frames, time : Nat]) /\ clock \in Nat
    /\ dropped \subseteq PacketIds
    /\ outq \in Seq(Messages) /\ settled \in Seq(Messages) /\ refused \subseteq Messages

\* A flow's packets are of the conversation that its key stands for; it was
\* evicted or expired when it ended, and only expired ones are published.
GoodTrail(trail, k) ==
    /\ trail \in Seq(Packets) /\ trail # << >>
    /\ \A i \in 1 .. Len(trail) : NormalizeKey(FlowKey(trail[i].frame)) = k

FlowsTyped ==
    /\ IsFiniteSet(DOMAIN flows) /\ IsFiniteSet(ended)
    /\ \A k \in DOMAIN flows : GoodTrail(flows[k].trail, k)
    /\ \A e \in ended : GoodTrail(e.trail, e.key) /\ e.how \in {"evicted", "expired"}
    /\ export \subseteq {e \in ended : e.how = "expired"}

\* None is no packet.
LEMMA NoneIsNoPacket == None \notin Packets /\ None.id \notin PacketIds
<1>1. None.id = << >>  BY DEF None
<1>2. ASSUME << >> \in PacketIds PROVE FALSE
  <2>1. PICK t \in Captors, n \in Nat : << >> = <<t, n>>  BY <1>2 DEF PacketIds
  <2>2. Len(<< >>) = Len(<<t, n>>)  BY <2>1
  <2>3. QED  BY <2>2
<1>3. \A p \in Packets : p.id \in PacketIds  BY DEF Packets
<1>4. QED  BY <1>1, <1>2, <1>3

\* At first no thread runs.
LEMMA InitTyped == Init => Typed /\ FlowsTyped
<1> SUFFICES ASSUME Init PROVE Typed /\ FlowsTyped  OBVIOUS
<1>1. /\ config \in Configs /\ running = FALSE /\ phase = "idle"
      /\ tpc = [t \in Captors |-> "exited"] /\ hand = [t \in Captors |-> None]
      /\ seen = [t \in Captors |-> 0]
      /\ ppc = "exited" /\ batch = << >> /\ xpc = "exited" /\ export = {}
      /\ stats = [captured |-> 0, dropped |-> 0, expired |-> 0]
      /\ queue = << >> /\ delivered = << >> /\ wire = << >> /\ dropped = {}
      /\ clock = 1 /\ outq = << >> /\ settled = << >> /\ refused = {}
      /\ flows = << >> /\ ended = {}
  BY DEF Init, Ring!Init, ProducerInit, FlowInit
<1>2. Len(<< >>) = 0  OBVIOUS
<1>3. TypeOK
  BY <1>1, <1>2, CaptureAssumption, ProducerAssumption DEF TypeOK, AllExited, queue_size
<1>4. /\ tpc \in [Captors -> {"exited", "armed", "push"}]
      /\ hand \in [Captors -> Packets \cup {None}] /\ seen \in [Captors -> Nat]
      /\ \A t \in Captors : seen[t] <= Len(wire)
  BY <1>1, <1>2
<1>5. /\ batch \in Seq(PacketIds) /\ queue \in Seq(Packets) /\ delivered \in Seq(Packets)
      /\ wire \in Seq([frame : Frames, time : Nat])
  BY <1>1
<1>6. stats \in Counters /\ dropped \subseteq PacketIds
      /\ clock \in Nat
  BY <1>1 DEF Counters
<1>7. outq \in Seq(Messages) /\ settled \in Seq(Messages) /\ refused \subseteq Messages
  BY <1>1
<1>8. Typed  BY <1>1, <1>3, <1>4, <1>5, <1>6, <1>7 DEF Typed
<1>9. DOMAIN flows = {} /\ IsFiniteSet({})  BY <1>1, FS_EmptySet
<1>10. FlowsTyped  BY <1>1, <1>9 DEF FlowsTyped
<1>11. QED  BY <1>8, <1>10

\* Taking the head of a sequence.
LEMMA HeadTail ==
    ASSUME NEW S, NEW s \in Seq(S), s # << >>
    PROVE  /\ Head(s) \in S /\ Tail(s) \in Seq(S) /\ Len(Tail(s)) = Len(s) - 1
           /\ Len(s) \in Nat \ {0} /\ Head(s) = s[1]
           /\ \A i \in 1 .. Len(s) - 1 : Tail(s)[i] = s[i + 1]
OBVIOUS

\* What fits into librdkafka's queue goes there, in order, and the rest is
\* refused.
LEMMA ProduceEffect ==
    ASSUME NEW M, NEW msgs \in Seq(M), outq \in Seq(M), queue_size <= QueueMax,
           ProduceBatch(msgs)
    PROVE  \E n \in 0 .. Len(msgs) :
             /\ outq' = outq \o SubSeq(msgs, 1, n)
             /\ refused' = refused \cup {msgs[i] : i \in n + 1 .. Len(msgs)}
             /\ Len(outq) + n <= QueueMax
             /\ settled' = settled
<1> DEFINE n == IF Len(msgs) <= QueueMax - queue_size THEN Len(msgs) ELSE QueueMax - queue_size
<1>1. /\ QueueMax \in Nat /\ Len(outq) \in Nat /\ Len(msgs) \in Nat
      /\ Len(outq) <= QueueMax /\ queue_size = Len(outq)
  BY ProducerAssumption DEF queue_size
<1>2. n \in 0 .. Len(msgs) /\ Len(outq) + n <= QueueMax  BY <1>1
<1>3. Accepted(msgs) = SubSeq(msgs, 1, n)  BY DEF Accepted
<1> HIDE DEF n
<1>4. Len(SubSeq(msgs, 1, n)) = n  BY <1>1, <1>2
<1>5. /\ outq' = outq \o SubSeq(msgs, 1, n) /\ settled' = settled
      /\ refused' = refused \cup ToSet(SubSeq(msgs, n + 1, Len(msgs)))
  BY <1>3, <1>4 DEF ProduceBatch
<1>6. ToSet(SubSeq(msgs, n + 1, Len(msgs))) = {msgs[i] : i \in n + 1 .. Len(msgs)}
  <2> DEFINE r == SubSeq(msgs, n + 1, Len(msgs))
  <2>1. DOMAIN r = 1 .. Len(msgs) - n  BY <1>1, <1>2
  <2>2. \A i \in 1 .. Len(msgs) - n : r[i] = msgs[i + n]  BY <1>1, <1>2
  <2> HIDE DEF r
  <2>3. \A i \in 1 .. Len(msgs) - n : i + n \in n + 1 .. Len(msgs)  BY <1>1, <1>2
  <2>4. \A j \in n + 1 .. Len(msgs) : j - n \in 1 .. Len(msgs) - n /\ (j - n) + n = j
    BY <1>1, <1>2
  <2>5. \A j \in n + 1 .. Len(msgs) : r[j - n] = msgs[j]  BY <2>2, <2>4
  <2>6. ToSet(r) = {r[i] : i \in 1 .. Len(msgs) - n}  BY <2>1 DEF ToSet
  <2>7. ASSUME NEW x \in ToSet(r) PROVE \E i \in n + 1 .. Len(msgs) : x = msgs[i]
    BY <2>2, <2>3, <2>6
  <2>8. ASSUME NEW x, NEW i \in n + 1 .. Len(msgs), x = msgs[i] PROVE x \in ToSet(r)
    BY <2>4, <2>5, <2>6, <2>8
  <2>9. QED  BY <2>7, <2>8 DEF r
<1>7. QED  BY <1>2, <1>5, <1>6

\* A sequence with one more element.
LEMMA AppendEffect ==
    ASSUME NEW S, NEW s \in Seq(S), NEW x \in S
    PROVE  /\ Append(s, x) \in Seq(S) /\ Len(Append(s, x)) = Len(s) + 1
           /\ DOMAIN s = 1 .. Len(s) /\ Len(s) \in Nat
           /\ DOMAIN Append(s, x) = 1 .. Len(s) + 1
           /\ \A i \in 1 .. Len(s) : Append(s, x)[i] = s[i]
           /\ Append(s, x)[Len(s) + 1] = x
           /\ Append(s, x) # << >>
<1>1. /\ Append(s, x) \in Seq(S) /\ Len(Append(s, x)) = Len(s) + 1
      /\ DOMAIN s = 1 .. Len(s) /\ Len(s) \in Nat
      /\ DOMAIN Append(s, x) = 1 .. Len(s) + 1
      /\ \A i \in 1 .. Len(s) : Append(s, x)[i] = s[i]
      /\ Append(s, x)[Len(s) + 1] = x
  OBVIOUS
<1>2. Append(s, x) # << >>  BY <1>1
<1>3. QED  BY <1>1, <1>2

\* The order in which a set's members are listed: each once.
LEMMA OrderOf ==
    ASSUME NEW S, IsFiniteSet(S)
    PROVE  /\ SetToSeq(S) \in Seq(S) /\ ToSet(SetToSeq(S)) = S
           /\ \A i, j \in 1 .. Len(SetToSeq(S)) : SetToSeq(S)[i] = SetToSeq(S)[j] => i = j
<1> DEFINE n == Cardinality(S)
           f == SetToSeq(S)
<1>1. n \in Nat /\ ExistsBijection(1 .. n, S)  BY FS_CardinalityType
<1>2. PICK g : g \in Bijection(1 .. n, S)  BY <1>1 DEF ExistsBijection
<1>3. g \in [1 .. n -> S] /\ IsInjective(g)
  BY <1>2 DEF Bijection, Injection
<1>4. f \in [1 .. n -> S] /\ IsInjective(f)
  BY <1>3 DEF SetToSeq
<1> HIDE DEF f
<1>5. f \in Injection(1 .. n, S)  BY <1>4 DEF Injection
<1>6. Cardinality(1 .. n) = n
  <2>1. ASSUME NEW m \in Nat PROVE Cardinality(1 .. m) = m  BY FS_Interval
  <2>2. QED  BY <1>1, <2>1
<1>7. f \in Surjection(1 .. n, S)  BY <1>5, <1>6, FS_Injection
<1> HIDE DEF n
<1>8. Len(f) = n /\ DOMAIN f = 1 .. n /\ f \in Seq(S)  BY <1>1, <1>4
<1>9. ToSet(f) = S
  BY <1>7, <1>8 DEF Surjection, ToSet
<1>10. \A i, j \in 1 .. Len(f) : f[i] = f[j] => i = j  BY <1>4, <1>8 DEF IsInjective
<1>11. QED  BY <1>8, <1>9, <1>10 DEF f

\* A finite set's image; it has as many members when no two have one image.
LEMMA ImageFinite ==
    ASSUME NEW S, IsFiniteSet(S), NEW f, DOMAIN f = S
    PROVE  /\ IsFiniteSet({f[x] : x \in S})
           /\ (\A x, y \in S : f[x] = f[y] => x = y) =>
                Cardinality({f[x] : x \in S}) = Cardinality(S)
<1> DEFINE T == {f[x] : x \in S}
           g == [x \in S |-> f[x]]
<1>1. g \in [S -> T] /\ \A t \in T : \E x \in S : g[x] = t  OBVIOUS
<1>2. g \in Surjection(S, T)  BY <1>1 DEF Surjection
<1>3. ASSUME \A x, y \in S : f[x] = f[y] => x = y PROVE g \in Injection(S, T)
  BY <1>1, <1>3 DEF Injection, IsInjective
<1> HIDE DEF T, g
<1>4. IsFiniteSet(T) /\ (Cardinality(T) = Cardinality(S) <=> g \in Injection(S, T))
  BY <1>2, FS_Surjection
<1>5. QED  BY <1>3, <1>4 DEF T

-----------------------------------------------------------------------------
(* The flow table *)

\* A flow as it ends.
LEMMA EndedFields ==
    ASSUME NEW k
    PROVE  /\ \A how : /\ Ended(k, how).how = how /\ Ended(k, how).key = k
                       /\ Ended(k, how).trail = flows[k].trail
           /\ Expired(k).how = "expired" /\ Expired(k).key = k
           /\ Expired(k).trail = flows[k].trail
<1>1. \A how : /\ Ended(k, how).how = how /\ Ended(k, how).key = k
               /\ Ended(k, how).trail = flows[k].trail
  BY DEF Ended
<1> DEFINE e == Ended(k, "expired")
<1>2. e = [how |-> "expired", key |-> k, stats |-> flows[k].stats, trail |-> flows[k].trail]
  BY DEF Ended
<1> HIDE DEF e
<1>3. /\ [e EXCEPT !.stats = FinalizeStats(@)].how = "expired"
      /\ [e EXCEPT !.stats = FinalizeStats(@)].key = k
      /\ [e EXCEPT !.stats = FinalizeStats(@)].trail = flows[k].trail
  BY <1>2
<1>4. QED  BY <1>1, <1>3 DEF Expired, e

\* A packet p of key k is tracked, and the flows of gone make room for it.
Tracks(p, k, gone) ==
    /\ gone \subseteq DOMAIN flows /\ k \notin gone /\ (k \in DOMAIN flows => gone = {})
    /\ gone = {} \/ \E j : gone = {j}
    /\ k \notin DOMAIN flows /\ gone = {} => Cardinality(DOMAIN flows) < MaxFlows
    /\ DOMAIN flows' = (DOMAIN flows \ gone) \cup {k}
    /\ \A j \in DOMAIN flows \ gone : j # k => flows'[j] = flows[j]
    /\ flows'[k].trail = Append(IF k \in DOMAIN flows THEN flows[k].trail ELSE << >>, p)
    /\ ended' = ended \cup {Ended(j, "evicted") : j \in gone}

LEMMA TrackEffect ==
    ASSUME NEW p, TrackPacket(p)
    PROVE  \E gone : Tracks(p, NormalizeKey(FlowKey(p.frame)), gone)
<1> DEFINE k == NormalizeKey(FlowKey(p.frame))
           new == k \notin DOMAIN flows
           old == IF new THEN [stats |-> NewStats(p.ts), trail |-> << >>] ELSE flows[k]
           u == Updated(old, p)
<1>1. PICK gone \in IF new THEN Victims ELSE {{}} :
         /\ flows' = [j \in (DOMAIN flows \ gone) \cup {k} |-> IF j = k THEN u ELSE flows[j]]
         /\ ended' = ended \cup {Ended(j, "evicted") : j \in gone}
  BY DEF TrackPacket
<1>2. old.trail = IF k \in DOMAIN flows THEN flows[k].trail ELSE << >>  OBVIOUS
<1>3. u.trail = Append(old.trail, p)  BY DEF Updated
<1> HIDE DEF k, old, u
<1>4. /\ gone \subseteq DOMAIN flows /\ k \notin gone /\ (k \in DOMAIN flows => gone = {})
      /\ gone = {} \/ \E j : gone = {j}
      /\ k \notin DOMAIN flows /\ gone = {} => Cardinality(DOMAIN flows) < MaxFlows
  <2>1. CASE new
    <3>1. CASE Cardinality(DOMAIN flows) < MaxFlows
      <4>1. gone = {}  BY <1>1, <2>1, <3>1 DEF Victims
      <4>2. QED  BY <2>1, <3>1, <4>1
    <3>2. CASE ~(Cardinality(DOMAIN flows) < MaxFlows)
      <4>1. gone \in {{j} : j \in DOMAIN flows}  BY <1>1, <2>1, <3>2 DEF Victims
      <4>2. PICK j \in DOMAIN flows : gone = {j}  BY <4>1
      <4>3. QED  BY <2>1, <4>2
    <3>3. QED  BY <3>1, <3>2
  <2>2. CASE ~new  BY <1>1, <2>2
  <2>3. QED  BY <2>1, <2>2
<1>5. /\ DOMAIN flows' = (DOMAIN flows \ gone) \cup {k} /\ flows'[k] = u
      /\ \A j \in DOMAIN flows \ gone : j # k => flows'[j] = flows[j]
  BY <1>1
<1>6. Tracks(p, k, gone)  BY <1>1, <1>2, <1>3, <1>4, <1>5 DEF Tracks
<1>7. QED  BY <1>6 DEF k

\* What was popped is a packet, and joins what was popped.
LEMMA PopEffect ==
    ASSUME Typed, ProcessOne
    PROVE  /\ Head(queue) \in Packets /\ queue # << >>
           /\ delivered' = Append(delivered, Head(queue)) /\ queue' = Tail(queue)
BY HeadTail DEF Typed, ProcessOne, Ring!Take

\* A step leaves every trail to its key, and only expired flows in export.
LEMMA NextFlowsTyped == Typed /\ FlowsTyped /\ [Next]_vars => FlowsTyped'
<1> SUFFICES ASSUME Typed, FlowsTyped, [Next]_vars PROVE FlowsTyped'
  OBVIOUS
<1>1. CASE UNCHANGED <<flowVars, export>>
  BY <1>1 DEF FlowsTyped, flowVars
<1>2. CASE ProcessOne /\ config.extract_flows
  <2> DEFINE p == Head(queue)
             k == NormalizeKey(FlowKey(p.frame))
  <2>1. p \in Packets  BY <1>2, PopEffect
  <2>2. export' = export /\ ProcessPacket(p)  BY <1>2 DEF ProcessOne
  <2> HIDE DEF p
  <2>3. CASE IgnorePacket(p)  BY <1>1, <2>2, <2>3 DEF IgnorePacket
  <2>4. CASE TrackPacket(p)
    <3>1. PICK gone : Tracks(p, k, gone)  BY <2>4, TrackEffect
    <3> HIDE DEF k
    <3>2. IsFiniteSet(DOMAIN flows')
      BY <3>1, FS_Difference, FS_AddElement DEF FlowsTyped, Tracks
    <3>3. IsFiniteSet(ended')
      <4>1. IsFiniteSet(gone)  BY <3>1, FS_Subset DEF Tracks, FlowsTyped
      <4>2. IsFiniteSet({Ended(j, "evicted") : j \in gone})
        <5> DEFINE f == [j \in gone |-> Ended(j, "evicted")]
        <5>1. DOMAIN f = gone /\ {f[j] : j \in gone} = {Ended(j, "evicted") : j \in gone}
          OBVIOUS
        <5> HIDE DEF f
        <5>2. QED  BY <4>1, <5>1, ImageFinite
      <4>3. QED  BY <3>1, <4>2, FS_Union DEF Tracks, FlowsTyped
    <3>4. GoodTrail(flows'[k].trail, k)
      <4> DEFINE old == IF k \in DOMAIN flows THEN flows[k].trail ELSE << >>
      <4>1. old \in Seq(Packets) /\ \A i \in 1 .. Len(old) : NormalizeKey(FlowKey(old[i].frame)) = k
        BY DEF FlowsTyped, GoodTrail
      <4>2. flows'[k].trail = Append(old, p)  BY <3>1 DEF Tracks
      <4> HIDE DEF old
      <4>3. QED  BY <2>1, <4>1, <4>2, AppendEffect DEF GoodTrail, k
    <3>5. ASSUME NEW j \in DOMAIN flows' PROVE GoodTrail(flows'[j].trail, j)
      BY <3>1, <3>4 DEF FlowsTyped, Tracks
    <3>6. ASSUME NEW e \in ended' PROVE GoodTrail(e.trail, e.key) /\ e.how \in {"evicted", "expired"}
      BY <3>1, EndedFields DEF FlowsTyped, Tracks
    <3>7. QED  BY <2>2, <3>1, <3>2, <3>3, <3>5, <3>6 DEF FlowsTyped, Tracks
  <2>5. QED  BY <2>2, <2>3, <2>4 DEF ProcessPacket
<1>3. CASE Expire
  <2> DEFINE over == Overdue(clock)
             left == [k \in DOMAIN flows \ over |-> flows[k]]
             out == {Expired(k) : k \in over}
  <2>1. /\ flows' = left /\ ended' = ended \cup out /\ export' = out
        /\ over \subseteq DOMAIN flows
    BY <1>3 DEF Expire, ExpireFlows, Overdue
  <2>2. DOMAIN left = DOMAIN flows \ over /\ \A k \in DOMAIN left : left[k] = flows[k]
    OBVIOUS
  <2>3. IsFiniteSet(over)  BY <2>1, FS_Subset DEF FlowsTyped
  <2>4. IsFiniteSet(out)
    <3> DEFINE f == [k \in over |-> Expired(k)]
    <3>1. DOMAIN f = over /\ {f[k] : k \in over} = out  OBVIOUS
    <3> HIDE DEF f, over, out
    <3>2. QED  BY <2>3, <3>1, ImageFinite
  <2> HIDE DEF left
  <2>5. ASSUME NEW e \in out
        PROVE  GoodTrail(e.trail, e.key) /\ e.how = "expired"
    <3>1. PICK k \in over : e = Expired(k)  OBVIOUS
    <3>2. QED  BY <2>1, <3>1, EndedFields DEF FlowsTyped
  <2> HIDE DEF over, out
  <2>6. IsFiniteSet(DOMAIN flows') /\ IsFiniteSet(ended')
    <3>1. IsFiniteSet(DOMAIN flows) /\ IsFiniteSet(ended)  BY DEF FlowsTyped
    <3>2. IsFiniteSet(DOMAIN flows \ over)  BY <3>1, FS_Difference
    <3>3. IsFiniteSet(ended \cup out)  BY <2>4, <3>1, FS_Union
    <3>4. QED  BY <2>1, <2>2, <3>2, <3>3, Zenon
  <2>7. QED  BY <2>1, <2>2, <2>5, <2>6 DEF FlowsTyped
<1>4. CASE PublishFlows
  BY <1>4 DEF PublishFlows, FlowsTyped, flowVars
<1>5. QED
  BY <1>1, <1>2, <1>3, <1>4
  DEF Next, Captor, vars, threadVars, Start, StartRefused, Stop, Stopped, NoFrame, PcapReceive,
      PcapBreaks, AfPacketReceive, DpdkReceive, Receive, Push, Drop, ProcessOne, FlushBatch,
      ProcessingExits, FrameArrives, Tick

\* Messages produced: the queue keeps to its bound.
LEMMA ProduceTyped ==
    ASSUME Typed, NEW msgs \in Seq(Messages), ProduceBatch(msgs)
    PROVE  /\ outq' \in Seq(Messages) /\ settled' \in Seq(Messages)
           /\ refused' \subseteq Messages /\ queue_size' <= QueueMax
<1>1. outq \in Seq(Messages) /\ settled \in Seq(Messages) /\ refused \subseteq Messages
      /\ queue_size <= QueueMax
  BY DEF Typed, TypeOK
<1>2. PICK n \in 0 .. Len(msgs) :
        /\ outq' = outq \o SubSeq(msgs, 1, n)
        /\ refused' = refused \cup {msgs[i] : i \in n + 1 .. Len(msgs)}
        /\ Len(outq) + n <= QueueMax
        /\ settled' = settled
  BY <1>1, ProduceEffect
<1>3. SubSeq(msgs, 1, n) \in Seq(Messages) /\ Len(SubSeq(msgs, 1, n)) = n
      /\ Len(outq) \in Nat /\ n \in Nat
  BY <1>1
<1>4. outq' \in Seq(Messages) /\ Len(outq') = Len(outq) + n
  BY <1>1, <1>2, <1>3
<1>5. \A i \in n + 1 .. Len(msgs) : msgs[i] \in Messages  OBVIOUS
<1>6. queue_size' = Len(outq')  BY DEF queue_size
<1>7. QED  BY <1>1, <1>2, <1>4, <1>5, <1>6

\* flush() returns: what was queued is settled or queued.
LEMMA FlushEffect ==
    ASSUME Typed, Flush
    PROVE  /\ outq' \in Seq(Messages) /\ settled' \in Seq(Messages)
           /\ refused' = refused /\ queue_size' <= QueueMax
           /\ Published' = Published
<1>1. outq \in Seq(Messages) /\ settled \in Seq(Messages) /\ queue_size <= QueueMax
  BY DEF Typed, TypeOK
<1>2. PICK n \in 0 .. Len(outq) :
        /\ settled' = settled \o SubSeq(outq, 1, n)
        /\ outq' = SubSeq(outq, n + 1, Len(outq))
  BY DEF Flush
<1> DEFINE a == SubSeq(outq, 1, n)
           b == SubSeq(outq, n + 1, Len(outq))
<1>3. /\ a \in Seq(Messages) /\ b \in Seq(Messages) /\ Len(b) = Len(outq) - n
      /\ Len(outq) \in Nat
  BY <1>1
<1>4. a \o b = outq
  <2>1. SubSeq(outq, 1, Len(outq)) = outq  BY <1>1, SubSeqFull
  <2>2. 1 \in 1 .. Len(outq) + 1 /\ n \in 1 - 1 .. Len(outq) /\ Len(outq) \in n .. Len(outq)
    BY <1>3
  <2>3. a \o b = SubSeq(outq, 1, Len(outq))  BY <1>1, <2>2, ConcatAdjacentSubSeq
  <2>4. QED  BY <2>1, <2>3
<1> HIDE DEF a, b
<1>5. settled' \in Seq(Messages) /\ (settled \o a) \o b = settled \o outq
  <2>1. settled' = settled \o a  BY <1>2 DEF a
  <2>2. settled \o a \in Seq(Messages)  BY <1>1, <1>3, ConcatProperties
  <2>3. (settled \o a) \o b = settled \o (a \o b)
    <3>1. settled \in Seq(Messages) /\ a \in Seq(Messages) /\ b \in Seq(Messages)
      BY <1>1, <1>3
    <3>2. Associates(settled, a, b)  BY <3>1, Association
    <3>3. QED  BY <3>2 DEF Associates
  <2>4. QED  BY <1>4, <2>1, <2>2, <2>3
<1>6. refused' = refused  BY DEF Flush
<1>7. queue_size' <= QueueMax
  BY <1>1, <1>2, <1>3, ProducerAssumption DEF queue_size, b
<1>8. QED  BY <1>2, <1>3, <1>5, <1>6, <1>7 DEF Published, a, b

\* The events of the expired flows in hand.
LEMMA FlowEventsTyped ==
    ASSUME FlowsTyped
    PROVE  /\ FlowEvents \in Seq(Messages)
           /\ \A i \in 1 .. Len(FlowEvents) : \E e \in export : FlowEvents[i] = <<"flow", e.trail[1].id>>
           /\ \A e \in export : \E i \in 1 .. Len(FlowEvents) : FlowEvents[i] = <<"flow", e.trail[1].id>>
           /\ \A i, j \in 1 .. Len(FlowEvents) : FlowEvents[i] = FlowEvents[j] => i = j
<1> DEFINE S == {<<"flow", e.trail[1].id>> : e \in export}
<1>1. IsFiniteSet(export)  BY FS_Subset DEF FlowsTyped
<1>2. IsFiniteSet(S)
  <2> DEFINE f == [e \in export |-> <<"flow", e.trail[1].id>>]
  <2>1. DOMAIN f = export /\ {f[e] : e \in export} = S  OBVIOUS
  <2> HIDE DEF f, S
  <2>2. QED  BY <1>1, <2>1, ImageFinite
<1>3. ASSUME NEW e \in export PROVE <<"flow", e.trail[1].id>> \in Messages
  <2>1. e.trail \in Seq(Packets) /\ e.trail # << >>  BY DEF FlowsTyped, GoodTrail
  <2>2. e.trail[1] \in Packets  BY <2>1
  <2>3. e.trail[1].id \in PacketIds  BY <2>2 DEF Packets
  <2>4. QED  BY <2>3 DEF Messages, FlowIds
<1>4. S \subseteq Messages  BY <1>3
<1>5. FlowEvents = SetToSeq(S)  BY DEF FlowEvents
<1> HIDE DEF S
<1>6. /\ FlowEvents \in Seq(S) /\ ToSet(FlowEvents) = S
      /\ \A i, j \in 1 .. Len(FlowEvents) : FlowEvents[i] = FlowEvents[j] => i = j
  BY <1>2, <1>5, OrderOf
<1>7. FlowEvents \in Seq(Messages) /\ \A i \in 1 .. Len(FlowEvents) : FlowEvents[i] \in S
  BY <1>4, <1>6
<1>8. DOMAIN FlowEvents = 1 .. Len(FlowEvents)  BY <1>6
<1>9. \A x \in S : \E i \in 1 .. Len(FlowEvents) : FlowEvents[i] = x
  BY <1>6, <1>8 DEF ToSet
<1>10. QED  BY <1>6, <1>7, <1>9 DEF S

\* Counting up one of the counters.
LEMMA CountedUp ==
    ASSUME NEW s \in Counters, NEW n \in Nat
    PROVE  /\ [s EXCEPT !.captured = @ + 1] \in Counters
           /\ [s EXCEPT !.dropped = @ + 1] \in Counters
           /\ [s EXCEPT !.expired = @ + n] \in Counters
BY DEF Counters

\* Batches hold packet ids, which are messages.
LEMMA BatchIsMessages == \A s \in Seq(PacketIds) : s \in Seq(Messages)
BY SeqMonotonic DEF Messages

\* Every step keeps the types.
LEMMA NextTyped == Typed /\ FlowsTyped /\ [Next]_vars => Typed'
<1> SUFFICES ASSUME Typed, FlowsTyped, [Next]_vars PROVE Typed'
  OBVIOUS
<1> USE DEF threadVars, flowVars, producerVars
<1>1. CASE UNCHANGED vars
  BY <1>1 DEF Typed, TypeOK, AllExited, vars, queue_size
<1>2. CASE Start
  <2>1. Len(wire) \in Nat  BY DEF Typed
  <2>2. PICK open \in Opened :
          tpc' = [t \in Captors |-> IF t \in open THEN "armed" ELSE "exited"]
    BY <1>2 DEF Start
  <2>3. /\ tpc' \in [Captors -> {"exited", "armed", "push"}]
        /\ \A t \in Captors : tpc'[t] # "push" /\ hand[t] = None
    BY <1>2, <2>2 DEF Start, Typed, TypeOK, AllExited
  <2>4. seen' \in [Captors -> Nat] /\ \A t \in Captors : seen'[t] <= Len(wire)
    BY <1>2, <2>1 DEF Start
  <2>5. TypeOK'
    BY <1>2, <2>3 DEF Typed, TypeOK, Start, AllExited, queue_size
  <2>6. QED  BY <1>2, <2>3, <2>4, <2>5 DEF Typed, Start
<1>3. CASE Stop
  BY <1>3 DEF Typed, TypeOK, Stop, AllExited, queue_size
<1>4. CASE Stopped
  <2>1. /\ outq' \in Seq(Messages) /\ settled' \in Seq(Messages)
        /\ refused' \subseteq Messages /\ queue_size' <= QueueMax
    BY <1>4, FlushEffect DEF Stopped, Typed
  <2>2. phase' = "idle" /\ AllExited /\ phase = "joining"
        /\ UNCHANGED <<config, running, tpc, hand, seen, ppc, batch, xpc, export, stats, queue,
                       delivered, wire, dropped, clock>>
    BY <1>4 DEF Stopped
  <2>3. export = {} /\ batch = << >> /\ ~running
    BY <2>2 DEF Typed, TypeOK, AllExited
  <2>4. TypeOK'  BY <2>1, <2>2, <2>3 DEF Typed, TypeOK, AllExited
  <2>5. QED  BY <2>1, <2>2, <2>4 DEF Typed
<1>5. ASSUME NEW t \in Captors, NoFrame(t) \/ PcapBreaks(t) PROVE Typed'
  <2>1. /\ tpc[t] = "armed" /\ tpc' = [tpc EXCEPT ![t] = "exited"]
        /\ UNCHANGED <<config, running, phase, hand, seen, ppc, batch, xpc, export, stats, queue,
                       delivered, wire, dropped, clock, stops, flowVars, producerVars>>
    BY <1>5 DEF NoFrame, PcapBreaks
  <2>2. /\ tpc' \in [Captors -> {"exited", "armed", "push"}]
        /\ \A u \in Captors : tpc'[u] = "push" <=> tpc[u] = "push"
        /\ AllExited => AllExited'
    BY <2>1 DEF Typed, AllExited
  <2>3. TypeOK'  BY <2>1, <2>2 DEF Typed, TypeOK, queue_size
  <2>4. QED  BY <2>1, <2>2, <2>3 DEF Typed
<1>6. ASSUME NEW t \in Captors, NEW ts \in Nat, Receive(t, ts) PROVE Typed'
  <2> DEFINE p == [id |-> <<t, seen[t] + 1>>, frame |-> wire[seen[t] + 1].frame, ts |-> ts]
  <2>1. /\ tpc[t] = "armed" /\ seen[t] < Len(wire)
        /\ seen' = [seen EXCEPT ![t] = @ + 1] /\ hand' = [hand EXCEPT ![t] = p]
        /\ stats' = [stats EXCEPT !.captured = @ + 1]
        /\ tpc' = [tpc EXCEPT ![t] = "push"]
        /\ UNCHANGED <<config, running, phase, ppc, batch, xpc, export, queue, delivered, wire,
                       dropped, clock, stops, flowVars, producerVars>>
    BY <1>6 DEF Receive
  <2>2. p \in Packets
    <3>1. seen[t] \in Nat /\ Len(wire) \in Nat  BY DEF Typed
    <3>2. seen[t] + 1 \in 1 .. Len(wire)  BY <2>1, <3>1
    <3>3. wire[seen[t] + 1].frame \in Frames
      <4>1. wire[seen[t] + 1] \in [frame : Frames, time : Nat]
        BY <3>2, ElementOfSeq DEF Typed
      <4>2. QED  BY <4>1
    <3>4. <<t, seen[t] + 1>> \in PacketIds  BY <3>1 DEF PacketIds
    <3>5. QED  BY <3>3, <3>4 DEF Packets
  <2>3. p # None  BY <2>2, NoneIsNoPacket
  <2> HIDE DEF p
  <2>4. /\ tpc' \in [Captors -> {"exited", "armed", "push"}]
        /\ hand' \in [Captors -> Packets \cup {None}]
        /\ \A u \in Captors : hand'[u] # None <=> tpc'[u] = "push"
    BY <2>1, <2>2, <2>3 DEF Typed, TypeOK
  <2>5. seen' \in [Captors -> Nat] /\ \A u \in Captors : seen'[u] <= Len(wire)
    BY <2>1 DEF Typed
  <2>6. phase # "idle"  BY <2>1 DEF Typed, TypeOK, AllExited
  <2>7. TypeOK'  BY <2>1, <2>4, <2>6 DEF Typed, TypeOK, queue_size
  <2>8. stats' \in Counters  BY <2>1, CountedUp DEF Typed
  <2>9. QED  BY <2>1, <2>4, <2>5, <2>7, <2>8 DEF Typed
<1>7. ASSUME NEW t \in Captors, PcapReceive(t) PROVE Typed'
  <2>1. seen[t] \in Nat /\ Len(wire) \in Nat /\ seen[t] < Len(wire)
    BY <1>7 DEF Typed, PcapReceive, Receive
  <2>2. wire[seen[t] + 1].time \in Nat
    <3>1. seen[t] + 1 \in 1 .. Len(wire)  BY <2>1
    <3>2. wire[seen[t] + 1] \in [frame : Frames, time : Nat]
      BY <3>1, ElementOfSeq DEF Typed
    <3>3. QED  BY <3>2
  <2>3. QED  BY <1>6, <1>7, <2>2 DEF PcapReceive
<1>8. ASSUME NEW t \in Captors, AfPacketReceive(t) \/ DpdkReceive(t) PROVE Typed'
  BY <1>6, <1>8 DEF AfPacketReceive, DpdkReceive, Typed
<1>9. ASSUME NEW t \in Captors, Push(t) \/ Drop(t)
      PROVE  /\ tpc' \in [Captors -> {"exited", "armed", "push"}]
             /\ hand' \in [Captors -> Packets \cup {None}]
             /\ \A u \in Captors : hand'[u] # None <=> tpc'[u] = "push"
             /\ phase # "idle" /\ hand[t] \in Packets /\ hand[t].id \in PacketIds
  <2>1. tpc[t] = "push" /\ hand' = [hand EXCEPT ![t] = None] /\ tpc' = AfterPush(t)
    BY <1>9 DEF Push, Drop
  <2>2. \E pc \in {"armed", "exited"} : tpc' = [tpc EXCEPT ![t] = pc]
    BY <2>1 DEF AfterPush, HeadOfLoop
  <2>3. phase # "idle"  BY <2>1 DEF Typed, TypeOK, AllExited
  <2>4. hand[t] \in Packets  BY <2>1 DEF Typed, TypeOK
  <2>5. hand[t].id \in PacketIds  BY <2>4 DEF Packets
  <2>6. QED  BY <2>1, <2>2, <2>3, <2>4, <2>5 DEF Typed, TypeOK
<1>10. ASSUME NEW t \in Captors, Push(t) PROVE Typed'
  <2>1. /\ queue' = Append(queue, hand[t]) /\ Len(queue) < RingLimit
        /\ UNCHANGED <<config, running, phase, seen, ppc, batch, xpc, export, stats, delivered,
                       wire, dropped, clock, stops, flowVars, producerVars>>
    BY <1>10 DEF Push, Ring!Put
  <2>2. queue' \in Seq(Packets) /\ Len(queue') <= RingLimit
    <3>1. queue \in Seq(Packets) /\ Len(queue) \in Nat /\ RingLimit \in Nat
      BY CaptureAssumption DEF Typed
    <3>2. hand[t] \in Packets  BY <1>9, <1>10
    <3>3. QED  BY <2>1, <3>1, <3>2, AppendProperties
  <2>3. TypeOK'  BY <1>9, <1>10, <2>1, <2>2 DEF Typed, TypeOK, queue_size
  <2>4. QED  BY <1>9, <1>10, <2>1, <2>2, <2>3 DEF Typed
<1>11. ASSUME NEW t \in Captors, Drop(t) PROVE Typed'
  <2>1. /\ stats' = [stats EXCEPT !.dropped = @ + 1] /\ dropped' = dropped \cup {hand[t].id}
        /\ UNCHANGED <<config, running, phase, seen, ppc, batch, xpc, export, queue, delivered,
                       wire, clock, stops, flowVars, producerVars>>
    BY <1>11 DEF Drop
  <2>2. stats' \in Counters /\ dropped' \subseteq PacketIds
    BY <1>9, <1>11, <2>1, CountedUp DEF Typed
  <2>3. TypeOK'  BY <1>9, <1>11, <2>1 DEF Typed, TypeOK, queue_size
  <2>4. QED  BY <1>9, <1>11, <2>1, <2>2, <2>3 DEF Typed
<1>12. CASE ProcessOne
  <2> DEFINE ids == Append(batch, Head(queue).id)
  <2>1. /\ Head(queue) \in Packets /\ queue # << >>
        /\ delivered' = Append(delivered, Head(queue)) /\ queue' = Tail(queue)
    BY <1>12, PopEffect
  <2>2. /\ ppc = "loop" /\ running /\ batch' = BatchAfter(ids)
        /\ IF Len(ids) >= BatchSize THEN ProduceBatch(ids) ELSE UNCHANGED producerVars
        /\ UNCHANGED <<config, running, phase, tpc, hand, seen, ppc, xpc, export, stats, wire,
                       dropped, clock, stops>>
    BY <1>12 DEF ProcessOne
  <2>3. Head(queue).id \in PacketIds  BY <2>1 DEF Packets
  <2>4. ids \in Seq(PacketIds) /\ Len(ids) \in Nat
    BY <2>3, AppendProperties DEF Typed
  <2>5. /\ delivered' \in Seq(Packets) /\ queue' \in Seq(Packets) /\ Len(queue') <= RingLimit
    <3>1. Len(queue') = Len(queue) - 1 /\ queue' \in Seq(Packets) /\ Len(queue) \in Nat
      BY <2>1, HeadTail DEF Typed
    <3>2. delivered' \in Seq(Packets)  BY <2>1, AppendProperties DEF Typed
    <3>3. Len(queue) <= RingLimit /\ RingLimit \in Nat  BY CaptureAssumption DEF Typed, TypeOK
    <3>4. QED  BY <3>1, <3>2, <3>3
  <2> HIDE DEF ids
  <2>6. /\ outq' \in Seq(Messages) /\ settled' \in Seq(Messages)
        /\ refused' \subseteq Messages /\ queue_size' <= QueueMax
    <3>1. CASE Len(ids) >= BatchSize
      BY <2>2, <2>4, <3>1, BatchIsMessages, ProduceTyped
    <3>2. CASE ~ (Len(ids) >= BatchSize)
      BY <2>2, <3>2 DEF Typed, TypeOK, queue_size
    <3>3. QED  BY <3>1, <3>2
  <2>7. batch' \in Seq(PacketIds) /\ Len(batch') < BatchSize
    BY <2>2, <2>4, CaptureAssumption DEF BatchAfter
  <2>8. phase = "running"  BY <2>2 DEF Typed, TypeOK
  <2>9. TypeOK'
    BY <2>2, <2>5, <2>6, <2>7, <2>8 DEF Typed, TypeOK
  <2>10. QED  BY <2>2, <2>5, <2>6, <2>7, <2>9 DEF Typed
<1>13. CASE FlushBatch \/ ProcessingExits
  <2>1. /\ ppc = "loop" /\ ppc' \in {"loop", "exited"} /\ batch' = << >> /\ ProduceBatch(batch)
        /\ UNCHANGED <<config, running, phase, tpc, hand, seen, xpc, export, stats, queue,
                       delivered, wire, dropped, clock, stops, flowVars>>
    BY <1>13 DEF FlushBatch, ProcessingExits, FinalBatch
  <2>2. /\ outq' \in Seq(Messages) /\ settled' \in Seq(Messages)
        /\ refused' \subseteq Messages /\ queue_size' <= QueueMax
    BY <2>1, BatchIsMessages, ProduceTyped DEF Typed
  <2>3. phase # "idle"  BY <2>1 DEF Typed, TypeOK, AllExited
  <2>4. batch' \in Seq(PacketIds) /\ Len(batch') < BatchSize
    BY <2>1, CaptureAssumption
  <2>5. TypeOK'  BY <2>1, <2>2, <2>3, <2>4 DEF Typed, TypeOK
  <2>6. QED  BY <2>1, <2>2, <2>4, <2>5 DEF Typed
<1>14. CASE Expire
  <2> DEFINE over == Overdue(clock)
  <2>1. /\ xpc = "asleep" /\ export' = {Expired(k) : k \in over}
        /\ stats' = [stats EXCEPT !.expired = @ + Cardinality(over)]
        /\ xpc' = IF over = {} THEN SleepsAgain ELSE "publish"
        /\ UNCHANGED <<config, running, phase, tpc, hand, seen, ppc, batch, queue, delivered, wire,
                       dropped, clock, stops, producerVars>>
    BY <1>14 DEF Expire, AfterExpire
  <2>2. Cardinality(over) \in Nat
    <3>1. over \subseteq DOMAIN flows  BY DEF Overdue
    <3> HIDE DEF over
    <3>2. QED  BY <3>1, FS_Subset, FS_CardinalityType DEF FlowsTyped
  <2> HIDE DEF over
  <2>3. SleepsAgain \in {"asleep", "exited"}  BY DEF SleepsAgain
  <2>4. xpc' \in {"exited", "asleep", "publish"} /\ (export' # {} <=> xpc' = "publish")
    BY <2>1, <2>3
  <2>5. stats' \in Counters  BY <2>1, <2>2, CountedUp DEF Typed
  <2>6. phase # "idle"  BY <2>1 DEF Typed, TypeOK, AllExited
  <2>7. TypeOK'  BY <2>1, <2>4, <2>6 DEF Typed, TypeOK, queue_size
  <2>8. QED  BY <2>1, <2>4, <2>5, <2>7 DEF Typed
<1>15. CASE PublishFlows
  <2>1. /\ xpc = "publish" /\ ProduceBatch(FlowEvents) /\ export' = {}
        /\ xpc' \in {"asleep", "exited"}
        /\ UNCHANGED <<config, running, phase, tpc, hand, seen, ppc, batch, stats, queue,
                       delivered, wire, dropped, clock, stops, flowVars>>
    BY <1>15 DEF PublishFlows, SleepsAgain
  <2>2. /\ outq' \in Seq(Messages) /\ settled' \in Seq(Messages)
        /\ refused' \subseteq Messages /\ queue_size' <= QueueMax
    BY <2>1, FlowEventsTyped, ProduceTyped
  <2>3. phase # "idle"  BY <2>1 DEF Typed, TypeOK, AllExited
  <2>4. TypeOK'  BY <2>1, <2>2, <2>3 DEF Typed, TypeOK
  <2>5. QED  BY <2>1, <2>2, <2>4 DEF Typed
<1>16. CASE FrameArrives
  <2>1. PICK f \in config.traffic[Len(wire) + 1] :
          wire' = Append(wire, [frame |-> f, time |-> clock])
    BY <1>16 DEF FrameArrives
  <2>2. f \in Frames
    <3>1. config.traffic \in Seq(SUBSET Frames)  BY CaptureAssumption DEF Typed
    <3>2. Len(wire) + 1 \in 1 .. Len(config.traffic)
      BY <1>16, <3>1 DEF FrameArrives, Typed
    <3>3. QED  BY <2>1, <3>1, <3>2
  <2>3. /\ [frame |-> f, time |-> clock] \in [frame : Frames, time : Nat]
    BY <2>2 DEF Typed
  <2>4. wire' \in Seq([frame : Frames, time : Nat]) /\ Len(wire') = Len(wire) + 1
        /\ Len(wire) \in Nat
    BY <2>1, <2>3, AppendProperties DEF Typed
  <2>5. /\ phase # "idle"
        /\ UNCHANGED <<config, running, phase, threadVars, stats, queue, delivered, dropped, clock,
                       stops, flowVars, producerVars>>
    BY <1>16 DEF FrameArrives
  <2>6. TypeOK'  BY <2>5 DEF Typed, TypeOK, queue_size
  <2>7. \A t \in Captors : seen'[t] <= Len(wire')  BY <2>4, <2>5 DEF Typed
  <2>8. QED  BY <2>4, <2>5, <2>6, <2>7 DEF Typed
<1>17. CASE Tick
  <2>1. clock' \in Nat
        /\ UNCHANGED <<config, running, phase, threadVars, stats, queue, delivered, wire, dropped,
                       stops, flowVars, producerVars>>
    BY <1>17 DEF Tick, Typed
  <2>2. TypeOK'  BY <2>1 DEF Typed, TypeOK, AllExited, queue_size
  <2>3. QED  BY <2>1, <2>2 DEF Typed
<1>18. QED
  BY <1>1, <1>2, <1>3, <1>4, <1>5, <1>7, <1>8, <1>10, <1>11, <1>12, <1>13, <1>14, <1>15, <1>16,
     <1>17
  DEF Next, Captor, StartRefused

\* Two packets of one trail are of one conversation, and the trails of two
\* flows of the table are not, because their keys differ.
LEMMA TypedOneFlow == FlowsTyped => OneFlowPerConversation
<1> SUFFICES ASSUME FlowsTyped PROVE OneFlowPerConversation
  OBVIOUS
<1>1. ASSUME NEW p \in Packets, NEW q \in Packets
      PROVE  NormalizeKey(FlowKey(p.frame)) = NormalizeKey(FlowKey(q.frame))
               <=> Conversation(p.frame) = Conversation(q.frame)
  <2>1. p.frame \in Frames /\ q.frame \in Frames  BY DEF Packets
  <2>2. /\ KeyType(FlowKey(p.frame)) /\ Conversation(p.frame) = Ends(FlowKey(p.frame))
        /\ KeyType(FlowKey(q.frame)) /\ Conversation(q.frame) = Ends(FlowKey(q.frame))
    BY <2>1, FlowKeyType
  <2>3. QED  BY <2>2, OneKey
<1>2. ASSUME NEW trail, NEW k, GoodTrail(trail, k)
      PROVE  /\ \A i \in DOMAIN trail : /\ trail[i] \in Packets
                                        /\ NormalizeKey(FlowKey(trail[i].frame)) = k
             /\ 1 \in DOMAIN trail
  BY <1>2 DEF GoodTrail
<1>3. ASSUME NEW e \in AllFlows
      PROVE  \A i \in DOMAIN e.trail :
               Conversation(e.trail[i].frame) = Conversation(e.trail[1].frame)
  <2>1. GoodTrail(e.trail, e.key)
    BY EndedFields DEF AllFlows, FlowsTyped
  <2>2. QED  BY <1>1, <1>2, <2>1
<1>4. ASSUME NEW j \in DOMAIN flows, NEW k \in DOMAIN flows,
             Conversation(flows[j].trail[1].frame) = Conversation(flows[k].trail[1].frame)
      PROVE  j = k
  <2>1. GoodTrail(flows[j].trail, j) /\ GoodTrail(flows[k].trail, k)  BY DEF FlowsTyped
  <2>2. /\ flows[j].trail[1] \in Packets /\ NormalizeKey(FlowKey(flows[j].trail[1].frame)) = j
        /\ flows[k].trail[1] \in Packets /\ NormalizeKey(FlowKey(flows[k].trail[1].frame)) = k
    BY <1>2, <2>1
  <2>3. QED  BY <1>1, <1>4, <2>2
<1>5. QED  BY <1>3, <1>4 DEF OneFlowPerConversation

\* Every execution is typed.
LEMMA AlwaysTyped == Spec => [](Typed /\ FlowsTyped)
<1>1. Init => Typed /\ FlowsTyped  BY InitTyped
<1>2. Typed /\ FlowsTyped /\ [Next]_vars => Typed' /\ FlowsTyped'
  BY NextTyped, NextFlowsTyped
<1>3. QED  BY <1>1, <1>2, PTL DEF Spec

\* Packets of one conversation, whichever way they go, are one flow of the
\* table, and a flow never mixes two conversations: process_packet's key is
\* the same for both directions, and only for them.
THEOREM ConversationsKept == Spec => []OneFlowPerConversation
BY AlwaysTyped, TypedOneFlow, PTL

-----------------------------------------------------------------------------
(* Packets *)

\* An event of a packet is none of a flow: no thread is called "flow".
LEMMA PacketOrFlow ==
    /\ \A m \in PacketIds : ~IsFlow(m)
    /\ \A m \in FlowIds : IsFlow(m)
    /\ \A m \in Messages : ~IsFlow(m) => m \in PacketIds
<1>1. ASSUME NEW m \in PacketIds PROVE ~IsFlow(m)
  <2>1. m[1] \in Captors  BY DEF PacketIds
  <2>2. QED  BY <2>1, CaptureAssumption DEF IsFlow
<1>2. ASSUME NEW m \in FlowIds PROVE IsFlow(m)
  BY DEF FlowIds, IsFlow
<1>3. QED  BY <1>1, <1>2 DEF Messages

\* The members of a sequence behind another.
LEMMA ConcatMembers ==
    ASSUME NEW S, NEW s \in Seq(S), NEW t \in Seq(S)
    PROVE  /\ ToSet(s \o t) = ToSet(s) \cup ToSet(t)
           /\ ToSet(s) = {s[i] : i \in 1 .. Len(s)}
<1>1. /\ ToSet(s) = Range(s) /\ ToSet(t) = Range(t) /\ ToSet(s \o t) = Range(s \o t)
  BY DEF ToSet, Range
<1>2. Range(s \o t) = Range(s) \cup Range(t)  BY RangeConcatenation
<1>3. Range(s) = {s[i] : i \in 1 .. Len(s)}  BY RangeEquality
<1>4. QED  BY <1>1, <1>2, <1>3

\* The packets del were popped; the last ones, from place c + 1 on, are
\* batched; the ones before are published, in order, or refused.
BatchedAt(c, del, bat, out, ref) ==
    /\ c \in Nat /\ Len(del) = c + Len(bat)
    /\ \A i \in 1 .. Len(bat) : bat[i] = del[c + i].id
    /\ \A k \in 1 .. c : del[k].id \in ToSet(out) \cup ref
    /\ \A m \in ToSet(out) \cup ref : ~IsFlow(m) => \E k \in 1 .. c : del[k].id = m
    /\ \A m \in ToSet(out) : ~IsFlow(m) => m \notin ref
    /\ \A i, j \in 1 .. Len(out) :
         i < j /\ ~IsFlow(out[i]) /\ ~IsFlow(out[j]) =>
            \E k, l \in 1 .. c : k < l /\ del[k].id = out[i] /\ del[l].id = out[j]

\* No two packets have one id.
Distinct(del) == \A i, j \in 1 .. Len(del) : del[i].id = del[j].id => i = j

\* A packet joins the batch.
LEMMA Join ==
    ASSUME NEW c, NEW del \in Seq(Packets), NEW bat \in Seq(PacketIds), NEW out, NEW ref,
           BatchedAt(c, del, bat, out, ref), NEW p \in Packets
    PROVE  BatchedAt(c, Append(del, p), Append(bat, p.id), out, ref)
<1> DEFINE d == Append(del, p)
           b == Append(bat, p.id)
<1>1. p.id \in PacketIds  BY DEF Packets
<1>2. /\ Len(d) = Len(del) + 1 /\ Len(del) \in Nat /\ d[Len(del) + 1] = p
      /\ \A i \in 1 .. Len(del) : d[i] = del[i]
  BY AppendEffect
<1>3. /\ Len(b) = Len(bat) + 1 /\ Len(bat) \in Nat /\ b[Len(bat) + 1] = p.id
      /\ \A i \in 1 .. Len(bat) : b[i] = bat[i]
  BY <1>1, AppendEffect
<1>4. c \in Nat /\ Len(del) = c + Len(bat)  BY DEF BatchedAt
<1> HIDE DEF d, b
<1>5. ASSUME NEW i \in 1 .. Len(b) PROVE b[i] = d[c + i].id
  <2>1. CASE i \in 1 .. Len(bat)
    <3>1. c + i \in 1 .. Len(del)  BY <1>4, <1>3, <2>1
    <3>2. b[i] = bat[i] /\ d[c + i] = del[c + i]  BY <1>2, <1>3, <2>1, <3>1
    <3>3. bat[i] = del[c + i].id  BY <2>1 DEF BatchedAt
    <3>4. QED  BY <3>2, <3>3
  <2>2. CASE i = Len(bat) + 1
    <3>1. c + i = Len(del) + 1  BY <1>3, <1>4, <2>2
    <3>2. QED  BY <1>2, <1>3, <2>2, <3>1
  <2>3. QED  BY <1>3, <2>1, <2>2
<1>6. \A k \in 1 .. c : d[k] = del[k]
  <2>1. \A k \in 1 .. c : k \in 1 .. Len(del)  BY <1>3, <1>4
  <2>2. QED  BY <1>2, <2>1
<1>7. Len(d) = c + Len(b)  BY <1>2, <1>3, <1>4
<1>8. BatchedAt(c, d, b, out, ref)
  <2>1. \A k \in 1 .. c : d[k].id \in ToSet(out) \cup ref  BY <1>6 DEF BatchedAt
  <2>2. ASSUME NEW m \in ToSet(out) \cup ref, ~IsFlow(m) PROVE \E k \in 1 .. c : d[k].id = m
    <3>1. PICK k \in 1 .. c : del[k].id = m  BY <2>2 DEF BatchedAt
    <3>2. QED  BY <1>6, <3>1
  <2>3. \A i, j \in 1 .. Len(out) :
         i < j /\ ~IsFlow(out[i]) /\ ~IsFlow(out[j]) =>
            \E k, l \in 1 .. c : k < l /\ d[k].id = out[i] /\ d[l].id = out[j]
    <3>1. ASSUME NEW i \in 1 .. Len(out), NEW j \in 1 .. Len(out), i < j, ~IsFlow(out[i]),
                 ~IsFlow(out[j])
          PROVE \E k, l \in 1 .. c : k < l /\ d[k].id = out[i] /\ d[l].id = out[j]
      <4>1. PICK k \in 1 .. c, l \in 1 .. c :
              k < l /\ del[k].id = out[i] /\ del[l].id = out[j]
        BY <3>1 DEF BatchedAt
      <4>2. QED  BY <1>6, <4>1
    <3>2. QED  BY <3>1
  <2>4. QED  BY <1>4, <1>5, <1>7, <2>1, <2>2, <2>3 DEF BatchedAt
<1>9. QED  BY <1>8 DEF d, b

\* The batch is sent: its first n events are published, the others refused.
LEMMA Send ==
    ASSUME NEW c, NEW del \in Seq(Packets), NEW bat \in Seq(PacketIds),
           NEW out \in Seq(Messages), NEW ref, BatchedAt(c, del, bat, out, ref), Distinct(del),
           NEW n \in 0 .. Len(bat)
    PROVE  BatchedAt(Len(del), del, << >>, out \o SubSeq(bat, 1, n),
                     ref \cup {bat[i] : i \in n + 1 .. Len(bat)})
<1> DEFINE sent == SubSeq(bat, 1, n)
           o == out \o sent
           rest == {bat[i] : i \in n + 1 .. Len(bat)}
           r == ref \cup rest
           a == Len(out)
<1>1. /\ c \in Nat /\ Len(del) = c + Len(bat) /\ Len(bat) \in Nat /\ n \in Nat /\ n <= Len(bat)
      /\ a \in Nat
  BY DEF BatchedAt
<1>2. /\ sent \in Seq(PacketIds) /\ Len(sent) = n /\ \A i \in 1 .. n : sent[i] = bat[i]
      /\ sent \in Seq(Messages)
  BY <1>1, BatchIsMessages
<1>3. \A i \in 1 .. Len(bat) : bat[i] \in PacketIds /\ bat[i] = del[c + i].id
  BY DEF BatchedAt
<1>4. ToSet(o) = ToSet(out) \cup ToSet(sent) /\ ToSet(sent) = {bat[i] : i \in 1 .. n}
  <2> HIDE DEF sent
  <2>1. ToSet(o) = ToSet(out) \cup ToSet(sent)  BY <1>2, ConcatMembers
  <2>2. ToSet(sent) = {sent[i] : i \in 1 .. Len(sent)}  BY <1>2, Members
  <2>3. {sent[i] : i \in 1 .. n} = {bat[i] : i \in 1 .. n}  BY <1>2
  <2>4. Len(sent) = n  BY <1>2
  <2>5. QED  BY <2>1, <2>2, <2>3, <2>4
<1>5. /\ Len(o) = a + n
      /\ \A i \in 1 .. a + n : o[i] = IF i <= a THEN out[i] ELSE sent[i - a]
  <2> HIDE DEF sent
  <2>1. QED  BY <1>2, ConcatProperties
<1> HIDE DEF sent, o, a
\* Where an event that is sent comes from.
<1>6. ASSUME NEW i \in 1 .. Len(bat)
      PROVE  c + i \in 1 .. Len(del) /\ bat[i] = del[c + i].id
  BY <1>1, <1>3
<1>7. ASSUME NEW k \in 1 .. Len(del)
      PROVE  k \in 1 .. c \/ (k - c \in 1 .. Len(bat) /\ c + (k - c) = k)
  BY <1>1
<1>8. ASSUME NEW i \in 1 .. Len(bat) PROVE bat[i] \in ToSet(sent) \cup rest
  BY <1>1, <1>4
<1>9. ASSUME NEW k \in 1 .. Len(del) PROVE del[k].id \in ToSet(o) \cup r
  <2>1. CASE k \in 1 .. c  BY <1>4, <2>1 DEF BatchedAt
  <2>2. CASE k - c \in 1 .. Len(bat) /\ c + (k - c) = k
    <3>1. bat[k - c] = del[k].id  BY <1>6, <2>2
    <3>2. QED  BY <1>4, <1>8, <2>2, <3>1
  <2>3. QED  BY <1>7, <2>1, <2>2
<1>10. ASSUME NEW m \in ToSet(o) \cup r, ~IsFlow(m)
       PROVE  \E k \in 1 .. Len(del) : del[k].id = m
  <2>1. CASE m \in ToSet(out) \cup ref
    <3>1. PICK k \in 1 .. c : del[k].id = m  BY <1>10, <2>1 DEF BatchedAt
    <3>2. k \in 1 .. Len(del)  BY <1>1
    <3>3. QED  BY <3>1, <3>2
  <2>2. CASE m \in ToSet(sent) \cup rest
    <3>1. \A i \in 1 .. n : i \in 1 .. Len(bat)  BY <1>1
    <3>2. \A i \in n + 1 .. Len(bat) : i \in 1 .. Len(bat)  BY <1>1
    <3>3. PICK i \in 1 .. Len(bat) : m = bat[i]  BY <1>4, <2>2, <3>1, <3>2
    <3>4. QED  BY <1>6, <3>3
  <2>3. QED  BY <1>4, <1>10, <2>1, <2>2
\* An event that is batched was neither published nor refused before.
<1>11. ASSUME NEW i \in 1 .. Len(bat) PROVE bat[i] \notin ToSet(out) \cup ref
  <2>1. SUFFICES ASSUME bat[i] \in ToSet(out) \cup ref PROVE FALSE
    OBVIOUS
  <2>2. ~IsFlow(bat[i])  BY <1>3, PacketOrFlow
  <2>3. PICK k \in 1 .. c : del[k].id = bat[i]  BY <2>1, <2>2 DEF BatchedAt
  <2>4. k \in 1 .. Len(del) /\ k # c + i  BY <1>1
  <2>5. QED  BY <1>6, <2>3, <2>4 DEF Distinct
<1>12. ASSUME NEW i \in 1 .. Len(bat), NEW j \in 1 .. Len(bat), bat[i] = bat[j] PROVE i = j
  <2>1. c + i = c + j  BY <1>6, <1>12 DEF Distinct
  <2>2. QED  BY <1>1, <2>1
<1>13. ASSUME NEW m \in ToSet(o), ~IsFlow(m) PROVE m \notin r
  <2>1. CASE m \in ToSet(out)
    <3>1. m \notin ref  BY <1>13, <2>1 DEF BatchedAt
    <3>2. \A i \in n + 1 .. Len(bat) : i \in 1 .. Len(bat)  BY <1>1
    <3>3. m \notin rest  BY <1>11, <2>1, <3>2
    <3>4. QED  BY <3>1, <3>3
  <2>2. CASE m \in ToSet(sent)
    <3>1. PICK i \in 1 .. n : m = bat[i]  BY <1>4, <2>2
    <3>2. i \in 1 .. Len(bat)  BY <1>1
    <3>3. m \notin ref  BY <1>11, <3>1, <3>2
    <3>4. ASSUME NEW j \in n + 1 .. Len(bat) PROVE bat[j] # m
      <4>1. j \in 1 .. Len(bat) /\ j # i  BY <1>1
      <4>2. QED  BY <1>12, <3>1, <3>2, <4>1
    <3>5. QED  BY <3>3, <3>4
  <2>3. QED  BY <1>4, <1>13, <2>1, <2>2
<1>14. ASSUME NEW i \in 1 .. Len(o), NEW j \in 1 .. Len(o), i < j, ~IsFlow(o[i]), ~IsFlow(o[j])
       PROVE  \E k, l \in 1 .. Len(del) : k < l /\ del[k].id = o[i] /\ del[l].id = o[j]
  <2>0. 1 .. c \subseteq 1 .. Len(del)  BY <1>1
  <2>1. CASE j <= a
    <3>1. i \in 1 .. a /\ j \in 1 .. a /\ o[i] = out[i] /\ o[j] = out[j]
      BY <1>1, <1>5, <1>14, <2>1
    <3>2. PICK k \in 1 .. c, l \in 1 .. c : k < l /\ del[k].id = out[i] /\ del[l].id = out[j]
      BY <1>14, <3>1 DEF BatchedAt, a
    <3>3. QED  BY <2>0, <3>1, <3>2
  <2>2. CASE i <= a /\ j > a
    <3>1. i \in 1 .. a /\ o[i] = out[i] /\ j - a \in 1 .. n /\ o[j] = sent[j - a]
      BY <1>1, <1>5, <2>2
    <3>2. out[i] \in ToSet(out)
      <4>1. ToSet(out) = {out[x] : x \in 1 .. Len(out)}  BY Members
      <4>2. i \in 1 .. Len(out)  BY <3>1 DEF a
      <4>3. QED  BY <4>1, <4>2
    <3>3. PICK k \in 1 .. c : del[k].id = out[i]  BY <1>14, <3>1, <3>2 DEF BatchedAt
    <3>4. j - a \in 1 .. Len(bat)  BY <1>1, <3>1
    <3>5. o[j] = bat[j - a]  BY <1>2, <3>1
    <3>6. c + (j - a) \in 1 .. Len(del) /\ del[c + (j - a)].id = o[j]
      BY <1>6, <3>4, <3>5
    <3>7. k < c + (j - a)  BY <1>1, <3>1
    <3>8. QED  BY <2>0, <3>1, <3>3, <3>6, <3>7
  <2>3. CASE i > a
    <3>1. i - a \in 1 .. n /\ o[i] = sent[i - a] /\ j - a \in 1 .. n /\ o[j] = sent[j - a]
      BY <1>1, <1>5, <1>14, <2>3
    <3>2. i - a \in 1 .. Len(bat) /\ j - a \in 1 .. Len(bat)  BY <1>1, <3>1
    <3>3. o[i] = bat[i - a] /\ o[j] = bat[j - a]  BY <1>2, <3>1
    <3>4. /\ c + (i - a) \in 1 .. Len(del) /\ del[c + (i - a)].id = o[i]
          /\ c + (j - a) \in 1 .. Len(del) /\ del[c + (j - a)].id = o[j]
      BY <1>6, <3>2, <3>3
    <3>5. c \in Nat /\ a \in Nat /\ i \in Nat /\ j \in Nat /\ i < j  BY <1>1, <1>14
    <3>6. c + (i - a) < c + (j - a)  BY <3>5
    <3>7. QED  BY <3>4, <3>6
  <2>4. QED  BY <1>1, <1>5, <2>1, <2>2, <2>3
<1> HIDE DEF r
<1>15. Len(del) \in Nat /\ Len(del) = Len(del) + Len(<< >>)  BY <1>1
<1>16. \A i \in 1 .. Len(<< >>) : << >>[i] = del[Len(del) + i].id  OBVIOUS
<1>17. BatchedAt(Len(del), del, << >>, o, r)
  BY <1>9, <1>10, <1>13, <1>14, <1>15, <1>16 DEF BatchedAt
<1>18. QED  BY <1>17 DEF r, o, sent

\* Events of flows are published or refused: those of packets are not touched.
LEMMA SendFlows ==
    ASSUME NEW c, NEW del, NEW bat, NEW out \in Seq(Messages), NEW ref,
           BatchedAt(c, del, bat, out, ref), NEW fs \in Seq(Messages),
           \A i \in 1 .. Len(fs) : IsFlow(fs[i]), NEW more, \A m \in more : IsFlow(m)
    PROVE  BatchedAt(c, del, bat, out \o fs, ref \cup more)
<1> DEFINE o == out \o fs
           r == ref \cup more
           a == Len(out)
<1>1. /\ ToSet(o) = ToSet(out) \cup ToSet(fs) /\ ToSet(fs) = {fs[i] : i \in 1 .. Len(fs)}
      /\ Len(o) = a + Len(fs) /\ a \in Nat /\ Len(fs) \in Nat
      /\ \A i \in 1 .. a + Len(fs) : o[i] = IF i <= a THEN out[i] ELSE fs[i - a]
  BY ConcatMembers, ConcatProperties
<1> HIDE DEF o
<1>2. \A m \in ToSet(fs) \cup more : IsFlow(m)  BY <1>1
<1>3. ASSUME NEW i \in 1 .. Len(o), ~IsFlow(o[i]) PROVE i \in 1 .. a /\ o[i] = out[i]
  <2>1. CASE i <= a  BY <1>1, <2>1
  <2>2. CASE ~(i <= a)
    <3>1. o[i] = fs[i - a] /\ i - a \in 1 .. Len(fs)  BY <1>1, <2>2
    <3>2. QED  BY <1>3, <3>1
  <2>3. QED  BY <2>1, <2>2
<1>4. \A i, j \in 1 .. Len(o) :
         i < j /\ ~IsFlow(o[i]) /\ ~IsFlow(o[j]) =>
            \E k, l \in 1 .. c : k < l /\ del[k].id = o[i] /\ del[l].id = o[j]
  BY <1>3 DEF BatchedAt
<1>5. \A k \in 1 .. c : del[k].id \in ToSet(o) \cup r  BY <1>1 DEF BatchedAt
<1>6. \A m \in ToSet(o) \cup r : ~IsFlow(m) => \E k \in 1 .. c : del[k].id = m
  BY <1>1, <1>2 DEF BatchedAt
<1>7. \A m \in ToSet(o) : ~IsFlow(m) => m \notin r
  BY <1>1, <1>2 DEF BatchedAt
<1>8. BatchedAt(c, del, bat, o, r)
  <2> HIDE DEF r
  <2>1. QED  BY <1>4, <1>5, <1>6, <1>7 DEF BatchedAt
<1>9. QED  BY <1>8 DEF o

\* What a batch adds to what is published, and to what is refused.
LEMMA PublishEffect ==
    ASSUME Typed, NEW msgs \in Seq(Messages), ProduceBatch(msgs)
    PROVE  \E n \in 0 .. Len(msgs) :
             /\ Published' = Published \o SubSeq(msgs, 1, n)
             /\ refused' = refused \cup {msgs[i] : i \in n + 1 .. Len(msgs)}
<1>1. outq \in Seq(Messages) /\ settled \in Seq(Messages) /\ queue_size <= QueueMax
  BY DEF Typed, TypeOK
<1>2. PICK n \in 0 .. Len(msgs) :
        /\ outq' = outq \o SubSeq(msgs, 1, n)
        /\ refused' = refused \cup {msgs[i] : i \in n + 1 .. Len(msgs)}
        /\ settled' = settled
  BY <1>1, ProduceEffect
<1> DEFINE s == SubSeq(msgs, 1, n)
<1>3. s \in Seq(Messages)  OBVIOUS
<1> HIDE DEF s
<1>4. (settled \o outq) \o s = settled \o (outq \o s)
  <2>1. settled \in Seq(Messages) /\ outq \in Seq(Messages)  BY <1>1
  <2>2. Associates(settled, outq, s)  BY <1>3, <2>1, Association
  <2>3. QED  BY <2>2 DEF Associates
<1>5. outq' = outq \o s  BY <1>2 DEF s
<1>6. Published' = Published \o s  BY <1>2, <1>4, <1>5 DEF Published
<1>7. QED  BY <1>2, <1>6 DEF s

LEMMA PublishedTyped == Typed => Published \in Seq(Messages)
BY ConcatProperties DEF Typed, Published

\* The packets that came through the ring: those popped, then those in it.
Arrived == delivered \o queue

LEMMA ArrivedTyped ==
    ASSUME Typed
    PROVE  /\ Arrived \in Seq(Packets) /\ Len(Arrived) = Len(delivered) + Len(queue)
           /\ Len(delivered) \in Nat /\ Len(queue) \in Nat
           /\ \A i \in 1 .. Len(delivered) : Arrived[i] = delivered[i]
<1>1. delivered \in Seq(Packets) /\ queue \in Seq(Packets)  BY DEF Typed
<1>2. /\ Arrived \in Seq(Packets) /\ Len(Arrived) = Len(delivered) + Len(queue)
      /\ \A i \in 1 .. Len(delivered) + Len(queue) :
           Arrived[i] = IF i <= Len(delivered) THEN delivered[i] ELSE queue[i - Len(delivered)]
  BY <1>1, ConcatProperties DEF Arrived
<1>3. Len(delivered) \in Nat /\ Len(queue) \in Nat  BY <1>1
<1>4. QED  BY <1>2, <1>3

\* Popping moves a packet, pushing adds one.
LEMMA ArrivedSteps ==
    ASSUME Typed
    PROVE  /\ ProcessOne => Arrived' = Arrived
           /\ \A t \in Captors : Push(t) => Arrived' = Append(Arrived, hand[t])
<1>1. delivered \in Seq(Packets) /\ queue \in Seq(Packets)  BY DEF Typed
<1>2. ASSUME ProcessOne PROVE Arrived' = Arrived
  <2> DEFINE h == Head(queue)
             r == Tail(queue)
  <2>1. queue # << >> /\ delivered' = Append(delivered, h) /\ queue' = r
    BY <1>2, PopEffect
  <2>2. h \in Packets /\ r \in Seq(Packets) /\ queue = <<h>> \o r
    BY <1>1, <2>1
  <2> HIDE DEF h, r
  <2>3. Append(delivered, h) = delivered \o <<h>>  BY <1>1, <2>2, AppendIsConcat
  <2>4. <<h>> \in Seq(Packets)  BY <2>2
  <2>5. (delivered \o <<h>>) \o r = delivered \o (<<h>> \o r)
    <3>1. delivered \in Seq(Packets) /\ r \in Seq(Packets)  BY <1>1, <2>2
    <3>2. Associates(delivered, <<h>>, r)  BY <2>4, <3>1, Association
    <3>3. QED  BY <3>2 DEF Associates
  <2>6. QED  BY <2>1, <2>2, <2>3, <2>5 DEF Arrived
<1>3. ASSUME NEW t \in Captors, Push(t) PROVE Arrived' = Append(Arrived, hand[t])
  <2> DEFINE h == hand[t]
  <2>1. queue' = Append(queue, h) /\ delivered' = delivered /\ tpc[t] = "push"
    BY <1>3 DEF Push, Ring!Put
  <2>2. h \in Packets  BY <2>1 DEF Typed, TypeOK
  <2> HIDE DEF h
  <2>3. Append(queue, h) = queue \o <<h>> /\ <<h>> \in Seq(Packets)
    BY <1>1, <2>2, AppendIsConcat
  <2>4. delivered \o queue \in Seq(Packets)  BY <1>1, ConcatProperties
  <2>5. Append(delivered \o queue, h) = (delivered \o queue) \o <<h>>
    BY <2>2, <2>4, AppendIsConcat
  <2>6. (delivered \o queue) \o <<h>> = delivered \o (queue \o <<h>>)
    <3>1. delivered \in Seq(Packets) /\ queue \in Seq(Packets) /\ <<h>> \in Seq(Packets)
      BY <1>1, <2>3
    <3>2. Associates(delivered, queue, <<h>>)  BY <3>1, Association
    <3>3. QED  BY <3>2 DEF Associates
  <2>7. QED  BY <2>1, <2>3, <2>5, <2>6 DEF Arrived, h
<1>4. QED  BY <1>2, <1>3

\* A packet's number is at most what its thread has seen; no two packets have
\* one id, and one that was dropped, or is in a thread's hand, is nowhere else.
Numbered(last, id) == id[2] <= last[id[1]]

Apart ==
    /\ \A t \in Captors : hand[t] # None =>
         /\ hand[t].id = <<t, seen[t]>> /\ hand[t].id \notin dropped
         /\ \A i \in 1 .. Len(Arrived) : Arrived[i].id # hand[t].id
    /\ \A i \in 1 .. Len(Arrived) : Arrived[i].id \notin dropped /\ Numbered(seen, Arrived[i].id)
    /\ \A m \in dropped : Numbered(seen, m)
    /\ Distinct(Arrived)

\* Threads see more frames, so numbers stay low.
LEMMA StillNumbered ==
    ASSUME Typed, seen' \in [Captors -> Nat], \A t \in Captors : seen[t] <= seen'[t],
           NEW id \in PacketIds, Numbered(seen, id)
    PROVE  Numbered(seen', id)
<1>1. id[1] \in Captors /\ id[2] \in Nat  BY DEF PacketIds
<1>2. seen[id[1]] \in Nat /\ seen'[id[1]] \in Nat  BY <1>1 DEF Typed
<1>3. QED  BY <1>1, <1>2 DEF Numbered

LEMMA NextApart == Typed /\ Typed' /\ Apart /\ [Next]_vars => Apart'
<1> SUFFICES ASSUME Typed, Typed', Apart, [Next]_vars PROVE Apart'
  OBVIOUS
<1> USE DEF threadVars, flowVars, producerVars
<1>0. \A i \in 1 .. Len(Arrived) : Arrived[i] \in Packets /\ Arrived[i].id \in PacketIds
  <2>1. \A i \in 1 .. Len(Arrived) : Arrived[i] \in Packets  BY ArrivedTyped, ElementOfSeq
  <2>2. QED  BY <2>1 DEF Packets
<1>1. CASE UNCHANGED <<hand, seen, dropped, Arrived>>
  BY <1>1 DEF Apart, Numbered
<1>2. CASE Start
  <2>1. /\ seen' = [t \in Captors |-> Len(wire)] /\ UNCHANGED <<hand, queue, delivered, dropped>>
        /\ phase = "idle"
    BY <1>2 DEF Start
  <2>2. \A t \in Captors : hand[t] = None
    BY <2>1 DEF Typed, TypeOK, AllExited
  <2>3. seen' \in [Captors -> Nat] /\ \A t \in Captors : seen[t] <= seen'[t]
    BY <2>1 DEF Typed
  <2>4. Arrived' = Arrived  BY <2>1 DEF Arrived
  <2>5. \A i \in 1 .. Len(Arrived) : Numbered(seen', Arrived[i].id)
    <3>1. \A i \in 1 .. Len(Arrived) : Arrived[i].id \in PacketIds /\ Numbered(seen, Arrived[i].id)
      BY <1>0 DEF Apart
    <3>2. QED  BY <2>3, <3>1, StillNumbered
  <2>6. \A m \in dropped : Numbered(seen', m)
    BY <2>3, StillNumbered DEF Apart, Typed
  <2>7. QED  BY <2>1, <2>2, <2>4, <2>5, <2>6 DEF Apart, Numbered
<1>3. ASSUME NEW t \in Captors, NEW ts, Receive(t, ts) PROVE Apart'
  <2> DEFINE p == [id |-> <<t, seen[t] + 1>>, frame |-> wire[seen[t] + 1].frame, ts |-> ts]
  <2>1. /\ tpc[t] = "armed"
        /\ seen' = [seen EXCEPT ![t] = @ + 1] /\ hand' = [hand EXCEPT ![t] = p]
        /\ UNCHANGED <<queue, delivered, dropped>>
    BY <1>3 DEF Receive
  <2>2. p.id = <<t, seen[t] + 1>>  OBVIOUS
  <2> HIDE DEF p
  <2>3. /\ seen[t] \in Nat /\ seen'[t] = seen[t] + 1 /\ hand'[t] = p /\ hand'[t].id = <<t, seen'[t]>>
        /\ \A u \in Captors : u # t => seen'[u] = seen[u] /\ hand'[u] = hand[u]
    BY <2>1, <2>2 DEF Typed
  <2>4. seen' \in [Captors -> Nat] /\ \A u \in Captors : seen[u] <= seen'[u]
    <3>1. seen \in [Captors -> Nat]  BY DEF Typed
    <3>2. seen' \in [Captors -> Nat]  BY <2>1, <2>3, <3>1
    <3>3. ASSUME NEW u \in Captors PROVE seen[u] <= seen'[u]
      <4>1. seen[u] \in Nat  BY <3>1
      <4>2. CASE u = t  BY <2>3, <4>1, <4>2
      <4>3. CASE u # t  BY <2>3, <4>1, <4>3
      <4>4. QED  BY <4>2, <4>3
    <3>4. QED  BY <3>2, <3>3
  <2>5. Arrived' = Arrived  BY <2>1 DEF Arrived
  <2>6. ASSUME NEW id \in PacketIds, Numbered(seen, id) PROVE Numbered(seen', id) /\ id # p.id
    <3>1. Numbered(seen', id)  BY <2>4, <2>6, StillNumbered
    <3>2. id # p.id  BY <2>2, <2>3, <2>6 DEF Numbered
    <3>3. QED  BY <3>1, <3>2
  <2>7. \A i \in 1 .. Len(Arrived) : Numbered(seen', Arrived[i].id) /\ Arrived[i].id # p.id
    <3>1. \A i \in 1 .. Len(Arrived) : Arrived[i].id \in PacketIds /\ Numbered(seen, Arrived[i].id)
      BY <1>0 DEF Apart
    <3>2. QED  BY <2>6, <3>1
  <2>8. \A m \in dropped : Numbered(seen', m) /\ m # p.id
    BY <2>6 DEF Apart, Typed
  <2>9. \A u \in Captors : hand'[u] # None =>
         /\ hand'[u].id = <<u, seen'[u]>> /\ hand'[u].id \notin dropped
         /\ \A i \in 1 .. Len(Arrived) : Arrived[i].id # hand'[u].id
    BY <2>3, <2>7, <2>8 DEF Apart
  <2>10. QED  BY <2>1, <2>5, <2>7, <2>8, <2>9 DEF Apart, Numbered
<1>4. ASSUME NEW t \in Captors, Push(t) PROVE Apart'
  <2>1. /\ hand' = [hand EXCEPT ![t] = None] /\ tpc[t] = "push"
        /\ UNCHANGED <<seen, dropped>>
    BY <1>4 DEF Push
  <2>2. hand[t] \in Packets /\ hand[t] # None  BY <2>1 DEF Typed, TypeOK
  <2> DEFINE h == hand[t]
             a == Arrived
             n == Len(Arrived)
  <2>3. Arrived' = Append(a, h)  BY <1>4, ArrivedSteps
  <2>4. /\ a \in Seq(Packets) /\ Len(Append(a, h)) = n + 1 /\ n \in Nat
        /\ \A i \in 1 .. n : Append(a, h)[i] = a[i]
        /\ Append(a, h)[n + 1] = h
    BY <2>2, ArrivedTyped, AppendProperties
  <2>5. /\ h.id = <<t, seen[t]>> /\ h.id \notin dropped
        /\ \A i \in 1 .. n : a[i].id # h.id
    BY <2>2 DEF Apart
  <2>6. \A u \in Captors : hand'[u] # None => u # t /\ hand'[u] = hand[u]
    BY <2>1 DEF Typed
  <2>7. Numbered(seen, h.id)  BY <2>5 DEF Numbered, Typed
  <2> HIDE DEF h, a, n
  <2>8. /\ Len(Arrived') = n + 1 /\ Arrived'[n + 1] = h
        /\ \A i \in 1 .. n : Arrived'[i] = a[i]
    BY <2>3, <2>4
  <2>9. \A i \in 1 .. n + 1 : i \in 1 .. n \/ i = n + 1  BY <2>4
  <2>10. ASSUME NEW u \in Captors, hand'[u] # None
         PROVE  /\ hand'[u].id = <<u, seen[u]>> /\ hand'[u].id \notin dropped
                /\ \A i \in 1 .. n + 1 : Arrived'[i].id # hand'[u].id
    <3>1. /\ u # t /\ hand'[u] = hand[u] /\ hand[u].id = <<u, seen[u]>>
          /\ hand[u].id \notin dropped /\ \A i \in 1 .. n : a[i].id # hand[u].id
      BY <2>6, <2>10 DEF Apart, a, n
    <3>2. h.id # hand[u].id  BY <2>5, <3>1
    <3>3. QED  BY <2>8, <2>9, <3>1, <3>2
  <2>11. \A i \in 1 .. n + 1 : Arrived'[i].id \notin dropped /\ Numbered(seen, Arrived'[i].id)
    BY <2>5, <2>7, <2>8, <2>9 DEF Apart, a, n
  <2>12. \A i, j \in 1 .. n + 1 : Arrived'[i].id = Arrived'[j].id => i = j
    <3>1. \A i, j \in 1 .. n : a[i].id = a[j].id => i = j  BY DEF Apart, Distinct, a, n
    <3>2. QED  BY <2>5, <2>8, <2>9, <3>1
  <2>13. QED  BY <2>1, <2>8, <2>10, <2>11, <2>12 DEF Apart, Distinct, Numbered
<1>5. ASSUME NEW t \in Captors, Drop(t) PROVE Apart'
  <2>1. /\ hand' = [hand EXCEPT ![t] = None] /\ tpc[t] = "push"
        /\ dropped' = dropped \cup {hand[t].id} /\ UNCHANGED <<seen, queue, delivered>>
    BY <1>5 DEF Drop
  <2>2. hand[t] # None  BY <2>1 DEF Typed, TypeOK
  <2>3. /\ hand[t].id = <<t, seen[t]>> /\ \A i \in 1 .. Len(Arrived) : Arrived[i].id # hand[t].id
    BY <2>2 DEF Apart
  <2>4. Numbered(seen, hand[t].id)  BY <2>3 DEF Numbered, Typed
  <2>5. Arrived' = Arrived  BY <2>1 DEF Arrived
  <2>6. \A u \in Captors : hand'[u] # None => u # t /\ hand'[u] = hand[u]
    BY <2>1 DEF Typed
  <2>7. ASSUME NEW u \in Captors, hand'[u] # None
        PROVE  hand'[u].id = <<u, seen[u]>> /\ hand'[u].id \notin dropped'
    BY <2>1, <2>3, <2>6, <2>7 DEF Apart
  <2>8. \A u \in Captors : hand'[u] # None =>
          \A i \in 1 .. Len(Arrived) : Arrived[i].id # hand'[u].id
    BY <2>6 DEF Apart
  <2>9. \A i \in 1 .. Len(Arrived) : Arrived[i].id \notin dropped'  BY <2>1, <2>3 DEF Apart
  <2>10. QED  BY <2>1, <2>4, <2>5, <2>7, <2>8, <2>9 DEF Apart, Numbered
<1>6. CASE ProcessOne
  BY <1>1, <1>6, ArrivedSteps DEF ProcessOne
<1>7. ASSUME UNCHANGED <<hand, seen, dropped, queue, delivered>> PROVE Apart'
  BY <1>1, <1>7 DEF Arrived
<1>8. QED
  BY <1>2, <1>3, <1>4, <1>5, <1>6, <1>7
  DEF Next, Captor, vars, StartRefused, Stop, Stopped, NoFrame, PcapReceive,
      PcapBreaks, AfPacketReceive, DpdkReceive, FlushBatch, ProcessingExits, Expire, PublishFlows,
      FrameArrives, Tick

\* The threads with a packet in hand.
Holding == {t \in Captors : hand[t] # None}

\* The counters of what was captured and what was dropped.
Counted ==
    /\ IsFiniteSet(dropped) /\ stats.dropped = Cardinality(dropped)
    /\ stats.captured = Cardinality(Holding) + Len(queue) + Len(delivered) + stats.dropped

LEMMA HoldingFinite == IsFiniteSet(Holding) /\ Cardinality(Holding) \in Nat
<1>1. IsFiniteSet(Captors) /\ Holding \subseteq Captors  BY CaptureAssumption DEF Holding
<1>2. QED  BY <1>1, FS_Subset, FS_CardinalityType

LEMMA NextCounted == Typed /\ Typed' /\ Apart /\ Counted /\ [Next]_vars => Counted'
<1> SUFFICES ASSUME Typed, Typed', Apart, Counted, [Next]_vars PROVE Counted'
  OBVIOUS
<1> USE DEF threadVars, flowVars, producerVars
<1>0. /\ stats \in Counters /\ Len(queue) \in Nat /\ Len(delivered) \in Nat
      /\ Cardinality(Holding) \in Nat /\ IsFiniteSet(Holding) /\ IsFiniteSet(dropped)
  BY ArrivedTyped, HoldingFinite DEF Typed, Counted
<1>1. ASSUME UNCHANGED <<hand, dropped, queue, delivered>>,
             stats'.captured = stats.captured, stats'.dropped = stats.dropped
      PROVE  Counted'
  BY <1>1 DEF Counted, Holding
<1>2. ASSUME NEW t \in Captors, NEW ts, Receive(t, ts) PROVE Counted'
  <2> DEFINE p == [id |-> <<t, seen[t] + 1>>, frame |-> wire[seen[t] + 1].frame, ts |-> ts]
  <2>1. /\ tpc[t] = "armed" /\ tpc' = [tpc EXCEPT ![t] = "push"]
        /\ hand' = [hand EXCEPT ![t] = p] /\ stats' = [stats EXCEPT !.captured = @ + 1]
        /\ UNCHANGED <<queue, delivered, dropped>>
    BY <1>2 DEF Receive
  <2> HIDE DEF p
  <2>2. hand[t] = None /\ hand'[t] # None
    BY <2>1 DEF Typed, TypeOK
  <2>3. Holding' = Holding \cup {t} /\ t \notin Holding
    BY <2>1, <2>2 DEF Holding, Typed
  <2>4. Cardinality(Holding') = Cardinality(Holding) + 1  BY <1>0, <2>3, FS_AddElement
  <2>5. stats'.captured = stats.captured + 1 /\ stats'.dropped = stats.dropped
    BY <1>0, <2>1 DEF Counters
  <2>6. QED  BY <1>0, <2>1, <2>4, <2>5 DEF Counted, Counters
<1>3. ASSUME NEW t \in Captors, tpc[t] = "push", hand' = [hand EXCEPT ![t] = None]
      PROVE  Cardinality(Holding') = Cardinality(Holding) - 1
  <2>1. Holding' = Holding \ {t} /\ t \in Holding  BY <1>3 DEF Typed, TypeOK, Holding
  <2>2. QED  BY <1>0, <2>1, FS_RemoveElement
<1>4. ASSUME NEW t \in Captors, Push(t) PROVE Counted'
  <2>1. /\ hand' = [hand EXCEPT ![t] = None] /\ tpc[t] = "push"
        /\ queue' = Append(queue, hand[t]) /\ UNCHANGED <<stats, delivered, dropped>>
    BY <1>4 DEF Push, Ring!Put
  <2>2. hand[t] \in Packets  BY <2>1 DEF Typed, TypeOK
  <2>3. Len(queue') = Len(queue) + 1  BY <2>1, <2>2, AppendProperties DEF Typed
  <2>4. Cardinality(Holding') = Cardinality(Holding) - 1  BY <1>3, <2>1
  <2>5. Counted' <=> /\ IsFiniteSet(dropped) /\ stats.dropped = Cardinality(dropped)
                     /\ stats.captured = Cardinality(Holding') + Len(queue') + Len(delivered)
                                         + stats.dropped
    BY <2>1 DEF Counted
  <2>6. QED  BY <1>0, <2>3, <2>4, <2>5 DEF Counted, Counters
<1>5. ASSUME NEW t \in Captors, Drop(t) PROVE Counted'
  <2>1. /\ hand' = [hand EXCEPT ![t] = None] /\ tpc[t] = "push"
        /\ dropped' = dropped \cup {hand[t].id} /\ stats' = [stats EXCEPT !.dropped = @ + 1]
        /\ UNCHANGED <<queue, delivered>>
    BY <1>5 DEF Drop
  <2>2. hand[t] # None  BY <2>1 DEF Typed, TypeOK
  <2>3. hand[t].id \notin dropped  BY <2>2 DEF Apart
  <2>4. IsFiniteSet(dropped') /\ Cardinality(dropped') = Cardinality(dropped) + 1
    BY <1>0, <2>1, <2>3, FS_AddElement
  <2>5. stats'.captured = stats.captured /\ stats'.dropped = stats.dropped + 1
    BY <1>0, <2>1 DEF Counters
  <2>6. Cardinality(Holding') = Cardinality(Holding) - 1  BY <1>3, <2>1
  <2>7. QED  BY <1>0, <2>1, <2>4, <2>5, <2>6 DEF Counted, Counters
<1>6. CASE ProcessOne
  <2>1. /\ queue # << >> /\ queue' = Tail(queue) /\ delivered' = Append(delivered, Head(queue))
        /\ Head(queue) \in Packets /\ UNCHANGED <<hand, stats, dropped>>
    BY <1>6, PopEffect DEF ProcessOne
  <2>2. Len(queue') = Len(queue) - 1 /\ Len(delivered') = Len(delivered) + 1
    BY <2>1, HeadTail, AppendProperties DEF Typed
  <2>3. QED  BY <1>0, <2>1, <2>2 DEF Counted, Counters, Holding
<1>7. CASE Expire
  <2>1. stats' = [stats EXCEPT !.expired = @ + Cardinality(Overdue(clock))]
    BY <1>7 DEF Expire
  <2>2. stats'.captured = stats.captured /\ stats'.dropped = stats.dropped
    BY <1>0, <2>1 DEF Counters
  <2>3. QED  BY <1>1, <1>7, <2>2 DEF Expire
<1>8. ASSUME UNCHANGED <<hand, dropped, queue, delivered, stats>> PROVE Counted'
  BY <1>1, <1>8
<1>9. QED
  BY <1>2, <1>4, <1>5, <1>6, <1>7, <1>8
  DEF Next, Captor, vars, StartRefused, Start, Stop, Stopped, NoFrame, PcapReceive,
      PcapBreaks, AfPacketReceive, DpdkReceive, FlushBatch, ProcessingExits, PublishFlows,
      FrameArrives, Tick

\* What is batched, published and refused of the packets that were popped.
Batched == BatchedAt(Len(delivered) - Len(batch), delivered, batch, Published, refused)

\* The popped packets have ids of their own.
LEMMA DistinctPrefix ==
    ASSUME NEW del \in Seq(Packets), NEW q \in Seq(Packets), Distinct(del \o q)
    PROVE  Distinct(del)
<1>1. /\ Len(del) \in Nat /\ Len(q) \in Nat /\ Len(del \o q) = Len(del) + Len(q)
      /\ \A i \in 1 .. Len(del) : (del \o q)[i] = del[i]
  BY ConcatProperties
<1>2. \A i \in 1 .. Len(del) : i \in 1 .. Len(del \o q)  BY <1>1
<1>3. QED  BY <1>1, <1>2 DEF Distinct

LEMMA NextBatched ==
    Typed /\ Typed' /\ FlowsTyped /\ Apart /\ Apart' /\ Batched /\ [Next]_vars => Batched'
<1> SUFFICES ASSUME Typed, Typed', FlowsTyped, Apart, Apart', Batched, [Next]_vars
             PROVE  Batched'
  OBVIOUS
<1> USE DEF threadVars, flowVars, producerVars
<1> DEFINE c == Len(delivered) - Len(batch)
<1>0. /\ delivered \in Seq(Packets) /\ batch \in Seq(PacketIds) /\ Published \in Seq(Messages)
      /\ BatchedAt(c, delivered, batch, Published, refused) /\ Distinct(delivered)
      /\ delivered' \in Seq(Packets) /\ Distinct(delivered')
      /\ Len(delivered) \in Nat /\ Len(delivered') \in Nat /\ Len(batch) \in Nat
      /\ batch \in Seq(Messages)
  <2>1. delivered \in Seq(Packets) /\ batch \in Seq(PacketIds) /\ delivered' \in Seq(Packets)
    BY DEF Typed
  <2>2. Published \in Seq(Messages) /\ batch \in Seq(Messages)
    BY <2>1, PublishedTyped, BatchIsMessages
  <2>3. Distinct(delivered)
    <3>1. Distinct(delivered \o queue)  BY DEF Apart, Arrived
    <3>2. QED  BY <3>1, DistinctPrefix DEF Typed
  <2>4. Distinct(delivered')
    <3>1. Distinct(delivered' \o queue')  BY DEF Apart, Arrived, Distinct
    <3>2. delivered' \in Seq(Packets) /\ queue' \in Seq(Packets)  BY DEF Typed
    <3>3. QED  BY <3>1, <3>2, DistinctPrefix
  <2>5. QED  BY <2>1, <2>2, <2>3, <2>4 DEF Batched
<1>1. ASSUME UNCHANGED <<delivered, batch, Published, refused>> PROVE Batched'
  BY <1>1 DEF Batched
\* Sending the batch b after the packets d were popped.
<1>2. ASSUME NEW b \in Seq(PacketIds), BatchedAt(c, delivered', b, Published, refused),
             ProduceBatch(b), batch' = << >>
      PROVE  Batched'
  <2>1. PICK n \in 0 .. Len(b) :
             /\ Published' = Published \o SubSeq(b, 1, n)
             /\ refused' = refused \cup {b[i] : i \in n + 1 .. Len(b)}
    BY <1>2, BatchIsMessages, PublishEffect
  <2>2. Distinct(delivered')  BY <1>0
  <2>3. BatchedAt(Len(delivered'), delivered', << >>, Published', refused')
    BY <1>0, <1>2, <2>1, <2>2, Send
  <2>4. Len(delivered') - Len(batch') = Len(delivered') /\ batch' = << >>
    BY <1>0, <1>2
  <2>5. QED  BY <2>3, <2>4 DEF Batched
<1>3. CASE ProcessOne
  <2> DEFINE p == Head(queue)
             ids == Append(batch, p.id)
  <2>1. p \in Packets /\ delivered' = Append(delivered, p)  BY <1>3, PopEffect
  <2>2. /\ batch' = BatchAfter(ids)
        /\ IF Len(ids) >= BatchSize THEN ProduceBatch(ids) ELSE UNCHANGED producerVars
    BY <1>3 DEF ProcessOne
  <2> HIDE DEF p
  <2>3. BatchedAt(c, delivered', ids, Published, refused)
    BY <1>0, <2>1, Join
  <2>4. ids \in Seq(PacketIds) /\ Len(ids) = Len(batch) + 1 /\ Len(delivered') = Len(delivered) + 1
    BY <1>0, <2>1, AppendProperties DEF Packets
  <2> HIDE DEF ids
  <2>5. CASE Len(ids) >= BatchSize
    BY <1>2, <2>2, <2>3, <2>4, <2>5 DEF BatchAfter
  <2>6. CASE ~(Len(ids) >= BatchSize)
    <3>1. batch' = ids /\ Published' = Published /\ refused' = refused
      BY <2>2, <2>6 DEF BatchAfter, Published
    <3>2. Len(delivered') - Len(batch') = c
      <4>1. Len(batch') = Len(batch) + 1  BY <2>4, <3>1
      <4>2. QED  BY <1>0, <2>4, <4>1
    <3>3. QED  BY <2>3, <3>1, <3>2 DEF Batched
  <2>7. QED  BY <2>5, <2>6
<1>4. CASE FlushBatch \/ ProcessingExits
  <2>1. ProduceBatch(batch) /\ batch' = << >> /\ delivered' = delivered
    BY <1>4 DEF FlushBatch, ProcessingExits, FinalBatch
  <2>2. QED  BY <1>0, <1>2, <2>1
<1>5. CASE PublishFlows
  <2>1. ProduceBatch(FlowEvents) /\ UNCHANGED <<delivered, batch>>
    BY <1>5 DEF PublishFlows
  <2>2. /\ FlowEvents \in Seq(Messages)
        /\ \A i \in 1 .. Len(FlowEvents) : IsFlow(FlowEvents[i])
    BY FlowEventsTyped DEF IsFlow
  <2> DEFINE fe == FlowEvents
  <2> HIDE DEF fe
  <2>3. fe \in Seq(Messages) /\ ProduceBatch(fe) /\ \A i \in 1 .. Len(fe) : IsFlow(fe[i])
    BY <2>1, <2>2 DEF fe
  <2>4. PICK n \in 0 .. Len(fe) :
             /\ Published' = Published \o SubSeq(fe, 1, n)
             /\ refused' = refused \cup {fe[i] : i \in n + 1 .. Len(fe)}
    BY <2>3, PublishEffect
  <2> DEFINE s == SubSeq(fe, 1, n)
             more == {fe[i] : i \in n + 1 .. Len(fe)}
  <2>5. s \in Seq(Messages) /\ \A i \in 1 .. Len(s) : IsFlow(s[i])
    <3>1. s \in Seq(Messages) /\ Len(s) = n /\ \A i \in 1 .. n : s[i] = fe[i]
      BY <2>3
    <3>2. \A i \in 1 .. n : i \in 1 .. Len(fe)  BY <2>3
    <3> HIDE DEF s
    <3>3. QED  BY <2>3, <3>1, <3>2
  <2>6. \A m \in more : IsFlow(m)
    <3>1. \A i \in n + 1 .. Len(fe) : i \in 1 .. Len(fe)  BY <2>3
    <3>2. QED  BY <2>3, <3>1
  <2>7. Published' = Published \o s /\ refused' = refused \cup more  BY <2>4
  <2> HIDE DEF s, more
  <2>8. BatchedAt(c, delivered, batch, Published \o s, refused \cup more)
    BY <1>0, <2>5, <2>6, SendFlows
  <2>9. QED  BY <2>1, <2>7, <2>8 DEF Batched
<1>6. CASE Stopped
  <2>1. Published' = Published /\ refused' = refused  BY <1>6, FlushEffect DEF Stopped
  <2>2. QED  BY <1>1, <1>6, <2>1 DEF Stopped
<1>7. ASSUME UNCHANGED <<delivered, batch, outq, settled, refused>> PROVE Batched'
  BY <1>1, <1>7 DEF Published
<1>8. QED
  BY <1>3, <1>4, <1>5, <1>6, <1>7
  DEF Next, Captor, vars, StartRefused, Start, Stop, NoFrame, PcapReceive, Receive, Push, Drop,
      Ring!Put, PcapBreaks, AfPacketReceive, DpdkReceive, Expire, FrameArrives, Tick

\* At first there is no packet.
LEMMA InitPackets == Init => Apart /\ Counted /\ Batched
<1> SUFFICES ASSUME Init PROVE Apart /\ Counted /\ Batched
  OBVIOUS
<1>1. /\ hand = [t \in Captors |-> None] /\ batch = << >>
      /\ stats = [captured |-> 0, dropped |-> 0, expired |-> 0]
      /\ queue = << >> /\ delivered = << >> /\ dropped = {}
      /\ outq = << >> /\ settled = << >> /\ refused = {}
  BY DEF Init, Ring!Init, ProducerInit
<1>2. Len(<< >>) = 0 /\ << >> \o << >> = << >>  OBVIOUS
<1>3. Arrived = << >> /\ Published = << >>  BY <1>1, <1>2 DEF Arrived, Published
<1>4. Apart  BY <1>1, <1>2, <1>3 DEF Apart, Distinct
<1>5. Holding = {}  BY <1>1 DEF Holding
<1>6. Counted  BY <1>1, <1>2, <1>5, FS_EmptySet DEF Counted
<1>7. ToSet(<< >>) = {}  BY DEF ToSet
<1>8. Batched
  <2>1. Len(delivered) - Len(batch) = 0  BY <1>1, <1>2
  <2>2. 1 .. 0 = {}  OBVIOUS
  <2>3. BatchedAt(0, << >>, << >>, << >>, {})  BY <1>2, <1>7, <2>2 DEF BatchedAt
  <2>4. QED  BY <1>1, <1>3, <2>1, <2>3 DEF Batched
<1>9. QED  BY <1>4, <1>6, <1>8

\* The ids of a sequence of packets.
LEMMA IdsOf ==
    ASSUME NEW del \in Seq(Packets)
    PROVE  /\ DOMAIN Ids(del) = 1 .. Len(del) /\ \A i \in 1 .. Len(del) : Ids(del)[i] = del[i].id
           /\ ToSet(Ids(del)) = {del[i].id : i \in 1 .. Len(del)}
           /\ Distinct(del) => IsInjective(Ids(del))
<1>1. DOMAIN Ids(del) = 1 .. Len(del) /\ \A i \in 1 .. Len(del) : Ids(del)[i] = del[i].id
  BY DEF Ids
<1>2. ToSet(Ids(del)) = {del[i].id : i \in 1 .. Len(del)}
  BY <1>1 DEF ToSet
<1>3. Distinct(del) => IsInjective(Ids(del))
  BY <1>1 DEF Distinct, IsInjective
<1>4. QED  BY <1>1, <1>2, <1>3

\* What the invariants say of events: those of popped packets are batched,
\* published or refused, once, and published in order.
EventsOf(del, bat, out, ref) ==
    /\ ToSet(Ids(del)) = ToSet(bat) \cup PacketsOf(ToSet(out) \cup ref)
    /\ IsInjective(bat) /\ ToSet(bat) \cap (ToSet(out) \cup ref) = {}
    /\ PacketsOf(ToSet(out)) \cap ref = {}
    /\ \A i, j \in DOMAIN out : i < j /\ ~IsFlow(out[i]) /\ ~IsFlow(out[j]) =>
         \E k, l \in DOMAIN Ids(del) : k < l /\ Ids(del)[k] = out[i] /\ Ids(del)[l] = out[j]

LEMMA EventsOnce ==
    ASSUME NEW c, NEW del \in Seq(Packets), NEW bat \in Seq(PacketIds),
           NEW out \in Seq(Messages), NEW ref, BatchedAt(c, del, bat, out, ref), Distinct(del)
    PROVE  EventsOf(del, bat, out, ref)
<1>1. /\ c \in Nat /\ Len(del) = c + Len(bat) /\ Len(bat) \in Nat
      /\ DOMAIN bat = 1 .. Len(bat) /\ DOMAIN out = 1 .. Len(out)
  BY DEF BatchedAt
<1>2. /\ DOMAIN Ids(del) = 1 .. Len(del) /\ \A i \in 1 .. Len(del) : Ids(del)[i] = del[i].id
      /\ ToSet(Ids(del)) = {del[i].id : i \in 1 .. Len(del)}
  BY IdsOf
<1>3. ToSet(bat) = {bat[i] : i \in 1 .. Len(bat)}  BY <1>1 DEF ToSet
<1>4. ASSUME NEW i \in 1 .. Len(bat)
      PROVE  c + i \in 1 .. Len(del) /\ bat[i] = del[c + i].id /\ bat[i] \in PacketIds
  BY <1>1 DEF BatchedAt
<1>5. \A k \in 1 .. c : k \in 1 .. Len(del)  BY <1>1
<1>6. ASSUME NEW k \in 1 .. Len(del) PROVE del[k].id \in ToSet(bat) \cup PacketsOf(ToSet(out) \cup ref)
  <2>1. CASE k \in 1 .. c
    <3>1. del[k].id \in ToSet(out) \cup ref  BY <2>1 DEF BatchedAt
    <3>2. del[k] \in Packets  BY ElementOfSeq
    <3>3. ~IsFlow(del[k].id)  BY <3>2, PacketOrFlow DEF Packets
    <3>4. QED  BY <3>1, <3>3 DEF PacketsOf
  <2>2. CASE k > c
    <3>1. k - c \in 1 .. Len(bat) /\ c + (k - c) = k  BY <1>1, <2>2
    <3>2. QED  BY <1>3, <1>4, <3>1
  <2>3. QED  BY <1>1, <2>1, <2>2
<1>7. ASSUME NEW m \in ToSet(bat) \cup PacketsOf(ToSet(out) \cup ref)
      PROVE  \E k \in 1 .. Len(del) : del[k].id = m
  <2>1. CASE m \in ToSet(bat)  BY <1>3, <1>4, <2>1
  <2>2. CASE m \in PacketsOf(ToSet(out) \cup ref)
    <3>1. PICK k \in 1 .. c : del[k].id = m  BY <2>2 DEF PacketsOf, BatchedAt
    <3>2. QED  BY <1>5, <3>1
  <2>3. QED  BY <1>7, <2>1, <2>2
<1>8. ToSet(Ids(del)) = ToSet(bat) \cup PacketsOf(ToSet(out) \cup ref)
  BY <1>2, <1>6, <1>7
<1>9. IsInjective(bat)
  <2>1. ASSUME NEW i \in 1 .. Len(bat), NEW j \in 1 .. Len(bat), bat[i] = bat[j] PROVE i = j
    <3>1. c + i = c + j  BY <1>4, <2>1 DEF Distinct
    <3>2. QED  BY <1>1, <3>1
  <2>2. QED  BY <1>1, <2>1 DEF IsInjective
<1>10. ASSUME NEW i \in 1 .. Len(bat) PROVE bat[i] \notin ToSet(out) \cup ref
  <2>1. SUFFICES ASSUME bat[i] \in ToSet(out) \cup ref PROVE FALSE
    OBVIOUS
  <2>2. ~IsFlow(bat[i])  BY <1>4, PacketOrFlow
  <2>3. PICK k \in 1 .. c : del[k].id = bat[i]  BY <2>1, <2>2 DEF BatchedAt
  <2>4. k \in 1 .. Len(del) /\ k # c + i  BY <1>1
  <2>5. QED  BY <1>4, <2>3, <2>4 DEF Distinct
<1>11. ToSet(bat) \cap (ToSet(out) \cup ref) = {}  BY <1>3, <1>10
<1>12. PacketsOf(ToSet(out)) \cap ref = {}  BY DEF PacketsOf, BatchedAt
<1>13. ASSUME NEW i \in DOMAIN out, NEW j \in DOMAIN out, i < j, ~IsFlow(out[i]), ~IsFlow(out[j])
       PROVE  \E k, l \in DOMAIN Ids(del) :
                k < l /\ Ids(del)[k] = out[i] /\ Ids(del)[l] = out[j]
  <2>1. PICK k \in 1 .. c, l \in 1 .. c : k < l /\ del[k].id = out[i] /\ del[l].id = out[j]
    <3>1. i \in 1 .. Len(out) /\ j \in 1 .. Len(out)  BY <1>1
    <3>2. QED  BY <1>13, <3>1 DEF BatchedAt
  <2>2. QED  BY <1>2, <1>5, <2>1
<1>14. QED  BY <1>8, <1>9, <1>11, <1>12, <1>13 DEF EventsOf

LEMMA ConservedByInvariants == Typed /\ Apart /\ Counted /\ Batched => PacketsConserved
<1> SUFFICES ASSUME Typed, Apart, Counted, Batched PROVE PacketsConserved
  OBVIOUS
<1>1. /\ delivered \in Seq(Packets) /\ queue \in Seq(Packets) /\ batch \in Seq(PacketIds)
      /\ Published \in Seq(Messages) /\ Arrived \in Seq(Packets)
  BY PublishedTyped, ArrivedTyped DEF Typed
<1>2. Distinct(Arrived) /\ Distinct(delivered)
  <2>1. Distinct(delivered \o queue)  BY DEF Apart, Arrived
  <2>2. QED  BY <1>1, <2>1, DistinctPrefix DEF Arrived
<1>3. IsInjective(Ids(Arrived)) /\ ToSet(Ids(Arrived)) \cap dropped = {}
  <2>1. ToSet(Ids(Arrived)) = {Arrived[i].id : i \in 1 .. Len(Arrived)}  BY <1>1, IdsOf
  <2>2. QED  BY <1>1, <1>2, <2>1, IdsOf DEF Apart
<1>4. BatchedAt(Len(delivered) - Len(batch), delivered, batch, Published, refused)
  BY DEF Batched
<1>5. /\ ToSet(Handed) = ToSet(batch) \cup PacketsOf(ToSet(Published) \cup refused)
      /\ IsInjective(batch) /\ ToSet(batch) \cap (ToSet(Published) \cup refused) = {}
      /\ PacketsOf(ToSet(Published)) \cap refused = {}
      /\ PublishedInOrder
  <2>1. EventsOf(delivered, batch, Published, refused)  BY <1>1, <1>2, <1>4, EventsOnce
  <2>2. QED  BY <2>1 DEF EventsOf, Handed, PublishedInOrder
<1>6. TypeOK  BY DEF Typed
<1>7. /\ stats.captured = Cardinality({t \in Captors : hand[t] # None}) + Len(queue)
                        + Len(delivered) + stats.dropped
      /\ stats.dropped = Cardinality(dropped)
  BY DEF Counted, Holding
<1>8. QED  BY <1>3, <1>5, <1>6, <1>7 DEF PacketsConserved, Arrived

\* Every execution keeps the books of its packets.
LEMMA AlwaysPackets ==
    Spec => [](Typed /\ FlowsTyped /\ Apart /\ Counted /\ Batched)
<1> DEFINE Inv == Typed /\ FlowsTyped /\ Apart /\ Counted /\ Batched
<1>1. Init => Inv  BY InitTyped, InitPackets
<1>2. Inv /\ [Next]_vars => Inv'
  BY NextTyped, NextFlowsTyped, NextApart, NextCounted, NextBatched
<1>3. QED  BY <1>1, <1>2, PTL DEF Spec

\* Packets are conserved: what the threads captured is in a hand, in the ring,
\* popped or dropped, once, as the counters say, and the event of a popped one
\* is batched, published or refused, once, and published in the order in which
\* the ring was emptied; also across stop() and start().
THEOREM PacketsKept == Spec => []PacketsConserved
<1>1. Typed /\ FlowsTyped /\ Apart /\ Counted /\ Batched => PacketsConserved
  BY ConservedByInvariants
<1>2. QED  BY <1>1, AlwaysPackets, PTL

-----------------------------------------------------------------------------
(* Flows *)

\* A trail is of packets that were popped, each once; two trails share none.
Held(del, trail) == ToSet(trail) \subseteq ToSet(del) /\ IsInjective(trail)
Disjoint(s, t) == ToSet(s) \cap ToSet(t) = {}

TrailsApart ==
    /\ \A k \in DOMAIN flows : Held(delivered, flows[k].trail)
    /\ \A e \in ended : Held(delivered, e.trail)
    /\ \A j, k \in DOMAIN flows : j # k => Disjoint(flows[j].trail, flows[k].trail)
    /\ \A k \in DOMAIN flows : \A e \in ended : Disjoint(flows[k].trail, e.trail)
    /\ \A e, f \in ended : e # f => Disjoint(e.trail, f.trail)

\* The packet that is popped is new.
LEMMA Popped ==
    ASSUME Typed, Apart, Apart', Typed', ProcessOne
    PROVE  /\ Head(queue) \notin ToSet(delivered)
           /\ ToSet(delivered') = ToSet(delivered) \cup {Head(queue)}
           /\ \A q \in ToSet(delivered) : q.id # Head(queue).id
           /\ \A q, r \in ToSet(delivered) : q.id = r.id => q = r
<1> DEFINE p == Head(queue)
           n == Len(delivered)
<1>1. p \in Packets /\ delivered' = Append(delivered, p) /\ delivered \in Seq(Packets)
  BY PopEffect DEF Typed
<1>2. Distinct(delivered')
  <2>1. Distinct(delivered' \o queue')  BY DEF Apart, Arrived, Distinct
  <2>2. delivered' \in Seq(Packets) /\ queue' \in Seq(Packets)  BY DEF Typed
  <2>3. QED  BY <2>1, <2>2, DistinctPrefix
<1> HIDE DEF p
<1>3. /\ n \in Nat /\ Len(delivered') = n + 1 /\ delivered'[n + 1] = p
      /\ \A i \in 1 .. n : delivered'[i] = delivered[i]
      /\ DOMAIN delivered = 1 .. n /\ DOMAIN delivered' = 1 .. n + 1
  BY <1>1, AppendEffect
<1> HIDE DEF n
<1>4. \A i \in 1 .. n + 1 : i \in 1 .. n \/ i = n + 1  BY <1>3
<1>5. \A i \in 1 .. n : i \in 1 .. n + 1 /\ i # n + 1  BY <1>3
<1>6. n + 1 \in 1 .. n + 1  BY <1>3
<1>7. ToSet(delivered) = {delivered[i] : i \in 1 .. n}  BY <1>3 DEF ToSet
<1>8. ToSet(delivered') = {delivered'[i] : i \in 1 .. n + 1}  BY <1>3 DEF ToSet
<1>9. \A i \in 1 .. n : delivered[i].id # p.id
  BY <1>2, <1>3, <1>5, <1>6 DEF Distinct
<1>10. \A i, j \in 1 .. n : delivered[i].id = delivered[j].id => i = j
  BY <1>2, <1>3, <1>5 DEF Distinct
<1>11. ToSet(delivered') = ToSet(delivered) \cup {p}
  BY <1>3, <1>4, <1>5, <1>6, <1>7, <1>8
<1>12. \A q \in ToSet(delivered) : q.id # p.id  BY <1>7, <1>9
<1>13. \A q, r \in ToSet(delivered) : q.id = r.id => q = r  BY <1>7, <1>10
<1>14. QED  BY <1>11, <1>12, <1>13 DEF p

\* What the table is after a packet was tracked.
LEMMA TrackedTrails ==
    ASSUME FlowsTyped, NEW p \in Packets, NEW k, NEW gone, Tracks(p, k, gone)
    PROVE  /\ \A j \in DOMAIN flows' : j # k =>
                j \in DOMAIN flows \ gone /\ flows'[j].trail = flows[j].trail
           /\ \A e \in ended' : e \in ended \/ \E g \in gone : e = Ended(g, "evicted")
           /\ \A g \in gone : g \in DOMAIN flows /\ Ended(g, "evicted").trail = flows[g].trail
           /\ ToSet(flows'[k].trail) =
                {p} \cup (IF k \in DOMAIN flows THEN ToSet(flows[k].trail) ELSE {})
           /\ flows'[k].trail[1] = IF k \in DOMAIN flows THEN flows[k].trail[1] ELSE p
           /\ k \in DOMAIN flows => gone = {}
           /\ (k \in DOMAIN flows => IsInjective(flows[k].trail) /\ p \notin ToSet(flows[k].trail))
                => IsInjective(flows'[k].trail)
<1> DEFINE old == IF k \in DOMAIN flows THEN flows[k].trail ELSE << >>
           n == Len(old)
<1>1. old \in Seq(Packets) /\ (k \in DOMAIN flows => old # << >>)
  BY DEF FlowsTyped, GoodTrail
<1>2. flows'[k].trail = Append(old, p)  BY DEF Tracks
<1>3. (k \in DOMAIN flows => old = flows[k].trail) /\ (k \notin DOMAIN flows => old = << >>)
  OBVIOUS
<1> HIDE DEF old
<1>4. /\ n \in Nat /\ DOMAIN old = 1 .. n /\ DOMAIN Append(old, p) = 1 .. n + 1
      /\ Append(old, p)[n + 1] = p /\ \A i \in 1 .. n : Append(old, p)[i] = old[i]
      /\ (n = 0 <=> old = << >>)
  <2>1. n = 0 <=> old = << >>  BY <1>1, EmptySeq
  <2>2. QED  BY <1>1, <2>1, AppendEffect
<1> HIDE DEF n
<1>5. \A i \in 1 .. n + 1 : i \in 1 .. n \/ i = n + 1  BY <1>4
<1>6. \A i \in 1 .. n : i \in 1 .. n + 1 /\ i # n + 1  BY <1>4
<1>7. n + 1 \in 1 .. n + 1 /\ 1 \in 1 .. n + 1 /\ (n = 0 => 1 = n + 1) /\ (n # 0 => 1 \in 1 .. n)
  BY <1>4
<1>8. /\ ToSet(old) = {old[i] : i \in 1 .. n}
      /\ ToSet(Append(old, p)) = {Append(old, p)[i] : i \in 1 .. n + 1}
  BY <1>4 DEF ToSet
<1>9. ToSet(Append(old, p)) = {p} \cup ToSet(old)
  BY <1>4, <1>5, <1>6, <1>7, <1>8
<1>10. k \notin DOMAIN flows => ToSet(old) = {}
  BY <1>3, <1>4, <1>8
<1>11. Append(old, p)[1] = IF k \in DOMAIN flows THEN flows[k].trail[1] ELSE p
  BY <1>1, <1>3, <1>4, <1>7
<1>12. IsInjective(old) /\ p \notin ToSet(old) => IsInjective(Append(old, p))
  BY <1>4, <1>5, <1>8 DEF IsInjective
<1>13. k \notin DOMAIN flows => IsInjective(old)
  BY <1>3, <1>4 DEF IsInjective
<1>14. /\ \A j \in DOMAIN flows' : j # k =>
                j \in DOMAIN flows \ gone /\ flows'[j].trail = flows[j].trail
       /\ \A e \in ended' : e \in ended \/ \E g \in gone : e = Ended(g, "evicted")
       /\ \A g \in gone : g \in DOMAIN flows /\ Ended(g, "evicted").trail = flows[g].trail
       /\ k \in DOMAIN flows => gone = {}
  BY EndedFields DEF Tracks
<1>15. ToSet(flows'[k].trail) =
          {p} \cup (IF k \in DOMAIN flows THEN ToSet(flows[k].trail) ELSE {})
  BY <1>2, <1>3, <1>9, <1>10
<1>16. (k \in DOMAIN flows => IsInjective(flows[k].trail) /\ p \notin ToSet(flows[k].trail))
          => IsInjective(flows'[k].trail)
  BY <1>2, <1>3, <1>10, <1>12, <1>13
<1>17. QED  BY <1>2, <1>11, <1>14, <1>15, <1>16

LEMMA NextTrailsApart ==
    Typed /\ Typed' /\ FlowsTyped /\ Apart /\ Apart' /\ TrailsApart /\ [Next]_vars => TrailsApart'
<1> SUFFICES ASSUME Typed, Typed', FlowsTyped, Apart, Apart', TrailsApart, [Next]_vars
             PROVE  TrailsApart'
  OBVIOUS
<1> USE DEF threadVars, flowVars, producerVars
<1>1. ASSUME flows' = flows, ended' = ended, ToSet(delivered) \subseteq ToSet(delivered')
      PROVE  TrailsApart'
  BY <1>1 DEF TrailsApart, Held, Disjoint
<1>2. CASE ProcessOne
  <2> DEFINE p == Head(queue)
             k == NormalizeKey(FlowKey(p.frame))
             T == flows'[k].trail
  <2>1. p \notin ToSet(delivered) /\ ToSet(delivered') = ToSet(delivered) \cup {p} /\ p \in Packets
    BY <1>2, Popped, PopEffect
  <2>2. CASE UNCHANGED flowVars  BY <1>1, <2>1, <2>2
  <2>3. CASE TrackPacket(p)
    <3>1. PICK gone : Tracks(p, k, gone)  BY <2>3, TrackEffect
    <3> HIDE DEF p, k
    <3>2. /\ \A j \in DOMAIN flows' : j # k =>
                j \in DOMAIN flows \ gone /\ flows'[j].trail = flows[j].trail
          /\ \A e \in ended' : e \in ended \/ \E g \in gone : e = Ended(g, "evicted")
          /\ \A g \in gone : g \in DOMAIN flows /\ Ended(g, "evicted").trail = flows[g].trail
          /\ ToSet(T) = {p} \cup (IF k \in DOMAIN flows THEN ToSet(flows[k].trail) ELSE {})
          /\ k \in DOMAIN flows => gone = {}
          /\ (k \in DOMAIN flows => IsInjective(flows[k].trail) /\ p \notin ToSet(flows[k].trail))
                => IsInjective(T)
      BY <2>1, <3>1, TrackedTrails
    <3>3. gone = {} \/ \E j : gone = {j}  BY <3>1 DEF Tracks
    <3> HIDE DEF T
    <3>4. /\ \A j \in DOMAIN flows : ToSet(flows[j].trail) \subseteq ToSet(delivered)
                                     /\ IsInjective(flows[j].trail)
          /\ \A e \in ended : ToSet(e.trail) \subseteq ToSet(delivered) /\ IsInjective(e.trail)
      BY DEF TrailsApart, Held
    <3>5. ToSet(T) \subseteq ToSet(delivered') /\ IsInjective(T)
      BY <2>1, <3>2, <3>4
    <3>6. \A j \in DOMAIN flows' : Held(delivered', flows'[j].trail)
      BY <2>1, <3>2, <3>4, <3>5 DEF Held, T
    <3>7. \A e \in ended' : Held(delivered', e.trail)
      BY <2>1, <3>2, <3>4 DEF Held
    <3>8. ASSUME NEW j \in DOMAIN flows, j # k, j \notin gone PROVE Disjoint(flows[j].trail, T)
      <4>1. p \notin ToSet(flows[j].trail)  BY <2>1, <3>4
      <4>2. k \in DOMAIN flows => Disjoint(flows[j].trail, flows[k].trail)
        BY <3>8 DEF TrailsApart
      <4>3. QED  BY <3>2, <4>1, <4>2 DEF Disjoint
    <3>9. ASSUME NEW j \in DOMAIN flows', NEW i \in DOMAIN flows', i # j
          PROVE  Disjoint(flows'[j].trail, flows'[i].trail)
      <4>1. CASE j # k /\ i # k
        <5>1. j \in DOMAIN flows /\ i \in DOMAIN flows /\ Disjoint(flows[j].trail, flows[i].trail)
          BY <3>2, <3>9, <4>1 DEF TrailsApart
        <5>2. QED  BY <3>2, <4>1, <5>1
      <4>2. CASE j # k /\ i = k  BY <3>2, <3>8, <4>2 DEF T
      <4>3. CASE j = k /\ i # k
        <5>1. Disjoint(flows[i].trail, T) /\ flows'[i].trail = flows[i].trail
          BY <3>2, <3>8, <4>3
        <5>2. QED  BY <4>3, <5>1 DEF Disjoint, T
      <4>4. QED  BY <3>9, <4>1, <4>2, <4>3
    <3>10. ASSUME NEW j \in DOMAIN flows', NEW e \in ended'
           PROVE  Disjoint(flows'[j].trail, e.trail)
      <4>1. CASE e \in ended
        <5>1. CASE j # k  BY <3>2, <4>1, <5>1 DEF TrailsApart
        <5>2. CASE j = k
          <6>1. p \notin ToSet(e.trail)  BY <2>1, <3>4, <4>1
          <6>2. k \in DOMAIN flows => Disjoint(flows[k].trail, e.trail)  BY <4>1 DEF TrailsApart
          <6>3. Disjoint(T, e.trail)  BY <3>2, <6>1, <6>2 DEF Disjoint
          <6>4. QED  BY <5>2, <6>3 DEF T
        <5>3. QED  BY <5>1, <5>2
      <4>2. CASE e \notin ended
        <5>1. PICK g \in gone : e = Ended(g, "evicted")  BY <3>2, <3>10, <4>2
        <5>2. g \in DOMAIN flows /\ e.trail = flows[g].trail  BY <3>2, <5>1
        <5>3. CASE j # k
          <6>1. j \in DOMAIN flows /\ j # g /\ flows'[j].trail = flows[j].trail
            BY <3>2, <5>1, <5>3
          <6>2. QED  BY <5>2, <6>1 DEF TrailsApart
        <5>4. CASE j = k
          <6>1. ToSet(T) = {p}  BY <3>2, <5>1
          <6>2. p \notin ToSet(e.trail)  BY <2>1, <3>4, <5>2
          <6>3. QED  BY <5>4, <6>1, <6>2 DEF Disjoint, T
        <5>5. QED  BY <5>3, <5>4
      <4>3. QED  BY <4>1, <4>2
    <3>11. ASSUME NEW e \in ended', NEW f \in ended', e # f PROVE Disjoint(e.trail, f.trail)
      <4>1. CASE e \in ended /\ f \in ended  BY <3>11, <4>1 DEF TrailsApart
      <4>2. CASE e \in ended /\ f \notin ended
        <5>1. PICK g \in gone : f = Ended(g, "evicted")  BY <3>2, <3>11, <4>2
        <5>2. Disjoint(flows[g].trail, e.trail) /\ f.trail = flows[g].trail
          BY <3>2, <4>2, <5>1 DEF TrailsApart
        <5>3. QED  BY <5>2 DEF Disjoint
      <4>3. CASE e \notin ended /\ f \in ended
        <5>1. PICK g \in gone : e = Ended(g, "evicted")  BY <3>2, <3>11, <4>3
        <5>2. QED  BY <3>2, <4>3, <5>1 DEF TrailsApart
      <4>4. CASE e \notin ended /\ f \notin ended
        <5>1. PICK g \in gone, h \in gone : e = Ended(g, "evicted") /\ f = Ended(h, "evicted")
          BY <3>2, <3>11, <4>4
        <5>2. g = h  BY <3>3
        <5>3. QED  BY <3>11, <5>1, <5>2
      <4>5. QED  BY <4>1, <4>2, <4>3, <4>4
    <3>12. QED  BY <3>6, <3>7, <3>9, <3>10, <3>11 DEF TrailsApart, Disjoint
  <2>4. QED  BY <1>2, <2>2, <2>3 DEF ProcessOne, ProcessPacket, IgnorePacket
<1>3. CASE Expire
  <2> DEFINE over == Overdue(clock)
             out == {Expired(k) : k \in over}
  <2>1. /\ DOMAIN flows' = DOMAIN flows \ over /\ \A k \in DOMAIN flows' : flows'[k] = flows[k]
        /\ ended' = ended \cup out /\ delivered' = delivered /\ over \subseteq DOMAIN flows
    BY <1>3 DEF Expire, ExpireFlows, Overdue
  <2> HIDE DEF over
  <2>2. \A e \in out : \E k \in over : e = Expired(k) /\ e.trail = flows[k].trail
    BY EndedFields
  <2> HIDE DEF out
  <2>3. \A k \in DOMAIN flows' : Held(delivered', flows'[k].trail)
    BY <2>1 DEF TrailsApart, Held
  <2>4. \A e \in ended' : Held(delivered', e.trail)
    BY <2>1, <2>2 DEF TrailsApart, Held
  <2>5. \A j, k \in DOMAIN flows' : j # k => Disjoint(flows'[j].trail, flows'[k].trail)
    BY <2>1 DEF TrailsApart
  <2>6. ASSUME NEW k \in DOMAIN flows', NEW e \in ended' PROVE Disjoint(flows'[k].trail, e.trail)
    <3>1. CASE e \in ended  BY <2>1, <3>1 DEF TrailsApart
    <3>2. CASE e \in out
      <4>1. PICK j \in over : e.trail = flows[j].trail  BY <2>2, <3>2
      <4>2. k \in DOMAIN flows /\ j \in DOMAIN flows /\ j # k /\ flows'[k] = flows[k]  BY <2>1
      <4>3. QED  BY <4>1, <4>2 DEF TrailsApart
    <3>3. QED  BY <2>1, <2>6, <3>1, <3>2
  <2>7. ASSUME NEW e \in ended', NEW f \in ended', e # f PROVE Disjoint(e.trail, f.trail)
    <3>1. CASE e \in ended /\ f \in ended  BY <2>7, <3>1 DEF TrailsApart
    <3>2. CASE e \in ended /\ f \in out
      <4>1. PICK j \in over : f.trail = flows[j].trail  BY <2>2, <3>2
      <4>2. Disjoint(flows[j].trail, e.trail)  BY <2>1, <3>2 DEF TrailsApart
      <4>3. QED  BY <4>1, <4>2 DEF Disjoint
    <3>3. CASE e \in out /\ f \in ended
      <4>1. PICK j \in over : e.trail = flows[j].trail  BY <2>2, <3>3
      <4>2. QED  BY <2>1, <3>3, <4>1 DEF TrailsApart
    <3>4. CASE e \in out /\ f \in out
      <4>1. PICK i \in over : e = Expired(i) /\ e.trail = flows[i].trail  BY <2>2, <3>4
      <4>2. PICK j \in over : f = Expired(j) /\ f.trail = flows[j].trail  BY <2>2, <3>4
      <4>3. i # j  BY <2>7, <4>1, <4>2
      <4>4. QED  BY <2>1, <4>1, <4>2, <4>3 DEF TrailsApart
    <3>5. QED  BY <2>1, <2>7, <3>1, <3>2, <3>3, <3>4
  <2>8. QED  BY <2>3, <2>4, <2>5, <2>6, <2>7 DEF TrailsApart, Disjoint
<1>4. ASSUME UNCHANGED <<flows, ended, delivered>> PROVE TrailsApart'
  BY <1>1, <1>4
<1>5. QED
  BY <1>2, <1>3, <1>4
  DEF Next, Captor, vars, StartRefused, Start, Stop, Stopped, NoFrame, PcapReceive, Receive, Push,
      Drop, Ring!Put, PcapBreaks, AfPacketReceive, DpdkReceive, FlushBatch, ProcessingExits,
      PublishFlows, FrameArrives, Tick

\* The events of flows that were published or refused; none of them twice.
EventOf(trail) == <<"flow", trail[1].id>>
AnnouncedIn(out, ref) == {m \in ToSet(out) \cup ref : IsFlow(m)}
Announced == AnnouncedIn(Published, refused)

OnceIn(out, ref) ==
    /\ \A i, j \in 1 .. Len(out) : IsFlow(out[i]) /\ out[i] = out[j] => i = j
    /\ \A m \in ToSet(out) : IsFlow(m) => m \notin ref

\* Flows of the table are not announced; of the expired ones, exactly those in
\* the expiry thread's hand are not; nothing else is.
Exports ==
    /\ \A k \in DOMAIN flows : EventOf(flows[k].trail) \notin Announced
    /\ \A e \in ended : e.how = "expired" => (e \in export <=> EventOf(e.trail) \notin Announced)
    /\ \A m \in Announced : \E e \in ended : e.how = "expired" /\ EventOf(e.trail) = m
    /\ OnceIn(Published, refused)

\* A batch announces the flows in it.
LEMMA Announce ==
    ASSUME Typed, OnceIn(Published, refused), NEW msgs \in Seq(Messages), ProduceBatch(msgs),
           \A i, j \in 1 .. Len(msgs) : IsFlow(msgs[i]) /\ msgs[i] = msgs[j] => i = j,
           \A i \in 1 .. Len(msgs) : IsFlow(msgs[i]) => msgs[i] \notin Announced
    PROVE  /\ OnceIn(Published', refused')
           /\ AnnouncedIn(Published', refused') =
                Announced \cup {m \in ToSet(msgs) : IsFlow(m)}
<1>1. PICK n \in 0 .. Len(msgs) :
             /\ Published' = Published \o SubSeq(msgs, 1, n)
             /\ refused' = refused \cup {msgs[i] : i \in n + 1 .. Len(msgs)}
  BY PublishEffect
<1> DEFINE out == Published
           s == SubSeq(msgs, 1, n)
           more == {msgs[i] : i \in n + 1 .. Len(msgs)}
           o == out \o s
           a == Len(out)
<1>2. out \in Seq(Messages)  BY PublishedTyped
<1>3. /\ s \in Seq(Messages) /\ Len(s) = n /\ \A i \in 1 .. n : s[i] = msgs[i]
      /\ n \in Nat /\ Len(msgs) \in Nat /\ n <= Len(msgs)
  OBVIOUS
<1> HIDE DEF s, out
<1>4. /\ Len(o) = a + n /\ a \in Nat
      /\ \A i \in 1 .. a + n : o[i] = IF i <= a THEN out[i] ELSE s[i - a]
      /\ ToSet(o) = ToSet(out) \cup ToSet(s) /\ ToSet(s) = {s[i] : i \in 1 .. n}
      /\ ToSet(out) = {out[i] : i \in 1 .. a} /\ ToSet(msgs) = {msgs[i] : i \in 1 .. Len(msgs)}
  <2>1. /\ Len(o) = a + n /\ a \in Nat
        /\ \A i \in 1 .. a + n : o[i] = IF i <= a THEN out[i] ELSE s[i - a]
    <3>1. /\ Len(o) = Len(out) + Len(s)
          /\ \A i \in 1 .. Len(out) + Len(s) :
               o[i] = IF i <= Len(out) THEN out[i] ELSE s[i - Len(out)]
      BY <1>2, <1>3, ConcatProperties, Zenon
    <3>2. Len(s) = n /\ Len(out) \in Nat  BY <1>2, <1>3
    <3> HIDE DEF o
    <3>3. QED  BY <3>1, <3>2
  <2>2. ToSet(o) = ToSet(out) \cup ToSet(s) /\ ToSet(out) = {out[i] : i \in 1 .. a}
    BY <1>2, <1>3, ConcatMembers
  <2>3. ToSet(s) = {s[i] : i \in 1 .. n}
    <3>1. Len(s) = n  BY <1>3
    <3>2. ToSet(s) = {s[i] : i \in 1 .. Len(s)}  BY <1>3, Members
    <3>3. QED  BY <3>1, <3>2
  <2>4. ToSet(msgs) = {msgs[i] : i \in 1 .. Len(msgs)}  BY Members
  <2>5. QED  BY <2>1, <2>2, <2>3, <2>4
<1> HIDE DEF o, a
<1>5. \A i \in 1 .. n : i \in 1 .. Len(msgs)  BY <1>3
<1>6. \A i \in n + 1 .. Len(msgs) : i \in 1 .. Len(msgs)  BY <1>3
<1>7. \A i \in 1 .. Len(msgs) : i \in 1 .. n \/ i \in n + 1 .. Len(msgs)  BY <1>3
<1>8. \A i \in 1 .. n : \A j \in n + 1 .. Len(msgs) : i # j  BY <1>3
<1>9. ToSet(msgs) = ToSet(s) \cup more  BY <1>3, <1>4, <1>5, <1>6, <1>7
<1>10. \A m \in ToSet(msgs) : IsFlow(m) => m \notin ToSet(out) \cup refused
  BY <1>4 DEF Announced, AnnouncedIn, out
<1>11. \A m \in ToSet(s) : IsFlow(m) => m \notin more
  BY <1>3, <1>4, <1>5, <1>6, <1>8
<1>12. ASSUME NEW m \in ToSet(o), IsFlow(m) PROVE m \notin refused \cup more
  <2>1. CASE m \in ToSet(out)
    <3>1. m \notin refused  BY <1>12, <2>1 DEF OnceIn, out
    <3>2. m \notin more  BY <1>9, <1>10, <1>12, <2>1
    <3>3. QED  BY <3>1, <3>2
  <2>2. CASE m \in ToSet(s)  BY <1>9, <1>10, <1>11, <1>12, <2>2
  <2>3. QED  BY <1>4, <1>12, <2>1, <2>2
<1>13. ASSUME NEW i \in 1 .. Len(o), NEW j \in 1 .. Len(o), IsFlow(o[i]), o[i] = o[j] PROVE i = j
  <2>1. \A x \in 1 .. Len(o) : (x \in 1 .. a /\ o[x] = out[x]) \/ (x > a /\ x - a \in 1 .. n
                                                                  /\ o[x] = s[x - a])
    BY <1>3, <1>4
  <2>2. \A x \in 1 .. a : \A y \in 1 .. n : IsFlow(out[x]) => out[x] # s[y]
    <3>1. ASSUME NEW x \in 1 .. a, NEW y \in 1 .. n, IsFlow(out[x]), out[x] = s[y] PROVE FALSE
      <4>1. out[x] \in ToSet(out)  BY <1>4
      <4>2. s[y] \in ToSet(msgs)  BY <1>4, <1>9
      <4>3. QED  BY <1>10, <3>1, <4>1, <4>2
    <3>2. QED  BY <3>1
  <2>3. CASE i \in 1 .. a /\ j \in 1 .. a  BY <1>13, <2>1, <2>3 DEF OnceIn, out, a
  <2>4. CASE i > a /\ j > a
    <3>1. i - a \in 1 .. n /\ o[i] = s[i - a] /\ j - a \in 1 .. n /\ o[j] = s[j - a]
      BY <1>4, <2>1, <2>4
    <3>2. msgs[i - a] = o[i] /\ msgs[j - a] = o[j]  BY <1>3, <3>1
    <3>3. i - a = j - a  BY <1>5, <1>13, <3>1, <3>2
    <3>4. QED  BY <1>4, <3>1, <3>3
  <2>5. ~(i \in 1 .. a /\ j > a) /\ ~(i > a /\ j \in 1 .. a)
    <3>1. ASSUME i \in 1 .. a, j > a PROVE FALSE
      <4>1. o[i] = out[i] /\ j - a \in 1 .. n /\ o[j] = s[j - a]  BY <1>4, <2>1, <3>1
      <4>2. QED  BY <1>13, <2>2, <3>1, <4>1
    <3>2. ASSUME i > a, j \in 1 .. a PROVE FALSE
      <4>1. o[j] = out[j] /\ i - a \in 1 .. n /\ o[i] = s[i - a]  BY <1>4, <2>1, <3>2
      <4>2. QED  BY <1>13, <2>2, <3>2, <4>1
    <3>3. QED  BY <3>1, <3>2
  <2>6. QED  BY <2>1, <2>3, <2>4, <2>5
<1>14. OnceIn(o, refused \cup more)  BY <1>12, <1>13 DEF OnceIn
<1>15. AnnouncedIn(o, refused \cup more) = Announced \cup {m \in ToSet(msgs) : IsFlow(m)}
  BY <1>4, <1>9 DEF AnnouncedIn, Announced, out
<1>16. Published' = o /\ refused' = refused \cup more  BY <1>1 DEF o, out, s
<1>17. QED  BY <1>14, <1>15, <1>16

\* A batch of packets announces no flow.
LEMMA AnnounceNone ==
    ASSUME Typed, OnceIn(Published, refused), NEW ids \in Seq(PacketIds), ProduceBatch(ids)
    PROVE  OnceIn(Published', refused') /\ AnnouncedIn(Published', refused') = Announced
<1>1. \A i \in 1 .. Len(ids) : ids[i] \in PacketIds /\ ~IsFlow(ids[i])
  BY PacketOrFlow
<1>2. ids \in Seq(Messages) /\ ToSet(ids) = {ids[i] : i \in 1 .. Len(ids)}
  BY BatchIsMessages, ConcatMembers
<1>3. {m \in ToSet(ids) : IsFlow(m)} = {}  BY <1>1, <1>2
<1>4. /\ OnceIn(Published', refused')
      /\ AnnouncedIn(Published', refused') = Announced \cup {m \in ToSet(ids) : IsFlow(m)}
  BY <1>1, <1>2, Announce
<1>5. QED  BY <1>3, <1>4

\* Of two trails that share no packet the first packets have two ids.
LEMMA TwoEvents ==
    ASSUME Typed, Apart, NEW s, NEW t, NEW j, NEW k, GoodTrail(s, j), GoodTrail(t, k),
           Held(delivered, s), Held(delivered, t), Disjoint(s, t)
    PROVE  EventOf(s) # EventOf(t)
<1>1. s[1] \in ToSet(s) /\ t[1] \in ToSet(t)
  <2>1. 1 \in DOMAIN s /\ 1 \in DOMAIN t  BY DEF GoodTrail
  <2>2. QED  BY <2>1 DEF ToSet
<1>2. s[1] \in ToSet(delivered) /\ t[1] \in ToSet(delivered) /\ s[1] # t[1]
  BY <1>1 DEF Held, Disjoint
<1>3. \A q, r \in ToSet(delivered) : q.id = r.id => q = r
  <2>1. delivered \in Seq(Packets) /\ queue \in Seq(Packets)  BY DEF Typed
  <2>2. Distinct(delivered \o queue)  BY DEF Apart, Arrived
  <2>3. Distinct(delivered)  BY <2>1, <2>2, DistinctPrefix
  <2>4. ToSet(delivered) = {delivered[i] : i \in 1 .. Len(delivered)}  BY <2>1, Members
  <2>5. QED  BY <2>3, <2>4 DEF Distinct
<1>4. QED  BY <1>2, <1>3 DEF EventOf

LEMMA NextExports ==
    Typed /\ Typed' /\ FlowsTyped /\ Apart /\ Apart' /\ TrailsApart /\ Exports /\ [Next]_vars
      => Exports'
<1> SUFFICES ASSUME Typed, Typed', FlowsTyped, Apart, Apart', TrailsApart, Exports, [Next]_vars
             PROVE  Exports'
  OBVIOUS
<1> USE DEF threadVars, flowVars, producerVars
<1> DEFINE now == AnnouncedIn(Published', refused')
<1>0. OnceIn(Published, refused) /\ Announced' = now  BY DEF Exports, Announced
<1>1. ASSUME flows' = flows, ended' = ended, export' = export, now = Announced,
             OnceIn(Published', refused')
      PROVE  Exports'
  BY <1>0, <1>1 DEF Exports
<1>2. CASE ProcessOne
  <2> DEFINE p == Head(queue)
             k == NormalizeKey(FlowKey(p.frame))
             ids == Append(batch, p.id)
  <2>1. /\ p \in Packets /\ export' = export
        /\ IF Len(ids) >= BatchSize THEN ProduceBatch(ids) ELSE UNCHANGED producerVars
    BY <1>2, PopEffect DEF ProcessOne
  <2>2. now = Announced /\ OnceIn(Published', refused')
    <3>1. ids \in Seq(PacketIds)  BY <2>1, AppendProperties DEF Packets, Typed
    <3> HIDE DEF ids
    <3>2. CASE Len(ids) >= BatchSize  BY <1>0, <2>1, <3>1, <3>2, AnnounceNone
    <3>3. CASE ~(Len(ids) >= BatchSize)
      BY <1>0, <2>1, <3>3 DEF Published, Announced
    <3>4. QED  BY <3>2, <3>3
  <2>3. CASE UNCHANGED flowVars  BY <1>1, <2>1, <2>2, <2>3
  <2>4. CASE TrackPacket(p)
    <3>1. PICK gone : Tracks(p, k, gone)  BY <2>4, TrackEffect
    <3>2. \A q \in ToSet(delivered) : q.id # p.id  BY <1>2, Popped
    <3> HIDE DEF p, k, now, ids
    <3>3. /\ \A j \in DOMAIN flows' : j # k =>
                j \in DOMAIN flows \ gone /\ flows'[j].trail = flows[j].trail
          /\ \A e \in ended' : e \in ended \/ \E g \in gone : e = Ended(g, "evicted")
          /\ flows'[k].trail[1] = IF k \in DOMAIN flows THEN flows[k].trail[1] ELSE p
      BY <2>1, <3>1, TrackedTrails
    <3>4. \A e \in ended' : e.how = "expired" => e \in ended
      <4>1. \A g \in gone : Ended(g, "evicted").how = "evicted"  BY DEF Ended
      <4>2. ASSUME NEW e \in ended', e.how = "expired", e \notin ended PROVE FALSE
        <5>1. PICK g \in gone : e = Ended(g, "evicted")  BY <3>3, <4>2
        <5>2. QED  BY <4>1, <4>2, <5>1
      <4>3. QED  BY <4>2
    <3>5. ended \subseteq ended'  BY <3>1 DEF Tracks
    <3>6. EventOf(flows'[k].trail) \notin Announced
      <4>1. CASE k \in DOMAIN flows  BY <3>3, <4>1 DEF Exports, EventOf
      <4>2. CASE k \notin DOMAIN flows
        <5>1. SUFFICES ASSUME <<"flow", p.id>> \in Announced PROVE FALSE
          BY <3>3, <4>2 DEF EventOf
        <5>2. PICK e \in ended : EventOf(e.trail) = <<"flow", p.id>>
          BY <5>1 DEF Exports
        <5>3. GoodTrail(e.trail, e.key) /\ Held(delivered, e.trail)
          BY DEF FlowsTyped, TrailsApart
        <5>4. e.trail[1] \in ToSet(e.trail)
          <6>1. 1 \in DOMAIN e.trail  BY <5>3 DEF GoodTrail
          <6>2. QED  BY <6>1 DEF ToSet
        <5>5. e.trail[1] \in ToSet(delivered)  BY <5>3, <5>4 DEF Held
        <5>6. e.trail[1].id = p.id  BY <5>2 DEF EventOf
        <5>7. QED  BY <3>2, <5>5, <5>6
      <4>3. QED  BY <4>1, <4>2
    <3>7. \A j \in DOMAIN flows' : EventOf(flows'[j].trail) \notin now
      <4>1. \A j \in DOMAIN flows : EventOf(flows[j].trail) \notin Announced  BY DEF Exports
      <4>2. ASSUME NEW j \in DOMAIN flows' PROVE EventOf(flows'[j].trail) \notin now
        <5>1. CASE j = k  BY <2>2, <3>6, <5>1
        <5>2. CASE j # k
          <6>1. flows'[j].trail = flows[j].trail /\ j \in DOMAIN flows  BY <3>3, <5>2
          <6>2. QED  BY <2>2, <4>1, <6>1
        <5>3. QED  BY <5>1, <5>2
      <4>3. QED  BY <4>2
    <3>8. \A e \in ended' : e.how = "expired" => (e \in export' <=> EventOf(e.trail) \notin now)
      BY <2>1, <2>2, <3>4 DEF Exports
    <3>9. \A m \in now : \E e \in ended' : e.how = "expired" /\ EventOf(e.trail) = m
      BY <2>2, <3>5 DEF Exports
    <3>10. QED  BY <1>0, <2>2, <3>7, <3>8, <3>9 DEF Exports
  <2>5. QED  BY <1>2, <2>3, <2>4 DEF ProcessOne, ProcessPacket, IgnorePacket
<1>3. CASE FlushBatch \/ ProcessingExits
  <2>1. /\ ProduceBatch(batch) /\ UNCHANGED <<flows, ended, export>>
    BY <1>3 DEF FlushBatch, ProcessingExits, FinalBatch
  <2>2. batch \in Seq(PacketIds)  BY DEF Typed
  <2>3. QED  BY <1>0, <1>1, <2>1, <2>2, AnnounceNone
<1>4. CASE Stopped
  <2>1. Published' = Published /\ refused' = refused /\ UNCHANGED <<flows, ended, export>>
    BY <1>4, FlushEffect DEF Stopped
  <2>2. QED  BY <1>0, <1>1, <2>1 DEF Announced
<1>5. CASE Expire
  <2> DEFINE over == Overdue(clock)
             out == {Expired(k) : k \in over}
  <2>1. /\ DOMAIN flows' = DOMAIN flows \ over /\ \A k \in DOMAIN flows' : flows'[k] = flows[k]
        /\ ended' = ended \cup out /\ export' = out /\ over \subseteq DOMAIN flows
        /\ xpc = "asleep" /\ UNCHANGED <<outq, settled, refused>>
    BY <1>5 DEF Expire, ExpireFlows, Overdue
  <2> HIDE DEF over
  <2>2. \A e \in out : \E k \in over : e = Expired(k) /\ e.trail = flows[k].trail
    BY EndedFields
  <2> HIDE DEF out
  <2>3. export = {}  BY <2>1 DEF Typed, TypeOK
  <2>4. now = Announced /\ OnceIn(Published', refused')
    BY <1>0, <2>1 DEF Published, Announced
  <2> HIDE DEF now
  <2>5. \A k \in DOMAIN flows' : EventOf(flows'[k].trail) \notin now
    BY <2>1, <2>4 DEF Exports
  <2>6. ASSUME NEW e \in ended', e.how = "expired"
        PROVE  e \in export' <=> EventOf(e.trail) \notin now
    <3>1. CASE e \in out
      <4>1. PICK k \in over : e.trail = flows[k].trail  BY <2>2, <3>1
      <4>2. EventOf(e.trail) \notin Announced  BY <2>1, <4>1 DEF Exports
      <4>3. QED  BY <2>1, <2>4, <3>1, <4>2
    <3>2. CASE e \notin out
      <4>1. e \in ended  BY <2>1, <2>6, <3>2
      <4>2. EventOf(e.trail) \in Announced  BY <2>3, <2>6, <4>1 DEF Exports
      <4>3. QED  BY <2>1, <2>4, <3>2, <4>2
    <3>3. QED  BY <3>1, <3>2
  <2>7. \A m \in now : \E e \in ended' : e.how = "expired" /\ EventOf(e.trail) = m
    BY <2>1, <2>4 DEF Exports
  <2>8. QED  BY <1>0, <2>4, <2>5, <2>6, <2>7 DEF Exports
<1>6. CASE PublishFlows
  <2> DEFINE fe == FlowEvents
             new == {EventOf(e.trail) : e \in export}
  <2>1. ProduceBatch(fe) /\ export' = {} /\ UNCHANGED <<flows, ended>>
    BY <1>6 DEF PublishFlows
  <2>2. /\ fe \in Seq(Messages)
        /\ \A i \in 1 .. Len(fe) : \E e \in export : fe[i] = EventOf(e.trail)
        /\ \A e \in export : \E i \in 1 .. Len(fe) : fe[i] = EventOf(e.trail)
        /\ \A i, j \in 1 .. Len(fe) : fe[i] = fe[j] => i = j
    BY FlowEventsTyped DEF EventOf
  <2> HIDE DEF fe
  <2>3. \A e \in export : e \in ended /\ e.how = "expired"  BY DEF FlowsTyped
  <2>4. \A e \in export : EventOf(e.trail) \notin Announced  BY <2>3 DEF Exports
  <2>5. \A i \in 1 .. Len(fe) : fe[i] \notin Announced  BY <2>2, <2>4
  <2>6. OnceIn(Published', refused') /\ now = Announced \cup {m \in ToSet(fe) : IsFlow(m)}
    BY <1>0, <2>1, <2>2, <2>5, Announce
  <2>7. {m \in ToSet(fe) : IsFlow(m)} = new
    <3>1. ToSet(fe) = {fe[i] : i \in 1 .. Len(fe)}  BY <2>2, Members
    <3>2. ToSet(fe) = new  BY <2>2, <3>1
    <3>3. \A m \in new : IsFlow(m)  BY DEF EventOf, IsFlow
    <3> HIDE DEF new
    <3>4. QED  BY <3>2, <3>3
  <2> HIDE DEF now
  <2>8. \A k \in DOMAIN flows' : EventOf(flows'[k].trail) \notin now
    <3>1. ASSUME NEW k \in DOMAIN flows PROVE EventOf(flows[k].trail) \notin now
      <4>1. EventOf(flows[k].trail) \notin Announced  BY DEF Exports
      <4>2. ASSUME NEW e \in export PROVE EventOf(flows[k].trail) # EventOf(e.trail)
        <5>1. e \in ended  BY <2>3
        <5>2. /\ GoodTrail(flows[k].trail, k) /\ GoodTrail(e.trail, e.key)
              /\ Held(delivered, flows[k].trail) /\ Held(delivered, e.trail)
              /\ Disjoint(flows[k].trail, e.trail)
          BY <5>1 DEF FlowsTyped, TrailsApart
        <5>3. QED  BY <5>2, TwoEvents
      <4>3. QED  BY <2>6, <2>7, <4>1, <4>2
    <3>2. QED  BY <2>1, <3>1
  <2>9. \A e \in ended' : e.how = "expired" => (e \in export' <=> EventOf(e.trail) \notin now)
    <3>1. ASSUME NEW e \in ended, e.how = "expired" PROVE EventOf(e.trail) \in now
      <4>1. CASE e \in export  BY <2>6, <2>7, <4>1
      <4>2. CASE e \notin export  BY <2>6, <3>1, <4>2 DEF Exports
      <4>3. QED  BY <4>1, <4>2
    <3>2. QED  BY <2>1, <3>1
  <2>10. \A m \in now : \E e \in ended' : e.how = "expired" /\ EventOf(e.trail) = m
    BY <2>1, <2>3, <2>6, <2>7 DEF Exports
  <2>11. QED  BY <1>0, <2>6, <2>8, <2>9, <2>10 DEF Exports
<1>7. ASSUME UNCHANGED <<flows, ended, export, outq, settled, refused>> PROVE Exports'
  <2>1. now = Announced /\ OnceIn(Published', refused')
    BY <1>0, <1>7 DEF Published, Announced
  <2>2. QED  BY <1>1, <1>7, <2>1
<1>8. QED
  BY <1>2, <1>3, <1>4, <1>5, <1>6, <1>7
  DEF Next, Captor, vars, StartRefused, Start, Stop, NoFrame, PcapReceive, Receive, Push,
      Drop, PcapBreaks, AfPacketReceive, DpdkReceive, FrameArrives, Tick

\* The flows that expired, and the packets that flows were given.
ExpiredFlows == {e \in ended : e.how = "expired"}
InFlows == (UNION {ToSet(flows[k].trail) : k \in DOMAIN flows})
           \cup (UNION {ToSet(e.trail) : e \in ended})

\* The tracker's counters, and the one of the expiry thread.
Tallies ==
    /\ tracked = [created |-> tracked.created, expired |-> tracked.expired,
                  packets |-> tracked.packets, bytes |-> tracked.bytes]
    /\ Cardinality(DOMAIN flows) <= MaxFlows
    /\ tracked.created = Cardinality(DOMAIN flows) + Cardinality(ended)
    /\ tracked.expired = Cardinality(ExpiredFlows) /\ stats.expired = tracked.expired
    /\ IsFiniteSet(InFlows) /\ tracked.packets = Cardinality(InFlows)

\* The counters after a packet was tracked.
LEMMA TrackTallies ==
    ASSUME NEW p, TrackPacket(p), NEW a, NEW b, NEW c, NEW d,
           tracked = [created |-> a, expired |-> b, packets |-> c, bytes |-> d]
    PROVE  tracked' = [created |-> a + (IF NormalizeKey(FlowKey(p.frame)) \in DOMAIN flows
                                        THEN 0 ELSE 1),
                       expired |-> b, packets |-> c + 1, bytes |-> d + p.frame.len]
<1> DEFINE k == NormalizeKey(FlowKey(p.frame))
           n == One(k \notin DOMAIN flows)
           u == [tracked EXCEPT !.created = @ + n]
           v == [u EXCEPT !.packets = @ + 1]
<1>1. tracked' = [v EXCEPT !.bytes = @ + p.frame.len]  BY DEF TrackPacket
<1>2. n = IF k \in DOMAIN flows THEN 0 ELSE 1  BY DEF One
<1> HIDE DEF n
<1>3. u = [created |-> a + n, expired |-> b, packets |-> c, bytes |-> d]  OBVIOUS
<1> HIDE DEF u
<1>4. v = [created |-> a + n, expired |-> b, packets |-> c + 1, bytes |-> d]  BY <1>3
<1> HIDE DEF v
<1>5. tracked' = [created |-> a + n, expired |-> b, packets |-> c + 1, bytes |-> d + p.frame.len]
  BY <1>1, <1>4
<1>6. QED  BY <1>2, <1>5

LEMMA NextTallies ==
    Typed /\ Typed' /\ FlowsTyped /\ FlowsTyped' /\ Apart /\ Apart' /\ TrailsApart /\ Tallies
      /\ [Next]_vars => Tallies'
<1> SUFFICES ASSUME Typed, Typed', FlowsTyped, FlowsTyped', Apart, Apart', TrailsApart, Tallies,
                    [Next]_vars
             PROVE  Tallies'
  OBVIOUS
<1> USE DEF threadVars, flowVars, producerVars
<1> DEFINE f == Cardinality(DOMAIN flows)
           g == Cardinality(ended)
<1>0. /\ IsFiniteSet(DOMAIN flows) /\ IsFiniteSet(ended) /\ f \in Nat /\ g \in Nat
      /\ IsFiniteSet(ExpiredFlows) /\ Cardinality(ExpiredFlows) \in Nat
      /\ IsFiniteSet(InFlows) /\ Cardinality(InFlows) \in Nat /\ MaxFlows \in Nat
  BY FS_CardinalityType, FS_Subset, FlowAssumption DEF FlowsTyped, ExpiredFlows, Tallies
<1>1. ASSUME UNCHANGED flowVars, stats'.expired = stats.expired PROVE Tallies'
  BY <1>1 DEF Tallies, ExpiredFlows, InFlows
<1>2. CASE ProcessOne
  <2> DEFINE p == Head(queue)
             k == NormalizeKey(FlowKey(p.frame))
  <2>1. p \in Packets /\ p \notin ToSet(delivered) /\ stats' = stats
    BY <1>2, PopEffect, Popped DEF ProcessOne
  <2>2. CASE UNCHANGED flowVars  BY <1>1, <2>1, <2>2
  <2>3. CASE TrackPacket(p)
    <3>1. PICK gone : Tracks(p, k, gone)  BY <2>3, TrackEffect
    <3>2. tracked' = [created |-> tracked.created + (IF k \in DOMAIN flows THEN 0 ELSE 1),
                      expired |-> tracked.expired, packets |-> tracked.packets + 1,
                      bytes |-> tracked.bytes + p.frame.len]
      BY <2>3, TrackTallies DEF Tallies
    <3> HIDE DEF p, k
    <3>3. /\ tracked'.created = tracked.created + (IF k \in DOMAIN flows THEN 0 ELSE 1)
          /\ tracked'.expired = tracked.expired /\ tracked'.packets = tracked.packets + 1
          /\ tracked' = [created |-> tracked'.created, expired |-> tracked'.expired,
                         packets |-> tracked'.packets, bytes |-> tracked'.bytes]
      BY <3>2
    <3>4. /\ gone \subseteq DOMAIN flows /\ k \notin gone /\ (k \in DOMAIN flows => gone = {})
          /\ gone = {} \/ \E j : gone = {j}
          /\ k \notin DOMAIN flows /\ gone = {} => f < MaxFlows
          /\ DOMAIN flows' = (DOMAIN flows \ gone) \cup {k}
          /\ ended' = ended \cup {Ended(j, "evicted") : j \in gone}
      BY <3>1 DEF Tracks
    <3>5. /\ \A j \in DOMAIN flows' : j # k =>
                j \in DOMAIN flows \ gone /\ flows'[j].trail = flows[j].trail
          /\ \A j \in gone : j \in DOMAIN flows /\ Ended(j, "evicted").trail = flows[j].trail
          /\ ToSet(flows'[k].trail) =
                {p} \cup (IF k \in DOMAIN flows THEN ToSet(flows[k].trail) ELSE {})
      BY <2>1, <3>1, TrackedTrails
    <3>6. \A j \in gone : Ended(j, "evicted").how = "evicted"  BY DEF Ended
    <3>7. ASSUME NEW j \in gone PROVE Ended(j, "evicted") \notin ended
      <4>1. j \in DOMAIN flows /\ Ended(j, "evicted").trail = flows[j].trail  BY <3>5
      <4>2. flows[j].trail[1] \in ToSet(flows[j].trail)
        <5>1. 1 \in DOMAIN flows[j].trail  BY <4>1 DEF FlowsTyped, GoodTrail
        <5>2. QED  BY <5>1 DEF ToSet
      <4>3. QED  BY <4>1, <4>2 DEF TrailsApart, Disjoint
    <3>8. ExpiredFlows' = ExpiredFlows
      BY <3>4, <3>6 DEF ExpiredFlows
    <3>9. InFlows' = InFlows \cup {p}
      <4>1. ASSUME NEW x \in InFlows' PROVE x \in InFlows \cup {p}
        <5>1. CASE \E j \in DOMAIN flows' : x \in ToSet(flows'[j].trail)
          <6>1. PICK j \in DOMAIN flows' : x \in ToSet(flows'[j].trail)  BY <5>1
          <6>2. CASE j = k  BY <3>5, <6>1, <6>2 DEF InFlows
          <6>3. CASE j # k  BY <3>5, <6>1, <6>3 DEF InFlows
          <6>4. QED  BY <6>2, <6>3
        <5>2. CASE \E e \in ended' : x \in ToSet(e.trail)
          <6>1. PICK e \in ended' : x \in ToSet(e.trail)  BY <5>2
          <6>2. CASE e \in ended  BY <6>1, <6>2 DEF InFlows
          <6>3. CASE e \notin ended
            <7>1. PICK j \in gone : e = Ended(j, "evicted")  BY <3>4, <6>1, <6>3
            <7>2. j \in DOMAIN flows /\ x \in ToSet(flows[j].trail)  BY <3>5, <6>1, <7>1
            <7>3. QED  BY <7>2 DEF InFlows
          <6>4. QED  BY <6>2, <6>3
        <5>3. QED  BY <4>1, <5>1, <5>2 DEF InFlows
      <4>2. p \in InFlows'
        <5>1. p \in ToSet(flows'[k].trail) /\ k \in DOMAIN flows'  BY <3>4, <3>5
        <5>2. QED  BY <5>1 DEF InFlows
      <4>3. ASSUME NEW x \in InFlows PROVE x \in InFlows'
        <5>1. CASE \E j \in DOMAIN flows : x \in ToSet(flows[j].trail)
          <6>1. PICK j \in DOMAIN flows : x \in ToSet(flows[j].trail)  BY <5>1
          <6>2. CASE j = k
            <7>1. x \in ToSet(flows'[k].trail) /\ k \in DOMAIN flows'  BY <3>4, <3>5, <6>1, <6>2
            <7>2. QED  BY <7>1 DEF InFlows
          <6>3. CASE j # k /\ j \notin gone
            <7>1. j \in DOMAIN flows' /\ flows'[j].trail = flows[j].trail
              BY <3>4, <3>5, <6>1, <6>3
            <7>2. QED  BY <6>1, <7>1 DEF InFlows
          <6>4. CASE j \in gone
            <7>1. Ended(j, "evicted") \in ended' /\ x \in ToSet(Ended(j, "evicted").trail)
              BY <3>4, <3>5, <6>1, <6>4
            <7>2. QED  BY <7>1 DEF InFlows
          <6>5. QED  BY <6>2, <6>3, <6>4
        <5>2. CASE \E e \in ended : x \in ToSet(e.trail)
          <6>1. PICK e \in ended : x \in ToSet(e.trail)  BY <5>2
          <6>2. e \in ended'  BY <3>4
          <6>3. QED  BY <6>1, <6>2 DEF InFlows
        <5>3. QED  BY <4>3, <5>1, <5>2 DEF InFlows
      <4>4. QED  BY <4>1, <4>2, <4>3
    <3>10. p \notin InFlows
      <4>1. /\ \A j \in DOMAIN flows : ToSet(flows[j].trail) \subseteq ToSet(delivered)
            /\ \A e \in ended : ToSet(e.trail) \subseteq ToSet(delivered)
        BY DEF TrailsApart, Held
      <4>2. QED  BY <2>1, <4>1 DEF InFlows
    <3>11. IsFiniteSet(InFlows') /\ Cardinality(InFlows') = Cardinality(InFlows) + 1
      BY <1>0, <3>9, <3>10, FS_AddElement
    <3>12. /\ Cardinality(DOMAIN flows') <= MaxFlows
           /\ Cardinality(DOMAIN flows') + Cardinality(ended')
                = f + g + (IF k \in DOMAIN flows THEN 0 ELSE 1)
      <4>0. f <= MaxFlows  BY DEF Tallies
      <4>1. CASE k \in DOMAIN flows
        <5>1. DOMAIN flows' = DOMAIN flows /\ ended' = ended  BY <3>4, <4>1
        <5>2. QED  BY <1>0, <4>0, <4>1, <5>1
      <4>2. CASE k \notin DOMAIN flows /\ gone = {}
        <5>1. DOMAIN flows' = DOMAIN flows \cup {k} /\ ended' = ended /\ f < MaxFlows
          BY <3>4, <4>2
        <5>2. Cardinality(DOMAIN flows') = f + 1  BY <1>0, <4>2, <5>1, FS_AddElement
        <5>3. QED  BY <1>0, <4>2, <5>1, <5>2
      <4>3. CASE k \notin DOMAIN flows /\ gone # {}
        <5>1. PICK j : gone = {j}  BY <3>4, <4>3
        <5>2. j \in DOMAIN flows /\ j # k  BY <3>4, <5>1
        <5>3. DOMAIN flows' = (DOMAIN flows \ {j}) \cup {k}
          BY <3>4, <5>1
        <5>4. /\ IsFiniteSet(DOMAIN flows \ {j}) /\ Cardinality(DOMAIN flows \ {j}) = f - 1
          BY <1>0, <5>2, FS_RemoveElement
        <5>5. Cardinality((DOMAIN flows \ {j}) \cup {k}) = Cardinality(DOMAIN flows \ {j}) + 1
          BY <4>3, <5>4, FS_AddElement
        <5>6. Cardinality(DOMAIN flows') = f  BY <1>0, <5>3, <5>4, <5>5
        <5>7. ended' = ended \cup {Ended(j, "evicted")} /\ Ended(j, "evicted") \notin ended
          BY <3>4, <3>7, <5>1
        <5>8. Cardinality(ended') = g + 1  BY <1>0, <5>7, FS_AddElement
        <5>9. QED  BY <1>0, <4>0, <4>3, <5>6, <5>8
      <4>4. QED  BY <4>1, <4>2, <4>3
    <3>13. /\ tracked.created = f + g /\ tracked.expired = Cardinality(ExpiredFlows)
           /\ stats.expired = tracked.expired /\ tracked.packets = Cardinality(InFlows)
      BY DEF Tallies
    <3>14. /\ tracked'.created = Cardinality(DOMAIN flows') + Cardinality(ended')
           /\ tracked'.expired = Cardinality(ExpiredFlows') /\ stats'.expired = tracked'.expired
           /\ tracked'.packets = Cardinality(InFlows')
      <4>1. tracked'.created = Cardinality(DOMAIN flows') + Cardinality(ended')
        BY <3>3, <3>12, <3>13
      <4>2. QED  BY <2>1, <3>3, <3>8, <3>11, <3>13, <4>1
    <3>15. QED  BY <3>3, <3>11, <3>12, <3>14 DEF Tallies
  <2>4. QED  BY <1>2, <2>2, <2>3 DEF ProcessOne, ProcessPacket, IgnorePacket
<1>3. CASE Expire
  <2> DEFINE over == Overdue(clock)
             out == {Expired(k) : k \in over}
             n == Cardinality(over)
  <2>1. /\ DOMAIN flows' = DOMAIN flows \ over /\ \A k \in DOMAIN flows' : flows'[k] = flows[k]
        /\ ended' = ended \cup out /\ over \subseteq DOMAIN flows
        /\ tracked' = [tracked EXCEPT !.expired = @ + n]
        /\ stats' = [stats EXCEPT !.expired = @ + n]
    BY <1>3 DEF Expire, ExpireFlows, Overdue
  <2> HIDE DEF over
  <2>2. /\ \A e \in out : \E k \in over : e = Expired(k) /\ e.trail = flows[k].trail
        /\ \A e \in out : e.how = "expired"
        /\ \A k \in over : Expired(k) \in out /\ Expired(k).trail = flows[k].trail
    BY EndedFields
  <2>3. IsFiniteSet(over) /\ n \in Nat
    BY <1>0, <2>1, FS_Subset, FS_CardinalityType
  <2> HIDE DEF n
  <2>4. IsFiniteSet(out) /\ Cardinality(out) = n
    <3> DEFINE h == [k \in over |-> Expired(k)]
    <3>1. DOMAIN h = over /\ {h[k] : k \in over} = out  OBVIOUS
    <3>2. \A i, j \in over : h[i] = h[j] => i = j
      <4>1. \A i \in over : h[i].key = i  BY EndedFields
      <4> HIDE DEF h
      <4>2. QED  BY <4>1
    <3> HIDE DEF h, out
    <3>3. QED  BY <2>3, <3>1, <3>2, ImageFinite DEF n
  <2> HIDE DEF out
  <2>5. out \cap ended = {}
    <3>1. SUFFICES ASSUME NEW e \in out, e \in ended PROVE FALSE
      OBVIOUS
    <3>2. PICK k \in over : e.trail = flows[k].trail  BY <2>2, <3>1
    <3>3. k \in DOMAIN flows /\ GoodTrail(flows[k].trail, k)  BY <2>1 DEF FlowsTyped
    <3>4. 1 \in DOMAIN flows[k].trail  BY <3>3 DEF GoodTrail
    <3>5. flows[k].trail[1] \in ToSet(flows[k].trail)  BY <3>4 DEF ToSet
    <3>6. Disjoint(flows[k].trail, e.trail)  BY <3>1, <3>3 DEF TrailsApart
    <3>7. QED  BY <3>2, <3>5, <3>6 DEF Disjoint
  <2>6. Cardinality(DOMAIN flows') = f - n
    <3>1. DOMAIN flows \cap over = over  BY <2>1
    <3>2. Cardinality(DOMAIN flows \ over) = f - Cardinality(DOMAIN flows \cap over)
      BY <1>0, FS_Difference
    <3>3. QED  BY <2>1, <3>1, <3>2 DEF n
  <2>7. Cardinality(ended') = g + n
    <3>1. Cardinality(ended \cup out) = g + Cardinality(out) - Cardinality(ended \cap out)
      BY <1>0, <2>4, FS_Union
    <3>2. ended \cap out = {} /\ Cardinality({}) = 0  BY <2>5, FS_EmptySet
    <3>3. Cardinality(ended \cap out) = 0  BY <3>2
    <3>4. Cardinality(ended \cup out) = g + n  BY <1>0, <2>3, <2>4, <3>1, <3>3
    <3>5. QED  BY <2>1, <3>4
  <2>8. Cardinality(ExpiredFlows') = Cardinality(ExpiredFlows) + n
    <3>1. ExpiredFlows' = ExpiredFlows \cup out  BY <2>1, <2>2 DEF ExpiredFlows
    <3>2. ExpiredFlows \cap out = {} /\ Cardinality({}) = 0
      BY <2>5, FS_EmptySet DEF ExpiredFlows
    <3>3. Cardinality(ExpiredFlows \cup out)
            = Cardinality(ExpiredFlows) + Cardinality(out) - Cardinality(ExpiredFlows \cap out)
      BY <1>0, <2>4, FS_Union
    <3>4. Cardinality(ExpiredFlows \cap out) = 0  BY <3>2
    <3>5. Cardinality(ExpiredFlows \cup out) = Cardinality(ExpiredFlows) + n
      BY <1>0, <2>3, <2>4, <3>3, <3>4
    <3>6. QED  BY <3>1, <3>5
  <2>9. InFlows' = InFlows
    <3>1. ASSUME NEW x \in InFlows' PROVE x \in InFlows
      <4>1. CASE \E k \in DOMAIN flows' : x \in ToSet(flows'[k].trail)
        <5>1. PICK k \in DOMAIN flows' : x \in ToSet(flows'[k].trail)  BY <4>1
        <5>2. k \in DOMAIN flows /\ x \in ToSet(flows[k].trail)  BY <2>1, <5>1
        <5>3. QED  BY <5>2 DEF InFlows
      <4>2. CASE \E e \in ended' : x \in ToSet(e.trail)
        <5>1. PICK e \in ended' : x \in ToSet(e.trail)  BY <4>2
        <5>2. CASE e \in ended  BY <5>1, <5>2 DEF InFlows
        <5>3. CASE e \in out
          <6>1. PICK k \in over : e.trail = flows[k].trail  BY <2>2, <5>3
          <6>2. k \in DOMAIN flows /\ x \in ToSet(flows[k].trail)  BY <2>1, <5>1, <6>1
          <6>3. QED  BY <6>2 DEF InFlows
        <5>4. QED  BY <2>1, <5>1, <5>2, <5>3
      <4>3. QED  BY <3>1, <4>1, <4>2 DEF InFlows
    <3>2. ASSUME NEW x \in InFlows PROVE x \in InFlows'
      <4>1. CASE \E k \in DOMAIN flows : x \in ToSet(flows[k].trail)
        <5>1. PICK k \in DOMAIN flows : x \in ToSet(flows[k].trail)  BY <4>1
        <5>2. CASE k \in over
          <6>1. Expired(k) \in ended' /\ x \in ToSet(Expired(k).trail)
            BY <2>1, <2>2, <5>1, <5>2
          <6>2. QED  BY <6>1 DEF InFlows
        <5>3. CASE k \notin over
          <6>1. k \in DOMAIN flows' /\ x \in ToSet(flows'[k].trail)  BY <2>1, <5>1, <5>3
          <6>2. QED  BY <6>1 DEF InFlows
        <5>4. QED  BY <5>2, <5>3
      <4>2. CASE \E e \in ended : x \in ToSet(e.trail)
        <5>1. PICK e \in ended : x \in ToSet(e.trail)  BY <4>2
        <5>2. e \in ended'  BY <2>1
        <5>3. QED  BY <5>1, <5>2 DEF InFlows
      <4>3. QED  BY <3>2, <4>1, <4>2 DEF InFlows
    <3>3. QED  BY <3>1, <3>2
  <2>10. stats'.expired = stats.expired + n  BY <2>1 DEF Typed, Counters
  <2>11. /\ tracked'.created = tracked.created /\ tracked'.expired = tracked.expired + n
         /\ tracked'.packets = tracked.packets
         /\ tracked' = [created |-> tracked'.created, expired |-> tracked'.expired,
                        packets |-> tracked'.packets, bytes |-> tracked'.bytes]
    BY <2>1 DEF Tallies
  <2>12. /\ tracked.created = f + g /\ tracked.expired = Cardinality(ExpiredFlows)
         /\ stats.expired = tracked.expired /\ tracked.packets = Cardinality(InFlows)
         /\ f <= MaxFlows
    BY DEF Tallies
  <2> HIDE DEF f, g
  <2>13. Cardinality(DOMAIN flows') <= MaxFlows
         /\ tracked'.created = Cardinality(DOMAIN flows') + Cardinality(ended')
    BY <1>0, <2>3, <2>6, <2>7, <2>11, <2>12
  <2>14. tracked'.expired = Cardinality(ExpiredFlows') /\ stats'.expired = tracked'.expired
    BY <2>8, <2>10, <2>11, <2>12
  <2>15. IsFiniteSet(InFlows') /\ tracked'.packets = Cardinality(InFlows')
    BY <1>0, <2>9, <2>11, <2>12
  <2>16. QED  BY <2>11, <2>13, <2>14, <2>15 DEF Tallies
<1>4. ASSUME NEW t \in Captors, NEW ts, Receive(t, ts) PROVE Tallies'
  <2>1. stats' = [stats EXCEPT !.captured = @ + 1] /\ UNCHANGED flowVars
    BY <1>4 DEF Receive
  <2>2. stats'.expired = stats.expired  BY <2>1 DEF Typed, Counters
  <2>3. QED  BY <1>1, <2>1, <2>2
<1>5. ASSUME NEW t \in Captors, Drop(t) PROVE Tallies'
  <2>1. stats' = [stats EXCEPT !.dropped = @ + 1] /\ UNCHANGED flowVars
    BY <1>5 DEF Drop
  <2>2. stats'.expired = stats.expired  BY <2>1 DEF Typed, Counters
  <2>3. QED  BY <1>1, <2>1, <2>2
<1>6. ASSUME UNCHANGED <<flowVars, stats>> PROVE Tallies'
  BY <1>1, <1>6
<1>7. QED
  BY <1>2, <1>3, <1>4, <1>5, <1>6
  DEF Next, Captor, vars, StartRefused, Start, Stop, Stopped, NoFrame, PcapReceive, Push,
      PcapBreaks, AfPacketReceive, DpdkReceive, FlushBatch, ProcessingExits, PublishFlows,
      FrameArrives, Tick

\* At first there is no flow.
LEMMA InitFlows == Init => TrailsApart /\ Exports /\ Tallies
<1> SUFFICES ASSUME Init PROVE TrailsApart /\ Exports /\ Tallies
  OBVIOUS
<1>1. /\ flows = << >> /\ ended = {} /\ export = {}
      /\ tracked = [created |-> 0, expired |-> 0, packets |-> 0, bytes |-> 0]
      /\ stats = [captured |-> 0, dropped |-> 0, expired |-> 0]
      /\ outq = << >> /\ settled = << >> /\ refused = {}
  BY DEF Init, FlowInit, ProducerInit
<1>2. DOMAIN flows = {} /\ Len(<< >>) = 0 /\ << >> \o << >> = << >>  BY <1>1
<1>3. Published = << >>  BY <1>1, <1>2 DEF Published
<1>4. TrailsApart  BY <1>1, <1>2 DEF TrailsApart
<1>5. Announced = {}
  <2>1. ToSet(<< >>) = {}  BY DEF ToSet
  <2>2. QED  BY <1>1, <1>3, <2>1 DEF Announced, AnnouncedIn
<1>6. OnceIn(Published, refused)
  <2>1. 1 .. Len(Published) = {} /\ ToSet(Published) = {}  BY <1>2, <1>3 DEF ToSet
  <2>2. QED  BY <2>1 DEF OnceIn
<1>7. Exports  BY <1>1, <1>2, <1>5, <1>6 DEF Exports
<1>8. InFlows = {} /\ ExpiredFlows = {}  BY <1>1, <1>2 DEF InFlows, ExpiredFlows
<1>9. Tallies
  BY <1>1, <1>2, <1>8, FS_EmptySet, FlowAssumption DEF Tallies
<1>10. QED  BY <1>4, <1>7, <1>9

\* Flows of the table and ended ones: as many as were created.
LEMMA AccountedByInvariants == FlowsTyped /\ TrailsApart /\ Tallies => FlowsAccounted
<1> SUFFICES ASSUME FlowsTyped, TrailsApart, Tallies PROVE FlowsAccounted
  OBVIOUS
<1> DEFINE active == {Ended(k, "active") : k \in DOMAIN flows}
<1>1. /\ \A k \in DOMAIN flows : /\ Ended(k, "active").trail = flows[k].trail
                                 /\ Ended(k, "active").how = "active"
                                 /\ Ended(k, "active").key = k
  BY DEF Ended
<1>2. AllFlows = active \cup ended  BY DEF AllFlows
<1>3. IsFiniteSet(active) /\ Cardinality(active) = Cardinality(DOMAIN flows)
  <2> DEFINE h == [k \in DOMAIN flows |-> Ended(k, "active")]
  <2>1. DOMAIN h = DOMAIN flows /\ {h[k] : k \in DOMAIN flows} = active  OBVIOUS
  <2>2. \A i, j \in DOMAIN flows : h[i] = h[j] => i = j
    <3>1. \A i \in DOMAIN flows : h[i].key = i  BY <1>1
    <3> HIDE DEF h
    <3>2. QED  BY <3>1
  <2>3. IsFiniteSet(DOMAIN flows)  BY DEF FlowsTyped
  <2> HIDE DEF h, active
  <2>4. QED  BY <2>1, <2>2, <2>3, ImageFinite
<1>4. \A e \in active : \E k \in DOMAIN flows : e.trail = flows[k].trail /\ e.how = "active"
                                                /\ e = Ended(k, "active")
  BY <1>1
<1>5. \A k \in DOMAIN flows : \E e \in active : e.trail = flows[k].trail
  BY <1>1
<1> HIDE DEF active
<1>6. active \cap ended = {}  BY <1>4 DEF FlowsTyped
<1>7. tracked.created = Cardinality(AllFlows)
  <2>1. IsFiniteSet(ended) /\ Cardinality(ended) \in Nat /\ Cardinality(active) \in Nat
    BY <1>3, FS_CardinalityType DEF FlowsTyped
  <2>2. Cardinality(active \cup ended)
          = Cardinality(active) + Cardinality(ended) - Cardinality(active \cap ended)
    BY <1>3, <2>1, FS_Union
  <2>3. Cardinality({}) = 0  BY FS_EmptySet
  <2>4. Cardinality(active \cap ended) = 0  BY <1>6, <2>3
  <2>5. Cardinality(active \cup ended) = Cardinality(DOMAIN flows) + Cardinality(ended)
    BY <1>3, <2>1, <2>2, <2>4
  <2>6. QED  BY <1>2, <2>5 DEF Tallies
<1>8. UNION {ToSet(e.trail) : e \in AllFlows} = InFlows
  <2>1. ASSUME NEW x, NEW e \in AllFlows, x \in ToSet(e.trail) PROVE x \in InFlows
    <3>1. CASE e \in ended  BY <2>1, <3>1 DEF InFlows
    <3>2. CASE e \in active
      <4>1. PICK k \in DOMAIN flows : e.trail = flows[k].trail  BY <1>4, <3>2
      <4>2. QED  BY <2>1, <4>1 DEF InFlows
    <3>3. QED  BY <1>2, <2>1, <3>1, <3>2
  <2>2. ASSUME NEW x \in InFlows PROVE \E e \in AllFlows : x \in ToSet(e.trail)
    <3>1. CASE \E k \in DOMAIN flows : x \in ToSet(flows[k].trail)
      <4>1. PICK k \in DOMAIN flows : x \in ToSet(flows[k].trail)  BY <3>1
      <4>2. PICK e \in active : e.trail = flows[k].trail  BY <1>5
      <4>3. QED  BY <1>2, <4>1, <4>2
    <3>2. CASE \E e \in ended : x \in ToSet(e.trail)  BY <1>2, <3>2
    <3>3. QED  BY <2>2, <3>1, <3>2 DEF InFlows
  <2>3. QED  BY <2>1, <2>2
<1>9. ASSUME NEW e \in AllFlows PROVE IsInjective(e.trail)
  <2>1. CASE e \in ended  BY <2>1 DEF TrailsApart, Held
  <2>2. CASE e \in active  BY <1>4, <2>2 DEF TrailsApart, Held
  <2>3. QED  BY <1>2, <2>1, <2>2
<1>10. ASSUME NEW e \in AllFlows, NEW f \in AllFlows, e # f
       PROVE  ToSet(e.trail) \cap ToSet(f.trail) = {}
  <2>1. CASE e \in ended /\ f \in ended  BY <1>10, <2>1 DEF TrailsApart, Disjoint
  <2>2. CASE e \in active /\ f \in ended
    <3>1. PICK k \in DOMAIN flows : e.trail = flows[k].trail  BY <1>4, <2>2
    <3>2. QED  BY <2>2, <3>1 DEF TrailsApart, Disjoint
  <2>3. CASE e \in ended /\ f \in active
    <3>1. PICK k \in DOMAIN flows : f.trail = flows[k].trail  BY <1>4, <2>3
    <3>2. ToSet(flows[k].trail) \cap ToSet(e.trail) = {}  BY <2>3 DEF TrailsApart, Disjoint
    <3>3. QED  BY <3>1, <3>2
  <2>4. CASE e \in active /\ f \in active
    <3>1. PICK j \in DOMAIN flows : e.trail = flows[j].trail /\ e = Ended(j, "active")
      BY <1>4, <2>4
    <3>2. PICK k \in DOMAIN flows : f.trail = flows[k].trail /\ f = Ended(k, "active")
      BY <1>4, <2>4
    <3>3. j # k  BY <1>10, <3>1, <3>2
    <3>4. QED  BY <3>1, <3>2, <3>3 DEF TrailsApart, Disjoint
  <2>5. QED  BY <1>2, <2>1, <2>2, <2>3, <2>4
<1>11. QED
  BY <1>7, <1>8, <1>9, <1>10 DEF FlowsAccounted, Tallies, ExpiredFlows

\* Events of flows are announced once, and so are those of packets.
LEMMA PublishedByInvariants ==
    Typed /\ FlowsTyped /\ Apart /\ Batched /\ Exports /\ Tallies => ExpiredPublished
<1> SUFFICES ASSUME Typed, FlowsTyped, Apart, Batched, Exports, Tallies PROVE ExpiredPublished
  OBVIOUS
<1>1. /\ delivered \in Seq(Packets) /\ queue \in Seq(Packets) /\ batch \in Seq(PacketIds)
      /\ Published \in Seq(Messages)
  BY PublishedTyped DEF Typed
<1>2. Distinct(delivered)
  <2>1. Distinct(delivered \o queue)  BY DEF Apart, Arrived
  <2>2. QED  BY <1>1, <2>1, DistinctPrefix
<1>3. EventsOf(delivered, batch, Published, refused)
  BY <1>1, <1>2, EventsOnce DEF Batched
<1>4. DOMAIN Published = 1 .. Len(Published)  BY <1>1
<1>5. ASSUME NEW i \in DOMAIN Published, NEW j \in DOMAIN Published, i < j
      PROVE  Published[i] # Published[j]
  <2>1. SUFFICES ASSUME Published[i] = Published[j] PROVE FALSE
    OBVIOUS
  <2>2. CASE IsFlow(Published[i])
    <3>1. i = j  BY <1>4, <2>1, <2>2 DEF Exports, OnceIn
    <3>2. QED  BY <1>4, <1>5, <3>1
  <2>3. CASE ~IsFlow(Published[i])
    <3>1. PICK k \in DOMAIN Ids(delivered), l \in DOMAIN Ids(delivered) :
            k < l /\ Ids(delivered)[k] = Published[i] /\ Ids(delivered)[l] = Published[j]
      BY <1>3, <1>5, <2>1, <2>3 DEF EventsOf
    <3>2. k \in 1 .. Len(delivered) /\ l \in 1 .. Len(delivered)
          /\ delivered[k].id = delivered[l].id
      BY <1>1, <2>1, <3>1, IdsOf
    <3>3. k = l  BY <1>2, <3>2 DEF Distinct
    <3>4. QED  BY <3>1, <3>2, <3>3
  <2>4. QED  BY <2>2, <2>3
<1>6. IsInjective(Published)
  <2>1. \A i, j \in DOMAIN Published : Published[i] = Published[j] => i = j
    BY <1>4, <1>5
  <2>2. QED  BY <2>1 DEF IsInjective
<1>7. ToSet(Published) \cap refused = {}
  BY <1>3 DEF EventsOf, PacketsOf, Exports, OnceIn
<1>8. {e \in ended : e.how = "expired"
                      /\ <<"flow", e.trail[1].id>> \notin ToSet(Published) \cup refused} = export
  <2>1. \A e : IsFlow(EventOf(e.trail)) /\ EventOf(e.trail) = <<"flow", e.trail[1].id>>
    BY DEF IsFlow, EventOf
  <2>2. \A e : EventOf(e.trail) \in Announced
               <=> <<"flow", e.trail[1].id>> \in ToSet(Published) \cup refused
    BY <2>1 DEF Announced, AnnouncedIn
  <2>3. \A e \in export : e \in ended /\ e.how = "expired"  BY DEF FlowsTyped
  <2>4. QED  BY <2>2, <2>3 DEF Exports
<1>9. stats.expired = tracked.expired  BY DEF Tallies
<1>10. QED  BY <1>6, <1>7, <1>8, <1>9 DEF ExpiredPublished

\* No flow vanishes between its first packet and the broker: one that was
\* created is in the table, evicted, or expired and then in the expiry
\* thread's hand, published or refused, once, whenever stop() came; and every
\* tracked packet is in one flow.
THEOREM FlowsKept == Spec => []FlowsConserved
<1> DEFINE P == Typed /\ FlowsTyped /\ Apart /\ Counted /\ Batched
           Inv == TrailsApart /\ Exports /\ Tallies
<1>1. Init => Inv  BY InitFlows
<1>2. P /\ P' /\ Inv /\ [Next]_vars => Inv'
  BY NextTrailsApart, NextExports, NextTallies
<1>3. P /\ Inv => FlowsConserved
  BY AccountedByInvariants, PublishedByInvariants DEF FlowsConserved
<1>4. Spec => []P  BY AlwaysPackets
<1> HIDE DEF P, Inv
<1>5. QED  BY <1>1, <1>2, <1>3, <1>4, PTL DEF Spec

=============================================================================
