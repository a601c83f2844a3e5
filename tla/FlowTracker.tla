----------------------------- MODULE FlowTracker -----------------------------
(***************************************************************************)
(* FlowTracker: the table of bidirectional flows that packet capture keeps *)
(* and the statistics of each flow, maintained packet by packet.  Every    *)
(* operation holds mutex_, so each is one action.                          *)
(*                                                                         *)
(* A frame is a record of the header fields the code reads.  Doubles are   *)
(* exact fixed-point numbers: a mean is stored Scale times enlarged, a sum *)
(* of squared deviations Scale^2 times; both are whole as long as every    *)
(* packet count divides Scale.  Time runs in ticks, TicksPerMs to a        *)
(* millisecond, and is positive.                                           *)
(***************************************************************************)
EXTENDS Integers, Sequences, FiniteSets, SequencesExt

CONSTANTS
    Frames,        \* the frames that can be on the wire
    Scale,         \* enlargement of the doubles
    TicksPerMs,    \* clock ticks in a millisecond
    MaxFlows,      \* config max_flows
    FlowTimeout, IdleTimeout  \* config flow_timeout_seconds, idle_timeout_seconds, in ticks

ASSUME FlowAssumption ==
    /\ {Scale, TicksPerMs, MaxFlows} \subseteq Nat \ {0}
    /\ {FlowTimeout, IdleTimeout} \subseteq Nat
    /\ \A f \in Frames : {f.src, f.dst, f.sport, f.dport} \subseteq Nat

VARIABLES
    flows,    \* flows_: key -> [stats, trail]; trail is history, see below
    tracked,  \* stats_ of the tracker
    ended     \* history: the flows no longer in the table, how they ended

flowVars == <<flows, tracked, ended>>

TcpFlags == {"FIN", "SYN", "RST", "PSH", "ACK", "URG", "ECE", "CWR"}
SetMax(S) == CHOOSE x \in S : \A y \in S : y <= x
SetMin(S) == CHOOSE x \in S : \A y \in S : x <= y

-----------------------------------------------------------------------------
(* Parsing *)

EthernetHeader == 14
VlanTag == 4
IPHeader == 20
TCPHeader == 20
UDPHeader == 8

IpOffset(f) == EthernetHeader + IF f.ethertype = "VLAN" THEN VlanTag ELSE 0

\* Where the part of the frame that parse_packet reads ends.
ReadEnd(f) == IpOffset(f) + CASE f.proto = "TCP" -> f.ihl * 4 + TCPHeader
                              [] f.proto = "UDP" -> f.ihl * 4 + UDPHeader
                              [] OTHER -> IPHeader

\* parse_packet: only IPv4, plain or under one VLAN tag, and long enough.
Parses(f) ==
    /\ f.len >= EthernetHeader + IPHeader
    /\ \/ f.ethertype = "IPv4"
       \/ /\ f.ethertype = "VLAN" /\ f.inner = "IPv4"
          /\ f.len >= EthernetHeader + VlanTag + IPHeader
    /\ IpOffset(f) + IPHeader <= f.len
    /\ f.version = 4 /\ f.ihl * 4 >= 20
    /\ ReadEnd(f) <= f.len

\* The five-tuple; protocols without ports have ports 0.
FlowKey(f) ==
    LET ports == f.proto \in {"TCP", "UDP"}
    IN  [src |-> f.src, dst |-> f.dst, proto |-> f.proto,
         sport |-> IF ports THEN f.sport ELSE 0, dport |-> IF ports THEN f.dport ELSE 0]

Reversed(k) == [k EXCEPT !.src = k.dst, !.dst = k.src, !.sport = k.dport, !.dport = k.sport]

\* Mutant of IsForward: ports are not looked at when the addresses are equal.
IsForwardByAddress(k) == k.src <= k.dst

\* The direction normalize_key assigns: from the lower address, then port.
IsForward(k) == k.src < k.dst \/ (k.src = k.dst /\ k.sport <= k.dport)

NormalizeKey(k) == IF IsForward(k) THEN k ELSE Reversed(k)

\* process_packet takes the flag byte of TCP packets only.
FlagsOf(f) == IF f.proto = "TCP" THEN f.flags ELSE {}

-----------------------------------------------------------------------------
(* Statistics *)

NoSample == [min |-> 0, max |-> 0, mean |-> 0, m2 |-> 0]

\* Mutant of Welford: both factors of the product use the old mean.
WelfordOldMean(a, x, n) ==
    LET delta == Scale * x - a.mean
    IN  [mean |-> a.mean + delta \div n, m2 |-> a.m2 + delta * delta]

\* welford_update, x being the n-th sample.
Welford(a, x, n) ==
    LET delta == Scale * x - a.mean
        mean  == a.mean + delta \div n
    IN  [mean |-> mean, m2 |-> a.m2 + delta * (Scale * x - mean)]

\* The n-th sample: the first one sets everything, a later one updates.
Sample(a, x, n) ==
    IF n = 1
    THEN [min |-> x, max |-> x, mean |-> Scale * x, m2 |-> 0]
    ELSE LET w == Welford(a, x, n)
         IN  [min |-> SetMin({a.min, x}), max |-> SetMax({a.max, x}),
              mean |-> w.mean, m2 |-> w.m2]

\* Packets of one direction, or of both.
NoPackets == [count |-> 0, bytes |-> 0, size |-> NoSample, iat |-> NoSample,
              last |-> 0, psh |-> 0, urg |-> 0]

One(b) == IF b THEN 1 ELSE 0

\* One more packet: its size is a sample, and, if it is not the first, so is
\* the time since the one before it.
CountPacket(d, len, ts, flags) ==
    LET n == d.count + 1
    IN  [count |-> n, bytes |-> d.bytes + len, size |-> Sample(d.size, len, n),
         iat   |-> IF n > 1 /\ d.last > 0 THEN Sample(d.iat, ts - d.last, n - 1) ELSE d.iat,
         last  |-> ts,
         psh   |-> d.psh + One("PSH" \in flags),
         urg   |-> d.urg + One("URG" \in flags)]

Directions == {"all", "fwd", "bwd"}
RatioFlags == {"SYN", "RST", "PSH", "ACK"}

\* What finalize_stats sets, before it does.
NotDerived ==
    [duration |-> 0, sizeVar |-> [d \in Directions |-> <<0, 1>>],
     iatVar |-> [d \in Directions |-> <<0, 1>>], byteRate |-> <<0, 1>>,
     packetRate |-> <<0, 1>>, flagRatio |-> [g \in RatioFlags |-> <<0, 1>>], header |-> <<0, 1>>]

\* The statistics of a new FlowEntry.
NewStats(ts) ==
    [start |-> ts, all |-> NoPackets, fwd |-> NoPackets, bwd |-> NoPackets,
     flag |-> [g \in TcpFlags |-> 0], derived |-> NotDerived]

\* update_flow_stats
UpdateFlowStats(s, len, ts, forward, flags) ==
    [s EXCEPT
        !.all  = CountPacket(@, len, ts, flags),
        !.fwd  = IF forward THEN CountPacket(@, len, ts, flags) ELSE @,
        !.bwd  = IF forward THEN @ ELSE CountPacket(@, len, ts, flags),
        !.flag = [g \in TcpFlags |-> @[g] + One(g \in flags)]]

\* The variance of n samples as a fraction; std_* is its square root.
Variance(m2, n) == IF n > 1 THEN <<m2, n - 1>> ELSE <<0, 1>>

\* duration_cast to milliseconds truncates towards zero.
Millis(ticks) == IF ticks >= 0 THEN ticks \div TicksPerMs ELSE -((-ticks) \div TicksPerMs)

PerSecond(x, ms) == IF ms > 0 THEN <<x * 1000, ms>> ELSE <<0, 1>>

\* finalize_stats: n packets have n - 1 inter-arrival times.
FinalizeStats(s) ==
    LET ms == Millis(s.all.last - s.start)
    IN  [s EXCEPT !.derived =
          [duration |-> ms,
           sizeVar |-> [d \in Directions |-> Variance(s[d].size.m2, s[d].count)],
           iatVar |-> [d \in Directions |-> Variance(s[d].iat.m2, s[d].count - 1)],
           byteRate |-> PerSecond(s.all.bytes, ms), packetRate |-> PerSecond(s.all.count, ms),
           flagRatio |-> [g \in RatioFlags |-> <<s.flag[g], s.all.count>>],
           header |-> <<s.all.bytes - (s.fwd.bytes - s.fwd.count * IPHeader)
                                    - (s.bwd.bytes - s.bwd.count * IPHeader), s.all.count>>]]

\* extract_features: the quotients it forms itself, guarded against zero, next
\* to the fields it copies (s itself).
Quotient(a, b) == IF b > 0 THEN <<a, b>> ELSE <<0, 1>>
ExtractFeatures(s) ==
    [copied |-> s,
     packetRate |-> [d \in {"fwd", "bwd"} |-> PerSecond(s[d].count, s.derived.duration)],
     byteRate |-> [d \in {"fwd", "bwd"} |-> PerSecond(s[d].bytes, s.derived.duration)],
     minMax |-> [d \in Directions |-> Quotient(s[d].size.min, s[d].size.max)],
     downUp |-> Quotient(s.bwd.count, s.fwd.count),
     average |-> Quotient(s.all.bytes, s.all.count),
     meanRatio |-> Quotient(s.fwd.size.mean, s.bwd.size.mean),
     countRatio |-> Quotient(s.fwd.count, s.bwd.count),
     byteRatio |-> Quotient(s.fwd.bytes, s.bwd.bytes)]

-----------------------------------------------------------------------------
(* The table.  A packet is [id, frame, ts]; a flow's trail is the history  *)
(* of the packets it was given.                                            *)

FlowInit ==
    /\ flows = << >>
    /\ tracked = [created |-> 0, expired |-> 0, packets |-> 0, bytes |-> 0]
    /\ ended = {}

\* The entry e after packet p.
Updated(e, p) ==
    [stats |-> UpdateFlowStats(e.stats, p.frame.len, p.ts, IsForward(FlowKey(p.frame)),
                               FlagsOf(p.frame)),
     trail |-> Append(e.trail, p)]

Ended(k, how) == [how |-> how, key |-> k, stats |-> flows[k].stats, trail |-> flows[k].trail]

\* What is erased to make room for a new flow: nothing, or, in a full table,
\* flows_.begin(), which can be any flow.
Victims ==
    IF Cardinality(DOMAIN flows) < MaxFlows THEN {{}} ELSE {{k} : k \in DOMAIN flows}

\* process_packet of a packet that does not parse.
IgnorePacket(p) == ~Parses(p.frame) /\ UNCHANGED flowVars

\* process_packet of a packet that belongs to a flow, or starts one.
TrackPacket(p) ==
    LET k == NormalizeKey(FlowKey(p.frame))
        new == k \notin DOMAIN flows
        old == IF new THEN [stats |-> NewStats(p.ts), trail |-> << >>] ELSE flows[k]
    IN  /\ Parses(p.frame)
        /\ \E gone \in IF new THEN Victims ELSE {{}} :
             /\ flows' = [j \in (DOMAIN flows \ gone) \cup {k} |->
                            IF j = k THEN Updated(old, p) ELSE flows[j]]
             /\ ended' = ended \cup {Ended(j, "evicted") : j \in gone}
        /\ tracked' = [tracked EXCEPT !.created = @ + One(new), !.packets = @ + 1,
                                      !.bytes = @ + p.frame.len]

ProcessPacket(p) == IgnorePacket(p) \/ TrackPacket(p)

\* The flows expire_flows takes out at time now.
Overdue(now) ==
    {k \in DOMAIN flows : \/ now - flows[k].stats.start > FlowTimeout
                          \/ now - flows[k].stats.all.last > IdleTimeout}

\* A flow as expire_flows returns it.
Expired(k) == [Ended(k, "expired") EXCEPT !.stats = FinalizeStats(@)]

\* expire_flows
ExpireFlows(now) ==
    /\ flows' = [k \in DOMAIN flows \ Overdue(now) |-> flows[k]]
    /\ ended' = ended \cup {Expired(k) : k \in Overdue(now)}
    /\ tracked' = [tracked EXCEPT !.expired = @ + Cardinality(Overdue(now))]

-----------------------------------------------------------------------------
(* Properties *)

AllFlows == {Ended(k, "active") : k \in DOMAIN flows} \cup ended

\* The packets of a trail in one direction: "fwd" is what the key's source
\* sent, told by the endpoints alone.
Sent(trail, k, d) ==
    LET fwd(p) == <<FlowKey(p.frame).src, FlowKey(p.frame).sport>> = <<k.src, k.sport>>
    IN  CASE d = "all" -> trail
          [] d = "fwd" -> SelectSeq(trail, fwd)
          [] d = "bwd" -> SelectSeq(trail, LAMBDA p : ~fwd(p))

SumOver(xs) == FoldSeq(LAMBDA x, y : x + y, 0, xs)

\* Minimum, maximum, mean and squared deviations of xs, by their definitions.
Summary(xs) ==
    LET mean == (Scale * SumOver(xs)) \div Len(xs)
    IN  IF xs = << >> THEN NoSample
        ELSE [min |-> SetMin(ToSet(xs)), max |-> SetMax(ToSet(xs)), mean |-> mean,
              m2 |-> SumOver([i \in DOMAIN xs |-> (Scale * xs[i] - mean) * (Scale * xs[i] - mean)])]

CountFlag(ps, g) == Cardinality({i \in DOMAIN ps : ps[i].frame.proto = "TCP"
                                                   /\ g \in ps[i].frame.flags})

\* What the statistics of packets ps should be.
Batch(ps) ==
    [count |-> Len(ps), bytes |-> SumOver([i \in DOMAIN ps |-> ps[i].frame.len]),
     size |-> Summary([i \in DOMAIN ps |-> ps[i].frame.len]),
     iat |-> Summary([i \in 1 .. Len(ps) - 1 |-> ps[i + 1].ts - ps[i].ts]),
     last |-> IF ps = << >> THEN 0 ELSE Last(ps).ts,
     psh |-> CountFlag(ps, "PSH"), urg |-> CountFlag(ps, "URG")]

\* The statistics kept packet by packet (Welford's method, running minima and
\* maxima, per direction) are those of the flow's packets, computed from the
\* packets at once: whichever way packets of two directions interleave, and
\* for flows still active, expired or evicted.
RunningStatsExact ==
    \A e \in AllFlows :
        /\ e.stats.start = Head(e.trail).ts
        /\ \A d \in Directions : e.stats[d] = Batch(Sent(e.trail, e.key, d))
        /\ \A g \in TcpFlags : e.stats.flag[g] = CountFlag(e.trail, g)

SquaredDeviation(xs) ==
    IF Len(xs) < 2 THEN <<0, 1>> ELSE <<Summary(xs).m2, Len(xs) - 1>>

\* An exported flow carries finalised statistics: the sample variances of its
\* packets' sizes and gaps, its duration and its flag ratios.  What
\* extract_features reads of a flow in the table is not finalised: duration,
\* deviations and rates are still zero.
FinalisedWhenExported ==
    /\ \A e \in ended : e.how = "expired" =>
         \A d \in Directions : LET ps == Sent(e.trail, e.key, d) IN
           /\ e.stats.derived.sizeVar[d] = SquaredDeviation([i \in DOMAIN ps |-> ps[i].frame.len])
           /\ e.stats.derived.iatVar[d] =
                SquaredDeviation([i \in 1 .. Len(ps) - 1 |-> ps[i + 1].ts - ps[i].ts])
           /\ e.stats.derived.duration = Millis(Last(e.trail).ts - Head(e.trail).ts)
           /\ e.stats.derived.flagRatio["SYN"] = <<CountFlag(e.trail, "SYN"), Len(e.trail)>>
           /\ e.stats.derived.header = <<IPHeader * Len(e.trail), Len(e.trail)>>
    /\ \A k \in DOMAIN flows : LET x == ExtractFeatures(flows[k].stats) IN
           /\ x.copied.derived = NotDerived
           /\ x.packetRate = [d \in {"fwd", "bwd"} |-> <<0, 1>>]

\* The statistics of every flow are exact, while it is tracked and as it is
\* exported: those of its packets, whatever their number, order and direction.
FlowStatsExact == RunningStatsExact /\ FinalisedWhenExported

\* The two endpoints of a frame and its protocol.
Conversation(f) == LET k == FlowKey(f)
                   IN  <<{<<k.src, k.sport>>, <<k.dst, k.dport>>}, k.proto>>

\* Both directions of a conversation are one flow: no two flows of the table
\* are of the same conversation and no flow mixes two.
OneFlowPerConversation ==
    /\ \A e \in AllFlows : \A i \in DOMAIN e.trail :
           Conversation(e.trail[i].frame) = Conversation(e.trail[1].frame)
    /\ \A j, k \in DOMAIN flows :
           Conversation(flows[j].trail[1].frame) = Conversation(flows[k].trail[1].frame) => j = k

\* The tracker's counters add up: a flow that was created is in the table, was
\* expired or was evicted, the table never outgrows max_flows, and a packet
\* that was counted is in exactly one flow, once.
FlowsAccounted ==
    /\ Cardinality(DOMAIN flows) <= MaxFlows
    /\ tracked.created = Cardinality(AllFlows)
    /\ tracked.expired = Cardinality({e \in ended : e.how = "expired"})
    /\ tracked.packets = Cardinality(UNION {ToSet(e.trail) : e \in AllFlows})
    /\ \A e \in AllFlows : IsInjective(e.trail)
    /\ \A e, f \in AllFlows : e # f => ToSet(e.trail) \cap ToSet(f.trail) = {}
=============================================================================
