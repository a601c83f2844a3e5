---------------------------- MODULE PacketCapture ----------------------------
(***************************************************************************)
(* PacketCapture: capture threads read the interface and push packets to   *)
(* ring_buffer_; one processing thread pops them, feeds the flow tracker   *)
(* and batches packet events for Kafka; one thread expires flows and       *)
(* publishes them.  start() and stop() are called by one thread.           *)
(*                                                                         *)
(* Every capture thread opens a handle of its own on the same interface,   *)
(* so each of them sees every frame.  ring_buffer_ is the bounded FIFO     *)
(* that ConcurrentRingBuffer implements.                                   *)
(***************************************************************************)
EXTENDS FlowTracker, KafkaProducer

CONSTANTS
    Captors,             \* the capture threads
    Configs,             \* what to start from, see CaptureAssumption
    RingLimit,           \* usable slots of ring_buffer_
    BatchSize            \* config batch_size

ASSUME CaptureAssumption ==
    /\ {RingLimit, BatchSize} \subseteq Nat \ {0}
    /\ IsFiniteSet(Captors) /\ "flow" \notin Captors
    /\ \A c \in Configs :
         /\ c.mode \in {"LibPcap", "AF_PACKET", "DPDK", "PF_RING"}
         /\ c.threads \subseteq Captors     \* worker_threads of them
         /\ c.extract_flows \in BOOLEAN
         /\ c.traffic \in Seq(SUBSET Frames)  \* what the i-th frame may be
         /\ {c.maxStops, c.maxTime} \subseteq Nat  \* calls of stop(), the clock's end

VARIABLES
    config, running, phase, \* config_, running_, the controlling thread
    tpc, hand,   \* per capture thread: place in its loop, the packet in hand
    seen,        \* per capture thread: the frames its handle has delivered
    ppc, batch,  \* processing_loop: place, the packet ids batched
    xpc, export, \* flow_expiry_loop: place, the expired flows in hand
    stats,       \* stats_: packets_captured, packets_dropped, flows_expired
    queue, delivered, \* ring_buffer_, and what was popped from it
    wire,        \* the frames on the interface, with their times
    dropped,     \* history: packets the full ring refused
    clock, stops

threadVars == <<tpc, hand, seen, ppc, batch, xpc, export>>
vars == <<config, running, phase, threadVars, stats, queue, delivered, wire, dropped, clock,
          stops, flowVars, producerVars>>

None == [id |-> <<>>]
Ring == INSTANCE BoundedFifo WITH Values <- {}, Limit <- RingLimit

\* The threads that capture: DPDK has one, the other modes worker_threads.
Capturing == IF config.mode = "DPDK" THEN {CHOOSE t \in config.threads : TRUE} ELSE config.threads

-----------------------------------------------------------------------------
Init ==
    /\ config \in Configs /\ running = FALSE /\ phase = "idle"
    /\ tpc = [t \in Captors |-> "exited"] /\ hand = [t \in Captors |-> None]
    /\ seen = [t \in Captors |-> 0]
    /\ ppc = "exited" /\ batch = << >> /\ xpc = "exited" /\ export = {}
    /\ stats = [captured |-> 0, dropped |-> 0, expired |-> 0]
    /\ Ring!Init /\ wire = << >> /\ dropped = {}
    /\ clock = 1 /\ stops = 0
    /\ FlowInit /\ ProducerInit

\* The capture threads that get past their setup: where a device, a socket or
\* a handle cannot be opened, the thread returns, and the others go on.
Opened == SUBSET Capturing

\* start(): launch the threads.  Handles are opened anew, so the frames of
\* the time between are not seen.
Start ==
    /\ phase = "idle" /\ config.mode # "PF_RING"
    /\ running' = TRUE /\ phase' = "running"
    /\ \E open \in Opened :
         tpc' = [t \in Captors |-> IF t \in open THEN "armed" ELSE "exited"]
    /\ seen' = [t \in Captors |-> Len(wire)]
    /\ ppc' = "loop" /\ xpc' = IF config.extract_flows THEN "asleep" ELSE "exited"
    /\ UNCHANGED <<config, hand, batch, export, stats, queue, delivered, wire, dropped, clock,
                   stops, flowVars, producerVars>>

\* start() in a mode that is not there: running_ is set and taken back.
StartRefused == phase = "idle" /\ config.mode = "PF_RING" /\ UNCHANGED vars

Stop ==
    /\ phase = "running" /\ stops < config.maxStops
    /\ running' = FALSE /\ phase' = "joining" /\ stops' = stops + 1
    /\ UNCHANGED <<config, threadVars, stats, queue, delivered, wire, dropped, clock, flowVars,
                   producerVars>>

AllExited == (\A t \in Captors : tpc[t] = "exited") /\ ppc = "exited" /\ xpc = "exited"

\* stop(): all threads are joined and flush() has returned.
Stopped ==
    /\ phase = "joining" /\ AllExited
    /\ phase' = "idle"
    /\ Flush
    /\ UNCHANGED <<config, running, threadVars, stats, queue, delivered, wire, dropped, clock,
                   stops, flowVars>>

(* pcap_capture_loop, af_packet_capture_loop, dpdk_capture_loop *)

(* A thread that found running_ set is "armed": it waits for a frame.      *)

\* Back at the head of the loop, running_ is read again.
HeadOfLoop == IF running THEN "armed" ELSE "exited"

\* Mutant of NoFrame: the wait for a frame has no timeout.
WaitsForFrame(t) == FALSE

\* No frame within the timeout, and running_ was cleared.
NoFrame(t) ==
    /\ tpc[t] = "armed" /\ ~running
    /\ tpc' = [tpc EXCEPT ![t] = "exited"]
    /\ UNCHANGED <<config, running, phase, hand, seen, ppc, batch, xpc, export, stats, queue,
                   delivered, wire, dropped, clock, stops, flowVars, producerVars>>

\* The next frame of t's handle, counted and stamped with time ts.
Receive(t, ts) ==
    /\ tpc[t] = "armed" /\ seen[t] < Len(wire)
    /\ seen' = [seen EXCEPT ![t] = @ + 1]
    /\ hand' = [hand EXCEPT ![t] = [id |-> <<t, seen[t] + 1>>, frame |-> wire[seen[t] + 1].frame,
                                    ts |-> ts]]
    /\ stats' = [stats EXCEPT !.captured = @ + 1]
    /\ tpc' = [tpc EXCEPT ![t] = "push"]
    /\ UNCHANGED <<config, running, phase, ppc, batch, xpc, export, queue, delivered, wire,
                   dropped, clock, stops, flowVars, producerVars>>

\* libpcap stamps a packet when it arrives.
PcapReceive(t) == config.mode = "LibPcap" /\ Receive(t, wire[seen[t] + 1].time)

\* pcap_next_ex fails: the thread ends while the others go on.
PcapBreaks(t) ==
    /\ config.mode = "LibPcap" /\ tpc[t] = "armed"
    /\ tpc' = [tpc EXCEPT ![t] = "exited"]
    /\ UNCHANGED <<config, running, phase, hand, seen, ppc, batch, xpc, export, stats, queue,
                   delivered, wire, dropped, clock, stops, flowVars, producerVars>>

\* AF_PACKET and DPDK packets are stamped with the time they are read.
AfPacketReceive(t) == config.mode = "AF_PACKET" /\ Receive(t, clock)
DpdkReceive(t)     == config.mode = "DPDK" /\ Receive(t, clock)

\* After a push: a DPDK burst goes on without a look at running_.
AfterPush(t) == [tpc EXCEPT ![t] = IF config.mode = "DPDK" THEN "armed" ELSE HeadOfLoop]

Push(t) ==
    /\ tpc[t] = "push"
    /\ Ring!Put(hand[t])
    /\ hand' = [hand EXCEPT ![t] = None]
    /\ tpc' = AfterPush(t)
    /\ UNCHANGED <<config, running, phase, seen, ppc, batch, xpc, export, stats, wire, dropped,
                   clock, stops, flowVars, producerVars>>

\* try_push finds the ring full: the packet is dropped and counted.
Drop(t) ==
    /\ tpc[t] = "push" /\ Len(queue) >= RingLimit
    /\ stats' = [stats EXCEPT !.dropped = @ + 1]
    /\ dropped' = dropped \cup {hand[t].id}
    /\ hand' = [hand EXCEPT ![t] = None]
    /\ tpc' = AfterPush(t)
    /\ UNCHANGED <<config, running, phase, seen, ppc, batch, xpc, export, queue, delivered,
                   wire, clock, stops, flowVars, producerVars>>

(* processing_loop; one iteration, from the test of running_ to the next, *)
(* is one step *)

\* The batch after ids: sent and cleared when it is full.
BatchAfter(ids) == IF Len(ids) >= BatchSize THEN << >> ELSE ids

\* A packet is popped: the tracker takes it, its event joins the batch.
ProcessOne ==
    /\ ppc = "loop" /\ running
    /\ Ring!Take
    /\ IF config.extract_flows THEN ProcessPacket(Head(queue)) ELSE UNCHANGED flowVars
    /\ LET ids == Append(batch, Head(queue).id)
       IN  /\ batch' = BatchAfter(ids)
           /\ IF Len(ids) >= BatchSize THEN ProduceBatch(ids) ELSE UNCHANGED producerVars
    /\ UNCHANGED <<config, running, phase, tpc, hand, seen, ppc, xpc, export, stats, wire,
                   dropped, clock, stops>>

\* The ring is empty and batch_timeout_ms is over: what is batched is sent.
FlushBatch ==
    /\ ppc = "loop" /\ running /\ queue = << >> /\ batch # << >>
    /\ ProduceBatch(batch)
    /\ batch' = << >>
    /\ UNCHANGED <<config, running, phase, tpc, hand, seen, ppc, xpc, export, stats, queue,
                   delivered, wire, dropped, clock, stops, flowVars>>

\* Mutant of FinalBatch: what is batched when the loop ends is forgotten.
FinalBatchForgotten == UNCHANGED producerVars

\* The last batch is sent when the loop has ended.
FinalBatch == ProduceBatch(batch)

ProcessingExits ==
    /\ ppc = "loop" /\ ~running
    /\ ppc' = "exited" /\ batch' = << >>
    /\ FinalBatch
    /\ UNCHANGED <<config, running, phase, tpc, hand, seen, xpc, export, stats, queue,
                   delivered, wire, dropped, clock, stops, flowVars>>

(* flow_expiry_loop *)

\* A sleep that stop() does not interrupt, then, at the head of the loop,
\* running_ is read again.
SleepsAgain == IF running THEN "asleep" ELSE "exited"

\* Mutants of AfterExpire: the loop ends when nothing was expired, or when
\* running_ was cleared, before it publishes.
BreakWhenEmpty == IF Overdue(clock) = {} THEN "exited" ELSE "publish"
BreakWhenStopped == IF Overdue(clock) = {} \/ ~running THEN SleepsAgain ELSE "publish"

AfterExpire == IF Overdue(clock) = {} THEN SleepsAgain ELSE "publish"

\* expire_flows, and the count of what it returned.
Expire ==
    /\ xpc = "asleep"
    /\ ExpireFlows(clock)
    /\ export' = {Expired(k) : k \in Overdue(clock)}
    /\ stats' = [stats EXCEPT !.expired = @ + Cardinality(Overdue(clock))]
    /\ xpc' = AfterExpire
    /\ UNCHANGED <<config, running, phase, tpc, hand, seen, ppc, batch, queue, delivered, wire,
                   dropped, clock, stops, producerVars>>

FlowEvents == SetToSeq({<<"flow", e.trail[1].id>> : e \in export})

\* The expired flows are published in one batch.
PublishFlows ==
    /\ xpc = "publish"
    /\ ProduceBatch(FlowEvents)
    /\ export' = {}
    /\ xpc' = SleepsAgain
    /\ UNCHANGED <<config, running, phase, tpc, hand, seen, ppc, batch, stats, queue, delivered,
                   wire, dropped, clock, stops, flowVars>>

(* The environment *)

FrameArrives ==
    /\ phase # "idle" /\ Len(wire) < Len(config.traffic)
    /\ \E f \in config.traffic[Len(wire) + 1] : wire' = Append(wire, [frame |-> f, time |-> clock])
    /\ UNCHANGED <<config, running, phase, threadVars, stats, queue, delivered, dropped, clock,
                   stops, flowVars, producerVars>>

Tick ==
    /\ clock < config.maxTime
    /\ clock' = clock + 1
    /\ UNCHANGED <<config, running, phase, threadVars, stats, queue, delivered, wire, dropped,
                   stops, flowVars, producerVars>>

Captor(t) == \/ NoFrame(t) \/ PcapReceive(t) \/ PcapBreaks(t)
             \/ AfPacketReceive(t) \/ DpdkReceive(t) \/ Push(t) \/ Drop(t)

Next ==
    \/ Start \/ StartRefused \/ Stop \/ Stopped
    \/ \E t \in Captors : Captor(t)
    \/ ProcessOne \/ FlushBatch \/ ProcessingExits
    \/ Expire \/ PublishFlows \/ FrameArrives \/ Tick

Spec == Init /\ [][Next]_vars

\* Every thread is scheduled; the waits for a frame, for room or for the next
\* sweep end; the clock goes on.
FairSpec ==
    /\ Spec
    /\ WF_vars(Stopped) /\ WF_vars(Tick)
    /\ \A t \in Captors :
         WF_vars(NoFrame(t)) /\ WF_vars(Push(t) \/ Drop(t))
    /\ WF_vars(ProcessOne \/ FlushBatch) /\ WF_vars(ProcessingExits)
    /\ WF_vars(Expire) /\ WF_vars(PublishFlows)
-----------------------------------------------------------------------------
(* Properties *)

\* A thread has a packet in hand exactly when it is about to push it; no bound
\* is exceeded; after stop() nothing is left in a thread's hands, and expired
\* flows are in hand only until they are published.
TypeOK ==
    /\ running <=> phase = "running"
    /\ \A t \in Captors : hand[t] # None <=> tpc[t] = "push"
    /\ Len(queue) <= RingLimit /\ Len(batch) < BatchSize
    /\ phase = "idle" => AllExited /\ batch = << >> /\ export = {}
    /\ export # {} <=> xpc = "publish"
    /\ queue_size <= QueueMax

Ids(ps) == [i \in DOMAIN ps |-> ps[i].id]
Handed == Ids(delivered)

\* What the producer accepted, oldest first; an event is of a packet or a flow.
Published == settled \o outq
IsFlow(m) == m[1] = "flow"
PacketsOf(ms) == {m \in ms : ~IsFlow(m)}

\* Of two events of packets the one published first was popped first.
PublishedInOrder ==
    \A i, j \in DOMAIN Published :
        i < j /\ ~IsFlow(Published[i]) /\ ~IsFlow(Published[j]) =>
            \E k, l \in DOMAIN Handed :
                k < l /\ Handed[k] = Published[i] /\ Handed[l] = Published[j]

\* Packets are conserved: each one a thread captured is in its hand, in the
\* ring, popped or dropped, exactly once, and the two counters say how many.
\* The event of a popped one is in the batch, or produced, or refused, once,
\* and what was produced is in the order in which it was popped.  No place
\* holds more than its limit and stop() leaves nothing in a thread's hands.
PacketsConserved ==
    /\ TypeOK
    /\ stats.captured = Cardinality({t \in Captors : hand[t] # None}) + Len(queue)
                        + Len(delivered) + stats.dropped
    /\ stats.dropped = Cardinality(dropped)
    /\ IsInjective(Ids(delivered \o queue)) /\ ToSet(Ids(delivered \o queue)) \cap dropped = {}
    /\ ToSet(Handed) = ToSet(batch) \cup PacketsOf(ToSet(Published) \cup refused)
    /\ IsInjective(batch) /\ ToSet(batch) \cap (ToSet(Published) \cup refused) = {}
    /\ PacketsOf(ToSet(Published)) \cap refused = {}
    /\ PublishedInOrder

\* Each expired flow is published, or refused, once, and stop() leaves none
\* behind that expire_flows had already taken from the table.
ExpiredPublished ==
    /\ IsInjective(Published) /\ ToSet(Published) \cap refused = {}
    /\ {e \in ended : e.how = "expired"
                      /\ <<"flow", e.trail[1].id>> \notin ToSet(Published) \cup refused}
         = export
    /\ stats.expired = tracked.expired

\* No flow vanishes between the first packet and the broker: one that was
\* created is in the table, was evicted, or was expired and then published or
\* refused, once, whenever stop() came.
FlowsConserved == FlowsAccounted /\ ExpiredPublished

\* Flows that have timed out leave the table: while the capture runs there is
\* always a moment to come at which no flow is overdue.
OverdueExpires ==
    (running /\ Overdue(clock) # {}) ~> (~running \/ Overdue(clock) = {})

\* stop() returns: every thread it joins sees running_ cleared, also one that
\* waits for a frame, sleeps, or has expired flows to publish.
StopReturns == phase = "joining" ~> phase = "idle"
=============================================================================
