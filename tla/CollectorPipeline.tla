-------------------------- MODULE CollectorPipeline --------------------------
(***************************************************************************)
(* What the collectors have in common: receivers put raw messages into a   *)
(* ring buffer, one processing thread pops them, makes events and batches  *)
(* them for Kafka, start() and stop() are called by one thread.  The ring  *)
(* is the bounded FIFO that ConcurrentRingBuffer implements.               *)
(*                                                                         *)
(* A raw message is [id, body]; an event is [src, data], src being the id  *)
(* of the message it was made from.  kind says which collector this is.    *)
(***************************************************************************)
EXTENDS Integers, FiniteSets, KafkaProducer

CONSTANTS
    Receivers,   \* receiver threads, or threads that call in
    RingLimit,   \* usable slots of the ring buffer
    BatchSize,   \* config batch_size
    MaxInputs, MaxStops  \* bounds: messages offered, calls of stop()

ASSUME PipelineAssumption ==
    /\ {RingLimit, BatchSize} \subseteq Nat \ {0}
    /\ {MaxInputs, MaxStops} \subseteq Nat /\ IsFiniteSet(Receivers)

VARIABLES
    kind, running, phase, \* the collector, running_, the controlling thread
    rpc, hand,   \* per receiver: place in its loop, the message in hand
    apc,         \* the collector's auxiliary thread
    ppc, batch,  \* processing_loop: place, the events batched
    queue, delivered, \* the ring buffer, and what was popped from it
    socket,      \* datagrams waiting to be received
    conn,        \* TCP connection: its handler, the pieces in hand, what the
                 \* peer sent and the handler has not read; history: the lines
    templates,   \* NetFlow template tables of the processing thread; history:
                 \* how many messages were popped before it began
    stats,       \* stats_
    made, dropped,  \* history: events made, in order; messages the ring refused
    inputs, stops   \* how many messages were offered, calls of stop()

threadVars == <<rpc, hand, apc, ppc, batch>>
ringVars == <<queue, delivered>>
envVars == <<socket, conn, inputs>>
bookVars == <<stats, made, dropped, stops>>
vars == <<kind, running, phase, threadVars, ringVars, envVars, templates, bookVars, producerVars>>

NoMsg == [id |-> << >>]
NoConn == [pc |-> "none", pieces |-> << >>, stream |-> << >>, sent |-> << >>]
NoTemplates == [v9 |-> << >>, ipfix |-> << >>, since |-> Len(delivered)]
Ring == INSTANCE BoundedFifo WITH Values <- {}, Limit <- RingLimit

PipelineInit ==
    /\ running = FALSE /\ phase = "idle"
    /\ rpc = [r \in Receivers |-> IF kind \in {"winlog", "agent"} THEN "armed" ELSE "exited"]
    /\ hand = [r \in Receivers |-> NoMsg]
    /\ apc = "exited" /\ ppc = "exited" /\ batch = << >>
    /\ Ring!Init
    /\ socket = << >> /\ conn = NoConn
    /\ templates = NoTemplates
    /\ stats = [received |-> 0, parsed |-> 0, errors |-> 0, produced |-> 0, heartbeats |-> 0,
                 actions |-> 0]
    /\ made = << >> /\ dropped = {} /\ inputs = 0 /\ stops = 0
    /\ ProducerInit

-----------------------------------------------------------------------------
(* start() and stop() *)

\* start() sets running_ and launches the threads in use; the processing
\* thread is a new one and begins with empty template tables.
Launch(receivers, auxiliary, listening) ==
    /\ phase = "idle"
    /\ running' = TRUE /\ phase' = "running"
    /\ rpc' = IF receivers THEN [r \in Receivers |-> "armed"] ELSE rpc
    /\ apc' = IF auxiliary THEN "asleep" ELSE "exited"
    /\ ppc' = "loop"
    /\ conn' = IF listening /\ conn.pc = "none" THEN [conn EXCEPT !.pc = "listen"] ELSE conn
    /\ templates' = NoTemplates
    /\ UNCHANGED <<kind, hand, batch, ringVars, socket, inputs, bookVars, producerVars>>

\* stop() clears running_ and closes the sockets, with what waits in them.
Stop ==
    /\ phase = "running" /\ stops < MaxStops
    /\ running' = FALSE /\ phase' = "joining" /\ stops' = stops + 1
    /\ socket' = << >>
    /\ conn' = IF conn.pc = "listen" THEN [conn EXCEPT !.pc = "none"] ELSE conn
    /\ UNCHANGED <<kind, threadVars, ringVars, inputs, templates, stats, made, dropped,
                   producerVars>>

\* Mutant of Joinable: the auxiliary thread is not joined.
JoinableButOne == ppc = "exited" /\ (kind \in {"syslog", "netflow"} => \A r \in Receivers : rpc[r] = "exited")

\* The threads that stop() joins have ended.  Threads that call in, and the
\* detached handler of a TCP connection, are not among them.
Joinable ==
    /\ ppc = "exited" /\ apc = "exited"
    /\ kind \in {"syslog", "netflow"} => \A r \in Receivers : rpc[r] = "exited"

Stopped ==
    /\ phase = "joining" /\ Joinable
    /\ phase' = "idle"
    /\ Flush
    /\ UNCHANGED <<kind, running, threadVars, ringVars, envVars, templates, bookVars>>

-----------------------------------------------------------------------------
(* Receiving *)

\* At the head of a loop running_ is read.
HeadOfLoop == IF running THEN "armed" ELSE "exited"

\* Mutant of NothingReceived: the wait has no timeout.
WaitsForEver(r) == rpc[r] = "armed" /\ ~running /\ UNCHANGED vars

\* poll() times out and running_ was cleared.
NothingReceived(r) ==
    /\ kind \in {"syslog", "netflow"} /\ rpc[r] = "armed" /\ ~running
    /\ rpc' = [rpc EXCEPT ![r] = "exited"]
    /\ UNCHANGED <<kind, running, phase, hand, apc, ppc, batch, ringVars, envVars, templates,
                   bookVars, producerVars>>

\* Receiver r has message m, and counts it.
Took(r, m) ==
    /\ rpc[r] = "armed"
    /\ hand' = [hand EXCEPT ![r] = m]
    /\ rpc' = [rpc EXCEPT ![r] = "push"]
    /\ stats' = [stats EXCEPT !.received = @ + 1]
    /\ UNCHANGED <<kind, running, phase, apc, ppc, batch, ringVars, conn, templates, made,
                   dropped, stops, producerVars>>

\* recvfrom: the oldest datagram of the socket.
ReceiveDatagram(r) ==
    /\ socket # << >>
    /\ Took(r, Head(socket))
    /\ socket' = Tail(socket)
    /\ UNCHANGED inputs

\* A call from outside, at any time, running or not.
CallIn(r, body) ==
    /\ inputs < MaxInputs /\ inputs' = inputs + 1
    /\ Took(r, [id |-> <<inputs + 1, 1>>, body |-> body])
    /\ UNCHANGED socket

\* Mutant of PushOrDrop: the push is tried again although it succeeded.
PushAgain(r) ==
    /\ rpc[r] = "push"
    /\ Ring!Put(hand[r])
    /\ UNCHANGED <<kind, running, phase, threadVars, envVars, templates, bookVars, producerVars>>

\* try_push, and on to the next message; refused, the message is dropped,
\* which no statistic counts.
PushOrDrop(r) ==
    /\ rpc[r] = "push"
    /\ \/ Ring!Put(hand[r]) /\ UNCHANGED dropped
       \/ /\ Len(queue) >= RingLimit
          /\ dropped' = dropped \cup {hand[r]}
          /\ UNCHANGED ringVars
    /\ hand' = [hand EXCEPT ![r] = NoMsg]
    /\ rpc' = [rpc EXCEPT ![r] = IF kind \in {"winlog", "agent"} THEN "armed" ELSE HeadOfLoop]
    /\ UNCHANGED <<kind, running, phase, apc, ppc, batch, envVars, templates, stats, made,
                   stops, producerVars>>

-----------------------------------------------------------------------------
(* Processing.  One iteration of the loop is one step. *)

\* How many events of a batch are counted as produced: those the producer
\* accepted, or, by the NetFlow and Windows collectors, all of them.
Counted(events) == Len(IF kind \in {"syslog", "agent"} THEN Accepted(events) ELSE events)

\* Of the last batch: only the syslog collector counts it.
CountedAtEnd(events) == IF kind = "syslog" THEN Counted(events) ELSE 0

\* How many of the events go out: a batch is sent as soon as it is full.
Full(events) == (Len(events) \div BatchSize) * BatchSize

\* A message is popped, and evts made from it (none if it does not parse).
Process(evts, parsed, errors) ==
    /\ ppc = "loop" /\ running
    /\ Ring!Take
    /\ made' = made \o evts
    /\ \E all \in {batch \o evts} :
         /\ ProduceBatch(SubSeq(all, 1, Full(all)))
         /\ batch' = SubSeq(all, Full(all) + 1, Len(all))
         /\ stats' = [stats EXCEPT !.parsed = @ + parsed, !.errors = @ + errors,
                                   !.produced = @ + Counted(SubSeq(all, 1, Full(all)))]
    /\ UNCHANGED <<kind, running, phase, rpc, hand, apc, ppc, envVars, dropped, stops>>

\* The ring is empty and the batch timeout is over.
FlushBatch ==
    /\ ppc = "loop" /\ running /\ queue = << >> /\ batch # << >>
    /\ ProduceBatch(batch)
    /\ batch' = << >>
    /\ stats' = [stats EXCEPT !.produced = @ + Counted(batch)]
    /\ UNCHANGED <<kind, running, phase, rpc, hand, apc, ppc, ringVars, envVars, templates,
                   made, dropped, stops>>

\* Mutant of Leftover: the last batch is forgotten.
LeftoverForgotten == << >>

\* What is sent when the loop has ended.
Leftover == batch

\* running_ was cleared: the last batch goes out, the ring keeps what it has.
FinishLoop ==
    /\ ppc = "loop" /\ ~running
    /\ ppc' = "exited"
    /\ ProduceBatch(Leftover)
    /\ batch' = << >>
    /\ stats' = [stats EXCEPT !.produced = @ + CountedAtEnd(Leftover)]
    /\ UNCHANGED <<kind, running, phase, rpc, hand, apc, ringVars, envVars, templates, made,
                   dropped, stops>>
=============================================================================
