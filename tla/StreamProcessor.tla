--------------------------- MODULE StreamProcessor ---------------------------
(***************************************************************************)
(* StreamProcessor: two consumer threads poll batches from one Kafka       *)
(* consumer, push the events to event_queue_ and commit; worker threads    *)
(* pop and process; a checkpoint thread sweeps; start() and stop() are     *)
(* called by one controlling thread.  The process may crash, which loses   *)
(* everything but the committed offset.                                    *)
(*                                                                         *)
(* The topic is one partition whose messages are their offsets 1..MaxMsgs. *)
(* event_queue_ is the bounded FIFO that ConcurrentRingBuffer implements.  *)
(***************************************************************************)
EXTENDS Integers, Sequences, FiniteSets, SequencesExt

CONSTANTS
    Consumers, Workers,  \* thread identities
    BatchSize,           \* config batch_size
    QueueLimit,          \* usable slots of event_queue_
    MaxMsgs,             \* length of the topic
    Garbage,             \* offsets of messages that are not events
    MaxCrashes, MaxStops \* bounds on crashes and on calls of stop()

ASSUME StreamAssumption ==
    /\ {BatchSize, QueueLimit} \subseteq Nat \ {0}
    /\ {MaxMsgs, MaxCrashes, MaxStops} \subseteq Nat
    /\ Garbage \subseteq 1 .. MaxMsgs
    /\ Consumers \cap Workers = {} /\ IsFiniteSet(Consumers) /\ IsFiniteSet(Workers)

VARIABLES
    running,    \* running_
    phase,      \* the controlling thread: "idle", "running", "joining"
    cpc, batch, \* per consumer: place in consume_loop, messages in hand
    wpc, hand,  \* per worker: place in process_loop, the event in hand
    kpc,        \* the checkpoint thread
    queue,      \* event_queue_
    delivered,  \* history of this process: what try_pop returned, in order
    consumed, processed, \* stats_.events_consumed, stats_.events_processed
    position,   \* librdkafka: offset of the next message to hand out, 0
                \* before the partition is assigned
    requested,  \* librdkafka: offset of the commit in flight, 0 if none
    committed,  \* broker: committed offset, the next one to read, 0 if none
    logEnd,     \* broker: offset of the last message of the topic
    base,       \* history: position this process was assigned
    dropped,    \* history: events given up in this process
    polled,     \* history: the messages polled, over all processes
    done,       \* history: offset -> times processed, over all processes
    crashes, stops

threadVars == <<cpc, batch, wpc, hand, kpc>>
statVars   == <<consumed, processed>>
kafkaVars  == <<position, requested, committed, logEnd>>
bookVars   == <<base, dropped, polled, done, crashes, stops>>
vars == <<running, phase, threadVars, queue, delivered, statVars, kafkaVars, bookVars>>

Msgs == 1 .. MaxMsgs
None == 0   \* no message
EventQueue == INSTANCE BoundedFifo WITH Values <- Msgs \ Garbage, Limit <- QueueLimit

-----------------------------------------------------------------------------
Init ==
    /\ running = FALSE /\ phase = "idle"
    /\ cpc = [c \in Consumers |-> "exited"] /\ batch = [c \in Consumers |-> << >>]
    /\ wpc = [w \in Workers |-> "exited"] /\ hand = [w \in Workers |-> None]
    /\ kpc = "exited"
    /\ EventQueue!Init
    /\ consumed = 0 /\ processed = 0 /\ dropped = {}
    /\ position = 0 /\ requested = 0 /\ committed = 0 /\ logEnd = 0 /\ base = 0
    /\ polled = {} /\ done = [m \in Msgs |-> 0]
    /\ crashes = 0 /\ stops = 0

(* The controlling thread *)

\* Where the broker lets the group begin: at its committed offset, else, since
\* auto.offset.reset is latest, behind the last message.
StartOffset == IF committed # 0 THEN committed ELSE logEnd + 1

\* start(): set running_, subscribe, launch the threads.  A processor that was
\* stopped starts again with whatever its queue still holds, and goes on
\* where it was in the topic.
Start ==
    /\ phase = "idle"
    /\ running' = TRUE /\ phase' = "running"
    /\ cpc' = [c \in Consumers |-> "loop"]
    /\ wpc' = [w \in Workers |-> "loop"]
    /\ kpc' = "loop"
    /\ position' = IF position = 0 THEN StartOffset ELSE position
    /\ base' = IF position = 0 THEN StartOffset ELSE base
    /\ UNCHANGED <<batch, hand, queue, delivered, statVars, requested, committed, logEnd,
                   dropped, polled, done, crashes, stops>>

\* start() when subscribe() fails: running_ is taken back.
StartFails ==
    /\ phase = "idle"
    /\ UNCHANGED vars

\* stop(): clear running_ and begin to join.
Stop ==
    /\ phase = "running" /\ stops < MaxStops
    /\ running' = FALSE /\ phase' = "joining"
    /\ stops' = stops + 1
    /\ UNCHANGED <<threadVars, queue, delivered, statVars, kafkaVars, base, dropped,
                   polled, done, crashes>>

AllExited ==
    /\ \A c \in Consumers : cpc[c] = "exited"
    /\ \A w \in Workers : wpc[w] = "exited"
    /\ kpc = "exited"

\* stop(), all threads joined: commit_sync commits everything polled, if
\* anything was.  When the broker refuses, the failure is logged, stop() does
\* not look at the result, and an earlier request may still be answered.
Joined ==
    /\ phase = "joining" /\ AllExited
    /\ phase' = "idle"
    /\ \/ position > base /\ committed' = position /\ requested' = 0
       \/ UNCHANGED <<committed, requested>>
    /\ UNCHANGED <<running, threadVars, queue, delivered, statVars, position, logEnd,
                   bookVars>>

(* consume_loop *)

ConsumerExits(c) ==
    /\ cpc[c] = "loop" /\ ~running
    /\ cpc' = [cpc EXCEPT ![c] = "exited"]
    /\ UNCHANGED <<running, phase, batch, wpc, hand, kpc, queue, delivered, statVars,
                   kafkaVars, bookVars>>

\* poll() hands the next message to c.  A poll_batch begins under running_,
\* goes on while the batch has room, and librdkafka then counts the message
\* as consumed, whatever becomes of it.  The other consumer may poll between.
Poll(c) ==
    /\ \/ cpc[c] = "loop" /\ running
       \/ cpc[c] = "poll" /\ Len(batch[c]) < BatchSize
    /\ position <= logEnd
    /\ batch' = [batch EXCEPT ![c] = Append(@, position)]
    /\ position' = position + 1
    /\ polled' = polled \cup {position}
    /\ cpc' = [cpc EXCEPT ![c] = "poll"]
    /\ UNCHANGED <<running, phase, wpc, hand, kpc, queue, delivered, statVars, requested,
                   committed, logEnd, base, dropped, done, crashes, stops>>

\* poll(0) finds nothing buffered, or the batch is full.
BatchComplete(c) ==
    /\ cpc[c] = "poll"
    /\ cpc' = [cpc EXCEPT ![c] = "next"]
    /\ UNCHANGED <<running, phase, batch, wpc, hand, kpc, queue, delivered, statVars,
                   kafkaVars, bookVars>>

\* Mutant of ConsumedAfter: the count comes before the payload is parsed.
ConsumedUnparsed(m) == consumed + 1

\* events_consumed after message m: only events count.
ConsumedAfter(m) == IF m \in Garbage THEN consumed ELSE consumed + 1

\* The next message of the batch: an error or unparseable payload is passed
\* over, an event is counted and then pushed.
TakeFromBatch(c) ==
    /\ cpc[c] = "next" /\ batch[c] # << >>
    /\ consumed' = ConsumedAfter(Head(batch[c]))
    /\ IF Head(batch[c]) \in Garbage
       THEN /\ batch' = [batch EXCEPT ![c] = Tail(@)]
            /\ UNCHANGED cpc
       ELSE /\ cpc' = [cpc EXCEPT ![c] = "push"]
            /\ UNCHANGED batch
    /\ UNCHANGED <<running, phase, wpc, hand, kpc, queue, delivered, processed, kafkaVars,
                   bookVars>>

\* Mutant of AfterPush: the event is pushed again.
PushAgain(c) == UNCHANGED <<cpc, batch>>

AfterPush(c) ==
    /\ cpc' = [cpc EXCEPT ![c] = "next"]
    /\ batch' = [batch EXCEPT ![c] = Tail(@)]

\* try_push succeeds.
Push(c) ==
    /\ cpc[c] = "push"
    /\ EventQueue!Put(Head(batch[c]))
    /\ AfterPush(c)
    /\ UNCHANGED <<running, phase, wpc, hand, kpc, statVars, kafkaVars, bookVars>>

\* Mutants of GivesUp: a full queue is never, or always, reason enough.
NeverGivesUp == FALSE
AlwaysGivesUp == TRUE

\* The condition that ends the retry loop after a refused push.
GivesUp == ~running

\* try_push finds the queue full while running_: sleep and try again.
PushRetry(c) ==
    /\ cpc[c] = "push" /\ Len(queue) >= QueueLimit
    /\ ~GivesUp
    /\ UNCHANGED vars

\* try_push finds the queue full and running_ is cleared: the loop ends and
\* the event is destroyed.
PushRefused(c) ==
    /\ cpc[c] = "push" /\ Len(queue) >= QueueLimit
    /\ GivesUp
    /\ dropped' = dropped \cup {Head(batch[c])}
    /\ cpc' = [cpc EXCEPT ![c] = "next"]
    /\ batch' = [batch EXCEPT ![c] = Tail(@)]
    /\ UNCHANGED <<running, phase, wpc, hand, kpc, queue, delivered, statVars, kafkaVars,
                   base, polled, done, crashes, stops>>

\* What a commit without explicit offsets covers: every message handed out,
\* to either thread.
CommitOffset == position

\* The batch is through: commit_async, back to the loop.
CommitAsync(c) ==
    /\ cpc[c] = "next" /\ batch[c] = << >>
    /\ requested' = CommitOffset
    /\ cpc' = [cpc EXCEPT ![c] = "loop"]
    /\ UNCHANGED <<running, phase, batch, wpc, hand, kpc, queue, delivered, statVars,
                   position, committed, logEnd, bookVars>>

\* The broker answers a commit: it takes effect, or fails and is only logged.
CommitAnswered ==
    /\ requested # 0
    /\ committed' \in {committed, requested}
    /\ requested' = 0
    /\ UNCHANGED <<running, phase, threadVars, queue, delivered, statVars, position, logEnd,
                   bookVars>>

(* process_loop *)

\* running_ is read before every pop, so a worker leaves events behind.
WorkerExits(w) ==
    /\ wpc[w] = "loop" /\ ~running
    /\ wpc' = [wpc EXCEPT ![w] = "exited"]
    /\ UNCHANGED <<running, phase, cpc, batch, hand, kpc, queue, delivered, statVars,
                   kafkaVars, bookVars>>

\* running_ was seen set; the pop itself comes later.
WorkerEnters(w) ==
    /\ wpc[w] = "loop" /\ running
    /\ wpc' = [wpc EXCEPT ![w] = "pop"]
    /\ UNCHANGED <<running, phase, cpc, batch, hand, kpc, queue, delivered, statVars,
                   kafkaVars, bookVars>>

PopEmpty(w) ==
    /\ wpc[w] = "pop" /\ queue = << >>
    /\ wpc' = [wpc EXCEPT ![w] = "loop"]
    /\ UNCHANGED <<running, phase, cpc, batch, hand, kpc, queue, delivered, statVars,
                   kafkaVars, bookVars>>

Pop(w) ==
    /\ wpc[w] = "pop"
    /\ EventQueue!Take
    /\ hand' = [hand EXCEPT ![w] = Head(queue)]
    /\ wpc' = [wpc EXCEPT ![w] = "process"]
    /\ UNCHANGED <<running, phase, cpc, batch, kpc, statVars, kafkaVars, bookVars>>

\* The correlation engine and the window manager have taken the event; count.
Process(w) ==
    /\ wpc[w] = "process"
    /\ processed' = processed + 1
    /\ done' = [done EXCEPT ![hand[w]] = @ + 1]
    /\ hand' = [hand EXCEPT ![w] = None]
    /\ wpc' = [wpc EXCEPT ![w] = "loop"]
    /\ UNCHANGED <<running, phase, cpc, batch, kpc, queue, delivered, consumed, kafkaVars,
                   base, dropped, polled, crashes, stops>>

\* checkpoint_loop: sleeps and sweeps (see CorrelationEngine and EventWindows)
\* until it finds running_ cleared.
CheckpointExits ==
    /\ kpc = "loop" /\ ~running
    /\ kpc' = "exited"
    /\ UNCHANGED <<running, phase, cpc, batch, wpc, hand, queue, delivered, statVars,
                   kafkaVars, bookVars>>

\* The process dies and a new one takes its place: only what the broker knows
\* is left, and a commit in flight may or may not have reached it.
Crash ==
    /\ crashes < MaxCrashes
    /\ crashes' = crashes + 1
    /\ committed' \in {committed} \cup ({requested} \ {0})
    /\ position' = 0 /\ base' = 0 /\ requested' = 0
    /\ running' = FALSE /\ phase' = "idle"
    /\ cpc' = [c \in Consumers |-> "exited"] /\ batch' = [c \in Consumers |-> << >>]
    /\ wpc' = [w \in Workers |-> "exited"] /\ hand' = [w \in Workers |-> None]
    /\ kpc' = "exited"
    /\ queue' = << >> /\ delivered' = << >>
    /\ consumed' = 0 /\ processed' = 0 /\ dropped' = {}
    /\ UNCHANGED <<logEnd, polled, done, stops>>

\* A collector appends a message to the topic.
Produce ==
    /\ logEnd < MaxMsgs
    /\ logEnd' = logEnd + 1
    /\ UNCHANGED <<running, phase, threadVars, queue, delivered, statVars, position,
                   requested, committed, bookVars>>

Consumer(c) ==
    \/ Poll(c) \/ BatchComplete(c) \/ TakeFromBatch(c) \/ Push(c) \/ PushRetry(c)
    \/ PushRefused(c) \/ CommitAsync(c) \/ ConsumerExits(c)

Worker(w) == WorkerEnters(w) \/ PopEmpty(w) \/ Pop(w) \/ Process(w) \/ WorkerExits(w)

Next ==
    \/ Start \/ StartFails \/ Stop \/ Joined \/ CheckpointExits
    \/ \E c \in Consumers : Consumer(c)
    \/ \E w \in Workers : Worker(w)
    \/ CommitAnswered
    \/ Produce
    \/ Crash

Spec == Init /\ [][Next]_vars

\* Every running thread is scheduled, and a thread that retries a pop or a
\* push from time to time meets the queue when it has an element or a slot.
\* poll_batch returns: it polls at most batch_size messages.
FairSpec ==
    /\ Spec
    /\ \A c \in Consumers :
         /\ WF_vars(BatchComplete(c)) /\ WF_vars(TakeFromBatch(c))
         /\ SF_vars(Push(c)) /\ WF_vars(PushRefused(c))
         /\ WF_vars(CommitAsync(c)) /\ WF_vars(ConsumerExits(c))
    /\ \A w \in Workers :
         /\ WF_vars(WorkerEnters(w) \/ WorkerExits(w))
         /\ WF_vars(Pop(w) \/ PopEmpty(w)) /\ WF_vars(Process(w))
    /\ WF_vars(CheckpointExits) /\ WF_vars(Joined)
-----------------------------------------------------------------------------
(* Properties *)

\* Types, and where the controlling thread and the others can be together.
TypeOK ==
    /\ \A c \in Consumers : Len(batch[c]) <= BatchSize /\ ToSet(batch[c]) \subseteq Msgs
    /\ Len(queue) <= QueueLimit /\ ToSet(queue) \subseteq Msgs \ Garbage
    /\ \A w \in Workers : hand[w] # None <=> wpc[w] = "process"
    /\ running <=> phase = "running"
    /\ phase = "idle" => AllExited
    /\ requested \in 0 .. position /\ position \in 0 .. logEnd + 1
    /\ committed \in 0 .. IF position = 0 THEN logEnd + 1 ELSE position

\* The places an event of this process can be in, with how often it is there.
Holdings(m) ==
    Cardinality({c \in Consumers : m \in ToSet(batch[c])})
    + Cardinality({i \in DOMAIN queue : queue[i] = m})
    + Cardinality({i \in DOMAIN delivered : delivered[i] = m})
    + (IF m \in dropped THEN 1 ELSE 0)

\* Between poll and the engine no event is lost silently or duplicated: each
\* event polled by this process is in exactly one consumer's batch, in the
\* queue, with the workers or given up on, and no other event is anywhere;
\* no place holds more than its limit, and stop() leaves no thread behind.
HeldOnce ==
    /\ TypeOK
    /\ \A m \in Msgs \ Garbage :
         Holdings(m) = IF m \in base .. position - 1 THEN 1 ELSE 0

\* Whatever the interleaving of the two consumers and the workers, the
\* statistics never show more events processed than consumed, and the
\* difference is what is on its way or was given up.
StatsAgree ==
    consumed - processed =
        Cardinality({c \in Consumers : cpc[c] = "push"}) + Len(queue)
        + Cardinality({w \in Workers : wpc[w] = "process"}) + Cardinality(dropped)

\* While the processor runs, an event that was polled is processed in the end:
\* a full queue delays it and never loses it.
EventuallyProcessed ==
    \A m \in Msgs \ Garbage :
        (m \in base .. position - 1 /\ m \notin dropped /\ running) ~> (done[m] > 0 \/ ~running)

\* stop() returns, whatever the threads were doing when it was called.
StopReturns == phase = "joining" ~> phase = "idle"

\* The events polled by some process whose offsets are committed, so that no
\* later process will poll them again.
Settled == {m \in polled \ Garbage : m < committed}

\* At least once: a settled event was processed or this process still has it.
AtLeastOnce ==
    \A m \in Settled : \/ done[m] > 0
                       \/ m \in UNION {ToSet(batch[c]) : c \in Consumers}
                       \/ m \in ToSet(queue)
                       \/ m \in {hand[w] : w \in Workers}
=============================================================================
