# A TLA+ model of AIGuard SIEM

AIGuard SIEM collects security events (syslog, NetFlow, Windows logs, packets,
endpoint agents, cloud audit logs), moves them over Kafka to a correlation
engine, raises alerts, stores events in three tiers and reacts with playbooks.
This directory holds TLA+ modules translated from the source, the TLC
configurations that check them on small instances, and TLAPS proofs.
`PROJECT.json` maps every definition to the lines it models.

Run one check with `tlc -config <cfg> <module>`, one set of proofs with
`tlapm <module>.tla`.

## Inventory

### Components in the path of an event

| Component | State | Operations | Who touches it |
|---|---|---|---|
| `LockFreeCircularBuffer` | raw slots, atomic `head_`, `tail_` | `try_push`, `try_pop`, destructor | one producer, one consumer |
| `ConcurrentRingBuffer` | slots, `head_`, `tail_`, `mutex_` | `try_push`, `try_pop`, `size`, `empty` | every collector, the agent, `StreamProcessor` |
| `ThreadPool` | `tasks_`, `stop_`, workers, condition variable | `submit`, `submit_void`, `shutdown` | any thread |
| `KafkaConsumer` | librdkafka handle, statistics | `poll_batch`, `commit_*` | `StreamProcessor` |
| `KafkaProducer` | librdkafka's bounded queue, statistics | `produce`, `produce_batch`, `flush`, `poll` (never called) | collectors, packet capture, the agent, `StreamProcessor` |
| `StreamProcessor` | `running_`, `event_queue_`, threads, statistics | `start`, `stop`; consume, process and checkpoint loops | owner thread and its own threads |
| `CorrelationEngine` | `rules_`, `state_` per rule and key, statistics, three mutexes | `process_event`, `cleanup_expired`, `add_rule`, `remove_rule` | workers, checkpoint thread, callers |
| `EventWindowManager` | `specs_`, `windows_`, `mutex_` | `add_window`, `process_event`, `expire_windows`, `clear` | workers, checkpoint thread |
| Collectors (syslog, NetFlow, WinLog) | sockets, ring, batch, threads, statistics; NetFlow templates per thread | receive, frame, parse, produce, `start`, `stop` | receivers, detached connection handlers, one processing thread |
| `PacketCapture` | ring, batch, threads, statistics | capture in four modes, process, expire, `start`, `stop` | capture threads, a processing thread, an expiry thread |
| `FlowTracker` | flow table with a limit, statistics of each flow | `process_packet`, `expire_flows`, `extract_features` | processing and expiry threads |
| `RuleEngine`, `SigmaCompiler` | rules, profiles, statistics; a counter of compiled rules | load, reload, add, remove, compile | callers |
| `MemTable`, `SSTable`, `LSMIndex` | sorted entries with tombstones; a file and its index; a memtable per thread, a sequence counter | put, get, remove, scans; write, open, lookup; put, put_batch, delete_key, query | callers |
| Endpoint agent (`AgentCore`) | ring, batch, heartbeat, statistics | `submit_event`, heartbeat, actions, `start`, `stop` | monitors' threads, own threads |

### Around it

Warm and cold storage clients, the playbook engine, the orchestrator, the Kubernetes operator,
the API gateway, the visualisation backend, the cloud connectors, crypto, and
the ML models.  `PROJECT.json` lists each with its files, whether it is
modelled and why not.

### What interacts with what

Receiving threads push to a `ConcurrentRingBuffer`, a processing thread pops,
parses, batches and produces to Kafka through a `KafkaProducer`.  Packet capture
feeds a `FlowTracker` on the way, and a second thread publishes the flows that
expired.  `StreamProcessor`'s two consumer threads share one
`KafkaConsumer`, push to `event_queue_` and commit; its workers pop and call
`CorrelationEngine::process_event` and then `EventWindowManager::process_event`;
its checkpoint thread calls `cleanup_expired` and `expire_windows` every ten
seconds.  Window results reach `StreamProcessor` through a callback made under
the window manager's mutex.  Nothing in the repository connects `RuleEngine` to
the correlation engine, or a `MemTable` of `LSMIndex` to an `SSTable`.

### Hard behaviour, and what correctness means there

* *Shared memory*: the lock-free buffer under lagging loads; two locks taken in
  opposite orders by `process_event` and `cleanup_expired`; the alert id that
  is read from a counter and incremented later.  Correct: no slot is shared,
  no element lost or duplicated, calls return, ids are unique.
* *Order*: workers reach the engine's state in another order than the events'
  timestamps; late events reach windows.  Correct: an alert counts what lies in
  its window; an event is in the windows that cover it.
* *Failure*: a crash between commit and processing, a commit that fails, a full
  queue while stopping.  Correct: at least once, or exactly once, as documented.
* *Limits*: a full ring, a full librdkafka queue, a flow table at `max_flows`, a
  memtable at its size.  Correct: what is refused is counted or known, what is
  accepted goes on, in order and once.
* *Odd input*: a TCP stream cut anywhere, a template that comes after its data, a
  set that says it has no length, a rule file with another indentation.
  Correct: a decoded field is the sender's, a message one line, a rule has the
  conditions of its file, and the parser comes to an end.  Not all of this is
  so: see "Disagreements".
* *Progress*: retry loops on a full queue, sleeping workers, joins in `stop()`
  and `shutdown()`.  Correct: they end.

The `hazards` of `PROJECT.json` list these line by line, including those of
parts that are not modelled.

## Modules

| Module | Models | State and actions |
|---|---|---|
| `RingIndex` | index arithmetic of both buffers | `Inc`, `Distance`, `Run`, `Contents` |
| `BoundedFifo` | abstract specification: a FIFO queue of `Limit` elements | `Put`, `Take` |
| `RingBuffer` | `ConcurrentRingBuffer` | one action per call: each holds `mutex_` throughout |
| `SpscBuffer` | `LockFreeCircularBuffer` | each call is cut at its load, its construction or move, and its release store |
| `CorrelationEngine` | `correlation_engine.cpp` | per worker: enter, one step per matching rule, raise, leave; a sweep per rule id; rule changes as waiting writers |
| `EventWindows` | `event_windows.cpp` | one action per call: each holds `mutex_` throughout, callback included |
| `StreamProcessor` | `stream_processor.cpp`, and `kafka_consumer.cpp` as it uses it | threads' loops cut where another thread can get in, broker state, crash |
| `ThreadPool` | `thread_pool.h`, `thread_pool.cpp` | critical sections, notifications and tasks as separate steps |
| `KafkaProducer` | `kafka_producer.cpp` and librdkafka's queue | `ProduceBatch`, `Flush`, used by the modules below |
| `FlowTracker` | `flow_tracker.cpp` | one action per call; headers, keys, statistics and flags as operators |
| `PacketCapture` | `dpdk_capture.cpp`, with `FlowTracker` and `KafkaProducer` | capture loops by mode, processing and expiry loops cut at their waits and queues, `Start`, `Stop`, `Stopped` |
| `CollectorPipeline` | what the collectors and the agent share | receivers' hands, ring, batch, the end of the loop, `Launch`, `Stop`, `Stopped` |
| `SyslogParser` | `syslog_parser.cpp` | operators from words to fields |
| `SyslogCollector` | `syslog_collector.cpp` | binding, UDP receive, accept, the detached handler's read, push and end |
| `NetflowCollector` | `netflow_collector.cpp`, `netflow_parser.cpp` | template tables; receive, process, flush; a parser that goes through a packet by the lengths in it, and on some of them never returns |
| `WinlogCollector` | `winlog_collector.cpp`, `winlog_parser.cpp` | `ingest_xml`, process, flush |
| `AgentCore` | `agent_core.cpp` | `submit_event`, process, heartbeat, actions |
| `Collectors` | the composition of the five modules above | a behaviour is one collector with its environment |
| `MemTable`, `SSTable` | `memtable.cpp`, `sstable.cpp` | operators on table and file values |
| `Dictionary` | abstract specification: a map with `get`, `put`, `remove` | one action per call |
| `HotStorage` | `lsm_index.cpp`, and a memtable with its table | part "index": draw a number, store, per thread; part "table": calls on a memtable, write, open |
| `SigmaCompiler` | `sigma_compiler.cpp` | operators from lines to a rule |
| `RuleEngine` | `rule_engine.cpp` | calls cut at `mutex_`, one step per compiled file, the unguarded counter's read and write apart |
| `MC*` | values of constants for TLC | |
| `MCSharedObjects`, `MCCommon` | objects that do not use each other, checked in one run | `object` says which of them a behaviour is about; the others stay as they began |
| `*Proofs` | theorems and proofs about the module of that name; `SharedObjectsProofs` has those of `RingBuffer`, `ThreadPool` and `RuleEngine`, whose definitions therefore have different names (`PoolInit`, `PoolSpec`, `RulesInit`, `RulesSpec`...; likewise `WindowsInit`, `WindowsSpec`) | |

`RingBuffer` and `SpscBuffer` both implement `BoundedFifo` (checked and proved),
and `StreamProcessor`, `PacketCapture` and `CollectorPipeline` use an instance of
`BoundedFifo` as their ring: that is how the components compose.  The producers
of events extend `KafkaProducer` and share its variables.

History variables (`accepted`, `delivered`, `seen`, `returned`, `processed`,
`results`, `done`, `made`, `settled`, `ended`...) are named as such where they are declared and never
restrict a step.  Definitions marked "Mutant of X" are plausible faults of X.
They are used by nothing: each stands ready to replace X, to show that a
property notices.

### Abstractions and assumptions

* *Indices and slots.* The capacity is a power of two, as the `static_assert` of
  one buffer and the exception of the other demand.
* *Memory model.* A load of the other side's index in `SpscBuffer` returns any
  value between the one this thread read last and the current one, which is
  what coherence allows; the release and acquire pair makes the slot contents
  visible with the index.
* *Conditions.* A correlation condition is the set of field values that satisfy
  it; the fields are one matched field and one grouping field, each possibly
  empty.  A timestamp carries its event so that properties can tell events
  apart.  The 100 stored events are `MaxStored`.
* *`rules_mutex_`.* Whether a waiting writer holds back new readers is left to
  the implementation by the C++ standard, so it is the constant
  `WriterPriority`.  Nothing is held across a step by a writer.
* *Statistics locks.* The sections under `stats_mutex_` call nothing and are
  part of the step around them.
* *Windows.* Time is in milliseconds since the epoch and never negative; window
  and hop sizes are positive; window specs have distinct ids.
  `group` stands for whatever `get_group_key` extracts; `amount` for the
  aggregation field.  The average is compared without division.
* *Kafka.* One topic partition whose messages are their offsets; librdkafka
  hands a message to whichever thread polls, a commit without offsets covers
  everything handed out, at most one commit is in flight, and it may fail.
  After a crash the next process starts at the committed offset, or at the end
  when there is none (`auto.offset.reset` is `latest`).  Assignment of the
  partition is taken to happen in `start()`: a group rebalance during a run is
  not modelled.  The last commit of `stop()` may be refused, which nothing looks
  at.
* *Control.* `start()` and `stop()` are called by one thread.
* *Thread pool.* `Workers` is not empty: `hardware_concurrency()` is taken to be
  known when no size is given.  A task ends, normally or with a
  `std::exception` that the worker logs.
* *Producer.* librdkafka's queue holds at most `QueueMax` messages; a message
  leaves it when its delivery report is served, which happens in `flush` only,
  because nothing calls `poll`.  `flush` answers any number of messages.
* *Packet capture.* Every capture thread opens its own handle on the same
  interface and sees every frame; any set of the threads may have failed to
  open theirs.  A frame is the record of header fields the code reads.  Doubles
  are fixed-point numbers enlarged by `Scale`, exact while every packet count of
  a flow divides `Scale`.  Which flow is evicted is any, as the iteration order
  of `unordered_map` is not specified.  A timeout is in clock ticks.
* *Collectors.* A message is a value with an identity.  A syslog text is cut into
  words and the symbols in them that the parser looks for; a TCP stream is cut
  into cells of a word or a newline, and `recv` returns any number of them, or
  fails with some unread.  A NetFlow packet has a length and the sets that are
  found in it one behind the other, each as long as its header says; a layout
  stands for its list of fields, and has records of no bytes when the list is
  empty.  A parser that does not move on stays where it is for ever; what it
  collects meanwhile, and the memory for it, is left out.  An XML text stands
  for the fields the parser finds in it.  The TLS receiver is a stub in the
  code.
* *Hot storage.* A key is a short sequence of characters, a value its length,
  hash functions are a table.  A file is known by what lies at which offset;
  what is read at a wrong offset is taken to be no block at all.
* *Rules.* A line of YAML is its indentation, key and text.  The count of
  compiled rules is read and written in separate steps, since no lock is held;
  the integer itself is not torn.
* *Reporting.* `metrics_loop` of the collectors and of packet capture reads
  statistics and logs them; `stop()` joins it, and it is left out.

## Runs

"Pass" runs find no error in all reachable states of the instance.

| Run | Instance | What it shows |
|---|---|---|
| `shared_objects` | the ring: capacity 4, 2 values, 6 pushes; the rule engine: 2 threads, 3 calls, two directories, 3 rule files with 4-space and 2-space blocks, comments and two detection sections, 2 added rules; the windows: any 2 of the four types, 2 groups, 4 events, clock to 3, events up to 2 late, twice the session gap | refinement of `BoundedFifo` over more than a lap; `ReadersConsistent`, `ConditionsExact`, `NumbersFresh`; `NoEventLost`, `SessionPartition`, `HoppingExact` |
| `common` | the lock-free buffer: capacity 4, 2 values, 5 pushes, any lag; the pool: 2 workers, 3 tasks, 2 callers of `shutdown` | `ObjectLifetimes`, refinement of `BoundedFifo`; `InOnePlace`, `ShutdownDrains`, `AcceptedRuns`, `ShutdownEnds` |
| `correlation_threads` | 2 workers, sweeper, one rule change, 3 events, clock to 2, 1 stored event | `AlertIdsUnique`, `CountedOnce`, `NoMissedAlert`, `AlertWithinWindow`, `CleanupErasesExpired` |
| `correlation_fair` | 2 workers, sweeper, 2 rules, one rule change, readers preferred | `EventsComplete` |
| `stream` | 2 consumers, 2 workers, queue of 1, 3 messages of which 1 is garbage, 1 stop, 1 crash | `HeldOnce`, `StatsAgree`, `EventuallyProcessed`, `StopReturns` |
| `capture` | five configurations: two pcap threads with and without flows, AF_PACKET across a stop, DPDK with 3 conversations for 2 flow entries, and the unsupported PF_RING; up to 4 frames, clock to 3, ring of 1, batch of 2, producer queue of 2 | `FlowStatsExact`, `OneFlowPerConversation`, `PacketsConserved`, `FlowsConserved`, `OverdueExpires`, `StopReturns` |
| `collectors` | each of the four kinds, 2 receivers, 2 messages, up to two stops and restarts, ring of 1, batch of 2, producer queue of 1; for syslog each transport, `recv` of 1 to 4 cells, version numbers of one and two digits, one key in two elements; 8 NetFlow packets with every protocol, two layouts of one id, sets in both orders, packets and sets cut short, a set of length 0 and a template without fields | `MessagesConserved`, `EventsConserved`, `FramingExact`, `EventsFaithful`, `RecordsOwnLayout`, `QuietWhenIdle`, `StopReturns` |
| `storage` | 3 keys, one a prefix of another, 2 values, memtables of 10 bytes, 3 hash functions that collide; 2 threads, batches of 1 and 2, 4 sequence numbers | `IndexConsistent`, `TableAnswers`, `IsDictionary` |

The bounds are the smallest at which the interesting cases happen: a ring that
wraps and is both full and empty at every index; two workers with events of one
key, so that a threshold of two is reached by either; events at, inside and
outside a window's edge; a batch of two meeting a queue of one; a ring, a
producer queue and a flow table that fill up before the inputs end; memtables
that are full exactly, and that are one entry short of it.  `capture` gives
every configuration its own traffic, because all features at once would only
multiply states in which they do not meet.  Two window specs
at a time are enough because the code keys every window by its spec's id.
Symmetry (of workers, of groups) is used in runs without liveness.
The objects of `shared_objects`, and those of `common`, have no state in common and call nothing of each
other: the states of such a run are the sum of theirs, not the product.

The larger runs take half a minute to two minutes with two workers
(`shared_objects` 3.4 million, `correlation_threads` 1.6 million, `collectors` 565,000,
`correlation_fair` 360,000, `storage` 280,000 and `capture` 210,000 distinct states).  Type invariants are conjuncts of an invariant of their module
(`NoEventLost`, `HeldOnce`, `AlertIdsUnique`, `PacketsConserved`,
`MessagesConserved`, `IndexConsistent`, `ReadersConsistent`); the inductive
invariants of the proofs (`TypeOK`, `OccupiedRun` and `Conservation` of
`RingBuffer`, `IndInv` of `SpscBuffer`, `DrainInv` of `ThreadPool`, and those named
under "Proofs") hold for every instance and are not run again.

*What the compound invariants say.*  `MessagesConserved` and `PacketsConserved`
count the places a message can be in: a receiver's hand, the ring, popped,
dropped.  `EventsConserved` follows an event from the parser to the broker:
those accepted are in the broker, the producer's queue and the batch, in the
order they were made, and the statistics of collector and producer account for
the rest.  `FlowsConserved` does so for flows: in the table, evicted, or expired
and then published or refused.  `FlowStatsExact` compares the incremental
statistics with those computed from the packets of the flow, kept as history.
`IndexConsistent` says that sequence numbers in the memtables are unique and
that the counters agree with what was drawn; `TableAnswers` that a written
table answers get, range and prefix scans as the memtable it came from;
`IsDictionary` is the refinement of `Dictionary`.

*What some of them leave out.*  `SessionPartition` says that no session goes on over a
gap forward in time, and nothing of late events (`SessionGaps` does).
`EventsFaithful` is about messages that arrive whole and have no process id in an
RFC 3164 tag, which the code leaves in the name, and no two parameters with one
element and key, of which the code keeps the last.  `FramingExact` says that
symbols are kept, not that a line is one message, which it need not be.  `ConditionsExact` is about
files of the layout the compiler is written for: one detection key, and a block
that begins at four columns, goes no further left and has no comments.  The lines and
their depth in the block are then taken from the block's own first line.
`DetectionsRead` is about the repository's own layout.  The collectors' `StopReturns`
leaves out a processing thread that the NetFlow parser never lets go.  In
`RecordsOwnLayout` the layout may be another exporter's.  In `correlation_threads` a rule is
changed once, so a rule that is removed and added again is covered by the
theorems only; and an alert that a sweep made impossible by erasing a late
event's key does not count as missed.  `NumbersFresh` says nothing once two
compilations overlapped, because the code's counter is then not guarded.

Each "violation" run states what the documentation, a comment or a test of the
repository says, and TLC shows a behaviour of the code that differs.

| Run | Statement | Where it comes from | What happens |
|---|---|---|---|
| `stream_at_least_once` | `AtLeastOnce` | `README.md:396` | offsets are committed when their events are queued; a crash loses what was not processed by then |
| `windows_late` | `SessionGaps` | `README.md:911` | the distance of a late event to the session's end is negative, so it joins the session from any distance |
| `storage_full` | `FullIsFlushed` | `README.md:1238`, `memtable.cpp:14` | a put that would exceed the maximum is refused as full, but a table is replaced only when its size is the maximum; one just below refuses puts for the rest of its thread's life |
| `rules_two_spaces` | `DetectionsRead` | `README.md:960`, `test_sigma_compiler.cpp:18` | a line at less than four columns ends the detection block (`sigma_compiler.cpp:242`), and so does `  selection:`; such a rule has no conditions |

### Disagreements seen without a run of their own

* `correlation_engine.cpp:195`, "Keep only events within the time window": only
  the front of `timestamps` is pruned, so when two workers record events of a
  key out of timestamp order an old one behind a younger one is counted.  This
  is why `AlertWithinWindow` and `CleanupErasesExpired` speak of timestamps
  recorded in order; `NoMissedAlert` needs no such condition.
* `README.md:880`, "All triggering events (up to 100)": `key_state.events` is not
  pruned together with `timestamps`, so an alert may carry events that had left
  the window and were not counted.
* `README.md:911`, "A new window starts when the gap between events exceeds the
  timeout": a session's `end` is the timestamp of its last event, so the first
  sweep after it ends the session, however short the time since.
* `README.md:889`, "Each event belongs to exactly one window": a tumbling window that an
  event of the next period rolls over keeps its events (`event_windows.cpp:130`), which
  count in that period as well.  `NoEventLost` asks only that none is lost.
* `event_windows.h:32`, "Field to aggregate": the copy a window stores has no
  byte counts, ports or custom fields, so every aggregate but `count` is taken
  over zeros.
* `circular_buffer.h:33`, "Destroy remaining elements": the destructor walks from
  `head_` to `tail_`, which are the free slots.
* `README.md:934`, windows that raise when the threshold is exceeded: results of
  windows that expire are dropped (`stream_processor.cpp:219`).
* `correlation_engine.h:76`, "Real-time event matching": with a `rules_mutex_` that prefers
  writers, a worker that holds it and waits for `state_mutex_`, the sweeper that
  waits the other way round, and a rule change between them wait for ever
  (`correlation_engine.cpp:283`).
* `stream_processor.cpp:147`, "Commit after processing batch": the batch has only
  been queued by then.
* `stream_processor.h:45`, "exactly-once semantics": an event processed before a
  crash and not yet committed is processed again.
* `README.md:257` and `README.md:1587`, sustained rates of 500,000 events: no
  caller ever polls a producer, so its queue fills with served messages and
  everything after that is refused until the object is destroyed.
* `test_syslog_parser.cpp:38`, "myapp" and "1234" of the tag `myapp[1234]:`: the name goes
  up to the colon, and a process id is looked for behind it, so that the name is
  `myapp[1234]` and the process id is missing.
* `syslog_collector.cpp:261`, "TCP syslog uses octet framing or newline framing": what follows the last newline of a `recv` is a message of its own, so a line that
  TCP cuts becomes several; octet counts are not read.
* `syslog_parser.cpp`: structured data of RFC 5424 that no blank follows stays in
  front of the message.
* `syslog_collector.cpp:235`: a detached handler may outlive `stop()`, and the
  object with it.  The model has it push to the ring after `stop()`; the end of
  the object's life is not modelled.
* `netflow_parser.cpp:89`: templates are kept per thread and by id alone; they are
  gone after a restart and shared by exporters.  Field lengths above 4 are
  shifted into 32 bits.
* `netflow_parser.cpp:200` and `294`: after a set whose header says length 0 the
  parser looks for the next set in the same place.  `netflow_parser.cpp:134` and
  `257`: it reads records of a template without fields, which have no bytes, and
  piles them up in memory.  Either way `parse` does not return: the processing
  thread does nothing more, and `stop()` waits for it for ever (the step
  `NetflowSticks`).  No document speaks of it, so there is no run for it;
  `StopReturns` without its exception is violated.
* `agent_core.cpp`: `ImageLoad` has no case in the conversion, and the last batch
  is not counted in `events_sent`.
* `kafka_producer.cpp`: `messages_delivered` is never counted.
* `dpdk_capture.cpp`: each pcap worker captures every frame, so packets are
  processed once per thread; a `dpdk_burst_size` above 32 exceeds the array of
  32 buffers.
* `flow_tracker.cpp:364`, "evicting oldest": the first entry of an unordered map is
  evicted, without export.  `flow_tracker.cpp:191` takes the ticks of
  `system_clock` for nanoseconds.  The forward direction is the one from the
  lower address, not the initiator's.  `extract_features`, which has no caller,
  reads variances that are not finalised.
* `sstable.cpp:73` and `sstable.cpp:180`: the magic number is not a number in C++.
  `sstable.cpp:78`: the index offset of the footer is taken before the filter is
  written, so a reopened table with a filter reads neither filter nor index
  where they are, and finds nothing.
* `memtable.cpp:22`: an overwritten entry is counted again in the size.
* `lsm_index.cpp`: `get`, `query` and the scans look at no memtable and find
  nothing; `delete_key` writes no tombstone; `flush` writes no table.
* `sigma_compiler.cpp`: a `|` modifier, which Sigma writes behind the field's name, is
  looked for in the value.
* `rule_engine.cpp:73`, "Remove existing Sigma rules": all rules are removed, also
  those added by `add_rule`, and `rules_loaded` is not counted again.  A load that
  compiled before a reload or a removal inserts after it.

### Fairness

* `CorrelationEngine`: a thread inside a call runs; a worker that finds
  `state_mutex_` free again and again gets it (strong fairness), because the
  checkpoint thread sleeps ten seconds between sweeps and workers hold it for
  one update.  Nothing is assumed of callers and events.
* `StreamProcessor`: running threads are scheduled; a push that is retried every
  50 microseconds meets a free slot when slots keep becoming free (strong fairness
  of `Push`).  `poll_batch` ends, since it polls at most `batch_size`
  messages.  Crashes and further messages are not assumed.
* `PacketCapture`: threads the object owns are scheduled; their waits for frames
  have timeouts, their sleeps end, and the clock goes on.  Frames, `start()` and
  `stop()` are not assumed.  Deadlock is not checked there: a capture whose
  traffic and clock have reached their bounds stops.
* `Collectors`: the same; nothing is assumed of senders, peers and callers, nor of
  detached handlers, which `stop()` does not wait for.  A processing thread that
  the NetFlow parser keeps is scheduled like the others, and gets nowhere.
* `HotStorage`, `RuleEngine`: none; their calls wait for nothing but a mutex.
* `ThreadPool`: a caller finishes the call it is in, an awake worker runs, a
  task ends.  No spurious wakeup is assumed, so no progress depends on one.
  A pool that is shut down and has answered every caller rests (`PoolRests` of
  `MCCommon`), which is not a deadlock.

## Proofs

| Theorem | For every | Statement |
|---|---|---|
| `SharedObjectsProofs!RingInvariant` | capacity, values | `TypeOK`, `OccupiedRun`, `Conservation` |
| `SharedObjectsProofs!RingImplementsFifo` | capacity, values | the ring implements `BoundedFifo` |
| `SpscBufferProofs!InvariantHolds` | capacity, values, lag | `IndInv` |
| `SpscBufferProofs!SlotSafety` | the same | `NoSharedSlot`, `ObjectLifetimes` |
| `SpscBufferProofs!SpscImplementsFifo` | the same | the buffer implements `BoundedFifo` |
| `SharedObjectsProofs!PoolInvariant` | workers, tasks, callers | `DrainInv` |
| `SharedObjectsProofs!PoolDrains` | the same | `ShutdownDrains` |
| `SharedObjectsProofs!TasksInOnePlace` | the same | `InOnePlace` |
| `CorrelationEngineProofs!EngineTyped` | workers, rules, events, thresholds, windows | types, and which lock is held where |
| `CorrelationEngineProofs!IdsUnique` | the same | `AlertIdsUnique` |
| `CorrelationEngineProofs!EventsCountedOnce` | the same | `CountedOnce` |
| `CorrelationEngineProofs!AlertsWithinWindow` | the same | `AlertWithinWindow` |
| `CorrelationEngineProofs!AlertsNotMissed` | the same | `NoMissedAlert` |
| `CorrelationEngineProofs!ErasesOnlyExpired` | the same | `CleanupErasesExpired`, an action property: what a sweep erases, if it was recorded in order, is older than its cutoff |
| `EventWindowsProofs!HopWindowsExact` | size, hop, timestamp | the hop range holds exactly the windows that cover the event |
| `EventWindowsProofs!WindowsInvariant` | specs, groups, amounts, events | `WindowsInv` |
| `EventWindowsProofs!EventsNotLost` | the same | `NoEventLost` |
| `EventWindowsProofs!SessionsPartition` | the same | `SessionPartition`: one session for each event, no gap forward in time |
| `EventWindowsProofs!HoppingCountsExact` | the same | `HoppingExact` |
| `StreamProcessorProofs!StreamTyped` | consumers, workers, topic, queue | types, and what each place in the loops implies |
| `StreamProcessorProofs!EventsHeldOnce` | the same | `HeldOnce` |
| `StreamProcessorProofs!StatisticsAgree` | the same | `StatsAgree` |
| `SharedObjectsProofs!ReadersAgree` | threads, directories, added rules, calls | `ReadersConsistent` |
| `SharedObjectsProofs!NumbersStayFresh` | the same | `NumbersFresh` |
| `SharedObjectsProofs!ConditionsKept` | files, threads and calls | `ConditionsExact`, an action property about files whose detection block stands at four columns |
| `PacketCaptureProofs!ConversationsKept` | capture threads, modes, frames, all limits and timeouts | `OneFlowPerConversation` |
| `PacketCaptureProofs!PacketsKept` | the same | `PacketsConserved` |
| `PacketCaptureProofs!FlowsKept` | the same | `FlowsConserved` |
| `CollectorsProofs!CollectorsInvariant` | receivers, kinds, lines, packets and texts, all limits | `IInv`, the inductive invariant of the four collectors |
| `CollectorsProofs!MessagesKept` | the same | `MessagesConserved` |
| `CollectorsProofs!EventsKept` | the same | `EventsConserved` |
| `CollectorsProofs!RecordsKeepLayout` | the same | `RecordsOwnLayout` |
| `CollectorsProofs!LinesFramed` | the same | `FramingExact`: the pieces of a line add up to it |
| `CollectorsProofs!EventsStayFaithful` | the same, and messages, their elements and their parameters | `EventsFaithful` |
| `CollectorsProofs!QuietAfterStop` | the same | `QuietWhenIdle`, an action property |
| `HotStorageProofs!StorageTyped` | threads, keys, values, batches, hash functions | types; a table's size covers each live entry |
| `HotStorageProofs!BooksKept` | the same | `IndexConsistent` |
| `HotStorageProofs!TablesAnswer` | the same | `TableAnswers` |
| `HotStorageProofs!MemTableIsDictionary` | the same | `IsDictionary`: the memtable implements `Dictionary` |

*Ring buffers.*  The proofs of both begin with the facts about `Inc` and `Distance`
that everything rests on: the distance between two indices grows by one when
the front advances and shrinks by one when the back does, and two indices are
equal exactly at distance 0.  For the lock-free buffer neither safety property
is inductive: that the producer's slot is raw depends on what the producer saw
of `tail_` earlier.  `SeenInv` says how far behind each thread's view can be
(less than a lap together with the elements inside), `SlotInv` which slots are
live in every intermediate state of the two calls; with `TypeOK` they are
`IndInv`, which TLC also checks.  Refinement maps the abstract queue to the
elements from `tail_` to `head_`, counting an element that is moved out but not
yet released, so a call takes effect at its release store.

*Thread pool.*  `ShutdownDrains` alone is not inductive.  `Kept` says that
accepted tasks are queued, in hand or done; `LeftInOrder` that a worker leaves
only a stopped pool with an empty queue, which can never be refilled.  With
all workers gone, accepted and done are the same set.  `InOnePlace` needs
`Apart` as well: no two workers hold one task, and none of the queued is held or
done.

*Correlation engine.*  `Typed` is the ground of the other five: besides the types it
says that a worker that raises an alert holds `state_mutex_`.  `Numbered` adds
that the alert being raised carries the next number.  `OnceInv` says where an
event can count for a rule: it is still to be recorded and counts nowhere, it is
among the timestamps of one key, or it is in a raised alert and recorded no
longer; and that an alert being raised counts exactly what its key records, so
that raising it moves the events instead of copying them.  `WindowInv` extends
`AlertWithinWindow` to the alert that is being raised.  `MissedInv` says of every
key that it records fewer timestamps than the threshold or is alerting, and
that an event it has seen is still recorded or outside the window of a later
one.  Pruning stops at the first timestamp that is not expired; that there is
one is `LeastNumber`, that every non-empty set of numbers has a least element,
proved from the well-foundedness of strict inclusion on finite sets.

*Windows.*  `WindowsInv` has the shape of every window (a session ends at its last
event and has no gap forward in time, every other window has its spec's length, none is
empty) and, per processed event and spec that was there, how often results
and open windows together count the event.  Counting, and not only being
somewhere, is what makes it inductive: a result must take exactly what the
window gives up.  `process_event` goes through the specs in a loop; the model
writes it as a recursive function whose existence is proved (`LoopExists`), and
`LoopEffect` carries the well-formed shape and the counts through it spec by
spec: a branch changes the counts of its own spec only.  For `expire_windows` the
keys of the ended windows and the places behind the old results are matched one
to one (`SweepEffect`).  `TruncDiv` rounds towards zero, so near the epoch the
first hop is rounded up; `HopWindowsExact` shows that the range still contains
every window that covers the event.

*Stream processor.*  `Typed` says what the place of a thread in its loop implies: a
batch holds different messages, all below the position, and a consumer
outside a batch has none.  `Held` makes `HeldOnce` inductive by counting for every
message, those not yet polled and those of an earlier process included: once
if this process polled it, otherwise never.  The statistics agree because each
event passes the counters once, on its way from one place to the next.

*Hot storage.*  A thread draws a number and stores with it in two steps.
`Numbered` says that the numbers drawn and not yet stored differ from each other
and from all that are stored, and that all are below the counter; without it
uniqueness is not inductive.  `PutsCounted` balances numbers drawn with puts
counted and puts under way.  `Covered`, that a table's size is at least that of
each live entry, is what keeps the size from going below zero when an entry is
removed.  The refinement of `Dictionary` maps a memtable to its live entries; the
proof has one step per call, refused puts and tombstones included.
`Kept` is what `TableAnswers` rests on: tables are finite, and the SSTable is
what `create` made of its source, or that file opened.  The rest is about values: the
order of keys is total (`BeforeTotal`, `BeforeTransitive`), so that a finite set of
them is listed once and in order (`InOrderLists`); records begin at different
offsets (`OffsetsApart`), so that the index leads to the entry of its key, and
the filter holds the bits of every key written (`RecordsFound`).  A table opened
from a file without a filter is the one that was created (`OpenedSame`).

*Rule engine.*  `ReadersInv` adds to what readers see what the code relies on
between the locks: who reloads holds `mutex_`, and there is no rule until it
inserts (`Locked`), and the total is exact at every moment, not only when the
lock is free.  `InsertEffect` says how many of the rules inserted can be new,
which is what keeps the counters from going below zero.  `FreshInv` says that,
unless compilations overlapped, at most one increment of the counter is under
way, that it writes the next number, and that every number given is at most
that one.  `ConditionsExact` is about what two loops compute from a
file whose block stands at the compiler's four columns (`FourColumnsRead` brings the
lines of the block, counted from its own first line, to those the loop takes).
Each is shown to run (`LoopRuns`); then the state after every line is put in terms of the
lines before it (`BlockKnown`, `ParseKnown`), and what the loop appends is gathered
from certain places, in their order (`Gathers`).  The second loop reads what the
first one left, so that a condition's place is the rank, among the lines that give
conditions, of a rank among the lines of the block; that this is the rank among
the conditions of the file is `RankOfRank`.

*Packet capture.*  The proof follows a packet and a flow through the same places
as the code.  `FlowsTyped` says that the packets of a flow have its key, so that
one conversation is one flow: `OneKey` shows that two frames meet in one key
exactly when they have the same endpoints and protocol, also when the
addresses are equal and only the ports order them.  `Apart` says that captured
packets carry different ids, each not above its thread's counter, wherever they
are; without it a new packet could equal an old one.  `Counted` balances the
counters with the places.  `Batched` cuts the popped packets in two: the last
ones are the batch, in order, and of the earlier ones each was published or
refused, in order; `Send` carries this through `produce_batch`, which may accept
any part of a batch.  For flows, `TrailsApart` says that a packet is in one flow,
once, and only after it was popped, which is why two flows never publish one
event; `Exports` that the flows in the expiry thread's hands are those expired
and not yet announced, each once; `Tallies` that the tracker's counters are the
sizes of those sets.

*Collectors.*  The four collectors share one inductive invariant, `IInv`; its parts
lean on each other.  `Typed` gives every variable its type and says where each
thread can be while `running_` and the phase have which values.  `MessagesInv`
follows the ids of messages: those popped or in the ring, in receivers' hands,
dropped, in pieces of what `recv` returned, on the socket, and those of the cells
still in a stream are six sets without a common member, each without a
repetition, and all are at most the number of inputs.  That a message moves is
then one lemma (`Landing`): ids leave one place for another.  `FrameCuts` shows that `Frame`
cuts what `recv` returned into intervals that are disjoint, hold no newline, and
cover every cell that is none.  `EventsInv` cuts `made` in two, as the proof of
packet capture does: the last ones are the batch, and each of the earlier ones
was sent, in order, or refused.  The heartbeats of the agent go to the same
producer and are told apart by their form.  `TablesKnown` and `RecordsKnown` say
that a template in a table was announced by a popped packet of its version since
the last `start()`, and that each record used such a layout; sets of one packet are
read in a loop, whose function is shown to exist (`SetLoopExists`) and is followed
set by set, through its ends and its ways of never ending (`SetStep`).  `FramingInv`, on top of `IInv`, is what makes `FramingExact` inductive: the
stream consists of the lines from some place to their ends, one behind the
other, no line has the number of another or of a datagram, and of each line every symbol
is either still to be read or in one place of one message.  `FieldsKept`, the
other addition to `IInv`, says that each event came from a popped message whose fields it
holds, and that each popped message the parser understands has one.  What is left is
about the parser alone: a message written as the RFC says (`Render`) is read back.
Behind the priority the header's words keep their places (`TextOpened`).  `LaidOut`
says in which word an element begins; from that, `WordPlace` gives the place of
every parameter and `WordEnds` the symbols at the ends of its word.  The only word that ends
with a bracket is the last one, which is where `parse_rfc5424` cuts (`DataCut`); and a
parameter is paired with the last opening bracket before it, which is its own
element's (`DataParams`).

*Assumptions.*  The theorems rest on the named assumptions on constants and on
nothing else: `WindowsAssumption` (window sizes and hops positive, gaps and
thresholds natural, ids of specs distinct), `EngineAssumption` (windows and
thresholds natural, `Nil` and the sweeper distinct from everything else),
`StreamAssumption` (finitely many consumers and workers, all different, positive
batch and queue sizes), `MemTableAssumption` (a key is a sequence of character codes, an
entry's overhead and the limit positive), `StorageAssumption` (a batch is a
sequence of keys with values, a limit natural), `PoolAssumption` (a pool has workers),
`RulesAssumption` (a directory is a sequence of files, a file one of lines at natural
indents, "nobody" is no thread),
`FlowAssumption` (addresses and ports are numbers), `CaptureAssumption` (finitely many
capture threads, none named as the events of flows are), `ProducerAssumption` and
`PipelineAssumption` (positive limits, finitely many receivers), `SyslogAssumption` (a line
is a sequence without a newline in it), `PacketsAssumption` (lengths and counts are natural
numbers, a packet has a sequence of sets, layouts are announced in sets long enough for them), `MeantAssumption` (the messages `EventsFaithful` is
about: a priority is eight times the facility plus the level,
the version is one, the application of an RFC 3164 tag has no colon and no
bracket, structured data are elements with parameters laid out as in RFC 5424,
without brackets in ids and values and no key twice in an element, and a text
follows them), `VersionsAssumption` (a timestamp is no version),
`LayoutAssumption` (the bytes of a record are a natural number, 0 included) and the capacity of a
ring, a power of two.  TLC evaluates all of them on the runs.

*What the proofs changed.*  `HoppingExact` once counted the covering windows among
hop numbers from `ts - size` to `ts`; the proof failed for an event far from the
epoch, where hop numbers are much smaller than timestamps, and the range is now
the one that contains every covering hop.  The assumptions that keys are
sequences, batches pairs of keys and values, the sweeper no worker and addresses numbers had
been left unsaid.  `PacketsConserved` and `FlowsConserved` spoke of order with
`SelectSeq` and of sums with a fold; they now say with positions and sets what
they mean: no event twice, those of packets in the order of processing, and
every counted packet in one flow, once.  `InsertAll` and `NumbersFresh` of
`RuleEngine` were folds and are stated directly, and `ReadersConsistent` now
also says that the profiles are those of the rules.  `Frame` was a fold over the
cells; it now says where messages start and end.  The loops of `SigmaCompiler`
are recursive functions instead of folds, and `ConditionsExact`, which listed the lines
with `SetToSortSeq`, speaks of their places.  `ParseSets` is a recursive
function instead of a fold, and `InOrder` of the collectors speaks of positions and sets.
`MemTable` and `SSTable` sorted keys with `SetToSortSeq`, which the prover cannot
look into; `InOrder` now says of each key how many are before it.  `prefix_scan` had
been modelled by its result, the keys with the prefix; it is now the loop of the code,
from the first key not before the prefix to the first without it, and that the two
are the same is proved (`PrefixRun`).  `EventsFaithful` compared with fields written
down for each input of the run; it is now about every message that is laid out by
one of the RFCs and has no process id in a tag and no key twice in an element, names levels with a table of its own, takes the parameters from the
elements and not from a set given beside them, and says that such a message has its
event.  The assumption on messages shows what the parser relies on: without a text
behind them, structured data are not found, because the bracket that ends them is
looked for with a blank behind it.

*Only model-checked.*  One invariant that holds, all liveness, and the statements that are
violated.
`FlowStatsExact` compares running statistics
with those of all packets; the fixed-point numbers are exact only while packet
counts divide `Scale`, so that it is a statement about bounded runs.
All liveness (`EventsComplete`, `EventuallyProcessed`, `AcceptedRuns`,
`ShutdownEnds`, `StopReturns`, `OverdueExpires`) needs fairness and `ENABLED`,
which are outside what the prover can do.

## Plan

1. The alerts and window results of `StreamProcessor` over `KafkaProducer`.
2. `PlaybookEngine`: steps, failure policies, retry, cancellation by another
   thread; `Orchestrator`; the hub of the visualisation backend.

## Not modelled

The playbook engine, orchestrator and visualisation backend keep state and are
candidates for modules of their own; the path of an event comes first.  The
Kubernetes operator's behaviour is that of an external API server.  Handlers of
the API gateway return fixed data.  `Event`, the ECS schema, configuration and
metrics are data without behaviour: what the modelled components read or write
of them is in their modules.  The agent's eBPF and kprobe monitors and its
communication stub depend on the kernel and on nothing else in the model.

Of the modelled components, these details are left out: the group rebalance of
`KafkaConsumer`, whose callback returns before `rd_kafka_assign` when it has no
opaque pointer, and none is ever set (`kafka_consumer.cpp:240`), so that the
assignment taken for granted here is up to librdkafka; the raw pointers to rules that
`RuleEngine::get_rules` returns and that a reload may leave dangling; the memory
that the NetFlow parser fills while it does not return; and the end of an
object's life while a detached handler still uses it.

Not planned either: the dashboard (layout and synthetic data), storage clients and
cloud connectors that only issue external calls, OpenSSL, numeric training.
