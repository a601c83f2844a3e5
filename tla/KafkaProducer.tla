---------------------------- MODULE KafkaProducer ----------------------------
(***************************************************************************)
(* KafkaProducer: the queue of librdkafka between produce() and the        *)
(* broker.  A message occupies the queue until its delivery report has     *)
(* been served, and reports are served only inside poll() and flush().     *)
(* poll() has no caller in the repository, so whatever the broker answers, *)
(* only flush() frees room: its answers are a part of Flush below.         *)
(***************************************************************************)
EXTENDS Naturals, Sequences, SequencesExt

CONSTANT QueueMax   \* queue_buffering_max_messages

ASSUME ProducerAssumption == QueueMax \in Nat \ {0}

VARIABLES
    outq,     \* the messages that occupy librdkafka's queue, oldest first
    pstats,   \* stats_: messages_produced, messages_failed
    settled,  \* history: messages stored by the broker or timed out, in order
    refused   \* history: messages produce() did not accept

producerVars == <<outq, pstats, settled, refused>>

ProducerInit ==
    /\ outq = << >> /\ settled = << >> /\ refused = {}
    /\ pstats = [produced |-> 0, failed |-> 0]

queue_size == Len(outq)

\* The messages of a batch that rd_kafka_produce takes: those that fit.
Accepted(msgs) ==
    SubSeq(msgs, 1, IF Len(msgs) <= QueueMax - queue_size THEN Len(msgs)
                    ELSE QueueMax - queue_size)

\* produce_batch: every message is tried, a refused one is counted and gone.
ProduceBatch(msgs) ==
    LET ok == Accepted(msgs)
    IN  /\ outq' = outq \o ok
        /\ pstats' = [produced |-> pstats.produced + Len(ok),
                      failed |-> pstats.failed + Len(msgs) - Len(ok)]
        /\ refused' = refused \cup ToSet(SubSeq(msgs, Len(ok) + 1, Len(msgs)))
        /\ UNCHANGED settled

\* flush() returns, its queue empty or its time over: the first n messages
\* were answered, stored or given up after message.timeout.ms, and reported.
\* delivery_report_callback finds no opaque and counts nothing.
Flush ==
    \E n \in 0 .. Len(outq) :
        /\ settled' = settled \o SubSeq(outq, 1, n)
        /\ outq' = SubSeq(outq, n + 1, Len(outq))
        /\ UNCHANGED <<pstats, refused>>
=============================================================================
