----------------------------- MODULE RingBuffer -----------------------------
(***************************************************************************)
(* ConcurrentRingBuffer: the mutex-protected ring through which every      *)
(* collector, the endpoint agent and the stream processor hand events from *)
(* their receiving threads to their processing threads.  Every operation   *)
(* holds mutex_ from its first to its last statement, so one action per    *)
(* operation is exact.                                                     *)
(***************************************************************************)
EXTENDS RingIndex

CONSTANTS Values,    \* elements callers push
          Blank,     \* a default-constructed or moved-from slot
          MaxPush    \* bound on the pushes a behaviour accepts

ASSUME ValuesAssumption == Blank \notin Values /\ MaxPush \in Nat

VARIABLES head,      \* head_
          tail,      \* tail_
          buffer,    \* buffer_
          accepted,  \* history: how many pushes returned true
          delivered  \* history: what try_pop returned, in order

vars == <<head, tail, buffer, accepted, delivered>>

\* size()
Size == Distance(head, tail)

\* empty()
Empty == head = tail

Init ==
    /\ head = 0 /\ tail = 0
    /\ buffer = [i \in Index |-> Blank]
    /\ accepted = 0
    /\ delivered = << >>

\* try_push finds the ring full: the caller's value is not moved from, so the
\* call changes nothing and the caller may retry with the same value.
TryPushFull ==
    /\ Inc(head) = tail
    /\ UNCHANGED vars

\* try_push stores at head_ and advances it.
TryPush(v) ==
    /\ accepted < MaxPush
    /\ Inc(head) # tail
    /\ buffer' = [buffer EXCEPT ![head] = v]
    /\ head' = Inc(head)
    /\ accepted' = accepted + 1
    /\ UNCHANGED <<tail, delivered>>

\* try_pop finds the ring empty and returns nullopt.
TryPopEmpty ==
    /\ Empty
    /\ UNCHANGED vars

\* Mutant of TryPop: tail_ is advanced before the element is read.
TryPopAdvancesFirst ==
    /\ ~Empty
    /\ delivered' = Append(delivered, buffer[Inc(tail)])
    /\ buffer' = [buffer EXCEPT ![tail] = Blank]
    /\ tail' = Inc(tail)
    /\ UNCHANGED <<head, accepted>>

\* try_pop moves the oldest element out and advances tail_.
TryPop ==
    /\ ~Empty
    /\ delivered' = Append(delivered, buffer[tail])
    /\ buffer' = [buffer EXCEPT ![tail] = Blank]
    /\ tail' = Inc(tail)
    /\ UNCHANGED <<head, accepted>>

Next ==
    \/ TryPopEmpty
    \/ TryPop
    \/ TryPushFull
    \/ \E v \in Values : TryPush(v)

Spec == Init /\ [][Next]_vars

-----------------------------------------------------------------------------
\* Types: both indices stay inside buffer_.
TypeOK ==
    /\ head \in Index
    /\ tail \in Index
    /\ buffer \in [Index -> Values \cup {Blank}]
    /\ accepted \in Nat
    /\ delivered \in Seq(Values)

\* An element is in the ring exactly when its slot lies between tail_ and
\* head_, and nothing that was handed out is kept alive by a stale slot.
OccupiedRun ==
    \A i \in Index : buffer[i] # Blank <=> i \in Run(tail, head)

\* No element is lost, invented or counted twice over any number of laps
\* round the ring: what was accepted is what came out plus what is inside.
Conservation ==
    accepted = Len(delivered) + Size

\* The ring implements a FIFO queue of Capacity - 1 elements.
Fifo == INSTANCE BoundedFifo
            WITH queue <- Contents(buffer, head, tail), Limit <- Capacity - 1

ImplementsFifo == Fifo!Spec
=============================================================================
