----------------------------- MODULE SpscBuffer -----------------------------
(***************************************************************************)
(* LockFreeCircularBuffer: one producer and one consumer share a ring of   *)
(* raw storage through two atomics.  Each call is cut at its shared        *)
(* accesses: the load that decides full or empty, the construction or move *)
(* of the element, and the release store that publishes the new index.     *)
(* An acquire load may return any value not older than the one the same    *)
(* thread read before, so the other side's index is seen with a lag.       *)
(***************************************************************************)
EXTENDS RingIndex

CONSTANTS Values,    \* elements the producer pushes
          Raw,       \* storage without a live element
          MaxPush    \* bound on the pushes a behaviour accepts

ASSUME ValuesAssumption == Raw \notin Values /\ MaxPush \in Nat

VARIABLES head,      \* head_, written by the producer
          tail,      \* tail_, written by the consumer
          slot,      \* buffer_: the live element of each slot, or Raw
          ppc, pval, \* the producer's place in try_push, and its argument
          cpc, cval, \* the consumer's place in try_pop, and its local value
          tailSeen,  \* the tail_ the producer loaded last
          headSeen,  \* the head_ the consumer loaded last
          lifetime,  \* "alive" until the destructor has run
          gone,      \* the slots whose element the destructor destroyed
          accepted,  \* history: completed successful pushes
          delivered  \* history: what try_pop returned, in order

prodVars == <<head, ppc, pval, tailSeen, accepted>>
consVars == <<tail, cpc, cval, headSeen, delivered>>
lifeVars == <<lifetime, gone>>
vars == <<prodVars, consVars, slot, lifeVars>>

Init ==
    /\ head = 0 /\ tail = 0
    /\ slot = [i \in Index |-> Raw]
    /\ ppc = "idle" /\ pval = Raw
    /\ cpc = "idle" /\ cval = Raw
    /\ tailSeen = 0 /\ headSeen = 0
    /\ lifetime = "alive" /\ gone = {}
    /\ accepted = 0
    /\ delivered = << >>

\* What an atomic load of an index may return to a thread that last saw seen.
Loadable(seen, current) ==
    { SlotAt(seen, k) : k \in 0 .. Distance(current, seen) }

-----------------------------------------------------------------------------
(* try_push *)

\* The acquire load of tail_ shows a full ring: return false.
PushFull(t) ==
    /\ lifetime = "alive" /\ ppc = "idle"
    /\ Inc(head) = t
    /\ tailSeen' = t
    /\ UNCHANGED <<head, ppc, pval, accepted, consVars, slot, lifeVars>>

\* Mutant of PushRoom: a full ring is not refused.
PushUnchecked(t, v) ==
    /\ lifetime = "alive" /\ ppc = "idle"
    /\ accepted < MaxPush
    /\ tailSeen' = t
    /\ ppc' = "construct" /\ pval' = v
    /\ UNCHANGED <<head, accepted, consVars, slot, lifeVars>>

\* The acquire load of tail_ shows room at head_.
PushRoom(t, v) ==
    /\ lifetime = "alive" /\ ppc = "idle"
    /\ accepted < MaxPush
    /\ Inc(head) # t
    /\ tailSeen' = t
    /\ ppc' = "construct" /\ pval' = v
    /\ UNCHANGED <<head, accepted, consVars, slot, lifeVars>>

\* new (&buffer_[head]) T(...)
PushConstruct ==
    /\ ppc = "construct"
    /\ slot' = [slot EXCEPT ![head] = pval]
    /\ ppc' = "publish"
    /\ UNCHANGED <<head, pval, tailSeen, accepted, consVars, lifeVars>>

\* head_.store(next_head, release); return true
PushPublish ==
    /\ ppc = "publish"
    /\ head' = Inc(head)
    /\ ppc' = "idle" /\ pval' = Raw
    /\ accepted' = accepted + 1
    /\ UNCHANGED <<tailSeen, consVars, slot, lifeVars>>

-----------------------------------------------------------------------------
(* try_pop *)

\* The acquire load of head_ shows an empty ring: return nullopt.
PopEmpty(h) ==
    /\ lifetime = "alive" /\ cpc = "idle"
    /\ tail = h
    /\ headSeen' = h
    /\ UNCHANGED <<tail, cpc, cval, delivered, prodVars, slot, lifeVars>>

\* Mutant of PopFound: an empty ring is not refused.
PopUnchecked(h) ==
    /\ lifetime = "alive" /\ cpc = "idle"
    /\ headSeen' = h
    /\ cpc' = "move"
    /\ UNCHANGED <<tail, cval, delivered, prodVars, slot, lifeVars>>

\* The acquire load of head_ shows an element at tail_.
PopFound(h) ==
    /\ lifetime = "alive" /\ cpc = "idle"
    /\ tail # h
    /\ headSeen' = h
    /\ cpc' = "move"
    /\ UNCHANGED <<tail, cval, delivered, prodVars, slot, lifeVars>>

\* Move the element out and end its lifetime.
PopMove ==
    /\ cpc = "move"
    /\ cval' = slot[tail]
    /\ slot' = [slot EXCEPT ![tail] = Raw]
    /\ cpc' = "release"
    /\ UNCHANGED <<tail, headSeen, delivered, prodVars, lifeVars>>

\* tail_.store(..., release); return value
PopRelease ==
    /\ cpc = "release"
    /\ tail' = Inc(tail)
    /\ delivered' = Append(delivered, cval)
    /\ cpc' = "idle" /\ cval' = Raw
    /\ UNCHANGED <<headSeen, prodVars, slot, lifeVars>>

-----------------------------------------------------------------------------
(* ~LockFreeCircularBuffer, once both threads are done with it *)

\* The slots the destructor walks over: from head_ up to tail_.
DestroyedSlots == Run(head, tail)

Destroy ==
    /\ lifetime = "alive" /\ ppc = "idle" /\ cpc = "idle"
    /\ gone' = DestroyedSlots
    /\ lifetime' = "destroyed"
    /\ UNCHANGED <<prodVars, consVars, slot>>

Done ==
    /\ lifetime = "destroyed"
    /\ UNCHANGED vars

Push ==
    \/ \E t \in Loadable(tailSeen, tail) :
           PushFull(t) \/ \E v \in Values : PushRoom(t, v)
    \/ PushConstruct
    \/ PushPublish

Pop ==
    \/ \E h \in Loadable(headSeen, head) : PopEmpty(h) \/ PopFound(h)
    \/ PopMove
    \/ PopRelease

Next == Push \/ Pop \/ Destroy \/ Done

Spec == Init /\ [][Next]_vars

-----------------------------------------------------------------------------
\* Types: indices, also the ones a thread remembers, stay inside buffer_, and a
\* call holds a value exactly while it needs one.
TypeOK ==
    /\ head \in Index /\ tail \in Index
    /\ tailSeen \in Index /\ headSeen \in Index
    /\ slot \in [Index -> Values \cup {Raw}]
    /\ ppc \in {"idle", "construct", "publish"}
    /\ cpc \in {"idle", "move", "release"}
    /\ pval \in IF ppc = "idle" THEN {Raw} ELSE Values
    /\ cval \in IF cpc = "release" THEN Values ELSE {Raw}
    /\ lifetime \in {"alive", "destroyed"}
    /\ gone \subseteq Index
    /\ accepted \in Nat
    /\ delivered \in Seq(Values)

\* The two threads never touch the same storage: while the producer constructs
\* at head_ the consumer is not moving from that slot, whatever lag their
\* loads of each other's index had.
NoSharedSlot ==
    ppc = "construct" /\ cpc = "move" => head # tail

\* try_push constructs only in storage without a live element (nothing is
\* overwritten) and try_pop moves only out of a live one.
ObjectLifetimes ==
    /\ ppc = "construct" => slot[head] = Raw
    /\ cpc = "move" => slot[tail] # Raw

\* What each thread last saw of the other lags behind, by less than a lap:
\* the producer's tail_ is at or before the real one and head_ has not come
\* round to it, the consumer's head_ lies between the real tail_ and head_.
\* A thread past its check relies on the room, or the element, it saw.
SeenInv ==
    /\ Distance(tail, tailSeen) + Distance(head, tail) < Capacity
    /\ Distance(headSeen, tail) <= Distance(head, tail)
    /\ ppc # "idle" => Inc(head) # tailSeen
    /\ cpc # "idle" => headSeen # tail

\* Exactly the slots from tail_ to head_ hold live elements, up to the one
\* being constructed or already moved out.
SlotInv ==
    /\ \A i \in Index :
           slot[i] # Raw <=>
               \/ /\ Distance(i, tail) < Distance(head, tail)
                  /\ ~(i = tail /\ cpc = "release")
               \/ i = head /\ ppc = "publish"
    /\ ppc = "publish" => slot[head] = pval

\* The inductive invariant behind the properties of this module.
IndInv == TypeOK /\ SeenInv /\ SlotInv

\* The slots as callers see them: an element counts as inside until the
\* consumer has released its slot.
VisibleSlots == [slot EXCEPT ![tail] = IF cpc = "release" THEN cval ELSE @]

\* Whatever the lag of the two loads, the buffer implements a FIFO queue of
\* Capacity - 1 elements: each call takes effect at its release store.
Fifo == INSTANCE BoundedFifo
            WITH queue <- Contents(VisibleSlots, head, tail),
                 Limit <- Capacity - 1

ImplementsFifo == Fifo!Spec

=============================================================================
