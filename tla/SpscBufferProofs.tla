-------------------------- MODULE SpscBufferProofs --------------------------
(***************************************************************************)
(* The lock-free ring is safe and implements the bounded FIFO queue, for   *)
(* every capacity, set of values and number of pushes.                     *)
(***************************************************************************)
EXTENDS SpscBuffer, SequenceTheorems, TLAPS

-----------------------------------------------------------------------------
(* The index arithmetic without the modulo: every value that is reduced lies *)
(* within one lap of Index.                                                  *)

\* Reducing a sum of two indices subtracts Capacity at most once.
LEMMA ModSum ==
    ASSUME NEW x \in Int, 0 <= x, x < 2 * Capacity
    PROVE  x % Capacity = IF x < Capacity THEN x ELSE x - Capacity
<1>1. DEFINE q == x \div Capacity
             r == x % Capacity
<1>2. q \in Int /\ r \in 0 .. Capacity - 1 /\ x = Capacity * q + r
  BY CapacityAssumption
<1>. QED
  BY <1>2, CapacityAssumption, SMT

\* Reducing a difference of two indices adds Capacity at most once.
LEMMA ModDiff ==
    ASSUME NEW x \in Int, -Capacity < x, x < Capacity
    PROVE  x % Capacity = IF x < 0 THEN x + Capacity ELSE x
<1>1. DEFINE q == x \div Capacity
             r == x % Capacity
<1>2. q \in Int /\ r \in 0 .. Capacity - 1 /\ x = Capacity * q + r
  BY CapacityAssumption
<1>. QED
  BY <1>2, CapacityAssumption, SMT

\* "(i + 1) & mask_" is the cyclic successor.
LEMMA IncIndex ==
    ASSUME NEW i \in Index
    PROVE  /\ Inc(i) \in Index
           /\ Inc(i) = IF i = Capacity - 1 THEN 0 ELSE i + 1
  BY CapacityAssumption, ModSum DEF Inc, Index

\* "(head - tail) & mask_" is the cyclic distance.
LEMMA DistanceIndex ==
    ASSUME NEW h \in Index, NEW t \in Index
    PROVE  /\ Distance(h, t) \in Index
           /\ Distance(h, t) = IF h < t THEN h - t + Capacity ELSE h - t
  BY CapacityAssumption, ModDiff DEF Distance, Index

\* The slot k places after an index.
LEMMA SlotAtIndex ==
    ASSUME NEW t \in Index, NEW k \in Index
    PROVE  /\ SlotAt(t, k) \in Index
           /\ SlotAt(t, k) = IF t + k < Capacity THEN t + k ELSE t + k - Capacity
  BY CapacityAssumption, ModSum DEF SlotAt, Index

\* Moving s forward towards t shortens the distance by as much.
LEMMA DistanceFromLater ==
    ASSUME NEW t \in Index, NEW s \in Index, NEW k \in 0 .. Distance(t, s)
    PROVE  /\ SlotAt(s, k) \in Index
           /\ Distance(t, SlotAt(s, k)) = Distance(t, s) - k
<1>1. k \in Index /\ Distance(t, s) = IF t < s THEN t - s + Capacity ELSE t - s
  BY DistanceIndex, CapacityAssumption DEF Index
<1>2. /\ SlotAt(s, k) \in Index
      /\ SlotAt(s, k) = IF s + k < Capacity THEN s + k ELSE s + k - Capacity
  BY <1>1, SlotAtIndex
<1>3. Distance(t, SlotAt(s, k)) =
        IF t < SlotAt(s, k) THEN t - SlotAt(s, k) + Capacity ELSE t - SlotAt(s, k)
  BY <1>2, DistanceIndex
<1>. QED
  BY <1>1, <1>2, <1>3, CapacityAssumption DEF Index

\* Moving s forward without passing h, t before both, keeps it before h.
LEMMA DistanceToLater ==
    ASSUME NEW h \in Index, NEW s \in Index, NEW t \in Index,
           Distance(s, t) <= Distance(h, t), NEW k \in 0 .. Distance(h, s)
    PROVE  /\ SlotAt(s, k) \in Index
           /\ Distance(SlotAt(s, k), t) = Distance(s, t) + k
           /\ Distance(SlotAt(s, k), t) <= Distance(h, t)
<1>1. /\ Distance(h, s) \in Index
      /\ Distance(h, s) = IF h < s THEN h - s + Capacity ELSE h - s
      /\ Distance(h, t) = IF h < t THEN h - t + Capacity ELSE h - t
      /\ Distance(s, t) = IF s < t THEN s - t + Capacity ELSE s - t
  BY DistanceIndex
<1>2. k \in Index
  BY <1>1, CapacityAssumption DEF Index
<1>3. /\ SlotAt(s, k) \in Index
      /\ SlotAt(s, k) = IF s + k < Capacity THEN s + k ELSE s + k - Capacity
  BY <1>2, SlotAtIndex
<1>4. Distance(SlotAt(s, k), t) =
        IF SlotAt(s, k) < t THEN SlotAt(s, k) - t + Capacity ELSE SlotAt(s, k) - t
  BY <1>3, DistanceIndex
<1>. QED
  BY <1>1, <1>2, <1>3, <1>4, CapacityAssumption DEF Index

\* Advancing the near end by one, where it does not meet the far end.
LEMMA DistanceInc ==
    ASSUME NEW h \in Index, NEW t \in Index
    PROVE  /\ Inc(h) # t => Distance(Inc(h), t) = Distance(h, t) + 1
           /\ Inc(h) # t <=> Distance(h, t) < Capacity - 1
           /\ h # t => Distance(h, Inc(t)) = Distance(h, t) - 1
           /\ h = t <=> Distance(h, t) = 0
           /\ Distance(t, Inc(t)) = Capacity - 1
<1>1. /\ Inc(h) \in Index /\ Inc(t) \in Index
      /\ Inc(h) = IF h = Capacity - 1 THEN 0 ELSE h + 1
      /\ Inc(t) = IF t = Capacity - 1 THEN 0 ELSE t + 1
  BY IncIndex
<1>2. /\ Distance(h, t) = IF h < t THEN h - t + Capacity ELSE h - t
      /\ Distance(Inc(h), t) = IF Inc(h) < t THEN Inc(h) - t + Capacity ELSE Inc(h) - t
      /\ Distance(h, Inc(t)) = IF h < Inc(t) THEN h - Inc(t) + Capacity ELSE h - Inc(t)
      /\ Distance(t, Inc(t)) = IF t < Inc(t) THEN t - Inc(t) + Capacity ELSE t - Inc(t)
  BY <1>1, DistanceIndex
<1>. QED
  BY <1>1, <1>2, CapacityAssumption DEF Index

\* The k-th slot of a run is at distance k from its start, and each slot is
\* the one at its distance.
LEMMA SlotDistance ==
    ASSUME NEW t \in Index
    PROVE  /\ \A k \in Index : Distance(SlotAt(t, k), t) = k
           /\ \A i \in Index : SlotAt(t, Distance(i, t)) = i
<1>1. ASSUME NEW k \in Index PROVE Distance(SlotAt(t, k), t) = k
  <2>1. /\ SlotAt(t, k) \in Index
        /\ SlotAt(t, k) = IF t + k < Capacity THEN t + k ELSE t + k - Capacity
    BY SlotAtIndex
  <2>2. Distance(SlotAt(t, k), t) =
          IF SlotAt(t, k) < t THEN SlotAt(t, k) - t + Capacity ELSE SlotAt(t, k) - t
    BY <2>1, DistanceIndex
  <2>. QED
    BY <2>1, <2>2, CapacityAssumption DEF Index
<1>2. ASSUME NEW i \in Index PROVE SlotAt(t, Distance(i, t)) = i
  <2>1. /\ Distance(i, t) \in Index
        /\ Distance(i, t) = IF i < t THEN i - t + Capacity ELSE i - t
    BY DistanceIndex
  <2>2. SlotAt(t, Distance(i, t)) = IF t + Distance(i, t) < Capacity
                                    THEN t + Distance(i, t)
                                    ELSE t + Distance(i, t) - Capacity
    BY <2>1, SlotAtIndex
  <2>. QED
    BY <2>1, <2>2, CapacityAssumption DEF Index
<1>. QED
  BY <1>1, <1>2

\* Distances along less than a lap add up.
LEMMA DistanceAdd ==
    ASSUME NEW a \in Index, NEW b \in Index, NEW c \in Index,
           Distance(b, a) + Distance(c, b) < Capacity
    PROVE  Distance(c, a) = Distance(b, a) + Distance(c, b)
<1>1. /\ Distance(b, a) = IF b < a THEN b - a + Capacity ELSE b - a
      /\ Distance(c, b) = IF c < b THEN c - b + Capacity ELSE c - b
      /\ Distance(c, a) = IF c < a THEN c - a + Capacity ELSE c - a
  BY DistanceIndex
<1>. QED
  BY <1>1, CapacityAssumption DEF Index

\* A run of slots consists of indices.
LEMMA RunIndex ==
    ASSUME NEW lo \in Index, NEW hi \in Index
    PROVE  Run(lo, hi) \subseteq Index
<1>1. Distance(hi, lo) \in Index
  BY DistanceIndex
<1>2. \A k \in 0 .. Distance(hi, lo) - 1 : k \in Index
  BY <1>1, CapacityAssumption DEF Index
<1>. QED
  BY <1>2, SlotAtIndex DEF Run

-----------------------------------------------------------------------------
(* The ring *)

\* The empty ring satisfies the invariant.
LEMMA InitInd == Init => IndInv
<1>. SUFFICES ASSUME Init PROVE IndInv
  OBVIOUS
<1>1. 0 \in Index
  BY CapacityAssumption DEF Index
<1>2. Distance(0, 0) = 0
  BY <1>1, DistanceInc
<1>3. TypeOK
  BY <1>1 DEF Init, TypeOK
<1>4. SeenInv
  BY <1>2, CapacityAssumption DEF Init, SeenInv
<1>5. SlotInv
  <2>1. \A i \in Index : Distance(i, 0) >= 0
    BY <1>1, DistanceIndex, CapacityAssumption DEF Index
  <2>. QED
    BY <1>2, <2>1, DistanceIndex, <1>1 DEF Init, SlotInv, Index
<1>. QED
  BY <1>3, <1>4, <1>5 DEF IndInv

\* What the producer's load of tail_ may return keeps its view behind tail_.
LEMMA LoadTail ==
    ASSUME IndInv, NEW t \in Loadable(tailSeen, tail)
    PROVE  /\ t \in Index
           /\ Distance(tail, t) + Distance(head, tail) < Capacity
<1>1. PICK k \in 0 .. Distance(tail, tailSeen) : t = SlotAt(tailSeen, k)
  BY DEF Loadable
<1>2. tail \in Index /\ tailSeen \in Index /\ head \in Index
  BY DEF IndInv, TypeOK
<1>3. t \in Index /\ Distance(tail, t) = Distance(tail, tailSeen) - k
  BY <1>1, <1>2, DistanceFromLater
<1>4. Distance(tail, tailSeen) \in Int /\ Distance(head, tail) \in Int
  BY <1>2, DistanceIndex, CapacityAssumption DEF Index
<1>. QED
  BY <1>3, <1>4, CapacityAssumption DEF IndInv, SeenInv

\* What the consumer's load of head_ may return lies between tail_ and head_.
LEMMA LoadHead ==
    ASSUME IndInv, NEW h \in Loadable(headSeen, head)
    PROVE  /\ h \in Index
           /\ Distance(h, tail) <= Distance(head, tail)
<1>1. PICK k \in 0 .. Distance(head, headSeen) : h = SlotAt(headSeen, k)
  BY DEF Loadable
<1>2. /\ tail \in Index /\ headSeen \in Index /\ head \in Index
      /\ Distance(headSeen, tail) <= Distance(head, tail)
  BY DEF IndInv, TypeOK, SeenInv
<1>. QED
  BY <1>1, <1>2, DistanceToLater
\* The facts about the indices that every step uses.
LEMMA IndexFacts ==
    ASSUME IndInv
    PROVE  /\ head \in Index /\ tail \in Index
           /\ tailSeen \in Index /\ headSeen \in Index
           /\ Inc(head) \in Index /\ Inc(tail) \in Index
           /\ \A i, j \in Index : Distance(i, j) \in Nat
           /\ Capacity \in Nat
<1>1. /\ head \in Index /\ tail \in Index
      /\ tailSeen \in Index /\ headSeen \in Index
  BY DEF IndInv, TypeOK
<1>2. \A i, j \in Index : Distance(i, j) \in Nat
  BY DistanceIndex, CapacityAssumption DEF Index
<1>. QED
  BY <1>1, <1>2, IncIndex, CapacityAssumption

\* A producer past its check has room: the ring holds fewer than Capacity - 1.
LEMMA RoomAhead ==
    ASSUME IndInv, ppc # "idle"
    PROVE  Distance(head, tail) < Capacity - 1 /\ Inc(head) # tailSeen
<1>1. Inc(head) # tailSeen
  BY DEF IndInv, SeenInv
<1>2. Distance(head, tailSeen) < Capacity - 1
  BY <1>1, IndexFacts, DistanceInc
<1>3. Distance(head, tailSeen) = Distance(tail, tailSeen) + Distance(head, tail)
  BY IndexFacts, DistanceAdd DEF IndInv, SeenInv
<1>. QED
  BY <1>1, <1>2, <1>3, IndexFacts

\* A consumer past its check has an element: the ring is not empty.
LEMMA ElementAhead ==
    ASSUME IndInv, cpc # "idle"
    PROVE  0 < Distance(headSeen, tail) /\ 0 < Distance(head, tail) /\ head # tail
<1>1. headSeen # tail /\ Distance(headSeen, tail) <= Distance(head, tail)
  BY DEF IndInv, SeenInv
<1>2. Distance(headSeen, tail) # 0
  BY <1>1, IndexFacts, DistanceInc
<1>3. 0 < Distance(head, tail)
  BY <1>1, <1>2, IndexFacts
<1>. QED
  BY <1>2, <1>3, IndexFacts, DistanceInc

\* Every step keeps the invariant.
LEMMA StepInd == IndInv /\ [Next]_vars => IndInv'
<1>. SUFFICES ASSUME IndInv, [Next]_vars PROVE IndInv'
  OBVIOUS
<1>. USE DEF prodVars, consVars, lifeVars
<1>0. /\ head \in Index /\ tail \in Index
      /\ tailSeen \in Index /\ headSeen \in Index
      /\ Inc(head) \in Index /\ Inc(tail) \in Index
      /\ \A i, j \in Index : Distance(i, j) \in Nat
      /\ Capacity \in Nat
  BY IndexFacts
<1>1. ASSUME NEW t \in Loadable(tailSeen, tail), PushFull(t) PROVE IndInv'
  <2>1. t \in Index /\ Distance(tail, t) + Distance(head, tail) < Capacity
    BY LoadTail
  <2>. QED
    BY <1>1, <2>1 DEF PushFull, IndInv, TypeOK, SeenInv, SlotInv
<1>2. ASSUME NEW t \in Loadable(tailSeen, tail), NEW v \in Values, PushRoom(t, v)
      PROVE  IndInv'
  <2>1. t \in Index /\ Distance(tail, t) + Distance(head, tail) < Capacity
    BY LoadTail
  <2>. QED
    BY <1>2, <2>1 DEF PushRoom, IndInv, TypeOK, SeenInv, SlotInv
<1>3. CASE PushConstruct
  <2>1. TypeOK'
    BY <1>0, <1>3 DEF PushConstruct, IndInv, TypeOK
  <2>2. SeenInv'
    BY <1>3 DEF PushConstruct, IndInv, SeenInv
  <2>3. pval # Raw /\ slot'[head] = pval
    BY <1>0, <1>3, ValuesAssumption DEF PushConstruct, IndInv, TypeOK
  <2>4. SlotInv'
    BY <1>0, <1>3, <2>3 DEF PushConstruct, IndInv, TypeOK, SlotInv
  <2>. QED
    BY <2>1, <2>2, <2>4 DEF IndInv
<1>4. CASE PushPublish
  <2>1. TypeOK'
    <3>1. head' \in Index /\ accepted' \in Nat
      BY <1>0, <1>4 DEF PushPublish, IndInv, TypeOK
    <3>. QED
      BY <1>4, <3>1 DEF PushPublish, IndInv, TypeOK
  <2>2. Distance(head, tail) < Capacity - 1 /\ Inc(head) # tailSeen
    BY <1>0, <1>4, RoomAhead DEF PushPublish
  <2>3. SeenInv'
    BY <1>0, <1>4, <2>2, DistanceInc, DistanceAdd DEF PushPublish, IndInv, SeenInv
  <2>4. SlotInv'
    <3>1. Distance(Inc(head), tail) = Distance(head, tail) + 1
      BY <1>0, <2>2, DistanceInc
    <3>2. ASSUME NEW i \in Index
          PROVE  slot[i] # Raw <=> /\ Distance(i, tail) < Distance(head, tail) + 1
                                   /\ ~(i = tail /\ cpc = "release")
      <4>1. Distance(i, tail) = Distance(head, tail) <=> i = head
        BY <1>0, SlotDistance
      <4>2. cpc = "release" => head # tail
        BY ElementAhead
      <4>3. slot[i] # Raw <=> \/ /\ Distance(i, tail) < Distance(head, tail)
                                 /\ ~(i = tail /\ cpc = "release")
                              \/ i = head
        BY <1>4 DEF PushPublish, IndInv, SlotInv
      <4>. QED
        BY <1>0, <4>1, <4>2, <4>3
    <3>. QED
      BY <1>4, <3>1, <3>2 DEF PushPublish, SlotInv
  <2>. QED
    BY <2>1, <2>3, <2>4 DEF IndInv
<1>5. ASSUME NEW h \in Loadable(headSeen, head), PopEmpty(h) PROVE IndInv'
  <2>1. h \in Index /\ Distance(h, tail) <= Distance(head, tail)
    BY LoadHead
  <2>. QED
    BY <1>5, <2>1 DEF PopEmpty, IndInv, TypeOK, SeenInv, SlotInv
<1>6. ASSUME NEW h \in Loadable(headSeen, head), PopFound(h) PROVE IndInv'
  <2>1. h \in Index /\ Distance(h, tail) <= Distance(head, tail)
    BY LoadHead
  <2>. QED
    BY <1>6, <2>1 DEF PopFound, IndInv, TypeOK, SeenInv, SlotInv
<1>7. CASE PopMove
  <2>1. 0 < Distance(head, tail) /\ head # tail
    BY <1>7, ElementAhead DEF PopMove
  <2>2. Distance(tail, tail) = 0
    BY <1>0, DistanceInc
  <2>3. slot[tail] \in Values
    BY <1>0, <1>7, <2>1, <2>2 DEF PopMove, IndInv, TypeOK, SlotInv
  <2>4. TypeOK'
    BY <1>0, <1>7, <2>3 DEF PopMove, IndInv, TypeOK
  <2>5. SeenInv'
    BY <1>7 DEF PopMove, IndInv, SeenInv
  <2>6. SlotInv'
    BY <1>0, <1>7, <2>1 DEF PopMove, IndInv, TypeOK, SlotInv
  <2>. QED
    BY <2>4, <2>5, <2>6 DEF IndInv
<1>8. CASE PopRelease
  <2>1. 0 < Distance(headSeen, tail) /\ 0 < Distance(head, tail) /\ head # tail
    BY <1>8, ElementAhead DEF PopRelease
  <2>2. headSeen # tail
    BY <1>8 DEF PopRelease, IndInv, SeenInv
  <2>3. TypeOK'
    <3>1. cval \in Values /\ delivered \in Seq(Values)
      BY <1>8 DEF PopRelease, IndInv, TypeOK
    <3>2. delivered' \in Seq(Values) /\ tail' \in Index
      BY <1>0, <1>8, <3>1 DEF PopRelease
    <3>. QED
      BY <1>8, <3>2 DEF PopRelease, IndInv, TypeOK
  <2>4. /\ Distance(head, Inc(tail)) = Distance(head, tail) - 1
        /\ Distance(headSeen, Inc(tail)) = Distance(headSeen, tail) - 1
    BY <1>0, <2>1, <2>2, DistanceInc
  <2>5. Distance(Inc(tail), tailSeen) + Distance(head, Inc(tail)) < Capacity
    <3>1. Distance(tail, tailSeen) + Distance(head, tail) < Capacity
      BY DEF IndInv, SeenInv
    <3>2. Distance(tail, tailSeen) < Capacity - 1
      BY <1>0, <2>1, <3>1
    <3>3. Distance(Inc(tail), tailSeen) = Distance(tail, tailSeen) + 1
      BY <1>0, <3>2, DistanceInc
    <3>. QED
      BY <1>0, <2>4, <3>1, <3>3
  <2>6. SeenInv'
    <3>1. /\ Distance(headSeen, Inc(tail)) <= Distance(head, Inc(tail))
          /\ ppc # "idle" => Inc(head) # tailSeen
      BY <1>0, <2>4 DEF IndInv, SeenInv
    <3>. QED
      BY <1>8, <2>5, <3>1 DEF PopRelease, SeenInv
  <2>7. SlotInv'
    <3>1. ASSUME NEW i \in Index
          PROVE  slot[i] # Raw <=> \/ Distance(i, Inc(tail)) < Distance(head, Inc(tail))
                                   \/ i = head /\ ppc = "publish"
      <4>1. CASE i = tail
        <5>1. slot[i] = Raw
          BY <1>0, <1>8, <2>1, <4>1 DEF PopRelease, IndInv, SlotInv
        <5>2. Distance(i, Inc(tail)) = Capacity - 1
          BY <1>0, <4>1, DistanceInc
        <5>3. Distance(head, Inc(tail)) < Capacity
          BY <1>0, DistanceIndex DEF Index
        <5>. QED
          BY <1>0, <2>1, <4>1, <5>1, <5>2, <5>3
      <4>2. CASE i # tail
        <5>1. Distance(i, Inc(tail)) = Distance(i, tail) - 1
          BY <1>0, <4>2, DistanceInc
        <5>. QED
          BY <1>0, <2>4, <4>2, <5>1 DEF IndInv, SlotInv
      <4>. QED
        BY <4>1, <4>2
    <3>. QED
      BY <1>8, <3>1 DEF PopRelease, IndInv, SlotInv
  <2>. QED
    BY <2>3, <2>6, <2>7 DEF IndInv
<1>9. CASE Destroy
  <2>1. DestroyedSlots \subseteq Index
    BY <1>0, RunIndex DEF DestroyedSlots
  <2>. QED
    BY <1>9, <2>1 DEF Destroy, IndInv, TypeOK, SeenInv, SlotInv
<1>10. CASE Done \/ UNCHANGED vars
  BY <1>10 DEF Done, vars, IndInv, TypeOK, SeenInv, SlotInv
<1>. QED
  BY <1>1, <1>2, <1>3, <1>4, <1>5, <1>6, <1>7, <1>8, <1>9, <1>10 DEF Next, Push, Pop
\* The inductive invariant holds of every behaviour.
THEOREM InvariantHolds == Spec => []IndInv
<1>. QED
  BY InitInd, StepInd, PTL DEF Spec

\* The producer constructs only in storage the consumer has released, and the
\* consumer moves only out of elements the producer has published: the two
\* threads never touch one slot at a time.
THEOREM SlotSafety == Spec => [](NoSharedSlot /\ ObjectLifetimes)
<1>1. IndInv => NoSharedSlot /\ ObjectLifetimes
  <2>. SUFFICES ASSUME IndInv PROVE NoSharedSlot /\ ObjectLifetimes
    OBVIOUS
  <2>1. NoSharedSlot
    BY ElementAhead DEF NoSharedSlot
  <2>2. ASSUME ppc = "construct" PROVE slot[head] = Raw
    <3>1. ~(Distance(head, tail) < Distance(head, tail))
      BY IndexFacts
    <3>. QED
      BY <2>2, <3>1, IndexFacts DEF IndInv, SlotInv
  <2>3. ASSUME cpc = "move" PROVE slot[tail] # Raw
    <3>1. Distance(tail, tail) = 0 /\ 0 < Distance(head, tail)
      BY <2>3, IndexFacts, ElementAhead, DistanceInc
    <3>. QED
      BY <2>3, <3>1, IndexFacts DEF IndInv, SlotInv
  <2>. QED
    BY <2>1, <2>2, <2>3 DEF ObjectLifetimes
<1>. QED
  BY <1>1, InvariantHolds, PTL

-----------------------------------------------------------------------------
(* Refinement: each step of the ring is a step of the FIFO queue or none. *)

\* The abstract queue of a state.
Queue == Contents(VisibleSlots, head, tail)

\* The abstract queue, slot by slot.
LEMMA QueueIs ==
    ASSUME IndInv
    PROVE  /\ Queue \in Seq(Values)
           /\ Len(Queue) = Distance(head, tail)
           /\ \A k \in 1 .. Distance(head, tail) :
                  /\ SlotAt(tail, k - 1) \in Index
                  /\ Distance(SlotAt(tail, k - 1), tail) = k - 1
                  /\ Queue[k] = VisibleSlots[SlotAt(tail, k - 1)]
<1>. DEFINE n == Distance(head, tail)
<1>0. n \in Nat /\ n < Capacity /\ tail \in Index /\ head \in Index
  BY IndexFacts, DistanceIndex DEF Index
<1>1. \A k \in 1 .. n : k - 1 \in Index
  BY <1>0, CapacityAssumption DEF Index
<1>2. \A k \in 1 .. n : /\ SlotAt(tail, k - 1) \in Index
                        /\ Distance(SlotAt(tail, k - 1), tail) = k - 1
  BY <1>0, <1>1, SlotAtIndex, SlotDistance
<1>3. \A k \in 1 .. n : VisibleSlots[SlotAt(tail, k - 1)] \in Values
  <2>. SUFFICES ASSUME NEW k \in 1 .. n
                PROVE  VisibleSlots[SlotAt(tail, k - 1)] \in Values
    OBVIOUS
  <2>. DEFINE i == SlotAt(tail, k - 1)
  <2>1. i \in Index /\ Distance(i, tail) < n
    BY <1>0, <1>2
  <2>2. CASE i = tail /\ cpc = "release"
    BY <2>1, <2>2, <1>0 DEF VisibleSlots, IndInv, TypeOK
  <2>3. CASE ~(i = tail /\ cpc = "release")
    <3>1. slot[i] # Raw /\ slot[i] \in Values \cup {Raw}
      BY <2>1, <2>3 DEF IndInv, TypeOK, SlotInv
    <3>2. VisibleSlots[i] = slot[i]
      BY <2>1, <2>3, <1>0 DEF VisibleSlots, IndInv, TypeOK
    <3>. QED
      BY <3>1, <3>2
  <2>. QED
    BY <2>2, <2>3
<1>. QED
  BY <1>0, <1>2, <1>3 DEF Queue, Contents
\* Steps that leave the queue alone as callers see it.
LEMMA QueueUnchanged ==
    ASSUME IndInv, head' = head, tail' = tail,
           \A i \in Index : Distance(i, tail) < Distance(head, tail)
                              => VisibleSlots'[i] = VisibleSlots[i]
    PROVE  Queue' = Queue
<1>1. \A k \in 1 .. Distance(head, tail) :
          /\ SlotAt(tail, k - 1) \in Index
          /\ Distance(SlotAt(tail, k - 1), tail) < Distance(head, tail)
  BY QueueIs, IndexFacts
<1>. QED
  BY <1>1 DEF Queue, Contents

\* Publishing appends the constructed element.
LEMMA PublishPuts ==
    ASSUME IndInv, PushPublish
    PROVE  /\ Len(Queue) < Capacity - 1
           /\ Queue' = Append(Queue, pval)
<1>. DEFINE n == Distance(head, tail)
<1>0. /\ n \in Nat /\ head \in Index /\ tail \in Index
      /\ n < Capacity - 1 /\ Inc(head) # tail
  <2>1. n < Capacity - 1
    BY RoomAhead DEF PushPublish
  <2>. QED
    BY <2>1, IndexFacts, DistanceInc
<1>1. head' = Inc(head) /\ tail' = tail /\ Distance(head', tail') = n + 1
  BY <1>0, DistanceInc DEF PushPublish, consVars
<1>2. VisibleSlots' = VisibleSlots
  BY DEF PushPublish, VisibleSlots, consVars
<1>3. SlotAt(tail, n) = head
  BY <1>0, SlotDistance
<1>4. VisibleSlots[head] = pval
  <2>1. slot[head] = pval
    BY DEF PushPublish, IndInv, SlotInv
  <2>2. ~(head = tail /\ cpc = "release")
    BY ElementAhead
  <2>. QED
    BY <1>0, <2>1, <2>2 DEF VisibleSlots, IndInv, TypeOK
<1>5. Queue' = [k \in 1 .. n + 1 |-> VisibleSlots[SlotAt(tail, k - 1)]]
  BY <1>1, <1>2 DEF Queue, Contents
<1>6. Queue = [k \in 1 .. n |-> VisibleSlots[SlotAt(tail, k - 1)]]
  BY DEF Queue, Contents
<1>7. Queue \in Seq(Values) /\ Len(Queue) = n
  BY QueueIs
<1>8. ASSUME NEW k \in 1 .. n + 1
      PROVE  VisibleSlots[SlotAt(tail, k - 1)] = IF k = n + 1 THEN pval ELSE Queue[k]
  BY <1>0, <1>3, <1>4, <1>6
<1>9. /\ Append(Queue, pval) \in Seq(Values)
      /\ Len(Append(Queue, pval)) = n + 1
      /\ \A k \in 1 .. n + 1 : Append(Queue, pval)[k] = IF k = n + 1 THEN pval ELSE Queue[k]
  <2>1. pval \in Values
    BY DEF PushPublish, IndInv, TypeOK
  <2>. QED
    BY <1>0, <1>7, <2>1, AppendProperties
<1>10. /\ Queue' \in Seq(Values) /\ Len(Queue') = n + 1
       /\ \A k \in 1 .. n + 1 : Queue'[k] = Append(Queue, pval)[k]
  <2>1. \A k \in 1 .. n + 1 : VisibleSlots[SlotAt(tail, k - 1)] \in Values
    BY <1>0, <1>8, <1>9, <1>7, ElementOfSeq
  <2>2. Queue' \in Seq(Values) /\ Len(Queue') = n + 1
    BY <1>0, <1>5, <2>1
  <2>3. \A k \in 1 .. n + 1 : Queue'[k] = VisibleSlots[SlotAt(tail, k - 1)]
    BY <1>5
  <2>. QED
    BY <1>8, <1>9, <2>2, <2>3
<1>. QED
  BY <1>0, <1>7, <1>9, <1>10, SeqEqual

\* Releasing a slot removes the oldest element.
LEMMA ReleaseTakes ==
    ASSUME IndInv, PopRelease
    PROVE  /\ Queue # << >>
           /\ cval = Head(Queue)
           /\ Queue' = Tail(Queue)
<1>. DEFINE n == Distance(head, tail)
<1>0. /\ n \in Nat /\ 0 < n /\ n < Capacity /\ Capacity \in Nat
      /\ head \in Index /\ tail \in Index /\ Inc(tail) \in Index /\ head # tail
  <2>1. 0 < n /\ head # tail
    BY ElementAhead DEF PopRelease
  <2>2. n < Capacity
    BY IndexFacts, DistanceIndex DEF Index
  <2>. QED
    BY <2>1, <2>2, IndexFacts
<1>1. head' = head /\ tail' = Inc(tail) /\ Distance(head', tail') = n - 1
  BY <1>0, DistanceInc DEF PopRelease, prodVars
<1>2. /\ Queue \in Seq(Values) /\ Len(Queue) = n
      /\ \A k \in 1 .. n : Queue[k] = VisibleSlots[SlotAt(tail, k - 1)]
  BY QueueIs
<1>3. SlotAt(tail, 0) = tail
  BY <1>0, SlotAtIndex, CapacityAssumption DEF Index
<1>4. cval = Queue[1]
  BY <1>0, <1>2, <1>3 DEF PopRelease, VisibleSlots, IndInv, TypeOK
<1>5. ASSUME NEW k \in 1 .. n - 1
      PROVE  VisibleSlots'[SlotAt(Inc(tail), k - 1)] = Queue[k + 1]
  <2>1. SlotAt(Inc(tail), k - 1) = SlotAt(tail, k)
    <3>1. k - 1 \in Index /\ k \in Index
      BY <1>0 DEF Index
    <3>2. /\ SlotAt(tail, k) = IF tail + k < Capacity THEN tail + k ELSE tail + k - Capacity
          /\ SlotAt(Inc(tail), k - 1) = IF Inc(tail) + (k - 1) < Capacity
                                        THEN Inc(tail) + (k - 1)
                                        ELSE Inc(tail) + (k - 1) - Capacity
      BY <1>0, <3>1, SlotAtIndex
    <3>. QED
      BY <1>0, <3>1, <3>2, IncIndex DEF Index
  <2>2. SlotAt(tail, k) \in Index /\ SlotAt(tail, k) # tail
    <3>1. k \in Index /\ 0 \in Index
      BY <1>0 DEF Index
    <3>2. SlotAt(tail, k) \in Index /\ Distance(SlotAt(tail, k), tail) = k
      BY <1>0, <3>1, SlotAtIndex, SlotDistance
    <3>3. Distance(tail, tail) = 0
      BY <1>0, DistanceInc
    <3>. QED
      BY <3>2, <3>3
  <2>3. VisibleSlots[SlotAt(tail, k)] = slot[SlotAt(tail, k)]
    BY <1>0, <2>2 DEF VisibleSlots, IndInv, TypeOK
  <2>4. VisibleSlots'[SlotAt(tail, k)] = slot[SlotAt(tail, k)]
    <3>1. slot' = slot /\ cpc' = "idle" /\ tail' \in Index
      BY <1>0, <1>1 DEF PopRelease
    <3>. QED
      BY <2>2, <3>1 DEF VisibleSlots, IndInv, TypeOK
  <2>. QED
    BY <1>0, <1>2, <2>1, <2>3, <2>4
<1>6. Queue' = [k \in 1 .. n - 1 |-> VisibleSlots'[SlotAt(Inc(tail), k - 1)]]
  BY <1>1 DEF Queue, Contents
<1>7. /\ Queue # << >> /\ Head(Queue) = Queue[1]
      /\ Tail(Queue) \in Seq(Values) /\ Len(Tail(Queue)) = n - 1
      /\ \A k \in 1 .. n - 1 : Tail(Queue)[k] = Queue[k + 1]
  BY <1>0, <1>2, HeadTailProperties
<1>8. /\ Queue' \in Seq(Values) /\ Len(Queue') = n - 1
      /\ \A k \in 1 .. n - 1 : Queue'[k] = Tail(Queue)[k]
  <2>1. \A k \in 1 .. n - 1 : VisibleSlots'[SlotAt(Inc(tail), k - 1)] \in Values
    BY <1>0, <1>2, <1>5, ElementOfSeq
  <2>. QED
    BY <1>0, <1>5, <1>6, <1>7, <2>1
<1>9. Queue' = Tail(Queue)
  BY <1>7, <1>8, SeqEqual
<1>. QED
  BY <1>4, <1>7, <1>9
\* Every step maps to a step of the FIFO queue or leaves it unchanged.
LEMMA StepRefines ==
    IndInv /\ [Next]_vars => [Fifo!Next]_<<Contents(VisibleSlots, head, tail), delivered>>
<1>. SUFFICES ASSUME IndInv, [Next]_vars
              PROVE  Fifo!Next \/ (Queue' = Queue /\ delivered' = delivered)
  BY DEF Queue
<1>. USE DEF prodVars, consVars, lifeVars
<1>1. CASE PushPublish
  <2>1. pval \in Values
    BY <1>1 DEF PushPublish, IndInv, TypeOK
  <2>2. delivered' = delivered
    BY <1>1 DEF PushPublish
  <2>3. Fifo!Put(pval)
    BY <1>1, <2>2, PublishPuts DEF Fifo!Put, Queue
  <2>. QED
    BY <2>1, <2>3 DEF Fifo!Next
<1>2. CASE PopRelease
  <2>1. delivered' = Append(delivered, cval)
    BY <1>2 DEF PopRelease
  <2>2. Fifo!Take
    BY <1>2, <2>1, ReleaseTakes DEF Fifo!Take, Queue
  <2>. QED
    BY <2>2 DEF Fifo!Next
<1>3. CASE PushConstruct
  <2>1. head' = head /\ tail' = tail /\ delivered' = delivered
    BY <1>3 DEF PushConstruct
  <2>2. ASSUME NEW i \in Index, Distance(i, tail) < Distance(head, tail)
        PROVE  VisibleSlots'[i] = VisibleSlots[i]
    <3>1. i # head
      BY <2>2, IndexFacts
    <3>. QED
      BY <1>3, <3>1, IndexFacts DEF PushConstruct, VisibleSlots, IndInv, TypeOK
  <2>. QED
    BY <2>1, <2>2, QueueUnchanged
<1>4. CASE PopMove
  <2>1. head' = head /\ tail' = tail /\ delivered' = delivered
    BY <1>4 DEF PopMove
  <2>2. ASSUME NEW i \in Index
        PROVE  VisibleSlots'[i] = VisibleSlots[i]
    BY <1>4, IndexFacts DEF PopMove, VisibleSlots, IndInv, TypeOK
  <2>. QED
    BY <2>1, <2>2, QueueUnchanged
<1>5. ASSUME NEW t, PushFull(t) \/ \E v \in Values : PushRoom(t, v)
      PROVE  Queue' = Queue /\ delivered' = delivered
  BY <1>5 DEF PushFull, PushRoom, Queue, Contents, VisibleSlots
<1>6. ASSUME NEW h, PopEmpty(h) \/ PopFound(h)
      PROVE  Queue' = Queue /\ delivered' = delivered
  <2>1. cpc # "release" /\ cpc' # "release"
    BY <1>6 DEF PopEmpty, PopFound
  <2>. QED
    BY <1>6, <2>1 DEF PopEmpty, PopFound, Queue, Contents, VisibleSlots
<1>7. CASE Destroy \/ Done \/ UNCHANGED vars
  BY <1>7 DEF Destroy, Done, vars, Queue, Contents, VisibleSlots
<1>. QED
  BY <1>1, <1>2, <1>3, <1>4, <1>5, <1>6, <1>7 DEF Next, Push, Pop

\* The lock-free ring implements the bounded FIFO queue: elements come out in
\* the order they went in, none lost, none twice, never more than
\* Capacity - 1 inside.
THEOREM SpscImplementsFifo == Spec => ImplementsFifo
<1>1. Init => Fifo!Init
  <2>. SUFFICES ASSUME Init PROVE Fifo!Init
    OBVIOUS
  <2>1. IndInv
    BY InitInd
  <2>2. Distance(head, tail) = 0
    BY <2>1, IndexFacts, DistanceInc DEF Init
  <2>3. Queue = << >>
    BY <2>1, <2>2, QueueIs, EmptySeq
  <2>. QED
    BY <2>3 DEF Init, Fifo!Init, Queue
<1>. QED
  BY <1>1, InvariantHolds, StepRefines, PTL DEF Spec, ImplementsFifo, Fifo!Spec
=============================================================================
