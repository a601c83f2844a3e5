------------------------ MODULE SharedObjectsProofs -------------------------
(***************************************************************************)
(* Three objects that any number of threads call, each under a mutex of    *)
(* its own.  CircularBuffer keeps its elements between tail_ and head_ and *)
(* implements the bounded FIFO queue, for every capacity.  ThreadPool      *)
(* shuts down gracefully and runs every task once, for any number of       *)
(* workers and callers.  RuleEngine shows its readers no reload half done  *)
(* and no total that disagrees with the rules, and gives rules fresh       *)
(* numbers, for any threads, any directories and any number of calls.      *)
(***************************************************************************)
EXTENDS RingBuffer, ThreadPool, RuleEngine,
        SequenceTheorems, FiniteSetTheorems, WellFoundedInduction, TLAPS

-----------------------------------------------------------------------------
(* The index arithmetic without the modulo: every value that is reduced lies *)
(* within one lap of Index.                                                  *)

\* Reducing a sum of two indices subtracts Capacity at most once.
LEMMA ModSum ==
    ASSUME NEW x \in Int, 0 <= x, x < 2 * Capacity
    PROVE  x % Capacity = IF x < Capacity THEN x ELSE x - Capacity
<1>1. DEFINE q == x \div Capacity
             r == x % Capacity
<1>2. q \in Int /\ r \in 0 .. Capacity - 1 /\ x = Capacity * q + r
  BY CapacityAssumption
<1>. QED
  BY <1>2, CapacityAssumption, SMT

\* Reducing a difference of two indices adds Capacity at most once.
LEMMA ModDiff ==
    ASSUME NEW x \in Int, -Capacity < x, x < Capacity
    PROVE  x % Capacity = IF x < 0 THEN x + Capacity ELSE x
<1>1. DEFINE q == x \div Capacity
             r == x % Capacity
<1>2. q \in Int /\ r \in 0 .. Capacity - 1 /\ x = Capacity * q + r
  BY CapacityAssumption
<1>. QED
  BY <1>2, CapacityAssumption, SMT

\* "(i + 1) & mask_" is the cyclic successor.
LEMMA IncIndex ==
    ASSUME NEW i \in Index
    PROVE  /\ Inc(i) \in Index
           /\ Inc(i) = IF i = Capacity - 1 THEN 0 ELSE i + 1
  BY CapacityAssumption, ModSum DEF Inc, Index

\* "(head - tail) & mask_" is the cyclic distance.
LEMMA DistanceIndex ==
    ASSUME NEW h \in Index, NEW t \in Index
    PROVE  /\ Distance(h, t) \in Index
           /\ Distance(h, t) = IF h < t THEN h - t + Capacity ELSE h - t
  BY CapacityAssumption, ModDiff DEF Distance, Index

\* The slot k places after an index.
LEMMA SlotAtIndex ==
    ASSUME NEW t \in Index, NEW k \in Index
    PROVE  /\ SlotAt(t, k) \in Index
           /\ SlotAt(t, k) = IF t + k < Capacity THEN t + k ELSE t + k - Capacity
  BY CapacityAssumption, ModSum DEF SlotAt, Index

\* Advancing the near end by one, where it does not meet the far end.
LEMMA DistanceInc ==
    ASSUME NEW h \in Index, NEW t \in Index
    PROVE  /\ Inc(h) # t => Distance(Inc(h), t) = Distance(h, t) + 1
           /\ Inc(h) # t <=> Distance(h, t) < Capacity - 1
           /\ h # t => Distance(h, Inc(t)) = Distance(h, t) - 1
           /\ h = t <=> Distance(h, t) = 0
           /\ Distance(t, Inc(t)) = Capacity - 1
<1>1. /\ Inc(h) \in Index /\ Inc(t) \in Index
      /\ Inc(h) = IF h = Capacity - 1 THEN 0 ELSE h + 1
      /\ Inc(t) = IF t = Capacity - 1 THEN 0 ELSE t + 1
  BY IncIndex
<1>2. /\ Distance(h, t) = IF h < t THEN h - t + Capacity ELSE h - t
      /\ Distance(Inc(h), t) = IF Inc(h) < t THEN Inc(h) - t + Capacity ELSE Inc(h) - t
      /\ Distance(h, Inc(t)) = IF h < Inc(t) THEN h - Inc(t) + Capacity ELSE h - Inc(t)
      /\ Distance(t, Inc(t)) = IF t < Inc(t) THEN t - Inc(t) + Capacity ELSE t - Inc(t)
  BY <1>1, DistanceIndex
<1>. QED
  BY <1>1, <1>2, CapacityAssumption DEF Index

\* The k-th slot of a run is at distance k from its start, and each slot is
\* the one at its distance.
LEMMA SlotDistance ==
    ASSUME NEW t \in Index
    PROVE  /\ \A k \in Index : Distance(SlotAt(t, k), t) = k
           /\ \A i \in Index : SlotAt(t, Distance(i, t)) = i
<1>1. ASSUME NEW k \in Index PROVE Distance(SlotAt(t, k), t) = k
  <2>1. /\ SlotAt(t, k) \in Index
        /\ SlotAt(t, k) = IF t + k < Capacity THEN t + k ELSE t + k - Capacity
    BY SlotAtIndex
  <2>2. Distance(SlotAt(t, k), t) =
          IF SlotAt(t, k) < t THEN SlotAt(t, k) - t + Capacity ELSE SlotAt(t, k) - t
    BY <2>1, DistanceIndex
  <2>. QED
    BY <2>1, <2>2, CapacityAssumption DEF Index
<1>2. ASSUME NEW i \in Index PROVE SlotAt(t, Distance(i, t)) = i
  <2>1. /\ Distance(i, t) \in Index
        /\ Distance(i, t) = IF i < t THEN i - t + Capacity ELSE i - t
    BY DistanceIndex
  <2>2. SlotAt(t, Distance(i, t)) = IF t + Distance(i, t) < Capacity
                                    THEN t + Distance(i, t)
                                    ELSE t + Distance(i, t) - Capacity
    BY <2>1, SlotAtIndex
  <2>. QED
    BY <2>1, <2>2, CapacityAssumption DEF Index
<1>. QED
  BY <1>1, <1>2

-----------------------------------------------------------------------------
(* The ring *)

\* A slot lies in a run exactly when it is nearer to its start than the end.
LEMMA RunMember ==
    ASSUME NEW lo \in Index, NEW hi \in Index, NEW i \in Index
    PROVE  i \in Run(lo, hi) <=> Distance(i, lo) < Distance(hi, lo)
<1>1. Distance(hi, lo) \in Index /\ Distance(i, lo) \in Index
  BY DistanceIndex
<1>2. \A k \in 0 .. Distance(hi, lo) - 1 : k \in Index
  BY <1>1, CapacityAssumption DEF Index
<1>3. ASSUME i \in Run(lo, hi) PROVE Distance(i, lo) < Distance(hi, lo)
  <2>1. PICK k \in 0 .. Distance(hi, lo) - 1 : i = SlotAt(lo, k)
    BY <1>3 DEF Run
  <2>2. Distance(i, lo) = k
    BY <1>2, <2>1, SlotDistance
  <2>. QED
    BY <1>1, <2>1, <2>2, CapacityAssumption DEF Index
<1>4. ASSUME Distance(i, lo) < Distance(hi, lo) PROVE i \in Run(lo, hi)
  <2>1. Distance(i, lo) \in 0 .. Distance(hi, lo) - 1
    BY <1>1, <1>4, CapacityAssumption DEF Index
  <2>2. SlotAt(lo, Distance(i, lo)) = i
    BY SlotDistance
  <2>. QED
    BY <2>1, <2>2 DEF Run
<1>. QED
  BY <1>3, <1>4

\* The contents of a ring whose occupied slots hold values, slot by slot.
LEMMA ContentsIs ==
    ASSUME NEW b, NEW h \in Index, NEW t \in Index,
           \A i \in Index : Distance(i, t) < Distance(h, t) => b[i] \in Values
    PROVE  /\ Contents(b, h, t) \in Seq(Values)
           /\ Len(Contents(b, h, t)) = Distance(h, t)
           /\ Distance(h, t) \in Nat /\ Distance(h, t) < Capacity
           /\ \A k \in 1 .. Distance(h, t) :
                  /\ SlotAt(t, k - 1) \in Index
                  /\ Distance(SlotAt(t, k - 1), t) = k - 1
                  /\ Contents(b, h, t)[k] = b[SlotAt(t, k - 1)]
<1>0. Distance(h, t) \in Nat /\ Distance(h, t) < Capacity
  BY DistanceIndex, CapacityAssumption DEF Index
<1>1. \A k \in 1 .. Distance(h, t) : k - 1 \in Index
  BY <1>0, CapacityAssumption DEF Index
<1>2. \A k \in 1 .. Distance(h, t) : /\ SlotAt(t, k - 1) \in Index
                                     /\ Distance(SlotAt(t, k - 1), t) = k - 1
  BY <1>1, SlotAtIndex, SlotDistance
<1>3. \A k \in 1 .. Distance(h, t) : b[SlotAt(t, k - 1)] \in Values
  BY <1>0, <1>2
<1>. QED
  BY <1>0, <1>2, <1>3 DEF Contents

\* Storing at the write index and advancing it appends.
LEMMA ContentsPush ==
    ASSUME NEW b \in [Index -> Values \cup {Blank}], NEW h \in Index, NEW t \in Index,
           \A i \in Index : Distance(i, t) < Distance(h, t) => b[i] \in Values,
           Inc(h) # t, NEW v \in Values
    PROVE  /\ Len(Contents(b, h, t)) < Capacity - 1
           /\ Contents([b EXCEPT ![h] = v], Inc(h), t) = Append(Contents(b, h, t), v)
<1>. DEFINE n == Distance(h, t)
            c == [b EXCEPT ![h] = v]
            q == Contents(b, h, t)
            r == Contents(c, Inc(h), t)
<1>1. Inc(h) \in Index /\ Distance(Inc(h), t) = n + 1 /\ n < Capacity - 1
  BY IncIndex, DistanceInc
<1>2. /\ q \in Seq(Values) /\ Len(q) = n /\ n \in Nat
      /\ \A k \in 1 .. n : /\ SlotAt(t, k - 1) \in Index
                           /\ Distance(SlotAt(t, k - 1), t) = k - 1
                           /\ q[k] = b[SlotAt(t, k - 1)]
  BY ContentsIs
<1>3. \A i \in Index : Distance(i, t) = n <=> i = h
  BY SlotDistance
<1>4. \A i \in Index : Distance(i, t) < n + 1 => c[i] \in Values
  <2>1. ASSUME NEW i \in Index PROVE Distance(i, t) \in Nat
    <3>1. Distance(i, t) \in Index
      BY DistanceIndex
    <3>. QED
      BY <3>1, CapacityAssumption DEF Index
  <2>2. \A i \in Index : Distance(i, t) < n + 1 => i = h \/ Distance(i, t) < n
    BY <1>2, <1>3, <2>1
  <2>. QED
    BY <2>2
<1>5. /\ r \in Seq(Values) /\ Len(r) = n + 1
      /\ \A k \in 1 .. n + 1 : r[k] = c[SlotAt(t, k - 1)]
  <2>1. \A i \in Index : Distance(i, t) < Distance(Inc(h), t) => c[i] \in Values
    BY <1>1, <1>4
  <2>. HIDE DEF c
  <2>. QED
    BY <1>1, <2>1, ContentsIs
<1>6. SlotAt(t, n) = h /\ c[h] = v
  BY SlotDistance
<1>7. /\ Append(q, v) \in Seq(Values) /\ Len(Append(q, v)) = n + 1
      /\ \A k \in 1 .. n : Append(q, v)[k] = q[k]
      /\ Append(q, v)[n + 1] = v
  BY <1>2, AppendProperties
<1>8. ASSUME NEW k \in 1 .. n + 1 PROVE r[k] = Append(q, v)[k]
  <2>1. CASE k = n + 1
    <3>1. k - 1 = n
      BY <1>2, <2>1
    <3>2. r[k] = c[SlotAt(t, n)]
      BY <1>5, <3>1
    <3>. QED
      BY <1>6, <1>7, <2>1, <3>2
  <2>2. CASE k \in 1 .. n
    <3>1. SlotAt(t, k - 1) \in Index /\ SlotAt(t, k - 1) # h
      BY <1>2, <1>3, <2>2
    <3>2. r[k] = b[SlotAt(t, k - 1)]
      BY <1>5, <3>1
    <3>. QED
      BY <1>2, <1>7, <2>2, <3>2
  <2>. QED
    BY <1>2, <2>1, <2>2
<1>. QED
  BY <1>1, <1>2, <1>5, <1>7, <1>8, SeqEqual
\* Moving out of the read index and advancing it removes the oldest element.
LEMMA ContentsPop ==
    ASSUME NEW b \in [Index -> Values \cup {Blank}], NEW h \in Index, NEW t \in Index,
           \A i \in Index : Distance(i, t) < Distance(h, t) => b[i] \in Values,
           h # t
    PROVE  /\ Contents(b, h, t) # << >>
           /\ b[t] = Head(Contents(b, h, t)) /\ b[t] \in Values
           /\ Contents([b EXCEPT ![t] = Blank], h, Inc(t)) = Tail(Contents(b, h, t))
<1>. DEFINE n == Distance(h, t)
            c == [b EXCEPT ![t] = Blank]
            q == Contents(b, h, t)
            r == Contents(c, h, Inc(t))
<1>1. /\ Inc(t) \in Index /\ Distance(h, Inc(t)) = n - 1
      /\ n # 0 /\ Distance(t, t) = 0 /\ Distance(t, Inc(t)) = Capacity - 1
  BY IncIndex, DistanceInc
<1>2. /\ q \in Seq(Values) /\ Len(q) = n /\ n \in Nat /\ n < Capacity
      /\ \A k \in 1 .. n : q[k] = b[SlotAt(t, k - 1)]
  BY ContentsIs
<1>3. SlotAt(t, 0) = t
  BY <1>1, SlotDistance
<1>4. n \in Nat \ {0} /\ Capacity \in Nat \ {0}
  BY <1>1, <1>2, CapacityAssumption
<1>5. /\ q # << >> /\ Head(q) = q[1]
      /\ Tail(q) \in Seq(Values) /\ Len(Tail(q)) = n - 1
      /\ \A k \in 1 .. n - 1 : Tail(q)[k] = q[k + 1]
  BY <1>2, <1>4, HeadTailProperties
<1>6. q[1] = b[t] /\ q[1] \in Values
  BY <1>2, <1>3, <1>4, ElementOfSeq
<1>7. ASSUME NEW i \in Index, i # t PROVE Distance(i, Inc(t)) = Distance(i, t) - 1
  BY <1>7, DistanceInc
<1>8. \A i \in Index : Distance(i, Inc(t)) < Distance(h, Inc(t)) => i # t /\ c[i] \in Values
  <2>. SUFFICES ASSUME NEW i \in Index, Distance(i, Inc(t)) < n - 1
                PROVE  i # t /\ c[i] \in Values
    BY <1>1
  <2>1. i # t
    BY <1>1, <1>2, <1>4
  <2>2. Distance(i, t) \in Index
    BY DistanceIndex
  <2>3. Distance(i, t) < n
    BY <1>4, <1>7, <2>1, <2>2 DEF Index
  <2>. QED
    BY <2>1, <2>3
<1>9. /\ r \in Seq(Values) /\ Len(r) = n - 1
      /\ \A k \in 1 .. n - 1 :
            /\ SlotAt(Inc(t), k - 1) \in Index
            /\ Distance(SlotAt(Inc(t), k - 1), Inc(t)) = k - 1
            /\ r[k] = c[SlotAt(Inc(t), k - 1)]
  <2>. HIDE DEF c
  <2>. QED
    BY <1>1, <1>8, ContentsIs
<1>10. ASSUME NEW k \in 1 .. n - 1 PROVE r[k] = Tail(q)[k]
  <2>. DEFINE i == SlotAt(Inc(t), k - 1)
  <2>1. i \in Index /\ Distance(i, Inc(t)) = k - 1
    BY <1>9
  <2>2. i # t
    BY <1>1, <1>8, <1>4, <2>1
  <2>3. Distance(i, t) \in Index
    BY <2>1, DistanceIndex
  <2>4. Distance(i, t) = k
    <3>1. Distance(i, Inc(t)) = Distance(i, t) - 1
      BY <1>7, <2>1, <2>2
    <3>. QED
      BY <1>4, <2>1, <2>3, <3>1 DEF Index
  <2>5. i = SlotAt(t, k)
    BY <2>1, <2>4, SlotDistance
  <2>6. q[k + 1] = b[SlotAt(t, k)]
    BY <1>2, <1>4
  <2>7. r[k] = b[i]
    BY <1>9, <2>1, <2>2
  <2>. QED
    BY <1>5, <2>5, <2>6, <2>7
<1>11. r = Tail(q)
  BY <1>5, <1>9, <1>10, SeqEqual
<1>. QED
  BY <1>5, <1>6, <1>11
-----------------------------------------------------------------------------
\* The inductive invariant: the run from tail_ to head_ holds the elements,
\* and their number accounts for every accepted push.
RingInv == TypeOK /\ OccupiedRun /\ Conservation

\* What the invariant says of the slots, in terms of distances.
LEMMA OccupiedIs ==
    ASSUME RingInv
    PROVE  /\ head \in Index /\ tail \in Index
           /\ buffer \in [Index -> Values \cup {Blank}]
           /\ \A i \in Index : buffer[i] # Blank <=> Distance(i, tail) < Distance(head, tail)
           /\ \A i \in Index : Distance(i, tail) < Distance(head, tail) => buffer[i] \in Values
<1>1. /\ head \in Index /\ tail \in Index
      /\ buffer \in [Index -> Values \cup {Blank}]
  BY DEF RingInv, TypeOK
<1>2. \A i \in Index : buffer[i] # Blank <=> Distance(i, tail) < Distance(head, tail)
  BY <1>1, RunMember DEF RingInv, OccupiedRun
<1>. QED
  BY <1>1, <1>2

\* The empty ring satisfies the invariant.
LEMMA RingInit == Init => RingInv
<1>. SUFFICES ASSUME Init PROVE RingInv
  OBVIOUS
<1>1. 0 \in Index
  BY CapacityAssumption DEF Index
<1>2. Distance(0, 0) = 0
  BY <1>1, DistanceInc
<1>3. TypeOK
  BY <1>1 DEF Init, TypeOK
<1>4. OccupiedRun
  <2>1. Run(0, 0) = {}
    BY <1>2 DEF Run
  <2>. QED
    BY <2>1 DEF Init, OccupiedRun
<1>5. Conservation
  BY <1>2 DEF Init, Conservation, Size
<1>. QED
  BY <1>3, <1>4, <1>5 DEF RingInv

\* Every operation keeps the invariant.
LEMMA RingStep == RingInv /\ [Next]_vars => RingInv'
<1>. SUFFICES ASSUME RingInv, [Next]_vars PROVE RingInv'
  OBVIOUS
<1>0. /\ head \in Index /\ tail \in Index
      /\ buffer \in [Index -> Values \cup {Blank}]
      /\ \A i \in Index : buffer[i] # Blank <=> Distance(i, tail) < Distance(head, tail)
      /\ \A i \in Index : Distance(i, tail) < Distance(head, tail) => buffer[i] \in Values
  BY OccupiedIs
<1>a. /\ \A i, j \in Index : Distance(i, j) \in Nat
      /\ Capacity \in Nat \ {0}
      /\ accepted \in Nat /\ delivered \in Seq(Values) /\ Len(delivered) \in Nat
      /\ accepted = Len(delivered) + Distance(head, tail)
  <2>1. \A i, j \in Index : Distance(i, j) \in Nat
    BY DistanceIndex, CapacityAssumption DEF Index
  <2>. QED
    BY <2>1, CapacityAssumption, LenProperties DEF RingInv, TypeOK, Conservation, Size
<1>1. ASSUME NEW v \in Values, TryPush(v) PROVE RingInv'
  <2>1. /\ head' = Inc(head) /\ tail' = tail /\ head' \in Index
        /\ Distance(head', tail) = Distance(head, tail) + 1
    BY <1>0, <1>1, IncIndex, DistanceInc DEF TryPush
  <2>2. TypeOK'
    BY <1>0, <1>a, <1>1, <2>1 DEF TryPush, TypeOK
  <2>3. OccupiedRun'
    <3>. SUFFICES ASSUME NEW i \in Index
                  PROVE  buffer'[i] # Blank <=> i \in Run(tail, head')
      BY <2>1 DEF OccupiedRun
    <3>1. i \in Run(tail, head') <=> Distance(i, tail) < Distance(head, tail) + 1
      BY <1>0, <2>1, RunMember
    <3>2. Distance(i, tail) = Distance(head, tail) <=> i = head
      BY <1>0, SlotDistance
    <3>3. buffer'[i] = IF i = head THEN v ELSE buffer[i]
      BY <1>0, <1>1 DEF TryPush
    <3>. QED
      BY <1>0, <1>a, <3>1, <3>2, <3>3, ValuesAssumption
  <2>4. Conservation'
    BY <1>a, <1>0, <1>1, <2>1 DEF TryPush, Conservation, Size
  <2>. QED
    BY <2>2, <2>3, <2>4 DEF RingInv
<1>2. CASE TryPop
  <2>1. /\ head' = head /\ tail' = Inc(tail) /\ tail' \in Index /\ head # tail
        /\ Distance(head, tail') = Distance(head, tail) - 1
    BY <1>0, <1>2, IncIndex, DistanceInc DEF TryPop, Empty
  <2>2. buffer[tail] \in Values
    BY <1>0, <2>1, ContentsPop
  <2>3. delivered' \in Seq(Values) /\ Len(delivered') = Len(delivered) + 1
    BY <1>a, <1>2, <2>2, AppendProperties DEF TryPop
  <2>4. TypeOK'
    BY <1>0, <1>a, <1>2, <2>1, <2>3 DEF TryPop, TypeOK
  <2>5. OccupiedRun'
    <3>. SUFFICES ASSUME NEW i \in Index
                  PROVE  buffer'[i] # Blank <=> i \in Run(tail', head)
      BY <2>1 DEF OccupiedRun
    <3>1. i \in Run(tail', head) <=> Distance(i, tail') < Distance(head, tail) - 1
      BY <1>0, <2>1, RunMember
    <3>2. buffer'[i] = IF i = tail THEN Blank ELSE buffer[i]
      BY <1>0, <1>2 DEF TryPop
    <3>3. CASE i = tail
      <4>1. Distance(i, tail') = Capacity - 1
        BY <1>0, <2>1, <3>3, DistanceInc
      <4>2. Distance(head, tail) < Capacity
        BY <1>0, ContentsIs
      <4>. QED
        BY <1>0, <1>a, <3>1, <3>2, <3>3, <4>1, <4>2
    <3>4. CASE i # tail
      <4>1. Distance(i, tail') = Distance(i, tail) - 1
        BY <1>0, <2>1, <3>4, DistanceInc
      <4>. QED
        BY <1>0, <1>a, <3>1, <3>2, <3>4, <4>1
    <3>. QED
      BY <3>3, <3>4
  <2>6. Conservation'
    BY <1>0, <1>a, <1>2, <2>1, <2>3 DEF TryPop, Conservation, Size
  <2>. QED
    BY <2>4, <2>5, <2>6 DEF RingInv
<1>3. CASE TryPushFull \/ TryPopEmpty \/ UNCHANGED vars
  BY <1>3 DEF TryPushFull, TryPopEmpty, vars, RingInv, TypeOK, OccupiedRun,
              Conservation, Size
<1>. QED
  BY <1>1, <1>2, <1>3 DEF Next

\* In every behaviour the elements inside are exactly those between tail_ and
\* head_, and accepted pushes are delivered pops plus elements inside.
THEOREM RingInvariant == Spec => [](TypeOK /\ OccupiedRun /\ Conservation)
<1>1. RingInv <=> TypeOK /\ OccupiedRun /\ Conservation
  BY DEF RingInv
<1>. QED
  BY <1>1, RingInit, RingStep, PTL DEF Spec

\* The ring behind every event queue of the platform is a FIFO queue of
\* Capacity - 1 elements: no element lost, duplicated or reordered by it.
THEOREM RingImplementsFifo == Spec => ImplementsFifo
<1>1. Init => Fifo!Init
  <2>. SUFFICES ASSUME Init PROVE Fifo!Init
    OBVIOUS
  <2>1. Distance(0, 0) = 0
    BY CapacityAssumption, DistanceInc DEF Index
  <2>2. Contents(buffer, head, tail) = << >>
    BY <2>1 DEF Init, Contents
  <2>. QED
    BY <2>2 DEF Init, Fifo!Init
<1>2. RingInv /\ [Next]_vars => [Fifo!Next]_<<Contents(buffer, head, tail), delivered>>
  <2>. SUFFICES ASSUME RingInv, [Next]_vars
                PROVE  \/ Fifo!Next
                       \/ UNCHANGED <<Contents(buffer, head, tail), delivered>>
    OBVIOUS
  <2>1. ASSUME NEW v \in Values, TryPush(v) PROVE Fifo!Put(v)
    <3>1. /\ Len(Contents(buffer, head, tail)) < Capacity - 1
          /\ Contents([buffer EXCEPT ![head] = v], Inc(head), tail)
               = Append(Contents(buffer, head, tail), v)
      BY <2>1, OccupiedIs, ContentsPush DEF TryPush
    <3>. QED
      BY <2>1, <3>1 DEF TryPush, Fifo!Put
  <2>2. CASE TryPop
    <3>1. /\ Contents(buffer, head, tail) # << >>
          /\ buffer[tail] = Head(Contents(buffer, head, tail))
          /\ Contents([buffer EXCEPT ![tail] = Blank], head, Inc(tail))
               = Tail(Contents(buffer, head, tail))
      BY <2>2, OccupiedIs, ContentsPop DEF TryPop, Empty
    <3>. QED
      BY <2>2, <3>1 DEF TryPop, Fifo!Next, Fifo!Take
  <2>3. CASE TryPushFull \/ TryPopEmpty \/ UNCHANGED vars
    BY <2>3 DEF TryPushFull, TryPopEmpty, vars, Contents
  <2>. QED
    BY <2>1, <2>2, <2>3 DEF Next, Fifo!Next
<1>. QED
  BY <1>1, <1>2, RingInvariant, PTL DEF Spec, ImplementsFifo, Fifo!Spec, RingInv

-----------------------------------------------------------------------------
(* The thread pool *)

\* Appending adds exactly one element (submit's push).
LEMMA ToSetAppend ==
    ASSUME NEW S, NEW s \in Seq(S), NEW x \in S
    PROVE  Append(s, x) \in Seq(S) /\ ToSet(Append(s, x)) = ToSet(s) \cup {x}
<1>1. /\ Append(s, x) \in Seq(S) /\ DOMAIN s = 1 .. Len(s) /\ Len(s) \in Nat
      /\ DOMAIN Append(s, x) = 1 .. Len(s) + 1
      /\ \A i \in 1 .. Len(s) : Append(s, x)[i] = s[i]
      /\ Append(s, x)[Len(s) + 1] = x
  OBVIOUS
<1>2. ASSUME NEW i \in 1 .. Len(s) + 1 PROVE i \in 1 .. Len(s) \/ i = Len(s) + 1
  BY <1>1
<1>3. ASSUME NEW i \in 1 .. Len(s) PROVE i \in 1 .. Len(s) + 1
  BY <1>1
<1>4. Len(s) + 1 \in 1 .. Len(s) + 1  BY <1>1
<1>5. QED  BY <1>1, <1>2, <1>3, <1>4, Zenon DEF ToSet

\* Popping the front removes its element from what is left (a worker's take).
LEMMA ToSetTail ==
    ASSUME NEW S, NEW s \in Seq(S), s # << >>
    PROVE  /\ Head(s) \in S /\ Tail(s) \in Seq(S)
           /\ ToSet(s) = {Head(s)} \cup ToSet(Tail(s))
<1>1. /\ Len(s) \in Nat \ {0} /\ DOMAIN s = 1 .. Len(s) /\ Head(s) = s[1]
      /\ Head(s) \in S /\ Tail(s) \in Seq(S)
      /\ DOMAIN Tail(s) = 1 .. Len(s) - 1
      /\ \A i \in 1 .. Len(s) - 1 : Tail(s)[i] = s[i + 1]
  OBVIOUS
<1>2. ASSUME NEW i \in 1 .. Len(s), i # 1
      PROVE  i - 1 \in 1 .. Len(s) - 1 /\ s[i] = Tail(s)[i - 1]
  BY <1>1, <1>2
<1>3. ASSUME NEW i \in 1 .. Len(s) - 1
      PROVE  i + 1 \in 1 .. Len(s) /\ Tail(s)[i] = s[i + 1]
  BY <1>1
<1>4. 1 \in 1 .. Len(s)  BY <1>1
<1>5. ToSet(s) \subseteq {Head(s)} \cup ToSet(Tail(s))
  <2>1. SUFFICES ASSUME NEW i \in 1 .. Len(s)
                 PROVE  s[i] \in {Head(s)} \cup ToSet(Tail(s))
    BY <1>1 DEF ToSet
  <2>2. CASE i = 1  BY <1>1, <2>2
  <2>3. CASE i # 1  BY <1>1, <1>2, <2>3 DEF ToSet
  <2>4. QED  BY <2>2, <2>3
<1>6. {Head(s)} \cup ToSet(Tail(s)) \subseteq ToSet(s)
  BY <1>1, <1>3, <1>4, Zenon DEF ToSet
<1>7. QED  BY <1>1, <1>5, <1>6

-----------------------------------------------------------------------------
\* A pool that has just been constructed satisfies the invariant.
LEMMA InitDrain == PoolInit => DrainInv
<1>1. SUFFICES ASSUME PoolInit PROVE DrainInv  OBVIOUS
<1>2. PoolTypeOK
  <2>1. << >> \in Seq(Tasks) /\ 0 \in Nat  OBVIOUS
  <2>2. \A s \in Stoppers : spc[s] = "begin"  BY <1>1 DEF PoolInit
  <2>3. \A w \in Workers : wpc[w] = "check" /\ hand[w] = Idle  BY <1>1 DEF PoolInit
  <2>4. /\ wpc \in [Workers -> {"check", "wait", "run", "exited"}]
        /\ hand \in [Workers -> Tasks \cup {Idle}]
        /\ spc \in [Stoppers -> {"begin", "notify", "join", "returned", "early"}]
    BY <1>1 DEF PoolInit
  <2>5. QED  BY <1>1, <2>1, <2>2, <2>3, <2>4 DEF PoolInit, PoolTypeOK
<1>3. Kept
  <2>1. ToSet(<< >>) = {}  BY DEF ToSet
  <2>2. QED  BY <1>1, <2>1 DEF PoolInit, Kept
<1>4. LeftInOrder  BY <1>1 DEF PoolInit, LeftInOrder
<1>5. QED  BY <1>2, <1>3, <1>4 DEF DrainInv

\* Every critical section, notification and task preserves the invariant.
LEMMA NextDrain == DrainInv /\ [PoolNext]_poolVars => DrainInv'
<1>1. SUFFICES ASSUME DrainInv, [PoolNext]_poolVars PROVE DrainInv'  OBVIOUS
<1> USE <1>1, PoolAssumption DEF DrainInv
<1>2. ASSUME NEW t \in Tasks, Submit(t) PROVE DrainInv'
  <2>1. PoolTypeOK'  BY <1>2, ToSetAppend DEF PoolTypeOK, Submit
  <2>2. Kept'
    <3>1. ToSet(tasks') = ToSet(tasks) \cup {t}
      BY <1>2, ToSetAppend DEF PoolTypeOK, Submit
    <3>2. QED  BY <1>2, <3>1 DEF Kept, Submit
  <2>3. LeftInOrder'  BY <1>2 DEF LeftInOrder, Submit
  <2>4. QED  BY <2>1, <2>2, <2>3
<1>3. ASSUME NEW t \in Tasks, SubmitRefused(t) PROVE DrainInv'
  BY <1>3 DEF PoolTypeOK, Kept, LeftInOrder, SubmitRefused
<1>4. CASE NotifyOne
  <2>1. /\ UNCHANGED <<tasks, stop, hand, spc, pushed, refused, done>>
        /\ notes' \in Nat
        /\ wpc' = wpc \/ \E w \in Waiting : wpc' = [wpc EXCEPT ![w] = "check"]
    BY <1>4 DEF NotifyOne, Woken, PoolTypeOK
  <2>2. QED  BY <2>1 DEF PoolTypeOK, Kept, LeftInOrder, Waiting
<1>5. ASSUME NEW w \in Workers, Sleep(w) PROVE DrainInv'
  BY <1>5 DEF PoolTypeOK, Kept, LeftInOrder, Sleep
<1>6. ASSUME NEW w \in Workers, SpuriousWakeup(w) PROVE DrainInv'
  BY <1>6 DEF PoolTypeOK, Kept, LeftInOrder, SpuriousWakeup
<1>7. ASSUME NEW w \in Workers, Exit(w) PROVE DrainInv'
  BY <1>7 DEF PoolTypeOK, Kept, LeftInOrder, Exit, Leaves
<1>8. ASSUME NEW w \in Workers, Take(w) PROVE DrainInv'
  <2>1. /\ Head(tasks) \in Tasks /\ Tail(tasks) \in Seq(Tasks)
        /\ ToSet(tasks) = {Head(tasks)} \cup ToSet(tasks')
        /\ tasks' = Tail(tasks)
    BY <1>8, ToSetTail DEF PoolTypeOK, Take, RestOfTasks
  <2>2. PoolTypeOK'  BY <1>8, <2>1 DEF PoolTypeOK, Take
  <2>3. Kept'
    <3>1. {hand[v] : v \in {u \in Workers : wpc[u] = "run"}}' =
              {hand[v] : v \in {u \in Workers : wpc[u] = "run"}} \cup {Head(tasks)}
      BY <1>8 DEF PoolTypeOK, Take
    <3>2. QED  BY <1>8, <2>1, <3>1 DEF Kept, Take
  <2>4. LeftInOrder'  BY <1>8 DEF PoolTypeOK, LeftInOrder, Take
  <2>5. QED  BY <2>2, <2>3, <2>4
<1>9. ASSUME NEW w \in Workers, RunTask(w) PROVE DrainInv'
  <2>1. PoolTypeOK'  BY <1>9 DEF PoolTypeOK, RunTask
  <2>2. Kept'
    <3>1. {hand[v] : v \in {u \in Workers : wpc[u] = "run"}} =
              {hand[v] : v \in {u \in Workers : wpc[u] = "run"}}' \cup {hand[w]}
      BY <1>9 DEF PoolTypeOK, RunTask
    <3>2. QED  BY <1>9, <3>1 DEF Kept, RunTask
  <2>3. LeftInOrder'  BY <1>9 DEF PoolTypeOK, LeftInOrder, RunTask
  <2>4. QED  BY <2>1, <2>2, <2>3
<1>10. ASSUME NEW s \in Stoppers, ShutdownBegin(s) PROVE DrainInv'
  BY <1>10 DEF PoolTypeOK, Kept, LeftInOrder, ShutdownBegin, Stopped
<1>11. ASSUME NEW s \in Stoppers, NotifyAll(s) PROVE DrainInv'
  BY <1>11 DEF PoolTypeOK, Kept, LeftInOrder, NotifyAll, AllWoken, Waiting
<1>12. ASSUME NEW s \in Stoppers, ShutdownReturns(s) PROVE DrainInv'
  BY <1>12 DEF PoolTypeOK, Kept, LeftInOrder, ShutdownReturns
<1>13. CASE UNCHANGED poolVars
  BY <1>13 DEF PoolTypeOK, Kept, LeftInOrder, poolVars
<1>14. QED
  BY <1>2, <1>3, <1>4, <1>5, <1>6, <1>7, <1>8, <1>9, <1>10, <1>11, <1>12, <1>13
  DEF PoolNext, Worker, Shutdown

\* The pool's invariant: accepted tasks are queued, in hand or done, and a
\* worker leaves only a stopped pool with an empty queue.
THEOREM PoolInvariant == PoolSpec => []DrainInv
BY InitDrain, NextDrain, PTL DEF PoolSpec

\* When the shutdown() that joins returns, every accepted task has been run,
\* whatever was submitted while it was under way.
THEOREM PoolDrains == PoolSpec => []ShutdownDrains
<1>1. DrainInv => ShutdownDrains
  <2>1. SUFFICES ASSUME DrainInv, NEW s \in Stoppers, spc[s] = "returned"
                 PROVE  pushed = done
    BY DEF ShutdownDrains
  <2>2. \A w \in Workers : wpc[w] = "exited"  BY <2>1 DEF DrainInv, LeftInOrder
  <2>3. tasks = << >>  BY <2>1, <2>2, PoolAssumption DEF DrainInv, LeftInOrder
  <2>4. ToSet(tasks) = {}  BY <2>3 DEF ToSet
  <2>5. QED  BY <2>1, <2>2, <2>4 DEF DrainInv, Kept
<1>2. QED  BY <1>1, PoolInvariant, PTL

-----------------------------------------------------------------------------
(* Every task in one place *)

\* The strengthening behind InOnePlace: no task is queued twice or in two
\* hands, and the queue, the hands and the tasks done have none in common.
Apart ==
    /\ \A i, j \in DOMAIN tasks : tasks[i] = tasks[j] => i = j
    /\ \A v, w \in Workers : hand[v] = hand[w] /\ hand[v] # Idle => v = w
    /\ \A i \in DOMAIN tasks, w \in Workers : hand[w] # tasks[i]
    /\ \A i \in DOMAIN tasks : tasks[i] \notin done
    /\ \A w \in Workers : hand[w] \notin done

\* A pool that has just been constructed holds no task.
LEMMA InitApart == PoolInit => Apart
<1>1. SUFFICES ASSUME PoolInit PROVE Apart  OBVIOUS
<1>2. DOMAIN tasks = {} /\ done = {} /\ \A w \in Workers : hand[w] = Idle
  BY <1>1 DEF PoolInit
<1>3. QED  BY <1>2 DEF Apart

\* Every step moves a task on, and never to two places.
LEMMA NextApart == DrainInv /\ Apart /\ [PoolNext]_poolVars => Apart'
<1>1. SUFFICES ASSUME DrainInv, Apart, [PoolNext]_poolVars PROVE Apart'  OBVIOUS
<1> USE <1>1, PoolAssumption
<1>2. /\ tasks \in Seq(Tasks) /\ DOMAIN tasks = 1 .. Len(tasks) /\ Len(tasks) \in Nat
      /\ \A i \in DOMAIN tasks : tasks[i] \in Tasks /\ tasks[i] \in pushed
      /\ \A w \in Workers : hand[w] # Idle => hand[w] \in pushed
      /\ done \subseteq pushed /\ pushed \subseteq Tasks
  BY DEF DrainInv, PoolTypeOK, Kept, ToSet
<1>3. ASSUME UNCHANGED <<tasks, hand, done>> PROVE Apart'
  BY <1>3 DEF Apart
<1>4. ASSUME NEW t \in Tasks, Submit(t) PROVE Apart'
  <2>1. /\ t \notin pushed /\ tasks' = Append(tasks, t) /\ UNCHANGED <<hand, done>>
    BY <1>4 DEF Submit
  <2>2. /\ DOMAIN tasks' = 1 .. Len(tasks) + 1 /\ tasks'[Len(tasks) + 1] = t
        /\ \A i \in 1 .. Len(tasks) : tasks'[i] = tasks[i]
    BY <1>2, <2>1
  <2>3. ASSUME NEW i \in DOMAIN tasks', i # Len(tasks) + 1
        PROVE  i \in DOMAIN tasks /\ tasks'[i] = tasks[i]
    BY <1>2, <2>2, <2>3
  <2>4. \A i, j \in DOMAIN tasks' : tasks'[i] = tasks'[j] => i = j
    <3>1. SUFFICES ASSUME NEW i \in DOMAIN tasks', NEW j \in DOMAIN tasks', tasks'[i] = tasks'[j]
                   PROVE  i = j
      OBVIOUS
    <3>2. CASE i # Len(tasks) + 1 /\ j # Len(tasks) + 1  BY <2>3, <3>1, <3>2 DEF Apart
    <3>3. CASE i # Len(tasks) + 1 /\ j = Len(tasks) + 1  BY <1>2, <2>1, <2>2, <2>3, <3>1, <3>3
    <3>4. CASE i = Len(tasks) + 1 /\ j # Len(tasks) + 1  BY <1>2, <2>1, <2>2, <2>3, <3>1, <3>4
    <3>5. QED  BY <3>2, <3>3, <3>4
  <2>5. ASSUME NEW i \in DOMAIN tasks', NEW w \in Workers
        PROVE  hand'[w] # tasks'[i] /\ tasks'[i] \notin done'
    <3>1. CASE i # Len(tasks) + 1  BY <2>1, <2>3, <3>1 DEF Apart
    <3>2. CASE i = Len(tasks) + 1  BY <1>2, <2>1, <2>2, <3>2
    <3>3. QED  BY <3>1, <3>2
  <2>6. \E w \in Workers : TRUE  OBVIOUS
  <2>7. QED  BY <2>1, <2>4, <2>5, <2>6 DEF Apart
<1>5. ASSUME NEW w \in Workers, Take(w) PROVE Apart'
  <2>1. /\ wpc[w] = "check" /\ tasks # << >> /\ tasks' = Tail(tasks)
        /\ hand' = [hand EXCEPT ![w] = Head(tasks)] /\ done' = done
    BY <1>5 DEF Take, RestOfTasks
  <2>2. /\ 1 \in DOMAIN tasks /\ Head(tasks) = tasks[1]
        /\ DOMAIN tasks' = 1 .. Len(tasks) - 1
        /\ \A i \in DOMAIN tasks' : i + 1 \in DOMAIN tasks /\ i + 1 # 1 /\ tasks'[i] = tasks[i + 1]
    BY <1>2, <2>1
  <2>3. /\ hand'[w] = tasks[1]
        /\ \A v \in Workers : v # w => hand'[v] = hand[v]
    BY <2>1, <2>2 DEF DrainInv, PoolTypeOK
  <2>4. \A i, j \in DOMAIN tasks' : tasks'[i] = tasks'[j] => i = j
    <3>1. SUFFICES ASSUME NEW i \in DOMAIN tasks', NEW j \in DOMAIN tasks', tasks'[i] = tasks'[j]
                   PROVE  i = j
      OBVIOUS
    <3>2. i + 1 = j + 1  BY <2>2, <3>1 DEF Apart
    <3>3. i \in Nat /\ j \in Nat  BY <1>2, <2>2
    <3>4. QED  BY <3>2, <3>3
  <2>5. \A i \in DOMAIN tasks' : tasks'[i] # tasks[1] /\ tasks'[i] \notin done'
    BY <2>1, <2>2 DEF Apart
  <2>6. \A i \in DOMAIN tasks', v \in Workers : hand'[v] # tasks'[i]
    BY <2>2, <2>3, <2>5 DEF Apart
  <2>7. \A u, v \in Workers : hand'[u] = hand'[v] /\ hand'[u] # Idle => u = v
    BY <2>2, <2>3 DEF Apart
  <2>8. \A v \in Workers : hand'[v] \notin done'
    BY <2>1, <2>2, <2>3 DEF Apart
  <2>9. QED  BY <2>4, <2>5, <2>6, <2>7, <2>8 DEF Apart
<1>6. ASSUME NEW w \in Workers, RunTask(w) PROVE Apart'
  <2>1. /\ hand[w] # Idle /\ hand' = [hand EXCEPT ![w] = Idle]
        /\ done' = done \cup {hand[w]} /\ tasks' = tasks
    BY <1>6 DEF RunTask, DrainInv, PoolTypeOK
  <2>2. hand'[w] = Idle /\ \A v \in Workers : v # w => hand'[v] = hand[v]
    BY <2>1 DEF DrainInv, PoolTypeOK
  <2>3. \A i \in DOMAIN tasks : tasks[i] # Idle  BY <1>2
  <2>4. \A v \in Workers : hand'[v] \notin done'
    BY <1>2, <2>1, <2>2 DEF Apart
  <2>5. QED  BY <2>1, <2>2, <2>3, <2>4 DEF Apart
<1>7. ASSUME NEW t \in Tasks, SubmitRefused(t) PROVE Apart'
  BY <1>3, <1>7 DEF SubmitRefused
<1>8. CASE NotifyOne
  BY <1>3, <1>8 DEF NotifyOne
<1>9. ASSUME NEW w \in Workers, Sleep(w) \/ SpuriousWakeup(w) \/ Exit(w) PROVE Apart'
  BY <1>3, <1>9 DEF Sleep, SpuriousWakeup, Exit
<1>10. ASSUME NEW s \in Stoppers, Shutdown(s) PROVE Apart'
  BY <1>3, <1>10 DEF Shutdown, ShutdownBegin, NotifyAll, ShutdownReturns
<1>11. CASE UNCHANGED poolVars
  BY <1>3, <1>11 DEF poolVars
<1>12. QED
  BY <1>4, <1>5, <1>6, <1>7, <1>8, <1>9, <1>10, <1>11 DEF PoolNext, Worker

\* A set in which any two elements are equal has at most one.
LEMMA AtMostOne ==
    ASSUME NEW S, \A x, y \in S : x = y
    PROVE  Cardinality(S) = IF S = {} THEN 0 ELSE 1
<1>1. CASE S = {}  BY <1>1, FS_EmptySet
<1>2. CASE S # {}
  <2>1. PICK x \in S : TRUE  BY <1>2
  <2>2. S = {x}  BY <2>1
  <2>3. QED  BY <1>2, <2>2, FS_Singleton
<1>3. QED  BY <1>1, <1>2

\* A task that was accepted is in the queue once, with one worker, or done:
\* none is lost and none is run twice, whatever the interleaving of callers,
\* workers and shutdowns.
THEOREM TasksInOnePlace == PoolSpec => []InOnePlace
<1>1. PoolSpec => []Apart
  BY InitApart, NextApart, PoolInvariant, PTL DEF PoolSpec
<1>2. ASSUME DrainInv, Apart PROVE InOnePlace
  <2>1. SUFFICES ASSUME NEW t \in Tasks
                 PROVE  Cardinality({i \in DOMAIN tasks : tasks[i] = t})
                        + Cardinality({w \in Workers : hand[w] = t})
                        + (IF t \in done THEN 1 ELSE 0) = IF t \in pushed THEN 1 ELSE 0
    BY DEF InOnePlace
  <2> DEFINE Q == {i \in DOMAIN tasks : tasks[i] = t}
             H == {w \in Workers : hand[w] = t}
  <2>2. Cardinality(Q) = IF Q = {} THEN 0 ELSE 1
    <3>1. \A i, j \in Q : i = j  BY <1>2 DEF Apart
    <3>2. QED  BY <3>1, AtMostOne
  <2>3. Cardinality(H) = IF H = {} THEN 0 ELSE 1
    <3>1. \A v, w \in H : v = w  BY <1>2, PoolAssumption DEF Apart
    <3>2. QED  BY <3>1, AtMostOne
  <2>4. t \in pushed <=> Q # {} \/ H # {} \/ t \in done
    <3>1. Q # {} <=> t \in ToSet(tasks)  BY DEF ToSet
    <3>2. H # {} <=> t \in {hand[w] : w \in {v \in Workers : wpc[v] = "run"}}
      BY <1>2, PoolAssumption DEF DrainInv, PoolTypeOK
    <3>3. QED  BY <1>2, <3>1, <3>2 DEF DrainInv, Kept
  <2>5. ~(Q # {} /\ H # {}) /\ ~(Q # {} /\ t \in done) /\ ~(H # {} /\ t \in done)
    BY <1>2 DEF Apart
  <2> HIDE DEF Q, H
  <2>6. Cardinality(Q) + Cardinality(H) + (IF t \in done THEN 1 ELSE 0)
            = IF t \in pushed THEN 1 ELSE 0
    BY <2>2, <2>3, <2>4, <2>5
  <2>7. QED  BY <2>6 DEF Q, H
<1>3. QED  BY <1>1, <1>2, PoolInvariant, PTL

-----------------------------------------------------------------------------
(* Insertion *)

\* A set of places in a sequence has a last one.
LEMMA LastPlace ==
    ASSUME NEW n \in Nat, NEW T \in SUBSET (1 .. n), T # {}
    PROVE  Max(T) \in T
<1> DEFINE R == StrictSubsetOrdering(Nat)
           I == {i .. n : i \in T}
<1>1. IsWellFoundedOn(R, FiniteSubsetsOf(Nat))
  BY FS_StrictSubsetOrderingWellFounded
<1>2. I \subseteq FiniteSubsetsOf(Nat) /\ I # {}
  <2>1. \A i \in T : IsFiniteSet(i .. n) /\ i .. n \in SUBSET Nat  BY FS_Interval
  <2>2. QED  BY <2>1 DEF FiniteSubsetsOf
<1>3. ASSUME NEW i \in T, NEW j \in T, i < j PROVE <<j .. n, i .. n>> \in R
  <2>1. i \in i .. n /\ i \notin j .. n /\ j .. n \subseteq i .. n  BY <1>3
  <2>2. i .. n \in SUBSET Nat /\ j .. n \in SUBSET Nat  OBVIOUS
  <2>3. QED  BY <2>1, <2>2 DEF StrictSubsetOrdering
<1> HIDE DEF R
<1>4. PICK S \in I : \A U \in I : ~ (<<U, S>> \in R)
  <2> HIDE DEF I
  <2>1. QED  BY <1>1, <1>2, WFMin
<1>5. PICK i \in T : S = i .. n  OBVIOUS
<1>6. \A j \in T : i >= j
  <2>1. \A j \in T : ~ (i < j)  BY <1>3, <1>4, <1>5
  <2>2. QED  BY <2>1
<1>7. QED  BY <1>6 DEF Max

\* What the insertion of a list of rules makes of the table.
Inserted(table, seq, new) ==
    /\ DOMAIN new = DOMAIN table \cup IdsOf(seq)
    /\ \A id \in DOMAIN new : new[id].id = id
    /\ IsFiniteSet(DOMAIN new)
    /\ Cardinality(DOMAIN new) \in Nat /\ Cardinality(DOMAIN table) \in Nat
    /\ Cardinality(DOMAIN new) <= Cardinality(DOMAIN table) + Len(seq)

\* The insertion of rules keeps each rule under its id, and as many rules as
\* were inserted are new or replace another.
LEMMA InsertEffect ==
    ASSUME NEW table, IsFiniteSet(DOMAIN table), \A id \in DOMAIN table : table[id].id = id,
           NEW S, NEW seq \in Seq(S)
    PROVE  Inserted(table, seq, InsertAll(table, seq))
<1> DEFINE new == InsertAll(table, seq)
           f == [i \in DOMAIN seq |-> seq[i].id]
<1>1. DOMAIN new = DOMAIN table \cup IdsOf(seq)  BY DEF InsertAll
<1>2. DOMAIN seq = 1 .. Len(seq) /\ Len(seq) \in Nat  OBVIOUS
<1>3. ASSUME NEW id \in DOMAIN new PROVE new[id].id = id
  <2>1. CASE id \in IdsOf(seq)
    <3> DEFINE T == {i \in DOMAIN seq : seq[i].id = id}
    <3>1. T \in SUBSET (1 .. Len(seq)) /\ T # {}  BY <1>2, <2>1 DEF IdsOf
    <3> HIDE DEF T
    <3>2. Max(T) \in T  BY <1>2, <3>1, LastPlace
    <3>3. new[id] = seq[Max(T)]  BY <1>3, <2>1 DEF InsertAll, T
    <3>4. QED  BY <3>2, <3>3 DEF T
  <2>2. CASE id \notin IdsOf(seq)
    <3>1. id \in DOMAIN table /\ new[id] = table[id]  BY <1>1, <1>3, <2>2 DEF InsertAll
    <3>2. QED  BY <3>1
  <2>3. QED  BY <2>1, <2>2
<1>4. IsFiniteSet(IdsOf(seq)) /\ Cardinality(IdsOf(seq)) <= Len(seq)
  <2>1. f \in Surjection(1 .. Len(seq), IdsOf(seq))  BY <1>2 DEF Surjection, IdsOf
  <2>2. IsFiniteSet(1 .. Len(seq)) /\ Cardinality(1 .. Len(seq)) = Len(seq)
    <3> DEFINE n == Len(seq)
    <3>1. n \in Nat  BY <1>2
    <3> HIDE DEF n
    <3>2. /\ IsFiniteSet(1 .. n)
          /\ Cardinality(1 .. n) = IF 1 > n THEN 0 ELSE n - 1 + 1
      BY <3>1, FS_Interval
    <3>3. QED  BY <3>1, <3>2 DEF n
  <2> HIDE DEF f
  <2>3. QED  BY <2>1, <2>2, FS_Surjection
<1> HIDE DEF new
<1>5. /\ IsFiniteSet(DOMAIN new)
      /\ Cardinality(DOMAIN new) = Cardinality(DOMAIN table) + Cardinality(IdsOf(seq))
                                     - Cardinality(DOMAIN table \cap IdsOf(seq))
  <2> DEFINE D == DOMAIN table
             E == IdsOf(seq)
  <2>1. IsFiniteSet(D) /\ IsFiniteSet(E) /\ DOMAIN new = D \cup E  BY <1>1, <1>4
  <2> HIDE DEF D, E
  <2>2. /\ IsFiniteSet(D \cup E)
        /\ Cardinality(D \cup E) = Cardinality(D) + Cardinality(E) - Cardinality(D \cap E)
    BY <2>1, FS_Union
  <2>3. QED  BY <2>1, <2>2 DEF D, E
<1>6. IsFiniteSet(DOMAIN table \cap IdsOf(seq))  BY <1>4, FS_Intersection
<1>7. /\ Cardinality(DOMAIN new) \in Nat /\ Cardinality(DOMAIN table) \in Nat
      /\ Cardinality(IdsOf(seq)) \in Nat /\ Cardinality(DOMAIN table \cap IdsOf(seq)) \in Nat
  BY <1>4, <1>5, <1>6, FS_CardinalityType
<1>8. Cardinality(DOMAIN new) <= Cardinality(DOMAIN table) + Len(seq)
  BY <1>2, <1>4, <1>5, <1>7
<1>9. QED  BY <1>1, <1>3, <1>5, <1>7, <1>8 DEF Inserted, new

-----------------------------------------------------------------------------
(* Readers *)

\* The rules the compiler can make.
Compilations == {SigmaRule(yaml, n) : yaml \in Texts, n \in Nat}

\* The lists of rules under compilation, and the table.
Lists ==
    /\ made \in [Threads -> Seq(Compilations)] /\ unread = [t \in Threads |-> unread[t]]
    /\ IsFiniteSet(DOMAIN rules) /\ replaced \in Nat

\* Who reloads holds mutex_, and until it inserts there is no rule.
Locked ==
    /\ \A t \in Threads : pc[t] = "reload" <=> mutex = t
    /\ mutex # Nobody => DOMAIN rules = {}

\* The total, at every moment.
Totals ==
    /\ stats.total_rules = Cardinality(DOMAIN rules) + replaced
    /\ stats.sigma_rules + stats.dsl_rules >= stats.total_rules

\* The inductive invariant behind what readers see.
ReadersInv == RulesTypeOK /\ Lists /\ Locked /\ Totals /\ NeverHalfLoaded

\* An engine that has just been constructed satisfies it.
LEMMA InitReaders == RulesInit => ReadersInv
<1>1. SUFFICES ASSUME RulesInit PROVE ReadersInv  OBVIOUS
<1>2. DOMAIN rules = {} /\ profiles = {} /\ stats = NoStats /\ replaced = 0 /\ gone = Named
  BY <1>1 DEF RulesInit, NoRules
<1>3. IsFiniteSet({}) /\ Cardinality({}) = 0  BY FS_EmptySet
<1>4. RulesTypeOK  BY <1>1, <1>2, RulesAssumption DEF RulesInit, RulesTypeOK, NoStats
<1>5. Lists  BY <1>1, <1>2, <1>3 DEF RulesInit, Lists
<1>6. Locked  BY <1>1, <1>2, RulesAssumption DEF RulesInit, Locked
<1>7. Totals  BY <1>2, <1>3 DEF Totals, NoStats
<1>8. NeverHalfLoaded  BY <1>2 DEF NeverHalfLoaded
<1>9. QED  BY <1>4, <1>5, <1>6, <1>7, <1>8 DEF ReadersInv

\* What is left to read of a directory.
LeftOf(d, u) == \E n \in 1 .. Len(d) : u = SubSeq(d, n, Len(d))

\* The rest of what is left of a directory is left of it, and its head is one
\* of the files.
LEMMA RestLeft ==
    ASSUME NEW d \in Directories, NEW u, LeftOf(d, u), u # << >>
    PROVE  Head(u) \in Texts /\ (Tail(u) # << >> => LeftOf(d, Tail(u)))
<1> DEFINE S == ToSet(d)
<1>1. d \in Seq(S) /\ S \subseteq Texts  BY RulesAssumption DEF Texts
<1> HIDE DEF S
<1>2. PICK n \in 1 .. Len(d) : u = SubSeq(d, n, Len(d))  BY DEF LeftOf
<1>3. /\ u \in Seq(S) /\ Len(u) = Len(d) - n + 1 /\ Len(d) \in Nat
      /\ \A i \in 1 .. Len(u) : u[i] = d[n + i - 1]
  BY <1>1, <1>2
<1>4. Head(u) \in S  BY <1>3
<1>5. ASSUME Tail(u) # << >> PROVE LeftOf(d, Tail(u))
  <2>1. Tail(u) \in Seq(S) /\ Len(Tail(u)) = Len(u) - 1 /\ Len(u) # 1
        /\ \A i \in 1 .. Len(u) - 1 : Tail(u)[i] = u[i + 1]
    BY <1>3, <1>5
  <2>2. n + 1 \in 1 .. Len(d)  BY <1>3, <2>1
  <2>3. /\ SubSeq(d, n + 1, Len(d)) \in Seq(S)
        /\ Len(SubSeq(d, n + 1, Len(d))) = Len(d) - n
        /\ \A i \in 1 .. Len(d) - n : SubSeq(d, n + 1, Len(d))[i] = d[n + i]
    BY <1>1, <1>3, <2>2
  <2>4. Len(Tail(u)) = Len(d) - n  BY <1>3, <2>1
  <2>5. \A i \in 1 .. Len(d) - n : Tail(u)[i] = SubSeq(d, n + 1, Len(d))[i]
    BY <1>3, <2>1, <2>3, <2>4
  <2>6. Tail(u) = SubSeq(d, n + 1, Len(d))  BY <2>1, <2>3, <2>4, <2>5, SeqEqual
  <2>7. QED  BY <2>2, <2>6 DEF LeftOf
<1>6. QED  BY <1>1, <1>4, <1>5

\* A directory that was not begun is left as a whole.
LEMMA WholeLeft ==
    ASSUME NEW d \in Directories, d # << >>
    PROVE  LeftOf(d, d)
<1> DEFINE S == ToSet(d)
<1>1. d \in Seq(S)  BY RulesAssumption
<1> HIDE DEF S
<1>2. 1 \in 1 .. Len(d) /\ SubSeq(d, 1, Len(d)) = d  BY <1>1, SubSeqFull
<1>3. QED  BY <1>2 DEF LeftOf

\* s counts n more rules than r, compiled ones.
CountsMore(s, r, n) ==
    /\ s \in [DOMAIN NoStats -> Nat] /\ s.dsl_rules = r.dsl_rules
    /\ s.total_rules = r.total_rules + n /\ s.sigma_rules = r.sigma_rules + n

\* What a load and a reload count.
LEMMA MoreCounted ==
    ASSUME NEW r \in [DOMAIN NoStats -> Nat], NEW n \in Nat
    PROVE  /\ CountsMore([r EXCEPT !.total_rules = @ + n, !.sigma_rules = @ + n], r, n)
           /\ CountsMore([r EXCEPT !.total_rules = @ + n, !.sigma_rules = @ + n,
                                   !.rules_loaded = @ + n], r, n)
<1> DEFINE D == {"total_rules", "sigma_rules", "dsl_rules", "rules_loaded"}
           a == r.total_rules + n
           b == r.sigma_rules + n
           c == r.rules_loaded + n
<1>1. D = DOMAIN NoStats  BY DEF NoStats
<1>2. a \in Nat /\ b \in Nat /\ c \in Nat /\ r \in [D -> Nat]  BY <1>1
<1>3. [r EXCEPT !.total_rules = a, !.sigma_rules = b] \in [D -> Nat]
  <2> HIDE DEF a, b, c
  <2>1. QED  BY <1>2, Zenon
<1>4. [r EXCEPT !.total_rules = a, !.sigma_rules = b, !.rules_loaded = c] \in [D -> Nat]
  <2> HIDE DEF a, b, c
  <2>1. QED  BY <1>2, Zenon
<1>5. QED  BY <1>1, <1>2, <1>3, <1>4 DEF CountsMore

\* What a new total, alone or with another number of added rules, leaves.
LEMMA Recounted ==
    ASSUME NEW r \in [DOMAIN NoStats -> Nat], NEW a \in Nat, NEW b \in Nat
    PROVE  /\ [r EXCEPT !.total_rules = a] \in [DOMAIN NoStats -> Nat]
           /\ [r EXCEPT !.total_rules = a].total_rules = a
           /\ [r EXCEPT !.total_rules = a].sigma_rules = r.sigma_rules
           /\ [r EXCEPT !.total_rules = a].dsl_rules = r.dsl_rules
           /\ [r EXCEPT !.total_rules = a, !.dsl_rules = b] \in [DOMAIN NoStats -> Nat]
           /\ [r EXCEPT !.total_rules = a, !.dsl_rules = b].total_rules = a
           /\ [r EXCEPT !.total_rules = a, !.dsl_rules = b].sigma_rules = r.sigma_rules
           /\ [r EXCEPT !.total_rules = a, !.dsl_rules = b].dsl_rules = b
<1> DEFINE D == {"total_rules", "sigma_rules", "dsl_rules", "rules_loaded"}
<1>1. D = DOMAIN NoStats /\ r \in [D -> Nat]  BY DEF NoStats
<1>2. [r EXCEPT !.total_rules = a] \in [D -> Nat]  BY <1>1, Zenon
<1>3. [r EXCEPT !.total_rules = a, !.dsl_rules = b] \in [D -> Nat]  BY <1>1, Zenon
<1>4. QED  BY <1>1, <1>2, <1>3

\* Every step of a thread preserves what readers rely on.
LEMMA NextReaders == ReadersInv /\ [RulesNext]_rulesVars => ReadersInv'
<1>1. SUFFICES ASSUME ReadersInv, [RulesNext]_rulesVars PROVE ReadersInv'  OBVIOUS
<1> USE <1>1 DEF ReadersInv
<1>2. /\ stats \in [DOMAIN NoStats -> Nat] /\ compiled \in Nat
      /\ pc \in [Threads -> {"idle", "load", "reload"}] /\ calls \in 0 .. MaxCalls
      /\ made \in [Threads -> Seq(Compilations)] /\ counted \in [Threads -> Nat \cup {NoCount}]
      /\ mutex \in Threads \cup {Nobody} /\ Nobody \notin Threads
      /\ DOMAIN NoStats = {"total_rules", "sigma_rules", "dsl_rules", "rules_loaded"}
      /\ MaxCalls \in Nat /\ unread = [t \in Threads |-> unread[t]]
  BY RulesAssumption DEF RulesTypeOK, Lists, NoStats
<1>3. \A t \in Threads : unread[t] # << >> =>
         \E d \in Directories : LeftOf(d, unread[t])
  BY DEF RulesTypeOK, LeftOf
<1>types. ASSUME \A id \in DOMAIN rules' : rules'[id].id = id, profiles' = DOMAIN rules',
             stats' \in [DOMAIN NoStats -> Nat], compiled' \in Nat, mutex' \in Threads \cup {Nobody},
             pc' \in [Threads -> {"idle", "load", "reload"}], calls' \in 0 .. MaxCalls,
             \A t \in Threads : unread'[t] # << >> => \E d \in Directories : LeftOf(d, unread'[t]),
             counted' \in [Threads -> Nat \cup {NoCount}]
      PROVE  RulesTypeOK'
  BY <1>types DEF RulesTypeOK, LeftOf
<1>4. ASSUME UNCHANGED <<rules, profiles, stats, mutex, pc, replaced, gone>>,
             calls' \in 0 .. MaxCalls, compiled' \in Nat,
             made' \in [Threads -> Seq(Compilations)], counted' \in [Threads -> Nat \cup {NoCount}],
             unread' = [t \in Threads |-> unread'[t]],
             \A t \in Threads : unread'[t] # << >> => \E d \in Directories : LeftOf(d, unread'[t])
      PROVE  ReadersInv'
  BY <1>4 DEF RulesTypeOK, LeftOf, Lists, Locked, Totals, NeverHalfLoaded, Readable
\* A table that got the rules of s, as a load, a reload and an addition leave it.
<1>5. ASSUME NEW s, NEW S, s \in Seq(S), NEW added \in [DOMAIN NoStats -> Nat], mutex' = Nobody,
             rules' = InsertAll(rules, s), profiles' = profiles \cup IdsOf(s),
             replaced' = replaced + Cardinality(DOMAIN rules) + Len(s) - Cardinality(DOMAIN rules'),
             stats' \in [DOMAIN NoStats -> Nat],
             stats'.total_rules = stats.total_rules + Len(s),
             stats'.sigma_rules + stats'.dsl_rules = stats.sigma_rules + stats.dsl_rules + Len(s)
      PROVE  /\ \A id \in DOMAIN rules' : rules'[id].id = id
             /\ profiles' = DOMAIN rules' /\ IsFiniteSet(DOMAIN rules') /\ replaced' \in Nat
             /\ DOMAIN rules' = DOMAIN rules \cup IdsOf(s)
             /\ Totals'
  <2>1. Inserted(rules, s, rules')
    BY <1>5, InsertEffect DEF RulesTypeOK, Lists
  <2>2. DOMAIN rules' = DOMAIN rules \cup IdsOf(s)  BY <2>1 DEF Inserted
  <2>3. profiles' = DOMAIN rules'  BY <1>5, <2>2 DEF RulesTypeOK
  <2>4. replaced' \in Nat /\ Totals'
    <3> DEFINE c == Cardinality(DOMAIN rules)
               d == Cardinality(DOMAIN rules')
               n == Len(s)
    <3>1. c \in Nat /\ d \in Nat /\ d <= c + n /\ n \in Nat  BY <1>5, <2>1 DEF Inserted
    <3>2. /\ replaced \in Nat /\ replaced' = replaced + c + n - d
          /\ stats.total_rules = c + replaced /\ stats.total_rules \in Nat
          /\ stats.sigma_rules \in Nat /\ stats.dsl_rules \in Nat
          /\ stats.sigma_rules + stats.dsl_rules >= stats.total_rules
      BY <1>2, <1>5 DEF Lists, Totals
    <3>3. stats'.total_rules \in Nat /\ stats'.sigma_rules \in Nat /\ stats'.dsl_rules \in Nat
      BY <1>2, <1>5
    <3>4. stats'.total_rules = d + replaced'
      <4> HIDE DEF c, d, n
      <4>1. stats'.total_rules = stats.total_rules + n  BY <1>5 DEF n
      <4>2. QED  BY <3>1, <3>2, <4>1
    <3>5. replaced' \in Nat /\ stats'.sigma_rules + stats'.dsl_rules >= stats'.total_rules
      <4>1. stats'.total_rules = stats.total_rules + n
            /\ stats'.sigma_rules + stats'.dsl_rules = stats.sigma_rules + stats.dsl_rules + n
        BY <1>5
      <4> HIDE DEF c, d, n
      <4>2. QED  BY <3>1, <3>2, <3>3, <4>1
    <3>6. QED  BY <3>4, <3>5 DEF Totals
  <2>5. QED  BY <2>1, <2>2, <2>3, <2>4 DEF Inserted
<1>6. ASSUME NEW t \in Threads, CompileOne(t) PROVE ReadersInv'
  <2>1. PICK d \in Directories : LeftOf(d, unread[t])  BY <1>3, <1>6 DEF CompileOne
  <2>2. /\ Head(unread[t]) \in Texts
        /\ Tail(unread[t]) # << >> => LeftOf(d, Tail(unread[t]))
    BY <1>6, <2>1, RestLeft DEF CompileOne
  <2>3. SigmaRule(Head(unread[t]), compiled) \in Compilations  BY <1>2, <2>2 DEF Compilations
  <2>4. made' \in [Threads -> Seq(Compilations)]
    <3>1. Append(made[t], SigmaRule(Head(unread[t]), compiled)) \in Seq(Compilations)
      BY <1>2, <2>3
    <3>2. QED  BY <1>2, <1>6, <3>1 DEF CompileOne
  <2>5. /\ unread' = [u \in Threads |-> unread'[u]]
        /\ \A u \in Threads : unread'[u] = IF u = t THEN Tail(unread[t]) ELSE unread[u]
    BY <1>2, <1>6 DEF CompileOne
  <2>6. counted' \in [Threads -> Nat \cup {NoCount}]  BY <1>2, <1>6 DEF CompileOne
  <2>7. \A u \in Threads : unread'[u] # << >> => \E e \in Directories : LeftOf(e, unread'[u])
    BY <1>3, <2>2, <2>5
  <2>8. UNCHANGED <<rules, profiles, stats, mutex, pc, replaced, gone, calls, compiled>>
    BY <1>6 DEF CompileOne
  <2>9. QED  BY <1>2, <1>4, <2>4, <2>5, <2>6, <2>7, <2>8
<1>7. ASSUME NEW t \in Threads, CountCompiled(t) PROVE ReadersInv'
  <2>1. UNCHANGED <<rules, profiles, stats, mutex, pc, replaced, gone, calls, unread, made>>
    BY <1>7 DEF CountCompiled, history
  <2>2. compiled' \in Nat /\ counted' \in [Threads -> Nat \cup {NoCount}]
    <3>1. counted[t] \in Nat  BY <1>2, <1>7 DEF CountCompiled
    <3>2. QED  BY <1>2, <1>7, <3>1 DEF CountCompiled
  <2>3. QED  BY <1>2, <1>3, <1>4, <2>1, <2>2
<1>8. ASSUME NEW t \in Threads, FilesSkipped(t) PROVE ReadersInv'
  <2>1. UNCHANGED <<rules, profiles, stats, mutex, pc, replaced, gone, calls, compiled, made, counted>>
    BY <1>8 DEF FilesSkipped, history
  <2>2. PICK rest \in {Tail(unread[t]), << >>} : unread' = [unread EXCEPT ![t] = rest]
    BY <1>8 DEF FilesSkipped
  <2>3. PICK d \in Directories : LeftOf(d, unread[t])  BY <1>3, <1>8 DEF FilesSkipped
  <2>4. rest # << >> => LeftOf(d, rest)
    BY <1>8, <2>3, RestLeft DEF FilesSkipped
  <2>5. /\ unread' = [u \in Threads |-> unread'[u]]
        /\ \A u \in Threads : unread'[u] = IF u = t THEN rest ELSE unread[u]
    BY <1>2, <2>2
  <2>6. QED  BY <1>2, <1>3, <1>4, <2>1, <2>4, <2>5
<1>9. ASSUME NEW t \in Threads, NEW d \in Directories, unread' = [unread EXCEPT ![t] = d]
      PROVE  /\ unread' = [u \in Threads |-> unread'[u]]
             /\ \A u \in Threads : unread'[u] # << >> => \E e \in Directories : LeftOf(e, unread'[u])
  <2>1. \A u \in Threads : unread'[u] = IF u = t THEN d ELSE unread[u]  BY <1>2, <1>9
  <2>2. unread' = [u \in Threads |-> unread'[u]]  BY <1>2, <1>9
  <2>3. QED  BY <1>3, <2>1, <2>2, WholeLeft
<1>10. ASSUME NEW t \in Threads, LoadBegins(t) PROVE ReadersInv'
  <2>1. /\ UNCHANGED <<rules, profiles, stats, mutex, replaced, gone, compiled, made, counted>>
        /\ calls' = calls + 1 /\ calls < MaxCalls /\ pc[t] = "idle"
        /\ pc' = [pc EXCEPT ![t] = "load"]
    BY <1>10 DEF LoadBegins, Calls, history
  <2>2. PICK d \in Directories : unread' = [unread EXCEPT ![t] = d]  BY <1>10 DEF LoadBegins
  <2>3. RulesTypeOK'
    <3>1. calls' \in 0 .. MaxCalls  BY <1>2, <2>1
    <3>2. pc' \in [Threads -> {"idle", "load", "reload"}]  BY <1>2, <2>1
    <3>3. /\ \A id \in DOMAIN rules' : rules'[id].id = id
          /\ profiles' = DOMAIN rules'
      BY <2>1 DEF RulesTypeOK
    <3>4. QED  BY <1>2, <1>types, <1>9, <2>1, <2>2, <3>1, <3>2, <3>3
  <2>4. Lists'  BY <1>2, <1>9, <2>1, <2>2 DEF Lists
  <2>5. Locked'  BY <1>2, <2>1 DEF Locked
  <2>6. QED  BY <2>1, <2>3, <2>4, <2>5 DEF Totals, NeverHalfLoaded, Readable
<1>11. ASSUME NEW t \in Threads, ReloadClears(t) PROVE ReadersInv'
  <2>1. /\ UNCHANGED <<gone, compiled, made, counted>>
        /\ calls' = calls + 1 /\ calls < MaxCalls /\ pc[t] = "idle"
        /\ pc' = [pc EXCEPT ![t] = "reload"] /\ mutex = Nobody /\ mutex' = t
        /\ DOMAIN rules' = {} /\ profiles' = {} /\ stats' = NoStats /\ replaced' = 0
    BY <1>11 DEF ReloadClears, Calls, NoRules
  <2>2. PICK d \in Directories : unread' = [unread EXCEPT ![t] = d]  BY <1>11 DEF ReloadClears
  <2>3. NoStats \in [DOMAIN NoStats -> Nat]  BY DEF NoStats
  <2>4. RulesTypeOK'
    <3>1. calls' \in 0 .. MaxCalls  BY <1>2, <2>1
    <3>2. pc' \in [Threads -> {"idle", "load", "reload"}]  BY <1>2, <2>1
    <3>3. mutex' \in Threads \cup {Nobody}  BY <2>1
    <3>4. QED  BY <1>2, <1>types, <1>9, <2>1, <2>2, <2>3, <3>1, <3>2, <3>3
  <2>5. IsFiniteSet({}) /\ Cardinality({}) = 0  BY FS_EmptySet
  <2>6. Lists'  BY <1>2, <1>9, <2>1, <2>2, <2>5 DEF Lists
  <2>7. Locked'  BY <1>2, <2>1 DEF Locked
  <2>8. Totals'  BY <2>1, <2>5 DEF Totals, NoStats
  <2>9. NeverHalfLoaded'  BY <1>2, <2>1 DEF NeverHalfLoaded, Readable
  <2>10. QED  BY <2>4, <2>6, <2>7, <2>8, <2>9
\* What a load and a reload leave.
<1>12. ASSUME NEW t \in Threads, UNCHANGED <<unread, calls, compiled, counted>>, mutex' = Nobody,
              rules' = InsertAll(rules, made[t]), profiles' = profiles \cup IdsOf(made[t]),
              replaced' = replaced + Cardinality(DOMAIN rules) + Len(made[t]) - Cardinality(DOMAIN rules'),
              pc' = [pc EXCEPT ![t] = "idle"], made' = [made EXCEPT ![t] = << >>],
              stats'.total_rules = stats.total_rules + Len(made[t]),
              stats'.sigma_rules = stats.sigma_rules + Len(made[t]),
              stats'.dsl_rules = stats.dsl_rules, stats' \in [DOMAIN NoStats -> Nat],
              \A u \in Threads : pc[u] = "reload" => u = t
       PROVE  RulesTypeOK' /\ Lists' /\ Locked' /\ Totals' /\ DOMAIN rules' = DOMAIN rules \cup IdsOf(made[t])
  <2> DEFINE s == made[t]
  <2>1. s \in Seq(Compilations) /\ Len(s) \in Nat  BY <1>2
  <2>2. stats'.sigma_rules + stats'.dsl_rules = stats.sigma_rules + stats.dsl_rules + Len(s)
    BY <1>2, <1>12, <2>1
  <2>3. /\ \A id \in DOMAIN rules' : rules'[id].id = id
        /\ profiles' = DOMAIN rules' /\ IsFiniteSet(DOMAIN rules') /\ replaced' \in Nat
        /\ DOMAIN rules' = DOMAIN rules \cup IdsOf(s)
        /\ Totals'
    <3> HIDE DEF s
    <3>1. /\ rules' = InsertAll(rules, s) /\ profiles' = profiles \cup IdsOf(s)
          /\ replaced' = replaced + Cardinality(DOMAIN rules) + Len(s) - Cardinality(DOMAIN rules')
          /\ stats'.total_rules = stats.total_rules + Len(s)
      BY <1>12 DEF s
    <3>2. QED  BY <1>5, <1>12, <2>1, <2>2, <3>1
  <2>4. RulesTypeOK'
    <3>1. pc' \in [Threads -> {"idle", "load", "reload"}]  BY <1>2, <1>12
    <3>2. \A u \in Threads : unread'[u] # << >> => \E d \in Directories : LeftOf(d, unread'[u])
      BY <1>3, <1>12
    <3>3. QED  BY <1>2, <1>types, <1>12, <2>3, <3>1, <3>2
  <2>5. << >> \in Seq(Compilations)  OBVIOUS
  <2>6. Lists'  BY <1>2, <1>12, <2>3, <2>5 DEF Lists
  <2>7. Locked'  BY <1>2, <1>12 DEF Locked
  <2>8. QED  BY <2>3, <2>4, <2>6, <2>7
<1>13. ASSUME NEW t \in Threads, LoadInserts(t) PROVE ReadersInv'
  <2>1. /\ UNCHANGED <<unread, calls, compiled, counted>> /\ mutex = Nobody /\ mutex' = Nobody
        /\ rules' = InsertAll(rules, made[t]) /\ profiles' = profiles \cup IdsOf(made[t])
        /\ replaced' = replaced + Cardinality(DOMAIN rules) + Len(made[t]) - Cardinality(DOMAIN rules')
        /\ pc' = [pc EXCEPT ![t] = "idle"] /\ made' = [made EXCEPT ![t] = << >>]
        /\ gone' = gone \ IdsOf(made[t])
    BY <1>13 DEF LoadInserts
  <2>2. Len(made[t]) \in Nat  BY <1>2
  <2>3. /\ stats' \in [DOMAIN NoStats -> Nat] /\ stats'.dsl_rules = stats.dsl_rules
        /\ stats'.total_rules = stats.total_rules + Len(made[t])
        /\ stats'.sigma_rules = stats.sigma_rules + Len(made[t])
    <3> DEFINE n == Len(made[t])
    <3>1. stats' = [stats EXCEPT !.total_rules = @ + n, !.sigma_rules = @ + n, !.rules_loaded = @ + n]
      BY <1>13 DEF LoadInserts
    <3>2. n \in Nat  BY <2>2
    <3> HIDE DEF n
    <3>3. CountsMore(stats', stats, n)  BY <1>2, <3>1, <3>2, MoreCounted
    <3>4. QED  BY <3>3 DEF n, CountsMore
  <2>4. \A u \in Threads : pc[u] = "reload" => u = t  BY <1>2, <2>1 DEF Locked
  <2>5. RulesTypeOK' /\ Lists' /\ Locked' /\ Totals' /\ DOMAIN rules' = DOMAIN rules \cup IdsOf(made[t])
    BY <1>12, <2>1, <2>3, <2>4
  <2>6. NeverHalfLoaded'  BY <2>1, <2>5 DEF NeverHalfLoaded, Readable
  <2>7. QED  BY <2>5, <2>6
<1>14. ASSUME NEW t \in Threads, ReloadInserts(t) PROVE ReadersInv'
  <2>1. /\ UNCHANGED <<unread, calls, compiled, counted>> /\ mutex = t /\ mutex' = Nobody
        /\ rules' = InsertAll(rules, made[t]) /\ profiles' = profiles \cup IdsOf(made[t])
        /\ replaced' = replaced + Cardinality(DOMAIN rules) + Len(made[t]) - Cardinality(DOMAIN rules')
        /\ pc' = [pc EXCEPT ![t] = "idle"] /\ made' = [made EXCEPT ![t] = << >>]
        /\ gone' = Named \ IdsOf(made[t])
    BY <1>14 DEF ReloadInserts
  <2>2. Len(made[t]) \in Nat  BY <1>2
  <2>3. /\ stats' \in [DOMAIN NoStats -> Nat] /\ stats'.dsl_rules = stats.dsl_rules
        /\ stats'.total_rules = stats.total_rules + Len(made[t])
        /\ stats'.sigma_rules = stats.sigma_rules + Len(made[t])
    <3> DEFINE n == Len(made[t])
    <3>1. stats' = [stats EXCEPT !.total_rules = @ + n, !.sigma_rules = @ + n]
      BY <1>14 DEF ReloadInserts
    <3>2. n \in Nat  BY <2>2
    <3> HIDE DEF n
    <3>3. CountsMore(stats', stats, n)  BY <1>2, <3>1, <3>2, MoreCounted
    <3>4. QED  BY <3>3 DEF n, CountsMore
  <2>4. \A u \in Threads : pc[u] = "reload" => u = t  BY <1>2, <2>1 DEF Locked
  <2>5. RulesTypeOK' /\ Lists' /\ Locked' /\ Totals' /\ DOMAIN rules' = DOMAIN rules \cup IdsOf(made[t])
    BY <1>12, <2>1, <2>3, <2>4
  <2>6. NeverHalfLoaded'  BY <2>1, <2>5 DEF NeverHalfLoaded, Readable
  <2>7. QED  BY <2>5, <2>6
<1>15. ASSUME NEW t \in Threads, add_rule(t) PROVE ReadersInv'
  <2>1. PICK rule \in Added :
          /\ rules' = InsertAll(rules, <<rule>>) /\ profiles' = profiles \cup {rule.id}
          /\ replaced' = replaced + IF rule.id \in DOMAIN rules THEN 1 ELSE 0
          /\ gone' = gone \ {rule.id}
    BY <1>15 DEF add_rule
  <2>2. /\ mutex = Nobody /\ calls < MaxCalls /\ calls' = calls + 1
        /\ stats' = [stats EXCEPT !.total_rules = @ + 1, !.dsl_rules = @ + 1]
        /\ UNCHANGED <<mutex, compiled, pc, unread, made, counted>>
    BY <1>15 DEF add_rule, Calls
  <2>3. /\ stats' \in [DOMAIN NoStats -> Nat]
        /\ stats'.total_rules = stats.total_rules + 1 /\ stats'.dsl_rules = stats.dsl_rules + 1
        /\ stats'.sigma_rules = stats.sigma_rules
    <3> DEFINE a == stats.total_rules + 1
               b == stats.dsl_rules + 1
    <3>1. stats' = [stats EXCEPT !.total_rules = a, !.dsl_rules = b]  BY <2>2
    <3>2. a \in Nat /\ b \in Nat  BY <1>2
    <3> HIDE DEF a, b
    <3>3. /\ stats' \in [DOMAIN NoStats -> Nat]
          /\ stats'.total_rules = a /\ stats'.dsl_rules = b /\ stats'.sigma_rules = stats.sigma_rules
      BY <1>2, <3>1, <3>2, Recounted
    <3>4. QED  BY <3>3 DEF a, b
  <2> DEFINE s == <<rule>>
  <2>4. s \in Seq({rule}) /\ Len(s) = 1 /\ IdsOf(s) = {rule.id}  BY DEF IdsOf
  <2> HIDE DEF s
  <2>5. Inserted(rules, s, rules')  BY <2>1, <2>4, InsertEffect DEF RulesTypeOK, Lists, s
  <2>6. replaced' = replaced + Cardinality(DOMAIN rules) + Len(s) - Cardinality(DOMAIN rules')
    <3>1. /\ IsFiniteSet(DOMAIN rules) /\ Cardinality(DOMAIN rules) \in Nat /\ replaced \in Nat
          /\ DOMAIN rules' = DOMAIN rules \cup {rule.id}
      BY <2>4, <2>5 DEF Lists, Inserted
    <3>2. Cardinality(DOMAIN rules') =
            IF rule.id \in DOMAIN rules THEN Cardinality(DOMAIN rules) ELSE Cardinality(DOMAIN rules) + 1
      <4> DEFINE D == DOMAIN rules
                 x == rule.id
      <4>1. IsFiniteSet(D) /\ DOMAIN rules' = D \cup {x}  BY <3>1
      <4> HIDE DEF D, x
      <4>2. Cardinality(D \cup {x}) = IF x \in D THEN Cardinality(D) ELSE Cardinality(D) + 1
        BY <4>1, FS_AddElement
      <4>3. QED  BY <4>1, <4>2 DEF D, x
    <3>3. QED  BY <2>1, <2>4, <3>1, <3>2
  <2>7. stats'.sigma_rules + stats'.dsl_rules = stats.sigma_rules + stats.dsl_rules + Len(s)
    BY <1>2, <2>3, <2>4
  <2>8. /\ \A id \in DOMAIN rules' : rules'[id].id = id
        /\ profiles' = DOMAIN rules' /\ IsFiniteSet(DOMAIN rules') /\ replaced' \in Nat
        /\ DOMAIN rules' = DOMAIN rules \cup IdsOf(s)
        /\ Totals'
    <3>1. /\ mutex' = Nobody /\ rules' = InsertAll(rules, s) /\ profiles' = profiles \cup IdsOf(s)
          /\ stats'.total_rules = stats.total_rules + Len(s)
      BY <2>1, <2>2, <2>3, <2>4 DEF s
    <3>2. QED  BY <1>5, <2>3, <2>4, <2>6, <2>7, <3>1
  <2>9. RulesTypeOK'
    <3>1. calls' \in 0 .. MaxCalls  BY <1>2, <2>2
    <3>2. QED  BY <1>2, <1>3, <1>types, <2>2, <2>3, <2>8, <3>1
  <2>10. Lists'  BY <1>2, <2>2, <2>8 DEF Lists
  <2>11. Locked'  BY <2>2 DEF Locked
  <2>12. NeverHalfLoaded'  BY <2>1, <2>2, <2>4, <2>8 DEF NeverHalfLoaded, Readable
  <2>13. QED  BY <2>8, <2>9, <2>10, <2>11, <2>12
<1>16. ASSUME NEW t \in Threads, NEW id, remove_rule(t, id) PROVE ReadersInv'
  <2>1. /\ mutex = Nobody /\ id \in DOMAIN rules /\ calls < MaxCalls /\ calls' = calls + 1
        /\ rules' = [i \in DOMAIN rules \ {id} |-> rules[i]]
        /\ profiles' = profiles \ {id} /\ gone' = gone \cup {id}
        /\ stats' = [stats EXCEPT !.total_rules = @ - 1]
        /\ UNCHANGED <<mutex, compiled, pc, unread, made, counted, replaced>>
    BY <1>16 DEF remove_rule, Calls, Known
  <2>2. DOMAIN rules' = DOMAIN rules \ {id} /\ \A i \in DOMAIN rules' : rules'[i] = rules[i]
    BY <2>1
  <2>3. /\ IsFiniteSet(DOMAIN rules') /\ Cardinality(DOMAIN rules') = Cardinality(DOMAIN rules) - 1
        /\ Cardinality(DOMAIN rules') \in Nat /\ Cardinality(DOMAIN rules) \in Nat
    <3> DEFINE D == DOMAIN rules
    <3>1. IsFiniteSet(D) /\ id \in D /\ DOMAIN rules' = D \ {id}  BY <2>1, <2>2 DEF Lists
    <3> HIDE DEF D
    <3>2. IsFiniteSet(D \ {id}) /\ Cardinality(D \ {id}) = Cardinality(D) - 1
      BY <3>1, FS_RemoveElement
    <3>3. Cardinality(D) \in Nat /\ Cardinality(D \ {id}) \in Nat
      BY <3>1, <3>2, FS_CardinalityType
    <3>4. QED  BY <3>1, <3>2, <3>3 DEF D
  <2>4. stats.total_rules \in Nat \ {0} /\ replaced \in Nat
    <3>1. stats.total_rules = Cardinality(DOMAIN rules) + replaced /\ replaced \in Nat
      BY DEF Totals, Lists
    <3>2. QED  BY <2>3, <3>1
  <2>5. /\ stats' \in [DOMAIN NoStats -> Nat] /\ stats'.total_rules = stats.total_rules - 1
        /\ stats'.sigma_rules = stats.sigma_rules /\ stats'.dsl_rules = stats.dsl_rules
    <3> DEFINE a == stats.total_rules - 1
    <3>1. stats' = [stats EXCEPT !.total_rules = a]  BY <2>1
    <3>2. a \in Nat  BY <2>4
    <3> HIDE DEF a
    <3>3. /\ stats' \in [DOMAIN NoStats -> Nat] /\ stats'.total_rules = a
          /\ stats'.sigma_rules = stats.sigma_rules /\ stats'.dsl_rules = stats.dsl_rules
      BY <1>2, <3>1, <3>2, Recounted
    <3>4. QED  BY <3>3 DEF a
  <2>6. Totals'
    <3>1. /\ stats.total_rules = Cardinality(DOMAIN rules) + replaced
          /\ stats.sigma_rules + stats.dsl_rules >= stats.total_rules
          /\ stats.sigma_rules \in Nat /\ stats.dsl_rules \in Nat
      BY <1>2 DEF Totals
    <3>2. stats'.total_rules = Cardinality(DOMAIN rules') + replaced'
      BY <2>1, <2>3, <2>4, <2>5, <3>1
    <3>3. stats'.sigma_rules + stats'.dsl_rules >= stats'.total_rules
      BY <2>4, <2>5, <3>1
    <3>4. QED  BY <3>2, <3>3 DEF Totals
  <2>7. RulesTypeOK'
    <3>1. calls' \in 0 .. MaxCalls  BY <1>2, <2>1
    <3>2. /\ \A i \in DOMAIN rules' : rules'[i].id = i
          /\ profiles' = DOMAIN rules'
      BY <2>1, <2>2 DEF RulesTypeOK
    <3>3. QED  BY <1>2, <1>3, <1>types, <2>1, <2>5, <3>1, <3>2
  <2>8. Lists'  BY <1>2, <2>1, <2>3 DEF Lists
  <2>9. Locked'  BY <2>1 DEF Locked
  <2>10. NeverHalfLoaded'  BY <2>1, <2>2 DEF NeverHalfLoaded, Readable
  <2>11. QED  BY <2>6, <2>7, <2>8, <2>9, <2>10
<1>17. CASE UNCHANGED rulesVars
  BY <1>2, <1>3, <1>4, <1>17 DEF rulesVars, threadVars, history
<1>18. QED
  BY <1>6, <1>7, <1>8, <1>10, <1>11, <1>13, <1>14, <1>15, <1>16, <1>17
  DEF RulesNext, Rest, Step, CallStep

\* The engine satisfies the invariant for ever.
LEMMA AlwaysReaders == RulesSpec => []ReadersInv
BY InitReaders, NextReaders, PTL DEF RulesSpec

\* What readers get under mutex_ is consistent: never a reload half done, a total
\* that agrees with the rules, every rule under its own id with its profile.
THEOREM ReadersAgree == RulesSpec => []ReadersConsistent
<1>1. ReadersInv => ReadersConsistent
  BY DEF ReadersInv, ReadersConsistent, Totals, TotalExact
<1>2. QED  BY <1>1, AlwaysReaders, PTL

-----------------------------------------------------------------------------
(* Numbers *)

\* As long as no two compilations overlapped: at most one increment is under
\* way, it writes the next number, and all given are below it.
FreshInv ==
    /\ numbers \in [Threads -> Seq(Nat)]
    /\ raced \/ /\ \A t, u \in Threads : counted[t] # NoCount /\ counted[u] # NoCount => t = u
                /\ \A t \in Threads : counted[t] # NoCount => counted[t] = compiled
                /\ \A t \in Threads : \A i \in DOMAIN numbers[t] :
                       \/ numbers[t][i] <= compiled
                       \/ numbers[t][i] = compiled + 1 /\ \E u \in Threads : counted[u] # NoCount
                /\ NumbersFresh

\* No number was given when the engine was constructed.
LEMMA InitFresh == RulesInit => FreshInv
<1>1. SUFFICES ASSUME RulesInit PROVE FreshInv  OBVIOUS
<1>2. numbers = [t \in Threads |-> << >>] /\ counted = [t \in Threads |-> NoCount]
  BY <1>1 DEF RulesInit
<1>3. << >> \in Seq(Nat) /\ DOMAIN << >> = {} /\ ToSet(<< >>) = {}  BY DEF ToSet
<1>4. NumbersFresh  BY <1>2, <1>3 DEF NumbersFresh, IsInjective
<1>5. QED  BY <1>2, <1>3, <1>4 DEF FreshInv

\* Every step of a thread preserves the freshness of numbers.
LEMMA NextFresh == ReadersInv /\ FreshInv /\ [RulesNext]_rulesVars => FreshInv'
<1>1. SUFFICES ASSUME ReadersInv, FreshInv, [RulesNext]_rulesVars PROVE FreshInv'  OBVIOUS
<1>2. /\ compiled \in Nat /\ counted \in [Threads -> Nat \cup {NoCount}]
      /\ numbers \in [Threads -> Seq(Nat)]
  BY <1>1 DEF ReadersInv, RulesTypeOK, FreshInv
<1>3. ASSUME UNCHANGED <<compiled, counted, numbers, raced>> PROVE FreshInv'
  BY <1>1, <1>3 DEF FreshInv, NumbersFresh
<1>4. ASSUME NEW t \in Threads, CountCompiled(t) PROVE FreshInv'
  <2>1. /\ counted[t] # NoCount /\ compiled' = counted[t] + 1
        /\ counted' = [counted EXCEPT ![t] = NoCount] /\ UNCHANGED <<numbers, raced>>
    BY <1>4 DEF CountCompiled, history
  <2>2. CASE raced  BY <1>2, <2>1, <2>2 DEF FreshInv
  <2>3. CASE ~raced
    <3>1. compiled' = compiled + 1 /\ \A u \in Threads : counted'[u] = NoCount
      BY <1>1, <1>2, <2>1, <2>3 DEF FreshInv
    <3>2. ASSUME NEW u \in Threads, NEW i \in DOMAIN numbers[u] PROVE numbers[u][i] <= compiled'
      <4>1. numbers[u][i] \in Nat  BY <1>2
      <4>2. numbers[u][i] <= compiled \/ numbers[u][i] = compiled + 1  BY <1>1, <2>3 DEF FreshInv
      <4>3. QED  BY <1>2, <3>1, <4>1, <4>2
    <3>3. NumbersFresh'  BY <1>1, <2>1, <2>3 DEF FreshInv, NumbersFresh
    <3>4. QED  BY <1>2, <2>1, <3>1, <3>2, <3>3 DEF FreshInv
  <2>4. QED  BY <2>2, <2>3
<1>5. ASSUME NEW t \in Threads, CompileOne(t) PROVE FreshInv'
  <2>1. /\ counted[t] = NoCount /\ counted' = [counted EXCEPT ![t] = compiled] /\ compiled' = compiled
        /\ raced' = (raced \/ \E u \in Threads \ {t} : counted[u] # NoCount)
        /\ \/ numbers' = [numbers EXCEPT ![t] = Append(@, compiled + 1)]
           \/ numbers' = numbers
    <3>1. CASE LinesOf(Head(unread[t]), "id") = {}  BY <1>5, <3>1 DEF CompileOne
    <3>2. CASE LinesOf(Head(unread[t]), "id") # {}  BY <1>2, <1>5, <3>2 DEF CompileOne
    <3>3. QED  BY <3>1, <3>2
  <2>2. numbers' \in [Threads -> Seq(Nat)]
    <3>1. Append(numbers[t], compiled + 1) \in Seq(Nat)  BY <1>2
    <3>2. QED  BY <1>2, <2>1, <3>1
  <2>3. CASE raced'  BY <2>2, <2>3 DEF FreshInv
  <2>4. CASE ~raced'
    <3>1. ~raced /\ \A u \in Threads : counted[u] = NoCount  BY <2>1, <2>4
    <3>2. /\ counted'[t] = compiled /\ compiled # NoCount
          /\ \A u \in Threads : u # t => counted'[u] = NoCount
      BY <1>2, <2>1, <3>1 DEF NoCount
    <3>3. \A u \in Threads : \A i \in DOMAIN numbers[u] :
             numbers[u][i] \in Nat /\ numbers[u][i] <= compiled
      BY <1>1, <1>2, <3>1 DEF FreshInv
    <3>4. NumbersFresh  BY <1>1, <3>1 DEF FreshInv
    <3>5. CASE numbers' = numbers
      <4>1. NumbersFresh'  BY <3>1, <3>4, <3>5 DEF NumbersFresh
      <4>2. QED  BY <2>1, <2>2, <3>2, <3>3, <3>5, <4>1 DEF FreshInv
    <3>6. CASE numbers' = [numbers EXCEPT ![t] = Append(@, compiled + 1)]
      <4> DEFINE s == numbers[t]
                 n == Len(s)
      <4>1. s \in Seq(Nat) /\ n \in Nat /\ DOMAIN s = 1 .. n  BY <1>2
      <4>2. /\ numbers'[t] = Append(s, compiled + 1)
            /\ \A u \in Threads : u # t => numbers'[u] = numbers[u]
        BY <1>2, <3>6
      <4>3. /\ DOMAIN numbers'[t] = 1 .. n + 1 /\ numbers'[t][n + 1] = compiled + 1
            /\ \A i \in 1 .. n : numbers'[t][i] = s[i]
        BY <4>1, <4>2
      <4>4. ASSUME NEW i \in DOMAIN numbers'[t]
            PROVE  \/ i \in DOMAIN s /\ numbers'[t][i] = s[i] /\ s[i] <= compiled
                   \/ i = n + 1 /\ numbers'[t][i] = compiled + 1
        <5>1. i \in 1 .. n \/ i = n + 1  BY <4>1, <4>3
        <5>2. QED  BY <3>3, <4>1, <4>3, <5>1
      <4>5. \A i \in DOMAIN s : s[i] \in Nat /\ s[i] # compiled + 1
        <5>1. \A i \in DOMAIN s : s[i] \in Nat /\ s[i] <= compiled  BY <3>3
        <5>2. QED  BY <1>2, <5>1
      <4>6. IsInjective(numbers'[t])
        <5>1. \A i, j \in DOMAIN s : s[i] = s[j] => i = j
          BY <3>1, <3>4 DEF NumbersFresh, IsInjective
        <5>2. \A i, j \in DOMAIN numbers'[t] : numbers'[t][i] = numbers'[t][j] => i = j
          BY <4>4, <4>5, <5>1
        <5>3. QED  BY <5>2 DEF IsInjective
      <4>7. ToSet(numbers'[t]) \subseteq ToSet(s) \cup {compiled + 1}
        BY <4>4 DEF ToSet
      <4>8. ASSUME NEW u \in Threads, u # t
            PROVE  ToSet(numbers'[t]) \cap ToSet(numbers'[u]) = {}
        <5>1. ToSet(s) \cap ToSet(numbers[u]) = {}  BY <3>1, <3>4, <4>8 DEF NumbersFresh
        <5>2. compiled + 1 \notin ToSet(numbers[u])
          <6>1. \A i \in DOMAIN numbers[u] : numbers[u][i] # compiled + 1
            <7>1. \A i \in DOMAIN numbers[u] : numbers[u][i] \in Nat /\ numbers[u][i] <= compiled
              BY <3>3
            <7>2. QED  BY <1>2, <7>1
          <6>2. QED  BY <6>1 DEF ToSet
        <5>3. QED  BY <4>2, <4>7, <4>8, <5>1, <5>2
      <4>9. NumbersFresh'
        <5>1. \A u \in Threads : IsInjective(numbers'[u])
          BY <3>1, <3>4, <4>2, <4>6 DEF NumbersFresh
        <5>2. \A u, v \in Threads : u # v => ToSet(numbers'[u]) \cap ToSet(numbers'[v]) = {}
          <6>1. SUFFICES ASSUME NEW u \in Threads, NEW v \in Threads, u # v
                         PROVE  ToSet(numbers'[u]) \cap ToSet(numbers'[v]) = {}
            OBVIOUS
          <6>2. CASE u # t /\ v # t  BY <3>1, <3>4, <4>2, <6>1, <6>2 DEF NumbersFresh
          <6>3. CASE u = t  BY <4>8, <6>1, <6>3
          <6>4. CASE v = t  BY <4>8, <6>1, <6>4
          <6>5. QED  BY <6>2, <6>3, <6>4
        <5>3. QED  BY <5>1, <5>2 DEF NumbersFresh
      <4>10. ASSUME NEW u \in Threads, NEW i \in DOMAIN numbers'[u]
             PROVE  numbers'[u][i] <= compiled \/ numbers'[u][i] = compiled + 1
        BY <3>3, <4>2, <4>4
      <4>11. QED  BY <2>1, <2>2, <3>2, <4>9, <4>10 DEF FreshInv
    <3>7. QED  BY <2>1, <3>5, <3>6
  <2>5. QED  BY <2>3, <2>4
<1>6. ASSUME NEW t \in Threads, FilesSkipped(t) \/ LoadInserts(t) \/ ReloadInserts(t) PROVE FreshInv'
  BY <1>3, <1>6 DEF FilesSkipped, LoadInserts, ReloadInserts, history
<1>7. ASSUME NEW t \in Threads, LoadBegins(t) \/ ReloadClears(t) \/ add_rule(t) PROVE FreshInv'
  BY <1>3, <1>7 DEF LoadBegins, ReloadClears, add_rule, history
<1>8. ASSUME NEW t \in Threads, NEW id, remove_rule(t, id) PROVE FreshInv'
  BY <1>3, <1>8 DEF remove_rule
<1>9. CASE UNCHANGED rulesVars
  BY <1>3, <1>9 DEF rulesVars, threadVars, history
<1>10. QED
  BY <1>1, <1>4, <1>5, <1>6, <1>7, <1>8, <1>9 DEF RulesNext, Rest, Step, CallStep

\* As long as no two compilations overlapped, no number is given to two rules, in
\* whatever order directories were loaded and reloaded by whatever threads.
THEOREM NumbersStayFresh == RulesSpec => []NumbersFresh
<1>1. FreshInv => NumbersFresh  BY DEF FreshInv, NumbersFresh
<1>2. QED  BY <1>1, InitFresh, NextFresh, AlwaysReaders, PTL DEF RulesSpec
-----------------------------------------------------------------------------
(* Loops over lines, and the places of lines *)

\* A set of numbers that is not empty has a least one.
LEMMA LeastOf ==
    ASSUME NEW T \in SUBSET Nat, T # {}
    PROVE  \E m \in T : \A n \in T : m <= n
<1> DEFINE R == StrictSubsetOrdering(Nat)
           Upto == {0 .. n : n \in T}
<1>1. IsWellFoundedOn(R, FiniteSubsetsOf(Nat))
  BY FS_StrictSubsetOrderingWellFounded
<1>2. Upto \subseteq FiniteSubsetsOf(Nat) /\ Upto # {}
  <2>1. \A n \in T : IsFiniteSet(0 .. n) /\ 0 .. n \in SUBSET Nat  BY FS_Interval
  <2>2. QED  BY <2>1 DEF FiniteSubsetsOf
<1>3. ASSUME NEW k \in T, NEW n \in T, k < n PROVE <<0 .. k, 0 .. n>> \in R
  <2>1. n \in 0 .. n /\ n \notin 0 .. k /\ 0 .. k \subseteq 0 .. n  BY <1>3
  <2>2. QED  BY <2>1 DEF StrictSubsetOrdering
<1> HIDE DEF R
<1>4. PICK low \in Upto : \A U \in Upto : ~ (<<U, low>> \in R)
  <2> HIDE DEF Upto
  <2>1. QED  BY <1>1, <1>2, WFMin
<1>5. PICK m \in T : low = 0 .. m  OBVIOUS
<1>6. \A k \in T : ~ (k < m)  BY <1>3, <1>4, <1>5
<1>7. QED  BY <1>6

\* What holds at first, and is handed on from each round of a loop to the
\* next, holds after any number of rounds.
LEMMA HandedOn ==
    ASSUME NEW n \in Nat, NEW T, 0 \in T, \A i \in 1 .. n : i - 1 \in T => i \in T
    PROVE  n \in T
<1> SUFFICES ASSUME n \notin T PROVE FALSE  OBVIOUS
<1> DEFINE R == {i \in 0 .. n : i \notin T}
<1>1. R \in SUBSET Nat /\ n \in R  OBVIOUS
<1>2. PICK m \in R : \A i \in R : m <= i
  <2> HIDE DEF R
  <2>1. QED  BY <1>1, LeastOf
<1>3. m \in 1 .. n /\ m - 1 \in 0 .. n /\ ~ (m <= m - 1)  BY <1>2
<1>4. m - 1 \in T  BY <1>2, <1>3
<1>5. QED  BY <1>2, <1>3, <1>4

\* A set of places and its ranks: for each number up to its size there is a
\* place with so many up to it, and later places have higher ranks.
LEMMA Ranks ==
    ASSUME NEW n \in Nat, NEW S \in SUBSET (1 .. n)
    PROVE  /\ IsFiniteSet(S) /\ Cardinality(S) \in Nat
           /\ \A k \in 1 .. Cardinality(S) : \E a \in S : Cardinality({i \in S : i <= a}) = k
           /\ \A a, b \in S :
                a <= b <=> Cardinality({i \in S : i <= a}) <= Cardinality({i \in S : i <= b})
           /\ \A a \in S : Cardinality({i \in S : i <= a}) \in 1 .. Cardinality(S)
<1> DEFINE Upto(a) == {i \in S : i <= a}
           rank == [a \in S |-> Cardinality(Upto(a))]
           size == Cardinality(S)
<1>1. IsFiniteSet(S) /\ size \in Nat
  <2>1. IsFiniteSet(1 .. n)  BY FS_Interval
  <2>2. IsFiniteSet(S)  BY <2>1, FS_Subset
  <2>3. QED  BY <2>2, FS_CardinalityType
<1>2. ASSUME NEW a \in S
      PROVE  IsFiniteSet(Upto(a)) /\ Cardinality(Upto(a)) \in 1 .. size /\ a \in Upto(a)
  <2>1. Upto(a) \in SUBSET S /\ a \in Upto(a)  OBVIOUS
  <2> HIDE DEF Upto, size
  <2>2. IsFiniteSet(Upto(a)) /\ Cardinality(Upto(a)) <= Cardinality(S)
    BY <1>1, <2>1, FS_Subset
  <2>3. Cardinality(Upto(a)) \in Nat /\ Cardinality(Upto(a)) # 0
    BY <2>1, <2>2, FS_CardinalityType, FS_EmptySet
  <2>4. QED  BY <1>1, <2>1, <2>2, <2>3 DEF size
<1>3. ASSUME NEW a \in S, NEW b \in S, a < b PROVE Cardinality(Upto(a)) < Cardinality(Upto(b))
  <2>0. \A i \in S : i \in Int  OBVIOUS
  <2>1. Upto(a) \in SUBSET Upto(b) /\ b \in Upto(b) /\ b \notin Upto(a)
    <3>1. \A i \in S : i <= a => i <= b  BY <1>3, <2>0
    <3>2. ~ (b <= a) /\ b <= b  BY <1>3, <2>0
    <3>3. QED  BY <3>1, <3>2
  <2> HIDE DEF Upto
  <2>2. IsFiniteSet(Upto(b)) /\ Cardinality(Upto(b)) \in Nat /\ Cardinality(Upto(a)) \in Nat
    BY <1>2
  <2>3. /\ Cardinality(Upto(a)) <= Cardinality(Upto(b))
        /\ Cardinality(Upto(b)) = Cardinality(Upto(a)) => Upto(b) = Upto(a)
    BY <2>1, <2>2, FS_Subset
  <2>4. QED  BY <2>1, <2>2, <2>3
<1>4. ASSUME NEW a \in S, NEW b \in S, Cardinality(Upto(a)) = Cardinality(Upto(b)) PROVE a = b
  <2> HIDE DEF Upto
  <2>1. ~ (a < b) /\ ~ (b < a)
    <3>1. Cardinality(Upto(a)) \in Nat /\ Cardinality(Upto(b)) \in Nat  BY <1>2
    <3>2. QED  BY <1>3, <1>4, <3>1
  <2>2. a \in 1 .. n /\ b \in 1 .. n  OBVIOUS
  <2>3. QED  BY <2>1, <2>2
<1>5. rank \in Surjection(S, 1 .. size)
  <2>1. rank \in Injection(S, 1 .. size)
    <3> HIDE DEF Upto, size
    <3>1. QED  BY <1>2, <1>4 DEF Injection, IsInjective
  <2> HIDE DEF rank, size
  <2>2. IsFiniteSet(1 .. size) /\ Cardinality(1 .. size) = size  BY <1>1, FS_Interval
  <2>3. Cardinality(S) = Cardinality(1 .. size)  BY <2>2 DEF size
  <2>4. QED  BY <2>1, <2>2, <2>3, FS_Injection
<1>6. ASSUME NEW k \in 1 .. size PROVE \E a \in S : Cardinality(Upto(a)) = k
  <2>1. PICK a \in S : rank[a] = k
    <3> HIDE DEF rank, size
    <3>1. QED  BY <1>5 DEF Surjection
  <2>2. rank[a] = Cardinality(Upto(a))  OBVIOUS
  <2>3. QED  BY <2>1, <2>2
<1> HIDE DEF rank
<1>7. ASSUME NEW a \in S, NEW b \in S
      PROVE  a <= b <=> Cardinality(Upto(a)) <= Cardinality(Upto(b))
  <2> HIDE DEF Upto
  <2>1. /\ Cardinality(Upto(a)) \in Nat /\ Cardinality(Upto(b)) \in Nat
        /\ a \in 1 .. n /\ b \in 1 .. n
    BY <1>2
  <2>2. a < b => Cardinality(Upto(a)) < Cardinality(Upto(b))  BY <1>3
  <2>3. b < a => Cardinality(Upto(b)) < Cardinality(Upto(a))  BY <1>3
  <2>4. a = b => Cardinality(Upto(a)) = Cardinality(Upto(b))  OBVIOUS
  <2>5. QED  BY <2>1, <2>2, <2>3, <2>4
<1>8. QED  BY <1>1, <1>2, <1>6, <1>7

\* f has the state of a loop of N rounds, from z, before the first round and
\* after each.
LoopRun(f, N, S, z, step) ==
    /\ f \in [0 .. N -> S]
    /\ f = [n \in 0 .. N |-> IF n = 0 THEN z ELSE step[<<n, f[n - 1]>>]]

\* A loop over states of S runs.
LEMMA LoopRuns ==
    ASSUME NEW N \in Nat, NEW S, NEW z \in S, NEW step \in [(1 .. N) \X S -> S]
    PROVE  \E f : LoopRun(f, N, S, z, step)
<1> DEFINE Runs(f, m) == /\ f \in [0 .. m -> S] /\ f[0] = z
                         /\ \A n \in 1 .. m : f[n] = step[<<n, f[n - 1]>>]
           T == {m \in Nat : m <= N => \E f : Runs(f, m)}
<1>1. 0 \in T
  <2>1. Runs([n \in 0 .. 0 |-> z], 0)  OBVIOUS
  <2>2. QED  BY <2>1
<1>2. ASSUME NEW m \in 1 .. N, m - 1 \in T PROVE m \in T
  <2>1. PICK f : Runs(f, m - 1)  BY <1>2
  <2> DEFINE g == [n \in 0 .. m |-> IF n = m THEN step[<<m, f[m - 1]>>] ELSE f[n]]
  <2>2. f[m - 1] \in S /\ step[<<m, f[m - 1]>>] \in S  BY <2>1
  <2>3. g \in [0 .. m -> S] /\ g[0] = z  BY <2>1, <2>2
  <2>4. ASSUME NEW n \in 1 .. m PROVE g[n] = step[<<n, g[n - 1]>>]
    <3>1. n - 1 \in 0 .. m /\ n - 1 # m /\ g[n - 1] = f[n - 1]  OBVIOUS
    <3>2. CASE n = m  BY <3>1, <3>2
    <3>3. CASE n # m
      <4>1. n \in 1 .. m - 1 /\ g[n] = f[n]  BY <3>3
      <4>2. QED  BY <2>1, <3>1, <4>1
    <3>4. QED  BY <3>2, <3>3
  <2>5. Runs(g, m)  BY <2>3, <2>4
  <2> HIDE DEF g, Runs
  <2>6. QED  BY <2>5
<1>3. N \in T
  <2> HIDE DEF T
  <2>1. QED  BY <1>1, <1>2, HandedOn
<1>4. PICK f : Runs(f, N)  BY <1>3
<1>5. ASSUME NEW n \in 0 .. N PROVE f[n] = IF n = 0 THEN z ELSE step[<<n, f[n - 1]>>]
  BY <1>4
<1>6. f = [n \in 0 .. N |-> IF n = 0 THEN z ELSE step[<<n, f[n - 1]>>]]  BY <1>4, <1>5
<1>7. QED  BY <1>4, <1>6 DEF LoopRun

\* s has one element for each place of E, in the order of the places: what v
\* has there.
Gathered(s, E, v) ==
    /\ DOMAIN s = 1 .. Cardinality(E)
    /\ \A i \in E : s[Cardinality({j \in E : j <= i})] = v[i]

\* A loop that appends what v has at the places of E gathers it.
LEMMA Gathers ==
    ASSUME NEW N \in Nat, NEW E \in SUBSET (1 .. N), NEW V, NEW v \in [1 .. N -> V], NEW out,
           out[0] = << >>,
           \A n \in 1 .. N :
              out[n] = IF n \in E THEN Append(out[n - 1], v[n]) ELSE out[n - 1]
    PROVE  out[N] \in Seq(V) /\ Gathered(out[N], E, v)
<1> DEFINE Upto(i) == {j \in E : j <= i}
           So(m) == /\ out[m] \in Seq(V) /\ Len(out[m]) = Cardinality(Upto(m))
                    /\ \A i \in Upto(m) : out[m][Cardinality(Upto(i))] = v[i]
           T == {m \in Nat : m <= N => So(m)}
<1>0. \A j \in E : j \in 1 .. N  OBVIOUS
<1>1. ASSUME NEW i \in 0 .. N PROVE IsFiniteSet(Upto(i)) /\ Cardinality(Upto(i)) \in Nat
  <2>1. IsFiniteSet(1 .. N) /\ Upto(i) \in SUBSET (1 .. N)
    <3>1. Upto(i) \in SUBSET (1 .. N)  BY <1>0
    <3>2. QED  BY <3>1, FS_Interval
  <2> HIDE DEF Upto
  <2>2. IsFiniteSet(Upto(i))  BY <2>1, FS_Subset
  <2>3. QED  BY <2>2, FS_CardinalityType
<1>2. 0 \in T
  <2>1. Upto(0) = {}
    <3>1. \A j \in E : ~ (j <= 0)  BY <1>0
    <3>2. QED  BY <3>1
  <2> HIDE DEF Upto
  <2>2. Cardinality(Upto(0)) = 0  BY <2>1, FS_EmptySet
  <2>3. << >> \in Seq(V) /\ Len(<< >>) = 0  OBVIOUS
  <2>4. So(0)  BY <2>1, <2>2, <2>3
  <2>5. QED  BY <2>4
<1>3. ASSUME NEW m \in 1 .. N, m - 1 \in T PROVE m \in T
  <2>1. So(m - 1) /\ m - 1 \in 0 .. N /\ m \in 0 .. N  BY <1>3
  <2>2. CASE m \notin E
    <3>1. Upto(m) = Upto(m - 1)
      <4>1. \A j \in E : j <= m <=> j <= m - 1  BY <1>0, <2>2
      <4>2. QED  BY <4>1
    <3>2. out[m] = out[m - 1]  BY <2>2
    <3> HIDE DEF Upto
    <3>3. So(m)  BY <2>1, <3>1, <3>2
    <3>4. QED  BY <3>3
  <2>3. CASE m \in E
    <3>1. Upto(m) = Upto(m - 1) \cup {m} /\ m \notin Upto(m - 1)
      <4>1. \A j \in E : j <= m <=> j <= m - 1 \/ j = m  BY <1>0
      <4>2. ~ (m <= m - 1) /\ m <= m  OBVIOUS
      <4>3. QED  BY <2>3, <4>1, <4>2
    <3>2. out[m] = Append(out[m - 1], v[m]) /\ v[m] \in V  BY <2>3
    <3>3. ASSUME NEW i \in Upto(m - 1)
          PROVE  Cardinality(Upto(i)) \in 1 .. Cardinality(Upto(m - 1))
      <4>0. i \in E /\ i <= m - 1 /\ i \in 1 .. N  BY <1>0
      <4>1. Upto(i) \in SUBSET Upto(m - 1) /\ i \in Upto(i) /\ i \in 0 .. N
        <5>1. \A j \in E : j <= i => j <= m - 1  BY <1>0, <4>0
        <5>2. i <= i /\ i \in 0 .. N  BY <4>0
        <5>3. QED  BY <4>0, <5>1, <5>2
      <4> HIDE DEF Upto
      <4>2. IsFiniteSet(Upto(i)) /\ Cardinality(Upto(i)) \in Nat  BY <1>1, <4>1
      <4>3. IsFiniteSet(Upto(m - 1)) /\ Cardinality(Upto(m - 1)) \in Nat  BY <1>1, <2>1
      <4>4. Cardinality(Upto(i)) <= Cardinality(Upto(m - 1))  BY <4>1, <4>3, FS_Subset
      <4>5. Cardinality(Upto(i)) # 0  BY <4>1, <4>2, FS_EmptySet
      <4>6. QED  BY <4>2, <4>3, <4>4, <4>5
    <3> HIDE DEF Upto
    <3>4. Cardinality(Upto(m)) = Cardinality(Upto(m - 1)) + 1
      <4>1. IsFiniteSet(Upto(m - 1))  BY <1>1, <2>1
      <4>2. QED  BY <3>1, <4>1, FS_AddElement
    <3>5. /\ out[m] \in Seq(V) /\ Len(out[m]) = Len(out[m - 1]) + 1
          /\ \A i \in 1 .. Len(out[m - 1]) : out[m][i] = out[m - 1][i]
          /\ out[m][Len(out[m - 1]) + 1] = v[m]
      BY <2>1, <3>2, AppendProperties
    <3>6. ASSUME NEW i \in Upto(m) PROVE out[m][Cardinality(Upto(i))] = v[i]
      <4>1. CASE i = m  BY <2>1, <3>4, <3>5, <4>1
      <4>2. CASE i \in Upto(m - 1)
        <5>1. Cardinality(Upto(i)) \in 1 .. Len(out[m - 1])  BY <2>1, <3>3, <4>2
        <5>2. QED  BY <2>1, <3>5, <4>2, <5>1
      <4>3. QED  BY <3>1, <4>1, <4>2
    <3>7. So(m)  BY <2>1, <3>4, <3>5, <3>6
    <3>8. QED  BY <3>7
  <2>4. QED  BY <2>2, <2>3
<1>4. N \in T
  <2> HIDE DEF T
  <2>1. QED  BY <1>2, <1>3, HandedOn
<1>5. Upto(N) = E /\ So(N)
  <2>1. \A j \in E : j <= N  BY <1>0
  <2>2. Upto(N) = E  BY <2>1
  <2>3. So(N)  BY <1>4
  <2>4. QED  BY <2>2, <2>3
<1>6. DOMAIN out[N] = 1 .. Cardinality(E)
  <2> HIDE DEF Upto
  <2>1. out[N] \in Seq(V) /\ Len(out[N]) = Cardinality(E)  BY <1>5
  <2>2. QED  BY <2>1
<1>7. \A i \in E : out[N][Cardinality(Upto(i))] = v[i]
  <2> HIDE DEF Upto
  <2>1. QED  BY <1>5
<1>8. QED  BY <1>5, <1>6, <1>7 DEF Gathered

\* The places of the first, of the places whose ranks are some of the ranks, are
\* as many as those ranks.
LEMMA AsMany ==
    ASSUME NEW N \in Nat, NEW S \in SUBSET (1 .. N), NEW F \in SUBSET (1 .. Cardinality(S))
    PROVE  Cardinality({i \in S : Cardinality({j \in S : j <= i}) \in F}) = Cardinality(F)
<1> DEFINE Rank(i) == Cardinality({j \in S : j <= i})
           D == {i \in S : Rank(i) \in F}
           r == [i \in D |-> Rank(i)]
<1>1. /\ IsFiniteSet(S) /\ \A k \in 1 .. Cardinality(S) : \E a \in S : Rank(a) = k
      /\ \A a, b \in S : a <= b <=> Rank(a) <= Rank(b)
      /\ \A a \in S : Rank(a) \in 1 .. Cardinality(S)
  BY Ranks
<1>2. \A a, b \in S : Rank(a) = Rank(b) => a = b
  <2> HIDE DEF Rank
  <2>1. ASSUME NEW a \in S, NEW b \in S, Rank(a) = Rank(b) PROVE a = b
    <3>1. Rank(a) \in Nat /\ a \in 1 .. N /\ b \in 1 .. N  BY <1>1
    <3>2. a <= b /\ b <= a  BY <1>1, <2>1, <3>1
    <3>3. QED  BY <3>1, <3>2
  <2>2. QED  BY <2>1
<1> HIDE DEF Rank
<1>3. r \in Bijection(D, F)
  <2>1. r \in Injection(D, F)  BY <1>2 DEF Injection, IsInjective
  <2>2. ASSUME NEW k \in F PROVE \E i \in D : r[i] = k
    <3>1. PICK a \in S : Rank(a) = k  BY <1>1
    <3>2. a \in D /\ r[a] = k  BY <3>1
    <3>3. QED  BY <3>2
  <2>3. r \in Surjection(D, F)
    <3> r \in [D -> F]  OBVIOUS
    <3> HIDE DEF r, D
    <3>1. QED  BY <2>2 DEF Surjection
  <2>4. QED  BY <2>1, <2>3 DEF Bijection
<1>4. IsFiniteSet(D)
  <2>1. D \in SUBSET S  OBVIOUS
  <2> HIDE DEF D
  <2>2. QED  BY <1>1, <2>1, FS_Subset
<1> HIDE DEF r
<1>5. ExistsBijection(D, F)  BY <1>3 DEF ExistsBijection
<1>6. Cardinality(D) = Cardinality(F)
  <2> HIDE DEF D
  <2>1. QED  BY <1>4, <1>5, FS_Bijection
<1>7. QED  BY <1>6 DEF Rank

\* C are the places of S whose ranks are in E.
Chosen(C, S, E) == C = {i \in S : Cardinality({j \in S : j <= i}) \in E}

\* The rank of i in C is the rank in E of its rank in S.
RanksAgree(C, S, E, i) ==
    Cardinality({j \in C : j <= i})
        = Cardinality({m \in E : m <= Cardinality({j \in S : j <= i})})

\* The rank, among those places of S whose ranks are in E, is the rank in E of
\* the rank in S.
LEMMA RankOfRank ==
    ASSUME NEW N \in Nat, NEW S \in SUBSET (1 .. N), NEW E \in SUBSET (1 .. Cardinality(S)),
           NEW C, Chosen(C, S, E), NEW i \in C
    PROVE  RanksAgree(C, S, E, i)
<1> DEFINE Rank(k) == Cardinality({j \in S : j <= k})
           F == {m \in E : m <= Rank(i)}
<1>1. \A a, b \in S : a <= b <=> Rank(a) <= Rank(b)  BY Ranks
<1>2. F \in SUBSET (1 .. Cardinality(S))  OBVIOUS
<1>3. Cardinality({k \in S : Rank(k) \in F}) = Cardinality(F)
  <2> HIDE DEF F
  <2>1. QED  BY <1>2, AsMany
<1> HIDE DEF Rank
<1>4. i \in S /\ C = {k \in S : Rank(k) \in E}  BY DEF Rank, Chosen
<1>5. {k \in S : Rank(k) \in F} = {j \in C : j <= i}  BY <1>1, <1>4
<1> HIDE DEF F
<1>6. Cardinality({j \in C : j <= i}) = Cardinality(F)  BY <1>3, <1>5
<1>7. QED  BY <1>6 DEF F, Rank, RanksAgree

-----------------------------------------------------------------------------
(* The detection block *)

\* A file is a sequence of lines, each at an indent.
Written(yaml) ==
    yaml \in Seq(ToSet(yaml)) /\ \A line \in ToSet(yaml) : line.indent \in Nat

\* The block has begun by line n.
Opened(yaml, n) == \E d \in 1 .. n : IsDetection(yaml[d])

\* The block has ended by line n.
Closed(yaml, n) ==
    \E j \in 1 .. n : /\ Opened(yaml, j - 1) /\ ~IsDetection(yaml[j])
                      /\ yaml[j].indent < Selection

\* The lines of the block.
InBlock(yaml) ==
    {i \in 1 .. Len(yaml) :
        Opened(yaml, i - 1) /\ ~IsDetection(yaml[i]) /\ ~Closed(yaml, i)}

\* f has the state of the loop after each line.
BlockRun(f, yaml) ==
    f = [n \in 0 .. Len(yaml) |-> IF n = 0 THEN NoBlock ELSE BlockStep(f[n - 1], yaml[n])]

\* The states of the loop.
BlockStates(yaml) == [inside : BOOLEAN, done : BOOLEAN, lines : Seq(ToSet(yaml))]

\* What one line does to the block.
LEMMA BlockLine ==
    ASSUME NEW yaml, NEW b \in BlockStates(yaml), NEW line \in ToSet(yaml)
    PROVE  /\ BlockStep(b, line) \in BlockStates(yaml)
           /\ b.inside \/ ~b.done =>
                (BlockStep(b, line).inside <=> b.inside \/ IsDetection(line))
           /\ BlockStep(b, line).done
                <=> b.done \/ (b.inside /\ ~IsDetection(line) /\ line.indent < Selection)
           /\ BlockStep(b, line).lines
                = IF b.inside /\ ~b.done /\ ~IsDetection(line) /\ ~ (line.indent < Selection)
                  THEN Append(b.lines, line) ELSE b.lines
<1>1. b.inside \in BOOLEAN /\ b.done \in BOOLEAN /\ b.lines \in Seq(ToSet(yaml))
  BY DEF BlockStates
<1>2. Append(b.lines, line) \in Seq(ToSet(yaml))  BY <1>1, AppendProperties
<1>3. ASSUME NEW x \in BOOLEAN
      PROVE  LET c == [b EXCEPT !.inside = x]
             IN c \in BlockStates(yaml) /\ c.inside = x /\ c.done = b.done /\ c.lines = b.lines
  BY DEF BlockStates
<1>4. ASSUME NEW x \in BOOLEAN
      PROVE  LET c == [b EXCEPT !.done = x]
             IN c \in BlockStates(yaml) /\ c.inside = b.inside /\ c.done = x /\ c.lines = b.lines
  BY DEF BlockStates
<1>5. ASSUME NEW x \in Seq(ToSet(yaml))
      PROVE  LET c == [b EXCEPT !.lines = x]
             IN c \in BlockStates(yaml) /\ c.inside = b.inside /\ c.done = b.done /\ c.lines = x
  BY DEF BlockStates
<1>6. CASE b.done
  <2>1. BlockStep(b, line) = b  BY <1>6 DEF BlockStep
  <2>2. QED  BY <1>6, <2>1
<1>7. CASE ~b.done /\ IsDetection(line)
  <2>1. BlockStep(b, line) = [b EXCEPT !.inside = TRUE]  BY <1>7 DEF BlockStep
  <2>2. TRUE \in BOOLEAN  OBVIOUS
  <2>3. QED  BY <1>3, <1>7, <2>1, <2>2
<1>8. CASE ~b.done /\ ~IsDetection(line) /\ ~b.inside
  <2>1. BlockStep(b, line) = b  BY <1>8 DEF BlockStep
  <2>2. QED  BY <1>8, <2>1
<1>9. CASE ~b.done /\ ~IsDetection(line) /\ b.inside /\ line.indent < Selection
  <2>1. BlockStep(b, line) = [b EXCEPT !.done = TRUE]  BY <1>9 DEF BlockStep
  <2>2. TRUE \in BOOLEAN  OBVIOUS
  <2>3. QED  BY <1>4, <1>9, <2>1, <2>2
<1>10. CASE ~b.done /\ ~IsDetection(line) /\ b.inside /\ ~ (line.indent < Selection)
  <2>1. BlockStep(b, line) = [b EXCEPT !.lines = Append(@, line)]  BY <1>10 DEF BlockStep
  <2>2. QED  BY <1>2, <1>5, <1>10, <2>1
<1>11. QED  BY <1>1, <1>6, <1>7, <1>8, <1>9, <1>10

\* The loop runs, and the block is what it leaves.
LEMMA BlockRuns ==
    ASSUME NEW yaml, Written(yaml)
    PROVE  \E f : BlockRun(f, yaml) /\ Block(yaml) = f[Len(yaml)].lines
<1> DEFINE N == Len(yaml)
           S == BlockStates(yaml)
           step == [p \in (1 .. N) \X S |-> BlockStep(p[2], yaml[p[1]])]
<1>1. N \in Nat /\ \A n \in 1 .. N : yaml[n] \in ToSet(yaml)  BY DEF Written, ToSet
<1>2. NoBlock \in S  BY DEF NoBlock, BlockStates
<1>3. step \in [(1 .. N) \X S -> S]
  <2> HIDE DEF N, S
  <2>1. \A n \in 1 .. N, b \in S : BlockStep(b, yaml[n]) \in S  BY <1>1, BlockLine DEF S
  <2>2. QED  BY <2>1
<1>4. PICK f : LoopRun(f, N, S, NoBlock, step)
  <2> HIDE DEF N, S, step
  <2>1. N \in Nat  BY <1>1
  <2>2. QED  BY <1>2, <1>3, <2>1, LoopRuns
<1>5. ASSUME NEW n \in 0 .. N
      PROVE  f[n] = IF n = 0 THEN NoBlock ELSE BlockStep(f[n - 1], yaml[n])
  <2> HIDE DEF N, S
  <2>0. /\ f \in [0 .. N -> S]
        /\ f = [i \in 0 .. N |-> IF i = 0 THEN NoBlock ELSE step[<<i, f[i - 1]>>]]
    BY <1>4 DEF LoopRun
  <2>1. CASE n = 0  BY <2>0, <2>1
  <2>2. CASE n # 0
    <3>1. n \in 1 .. N /\ n - 1 \in 0 .. N  BY <1>1, <2>2
    <3>2. f[n - 1] \in S /\ <<n, f[n - 1]>> \in (1 .. N) \X S  BY <2>0, <3>1
    <3>3. step[<<n, f[n - 1]>>] = BlockStep(f[n - 1], yaml[n])  BY <3>2
    <3> HIDE DEF step
    <3>4. QED  BY <2>0, <2>2, <3>3
  <2>3. QED  BY <2>1, <2>2
<1>6. BlockRun(f, yaml)
  <2> HIDE DEF S, step
  <2>1. f \in [0 .. N -> S]  BY <1>4 DEF LoopRun
  <2>2. QED  BY <1>5, <2>1 DEF BlockRun
<1> DEFINE g == CHOOSE h : BlockRun(h, yaml)
<1>7. BlockRun(g, yaml)  BY <1>6
<1>8. Block(yaml) = g[Len(yaml)].lines  BY DEF Block, BlockRun
<1> HIDE DEF g
<1>9. QED  BY <1>7, <1>8

\* After line n the loop knows whether the block has begun and has ended.
BlockKnows(f, yaml, n) ==
    /\ f[n] \in BlockStates(yaml)
    /\ f[n].inside <=> Opened(yaml, n)
    /\ f[n].done <=> Closed(yaml, n)

\* It knows after every line.
LEMMA BlockKnown ==
    ASSUME NEW yaml, Written(yaml), NEW f, BlockRun(f, yaml), NEW n \in 0 .. Len(yaml)
    PROVE  BlockKnows(f, yaml, n)
<1> DEFINE N == Len(yaml)
           T == {m \in Nat : m <= N => BlockKnows(f, yaml, m)}
<1>1. N \in Nat /\ \A m \in 1 .. N : yaml[m] \in ToSet(yaml)  BY DEF Written, ToSet
<1>2. f = [m \in 0 .. N |-> IF m = 0 THEN NoBlock ELSE BlockStep(f[m - 1], yaml[m])]
  BY DEF BlockRun
<1> HIDE DEF N
<1>3. 0 \in T
  <2>1. f[0] = NoBlock  BY <1>1, <1>2
  <2>2. NoBlock \in BlockStates(yaml) /\ NoBlock.inside = FALSE /\ NoBlock.done = FALSE
    BY DEF NoBlock, BlockStates
  <2>3. ~Opened(yaml, 0) /\ ~Closed(yaml, 0)  BY DEF Opened, Closed
  <2>4. BlockKnows(f, yaml, 0)  BY <2>1, <2>2, <2>3 DEF BlockKnows
  <2>5. QED  BY <2>4
<1>4. ASSUME NEW m \in 1 .. N, m - 1 \in T PROVE m \in T
  <2>1. BlockKnows(f, yaml, m - 1)  BY <1>1, <1>4
  <2>2. f[m] = BlockStep(f[m - 1], yaml[m])  BY <1>1, <1>2
  <2>3. yaml[m] \in ToSet(yaml)  BY <1>1
  <2>4. Opened(yaml, m) <=> Opened(yaml, m - 1) \/ IsDetection(yaml[m])
    <3>1. \A d : d \in 1 .. m <=> d \in 1 .. m - 1 \/ d = m  BY <1>1
    <3>2. QED  BY <3>1 DEF Opened
  <2>5. Closed(yaml, m) <=> \/ Closed(yaml, m - 1)
                            \/ /\ Opened(yaml, m - 1) /\ ~IsDetection(yaml[m])
                               /\ yaml[m].indent < Selection
    <3>1. \A d : d \in 1 .. m <=> d \in 1 .. m - 1 \/ d = m  BY <1>1
    <3>2. QED  BY <3>1 DEF Closed
  <2>6. Closed(yaml, m - 1) => Opened(yaml, m - 1)
    <3>1. \A j \in 1 .. m - 1 : \A d \in 1 .. j - 1 : d \in 1 .. m - 1  BY <1>1
    <3>2. QED  BY <3>1 DEF Closed, Opened
  <2>7. f[m - 1] \in BlockStates(yaml)  BY <2>1 DEF BlockKnows
  <2>8. /\ f[m] \in BlockStates(yaml)
        /\ f[m - 1].inside \/ ~f[m - 1].done =>
              (f[m].inside <=> f[m - 1].inside \/ IsDetection(yaml[m]))
        /\ f[m].done <=> \/ f[m - 1].done
                         \/ /\ f[m - 1].inside /\ ~IsDetection(yaml[m])
                            /\ yaml[m].indent < Selection
    BY <2>2, <2>3, <2>7, BlockLine
  <2>9. BlockKnows(f, yaml, m)  BY <2>1, <2>4, <2>5, <2>6, <2>8 DEF BlockKnows
  <2>10. QED  BY <2>9
<1>5. n \in T
  <2>1. n \in Nat /\ \A m \in 1 .. n : m \in 1 .. N  BY <1>1 DEF N
  <2> HIDE DEF T
  <2>2. QED  BY <1>3, <1>4, <2>1, HandedOn
<1>6. QED  BY <1>1, <1>5 DEF N

\* The block is gathered from the file.
LEMMA BlockGathers ==
    ASSUME NEW yaml, Written(yaml)
    PROVE  /\ Block(yaml) \in Seq(ToSet(yaml))
           /\ Gathered(Block(yaml), InBlock(yaml), yaml)
<1> DEFINE N == Len(yaml)
           V == ToSet(yaml)
           E == InBlock(yaml)
<1>1. N \in Nat /\ yaml \in [1 .. N -> V] /\ \A m \in 1 .. N : yaml[m] \in V
  BY DEF Written, ToSet
<1>2. PICK f : BlockRun(f, yaml) /\ Block(yaml) = f[N].lines  BY BlockRuns
<1> DEFINE out == [n \in 0 .. N |-> f[n].lines]
<1>3. out[0] = << >>
  <2>1. f[0] = NoBlock  BY <1>1, <1>2 DEF BlockRun
  <2>2. 0 \in 0 .. N /\ NoBlock.lines = << >>  BY <1>1 DEF NoBlock
  <2>3. QED  BY <2>1, <2>2
<1>4. ASSUME NEW n \in 1 .. N
      PROVE  out[n] = IF n \in E THEN Append(out[n - 1], yaml[n]) ELSE out[n - 1]
  <2>1. n - 1 \in 0 .. N /\ n \in 0 .. N /\ n # 0  BY <1>1
  <2>2. BlockKnows(f, yaml, n - 1) /\ BlockKnows(f, yaml, n)
    BY <1>2, <2>1, BlockKnown
  <2>3. f[n] = BlockStep(f[n - 1], yaml[n])  BY <1>2, <2>1 DEF BlockRun
  <2>4. f[n - 1] \in BlockStates(yaml) /\ yaml[n] \in ToSet(yaml)  BY <1>1, <2>2 DEF BlockKnows
  <2>5. /\ f[n].done <=> \/ f[n - 1].done
                         \/ /\ f[n - 1].inside /\ ~IsDetection(yaml[n])
                            /\ yaml[n].indent < Selection
        /\ f[n].lines
              = IF f[n - 1].inside /\ ~f[n - 1].done /\ ~IsDetection(yaml[n])
                     /\ ~ (yaml[n].indent < Selection)
                THEN Append(f[n - 1].lines, yaml[n]) ELSE f[n - 1].lines
    BY <2>3, <2>4, BlockLine
  <2>6. n \in E <=> f[n - 1].inside /\ ~IsDetection(yaml[n]) /\ ~f[n].done
    BY <2>2 DEF BlockKnows, InBlock
  <2>7. out[n] = f[n].lines /\ out[n - 1] = f[n - 1].lines  BY <2>1
  <2> HIDE DEF out, E
  <2>8. QED  BY <2>5, <2>6, <2>7
<1>5. E \in SUBSET (1 .. N)  BY DEF InBlock
<1> HIDE DEF N, V, E, out
<1>6. out[N] \in Seq(V) /\ Gathered(out[N], E, yaml)
  <2>1. N \in Nat /\ yaml \in [1 .. N -> V]  BY <1>1
  <2>2. QED  BY <1>3, <1>4, <1>5, <2>1, Gathers
<1>7. out[N] = Block(yaml)
  <2>1. N \in 0 .. N  BY <1>1
  <2>2. QED  BY <1>2, <2>1 DEF out
<1>8. QED  BY <1>6, <1>7 DEF V, E

-----------------------------------------------------------------------------
(* The detections *)

\* The condition a line gives.
FoundIn(line) == IF IsName(line) THEN Inline(line) ELSE FieldOf(line)

\* A selection was named by line n.
Selecting(lines, n) ==
    \E k \in 1 .. n : lines[k].key \notin {NoKey, "condition"} /\ IsName(lines[k])

\* The lines that give one.
Hits(lines) ==
    {n \in 1 .. Len(lines) :
        /\ lines[n].key # NoKey
        /\ IF IsName(lines[n]) THEN lines[n].key # "condition" /\ lines[n].text # << >>
           ELSE Selecting(lines, n - 1)}

\* f has the state of the loop after each line.
ParseRun(f, lines) ==
    f = [n \in 0 .. Len(lines) |-> IF n = 0 THEN NoDetections ELSE ParseStep(f[n - 1], lines[n])]

\* The states of the loop.
ParseStates(lines) ==
    [inside : BOOLEAN, found : Seq({FoundIn(line) : line \in ToSet(lines)})]

\* What one line does to the detections.
LEMMA ParseLine ==
    ASSUME NEW lines, NEW d \in ParseStates(lines), NEW line \in ToSet(lines)
    PROVE  /\ ParseStep(d, line) \in ParseStates(lines)
           /\ ParseStep(d, line).inside
                <=> d.inside \/ (line.key \notin {NoKey, "condition"} /\ IsName(line))
           /\ ParseStep(d, line).found
                = IF line.key # NoKey
                     /\ IF IsName(line) THEN line.key # "condition" /\ line.text # << >>
                        ELSE d.inside
                  THEN Append(d.found, FoundIn(line)) ELSE d.found
<1> DEFINE V == {FoundIn(l) : l \in ToSet(lines)}
<1>1. d.inside \in BOOLEAN /\ d.found \in Seq(V)  BY DEF ParseStates
<1>2. ParseStates(lines) = [inside : BOOLEAN, found : Seq(V)]  BY DEF ParseStates
<1>3. Append(d.found, FoundIn(line)) \in Seq(V)
  <2>1. FoundIn(line) \in V  OBVIOUS
  <2> HIDE DEF V
  <2>2. QED  BY <1>1, <2>1, AppendProperties
<1> HIDE DEF V
<1>4. ASSUME NEW x \in Seq(V)
      PROVE  LET c == [d EXCEPT !.found = x]
             IN c \in ParseStates(lines) /\ c.inside = d.inside /\ c.found = x
  BY <1>2
<1>5. ASSUME NEW x \in Seq(V)
      PROVE  LET c == [inside |-> TRUE, found |-> x]
             IN c \in ParseStates(lines) /\ c.inside = TRUE /\ c.found = x
  BY <1>2
<1>6. CASE line.key = NoKey
  <2>1. ParseStep(d, line) = d  BY <1>6 DEF ParseStep
  <2>2. QED  BY <1>6, <2>1
<1>7. CASE line.key # NoKey /\ IsName(line) /\ line.key = "condition"
  <2>1. ParseStep(d, line) = d  BY <1>7 DEF ParseStep
  <2>2. QED  BY <1>7, <2>1
<1>8. CASE line.key # NoKey /\ IsName(line) /\ line.key # "condition" /\ line.text = << >>
  <2>1. ParseStep(d, line) = [inside |-> TRUE, found |-> d.found]  BY <1>8 DEF ParseStep
  <2>2. QED  BY <1>1, <1>5, <1>8, <2>1
<1>9. CASE line.key # NoKey /\ IsName(line) /\ line.key # "condition" /\ line.text # << >>
  <2>1. ParseStep(d, line) = [inside |-> TRUE, found |-> Append(d.found, FoundIn(line))]
    BY <1>9 DEF ParseStep, FoundIn
  <2>2. QED  BY <1>3, <1>5, <1>9, <2>1
<1>10. CASE line.key # NoKey /\ ~IsName(line) /\ d.inside
  <2>1. ParseStep(d, line) = [d EXCEPT !.found = Append(@, FoundIn(line))]
    BY <1>10 DEF ParseStep, FoundIn
  <2>2. QED  BY <1>3, <1>4, <1>10, <2>1
<1>11. CASE line.key # NoKey /\ ~IsName(line) /\ ~d.inside
  <2>1. ParseStep(d, line) = d  BY <1>11 DEF ParseStep
  <2>2. QED  BY <1>11, <2>1
<1>12. QED  BY <1>6, <1>7, <1>8, <1>9, <1>10, <1>11

\* The loop runs, and the detections are what it leaves.
LEMMA ParseRuns ==
    ASSUME NEW V, NEW lines \in Seq(V)
    PROVE  \E f : ParseRun(f, lines) /\ parse_detection(lines) = f[Len(lines)].found
<1> DEFINE N == Len(lines)
           S == ParseStates(lines)
           step == [p \in (1 .. N) \X S |-> ParseStep(p[2], lines[p[1]])]
<1>1. N \in Nat /\ \A n \in 1 .. N : lines[n] \in ToSet(lines)  BY DEF ToSet
<1>2. NoDetections \in S  BY DEF NoDetections, ParseStates
<1>3. step \in [(1 .. N) \X S -> S]
  <2> HIDE DEF N, S
  <2>1. \A n \in 1 .. N, d \in S : ParseStep(d, lines[n]) \in S  BY <1>1, ParseLine DEF S
  <2>2. QED  BY <2>1
<1>4. PICK f : LoopRun(f, N, S, NoDetections, step)
  <2> HIDE DEF N, S, step
  <2>1. N \in Nat  BY <1>1
  <2>2. QED  BY <1>2, <1>3, <2>1, LoopRuns
<1>5. ASSUME NEW n \in 0 .. N
      PROVE  f[n] = IF n = 0 THEN NoDetections ELSE ParseStep(f[n - 1], lines[n])
  <2> HIDE DEF N, S
  <2>0. /\ f \in [0 .. N -> S]
        /\ f = [i \in 0 .. N |-> IF i = 0 THEN NoDetections ELSE step[<<i, f[i - 1]>>]]
    BY <1>4 DEF LoopRun
  <2>1. CASE n = 0  BY <2>0, <2>1
  <2>2. CASE n # 0
    <3>1. n \in 1 .. N /\ n - 1 \in 0 .. N  BY <1>1, <2>2
    <3>2. f[n - 1] \in S /\ <<n, f[n - 1]>> \in (1 .. N) \X S  BY <2>0, <3>1
    <3>3. step[<<n, f[n - 1]>>] = ParseStep(f[n - 1], lines[n])  BY <3>2
    <3> HIDE DEF step
    <3>4. QED  BY <2>0, <2>2, <3>3
  <2>3. QED  BY <2>1, <2>2
<1>6. ParseRun(f, lines)
  <2> HIDE DEF S, step
  <2>1. f \in [0 .. N -> S]  BY <1>4 DEF LoopRun
  <2>2. QED  BY <1>5, <2>1 DEF ParseRun
<1> DEFINE g == CHOOSE h : ParseRun(h, lines)
<1>7. ParseRun(g, lines)  BY <1>6
<1>8. parse_detection(lines) = g[Len(lines)].found  BY DEF parse_detection, ParseRun
<1> HIDE DEF g
<1>9. QED  BY <1>7, <1>8

\* After every line the loop knows whether a selection was named.
LEMMA ParseKnown ==
    ASSUME NEW V, NEW lines \in Seq(V), NEW f, ParseRun(f, lines), NEW n \in 0 .. Len(lines)
    PROVE  f[n] \in ParseStates(lines) /\ (f[n].inside <=> Selecting(lines, n))
<1> DEFINE N == Len(lines)
           So(m) == f[m] \in ParseStates(lines) /\ (f[m].inside <=> Selecting(lines, m))
           T == {m \in Nat : m <= N => So(m)}
<1>1. N \in Nat /\ \A m \in 1 .. N : lines[m] \in ToSet(lines)  BY DEF ToSet
<1>2. f = [m \in 0 .. N |-> IF m = 0 THEN NoDetections ELSE ParseStep(f[m - 1], lines[m])]
  BY DEF ParseRun
<1> HIDE DEF N
<1>3. 0 \in T
  <2>1. f[0] = NoDetections  BY <1>1, <1>2
  <2>2. NoDetections \in ParseStates(lines) /\ NoDetections.inside = FALSE
    BY DEF NoDetections, ParseStates
  <2>3. ~Selecting(lines, 0)  BY DEF Selecting
  <2>4. So(0)  BY <2>1, <2>2, <2>3
  <2> HIDE DEF So
  <2>5. QED  BY <2>4
<1>4. ASSUME NEW m \in 1 .. N, m - 1 \in T PROVE m \in T
  <2>1. So(m - 1)  BY <1>1, <1>4
  <2>2. f[m] = ParseStep(f[m - 1], lines[m])
    <3>1. m \in 0 .. N /\ m # 0  BY <1>1
    <3>2. QED  BY <1>2, <3>1
  <2>3. lines[m] \in ToSet(lines)  BY <1>1
  <2>4. Selecting(lines, m) <=> \/ Selecting(lines, m - 1)
                                \/ lines[m].key \notin {NoKey, "condition"} /\ IsName(lines[m])
    <3>1. \A k : k \in 1 .. m <=> k \in 1 .. m - 1 \/ k = m  BY <1>1
    <3>2. QED  BY <3>1 DEF Selecting
  <2>5. /\ f[m] \in ParseStates(lines)
        /\ f[m].inside <=> \/ f[m - 1].inside
                           \/ lines[m].key \notin {NoKey, "condition"} /\ IsName(lines[m])
    BY <2>1, <2>2, <2>3, ParseLine
  <2>6. So(m)  BY <2>1, <2>4, <2>5
  <2> HIDE DEF So
  <2>7. QED  BY <2>6
<1>5. n \in T
  <2>1. n \in Nat /\ \A m \in 1 .. n : m \in 1 .. N  BY <1>1 DEF N
  <2> HIDE DEF T
  <2>2. QED  BY <1>3, <1>4, <2>1, HandedOn
<1>6. QED  BY <1>1, <1>5 DEF N

\* The detections are gathered from the block.
LEMMA ParseGathers ==
    ASSUME NEW V, NEW lines \in Seq(V)
    PROVE  Gathered(parse_detection(lines), Hits(lines),
                    [n \in 1 .. Len(lines) |-> FoundIn(lines[n])])
<1> DEFINE N == Len(lines)
           E == Hits(lines)
           W == {FoundIn(l) : l \in ToSet(lines)}
           v == [n \in 1 .. N |-> FoundIn(lines[n])]
<1>1. N \in Nat /\ v \in [1 .. N -> W] /\ \A n \in 1 .. N : lines[n] \in ToSet(lines)
  BY DEF ToSet
<1>2. PICK f : ParseRun(f, lines) /\ parse_detection(lines) = f[N].found  BY ParseRuns
<1> DEFINE out == [n \in 0 .. N |-> f[n].found]
<1>3. out[0] = << >>
  <2>1. f[0] = NoDetections  BY <1>1, <1>2 DEF ParseRun
  <2>2. 0 \in 0 .. N /\ NoDetections.found = << >>  BY <1>1 DEF NoDetections
  <2>3. QED  BY <2>1, <2>2
<1>4. ASSUME NEW n \in 1 .. N
      PROVE  out[n] = IF n \in E THEN Append(out[n - 1], v[n]) ELSE out[n - 1]
  <2>1. n - 1 \in 0 .. N /\ n \in 0 .. N /\ n # 0  BY <1>1
  <2>2. f[n - 1] \in ParseStates(lines) /\ (f[n - 1].inside <=> Selecting(lines, n - 1))
    BY <1>2, <2>1, ParseKnown
  <2>3. f[n] = ParseStep(f[n - 1], lines[n])  BY <1>2, <2>1 DEF ParseRun
  <2>4. f[n].found
          = IF lines[n].key # NoKey
               /\ IF IsName(lines[n]) THEN lines[n].key # "condition" /\ lines[n].text # << >>
                  ELSE f[n - 1].inside
            THEN Append(f[n - 1].found, FoundIn(lines[n])) ELSE f[n - 1].found
    BY <1>1, <2>2, <2>3, ParseLine
  <2>5. n \in E <=> /\ lines[n].key # NoKey
                    /\ IF IsName(lines[n])
                       THEN lines[n].key # "condition" /\ lines[n].text # << >>
                       ELSE f[n - 1].inside
    BY <2>2 DEF Hits
  <2>6. out[n] = f[n].found /\ out[n - 1] = f[n - 1].found /\ v[n] = FoundIn(lines[n])
    BY <2>1
  <2> HIDE DEF out, E, v
  <2>7. QED  BY <2>4, <2>5, <2>6
<1>5. E \in SUBSET (1 .. N)  BY DEF Hits
<1> HIDE DEF N, W, E, v, out
<1>6. Gathered(out[N], E, v)
  <2>1. N \in Nat /\ v \in [1 .. N -> W]  BY <1>1
  <2>2. QED  BY <1>3, <1>4, <1>5, <2>1, Gathers
<1>7. out[N] = parse_detection(lines)
  <2>1. N \in 0 .. N  BY <1>1
  <2>2. QED  BY <1>2, <2>1 DEF out
<1>8. QED  BY <1>6, <1>7 DEF N, E, v

-----------------------------------------------------------------------------
(* The conditions *)

\* What the compiler reads as a condition: it knows the block and the names in
\* it by four columns, from the first line with the key on.
ReadAsCondition(yaml, i) ==
    LET named(j) == yaml[j].indent = Selection /\ yaml[j].key \notin {NoKey, "condition"}
    IN \E first \in 1 .. i - 1 :
          /\ IsDetection(yaml[first]) /\ \A j \in 1 .. first - 1 : ~IsDetection(yaml[j])
          /\ \A j \in first + 1 .. i : yaml[j].indent >= Selection \/ IsDetection(yaml[j])
          /\ ~IsDetection(yaml[i]) /\ yaml[i].key # NoKey
          /\ \/ yaml[i].indent > Selection /\ \E j \in first + 1 .. i : named(j)
             \/ named(i) /\ yaml[i].text # << >>

\* In a file of the layout it is made for, that is what YAML says of the line.
LEMMA FourColumnsRead ==
    ASSUME NEW yaml, Written(yaml), FourColumns(yaml), NEW i \in 1 .. Len(yaml)
    PROVE  IsCondition(yaml, i) <=> ReadAsCondition(yaml, i)
<1> DEFINE N == Len(yaml)
           named(j) == yaml[j].indent = Selection /\ yaml[j].key \notin {NoKey, "condition"}
<1>1. /\ N \in Nat /\ DOMAIN yaml = 1 .. N /\ Selection \in Nat
      /\ \A j \in 1 .. N : yaml[j].indent \in Nat
  BY DEF Written, ToSet, Selection
<1>2. ASSUME NEW d \in DetectionLines(yaml)
      PROVE  /\ d \in 1 .. N /\ IsDetection(yaml[d]) /\ yaml[d].indent < Selection
             /\ \A j \in 1 .. N : j # d => ~IsDetection(yaml[j])
  <2>1. d \in 1 .. N /\ yaml[d].key \in DetectionKeys  BY <1>1 DEF DetectionLines
  <2>2. DetectionLines(yaml) = {d} /\ yaml[d].indent < Selection  BY DEF FourColumns
  <2>3. \A j \in 1 .. N : j # d => yaml[j].key \notin DetectionKeys
    BY <1>1, <2>2 DEF DetectionLines
  <2>4. QED  BY <2>1, <2>2, <2>3 DEF IsDetection
<1>3. ASSUME NEW d \in DetectionLines(yaml), NEW j \in 1 .. N, Within(yaml, d, j)
      PROVE  /\ yaml[j].indent >= Selection /\ ~yaml[j].comment
             /\ j = d + 1 => yaml[j].indent = Selection
  BY <1>1, <1>3 DEF FourColumns
<1>4. ASSUME NEW d \in DetectionLines(yaml), d < i
      PROVE  Within(yaml, d, i) <=> \A j \in d + 1 .. i : yaml[j].indent >= Selection
  <2>1. d \in 1 .. N /\ yaml[d].indent < Selection  BY <1>2
  <2>2. \A j \in d + 1 .. i : j \in 1 .. N /\ d < j  BY <2>1, <1>1
  <2>3. ASSUME Within(yaml, d, i), NEW j \in d + 1 .. i PROVE yaml[j].indent >= Selection
    <3>1. \A k \in d + 1 .. j : k \in d + 1 .. i  BY <1>1, <2>1
    <3>2. j \in 1 .. N /\ d < j  BY <2>2
    <3>3. \A k \in d + 1 .. i : yaml[k].indent > yaml[d].indent  BY <2>3 DEF Within
    <3>4. Within(yaml, d, j)  BY <3>1, <3>2, <3>3 DEF Within
    <3>5. QED  BY <1>3, <3>2, <3>4
  <2>4. ASSUME \A j \in d + 1 .. i : yaml[j].indent >= Selection,
               NEW j \in d + 1 .. i
        PROVE  yaml[j].indent > yaml[d].indent
    <3>1. /\ yaml[j].indent \in Nat /\ yaml[d].indent \in Nat
          /\ yaml[j].indent >= Selection /\ yaml[d].indent < Selection
      BY <1>1, <2>1, <2>2, <2>4
    <3>2. QED  BY <1>1, <3>1
  <2>5. QED  BY <1>4, <2>3, <2>4 DEF Within
<1>5. ASSUME IsCondition(yaml, i) PROVE ReadAsCondition(yaml, i)
  <2>1. PICK d \in DetectionLines(yaml) :
          LET names == {j \in d + 1 .. i : /\ yaml[j].indent = yaml[d + 1].indent
                                          /\ yaml[j].key \notin {NoKey, "condition"}}
          IN  /\ Within(yaml, d, i) /\ yaml[i].key # NoKey /\ ~yaml[i].comment
              /\ \/ yaml[i].indent > yaml[d + 1].indent /\ names # {}
                 \/ i \in names /\ yaml[i].text # << >>
    BY <1>5 DEF IsCondition
  <2>2. /\ d \in 1 .. N /\ IsDetection(yaml[d])
        /\ \A j \in 1 .. N : j # d => ~IsDetection(yaml[j])
    BY <1>2
  <2>3. d < i /\ d + 1 \in 1 .. N  BY <1>1, <2>1, <2>2 DEF Within
  <2>4. yaml[d + 1].indent = Selection
    <3>1. \A j \in d + 1 .. d + 1 : j \in d + 1 .. i  BY <2>2, <2>3
    <3>2. Within(yaml, d, d + 1)  BY <2>1, <2>2, <3>1 DEF Within
    <3>3. QED  BY <1>3, <2>3, <3>2
  <2>5. \A j \in d + 1 .. i : yaml[j].indent >= Selection  BY <1>4, <2>1, <2>3
  <2>6. /\ d \in 1 .. i - 1 /\ ~IsDetection(yaml[i])
        /\ \A j \in 1 .. d - 1 : ~IsDetection(yaml[j])
    BY <1>1, <2>2, <2>3
  <2>7. \/ yaml[i].indent > Selection /\ \E j \in d + 1 .. i : named(j)
        \/ named(i) /\ yaml[i].text # << >>
    BY <2>1, <2>4
  <2>8. QED  BY <2>1, <2>2, <2>5, <2>6, <2>7 DEF ReadAsCondition
<1>6. ASSUME ReadAsCondition(yaml, i) PROVE IsCondition(yaml, i)
  <2>1. PICK d \in 1 .. i - 1 :
          /\ IsDetection(yaml[d]) /\ \A j \in 1 .. d - 1 : ~IsDetection(yaml[j])
          /\ \A j \in d + 1 .. i : yaml[j].indent >= Selection \/ IsDetection(yaml[j])
          /\ ~IsDetection(yaml[i]) /\ yaml[i].key # NoKey
          /\ \/ yaml[i].indent > Selection /\ \E j \in d + 1 .. i : named(j)
             \/ named(i) /\ yaml[i].text # << >>
    BY <1>6 DEF ReadAsCondition
  <2>2. d \in DetectionLines(yaml) /\ d < i /\ d + 1 \in 1 .. N
    BY <1>1, <2>1 DEF DetectionLines, IsDetection
  <2>3. \A j \in d + 1 .. i : yaml[j].indent >= Selection
    <3>1. ASSUME NEW j \in d + 1 .. i PROVE j \in 1 .. N /\ j # d  BY <1>1
    <3>2. QED  BY <1>2, <2>1, <2>2, <3>1
  <2>4. Within(yaml, d, i)  BY <1>4, <2>2, <2>3
  <2>5. ~yaml[i].comment  BY <1>3, <2>2, <2>4
  <2>6. yaml[d + 1].indent = Selection
    <3>1. \A j \in d + 1 .. d + 1 : j \in d + 1 .. i  BY <2>1, <2>2
    <3>2. Within(yaml, d, d + 1)  BY <2>1, <2>4, <3>1 DEF Within
    <3>3. QED  BY <1>3, <2>2, <3>2
  <2>7. i \in d + 1 .. i  BY <1>1, <2>2
  <2>8. QED  BY <2>1, <2>2, <2>4, <2>5, <2>6, <2>7 DEF IsCondition
<1>7. QED  BY <1>5, <1>6

\* A line of the block is read as a condition exactly when its place in the
\* block is that of a line that gives one.
LEMMA ConditionHits ==
    ASSUME NEW yaml, Written(yaml), NEW i \in 1 .. Len(yaml)
    PROVE  ReadAsCondition(yaml, i)
             <=> /\ i \in InBlock(yaml)
                 /\ Cardinality({j \in InBlock(yaml) : j <= i}) \in Hits(Block(yaml))
<1> DEFINE N == Len(yaml)
           S == InBlock(yaml)
           L == Block(yaml)
           Rank(k) == Cardinality({j \in S : j <= k})
           named(j) == yaml[j].indent = Selection /\ yaml[j].key \notin {NoKey, "condition"}
<1>1. N \in Nat /\ \A j \in 1 .. N : yaml[j].indent \in Nat  BY DEF Written, ToSet
<1>2. S \in SUBSET (1 .. N)  BY DEF InBlock
<1>3. /\ L \in Seq(ToSet(yaml)) /\ DOMAIN L = 1 .. Cardinality(S)
      /\ \A j \in S : L[Rank(j)] = yaml[j]
  BY BlockGathers DEF Gathered
<1>4. Len(L) = Cardinality(S)
  <2>1. Cardinality(S) \in Nat
    <3> HIDE DEF S, N
    <3>1. QED  BY <1>1, <1>2, Ranks
  <2>2. Len(L) \in Nat /\ DOMAIN L = 1 .. Len(L)  BY <1>3
  <2> HIDE DEF L, S
  <2>3. \A a, b \in Nat : 1 .. a = 1 .. b => a = b
    <3>1. ASSUME NEW a \in Nat, NEW b \in Nat, 1 .. a = 1 .. b PROVE a = b
      <4>1. a \in 1 .. a \/ a = 0  OBVIOUS
      <4>2. b \in 1 .. b \/ b = 0  OBVIOUS
      <4>3. QED  BY <3>1, <4>1, <4>2
    <3>2. QED  BY <3>1
  <2>4. QED  BY <1>3, <2>1, <2>2, <2>3
<1>5. /\ \A k \in 1 .. Cardinality(S) : \E a \in S : Rank(a) = k
      /\ \A a, b \in S : a <= b <=> Rank(a) <= Rank(b)
      /\ \A a \in S : Rank(a) \in 1 .. Cardinality(S)
  <2>1. N \in Nat  BY <1>1
  <2> HIDE DEF S, N
  <2>2. QED  BY <1>2, <2>1, Ranks
\* The block in terms of the first line that begins it.
<1>6. ASSUME NEW k \in 1 .. N, NEW first \in 1 .. k - 1, IsDetection(yaml[first]),
             \A j \in 1 .. first - 1 : ~IsDetection(yaml[j])
      PROVE  /\ \A j \in 1 .. k : Opened(yaml, j - 1) <=> j \in first + 1 .. k
             /\ Closed(yaml, k) <=> ~ \A j \in first + 1 .. k :
                                         yaml[j].indent >= Selection \/ IsDetection(yaml[j])
  <2>1. ASSUME NEW j \in 1 .. k PROVE Opened(yaml, j - 1) <=> j \in first + 1 .. k
    <3>1. CASE j \in first + 1 .. k
      <4>1. first \in 1 .. j - 1  BY <3>1
      <4>2. QED  BY <1>6, <3>1, <4>1 DEF Opened
    <3>2. CASE j \notin first + 1 .. k
      <4>1. \A d \in 1 .. j - 1 : d \in 1 .. first - 1  BY <3>2
      <4>2. QED  BY <1>6, <3>2, <4>1 DEF Opened
    <3>3. QED  BY <3>1, <3>2
  <2>2. \A j \in 1 .. k : yaml[j].indent < Selection <=> ~ (yaml[j].indent >= Selection)
    <3>1. \A j \in 1 .. k : yaml[j].indent \in Nat  BY <1>1
    <3>2. QED  BY <3>1 DEF Selection
  <2>3. \A j \in first + 1 .. k : j \in 1 .. k  OBVIOUS
  <2>4. QED  BY <2>1, <2>2, <2>3 DEF Closed
<1>7. i \in S => \E first \in 1 .. i - 1 :
                    IsDetection(yaml[first]) /\ \A j \in 1 .. first - 1 : ~IsDetection(yaml[j])
  <2> SUFFICES ASSUME i \in S
               PROVE  \E first \in 1 .. i - 1 :
                        IsDetection(yaml[first]) /\ \A j \in 1 .. first - 1 : ~IsDetection(yaml[j])
    OBVIOUS
  <2> DEFINE D == {d \in 1 .. i - 1 : IsDetection(yaml[d])}
  <2>1. D # {} /\ D \in SUBSET Nat  BY DEF InBlock, Opened
  <2>2. PICK m \in D : \A d \in D : m <= d
    <3> HIDE DEF D
    <3>1. QED  BY <2>1, LeastOf
  <2>3. ASSUME NEW j \in 1 .. m - 1 PROVE ~IsDetection(yaml[j])
    <3>1. j \in 1 .. i - 1 /\ ~ (m <= j)  OBVIOUS
    <3>2. QED  BY <2>2, <3>1
  <2>4. QED  BY <2>3
<1>8. ReadAsCondition(yaml, i) => i \in S
  <2> SUFFICES ASSUME ReadAsCondition(yaml, i) PROVE i \in S  OBVIOUS
  <2>1. PICK first \in 1 .. i - 1 :
          /\ IsDetection(yaml[first]) /\ \A j \in 1 .. first - 1 : ~IsDetection(yaml[j])
          /\ \A j \in first + 1 .. i : yaml[j].indent >= Selection \/ IsDetection(yaml[j])
          /\ ~IsDetection(yaml[i])
    BY DEF ReadAsCondition
  <2>2. i \in 1 .. i /\ i \in first + 1 .. i  OBVIOUS
  <2>3. Opened(yaml, i - 1) /\ ~Closed(yaml, i)  BY <1>6, <2>1, <2>2
  <2>4. QED  BY <2>1, <2>3 DEF InBlock
\* Within the block: what it asks for, with the lines of the block.
<1>9. ASSUME i \in S
      PROVE  ReadAsCondition(yaml, i)
               <=> /\ yaml[i].key # NoKey
                   /\ \/ yaml[i].indent > Selection /\ \E j \in S : j <= i /\ named(j)
                      \/ named(i) /\ yaml[i].text # << >>
  <2>1. PICK first \in 1 .. i - 1 :
          IsDetection(yaml[first]) /\ \A j \in 1 .. first - 1 : ~IsDetection(yaml[j])
    BY <1>7, <1>9
  <2>2. ~Closed(yaml, i) /\ ~IsDetection(yaml[i])  BY <1>9 DEF InBlock
  <2>3. /\ \A j \in 1 .. i : Opened(yaml, j - 1) <=> j \in first + 1 .. i
        /\ \A j \in first + 1 .. i : yaml[j].indent >= Selection \/ IsDetection(yaml[j])
    BY <1>6, <2>1, <2>2
  <2>4. ASSUME NEW f \in 1 .. i - 1, IsDetection(yaml[f]), \A j \in 1 .. f - 1 : ~IsDetection(yaml[j])
        PROVE  f = first
    <3>1. ~ (f \in 1 .. first - 1) /\ ~ (first \in 1 .. f - 1)  BY <2>1, <2>4
    <3>2. QED  BY <3>1
  <2>5. ASSUME NEW j \in 1 .. N, named(j) PROVE j \in first + 1 .. i <=> j \in S /\ j <= i
    <3>1. ~IsDetection(yaml[j])  BY <2>5 DEF IsDetection, Selection
    <3>2. CASE j \in first + 1 .. i
      <4>1. j \in 1 .. i /\ j <= i  BY <3>2
      <4>2. Opened(yaml, j - 1)  BY <2>3, <3>2, <4>1
      <4>3. ~Closed(yaml, j)
        <5>1. \A k \in 1 .. j : k \in 1 .. i  BY <4>1
        <5>2. QED  BY <2>2, <5>1 DEF Closed
      <4>4. QED  BY <3>1, <3>2, <4>1, <4>2, <4>3 DEF InBlock
    <3>3. CASE j \in S /\ j <= i
      <4>1. j \in 1 .. i /\ Opened(yaml, j - 1)  BY <3>3 DEF InBlock
      <4>2. QED  BY <2>3, <3>3, <4>1
    <3>4. QED  BY <3>2, <3>3
  <2>6. (\E j \in first + 1 .. i : named(j)) <=> \E j \in S : j <= i /\ named(j)
    <3>1. \A j \in first + 1 .. i : j \in 1 .. N  OBVIOUS
    <3>2. \A j \in S : j \in 1 .. N  BY <1>2
    <3> HIDE DEF S, named
    <3>3. QED  BY <2>5, <3>1, <3>2
  <2>7. ReadAsCondition(yaml, i)
          <=> \E f \in 1 .. i - 1 :
                 /\ IsDetection(yaml[f]) /\ \A j \in 1 .. f - 1 : ~IsDetection(yaml[j])
                 /\ \A j \in f + 1 .. i : yaml[j].indent >= Selection \/ IsDetection(yaml[j])
                 /\ ~IsDetection(yaml[i]) /\ yaml[i].key # NoKey
                 /\ \/ yaml[i].indent > Selection /\ \E j \in f + 1 .. i : named(j)
                    \/ named(i) /\ yaml[i].text # << >>
    BY DEF ReadAsCondition
  <2> HIDE DEF S, named
  <2>8. QED  BY <2>1, <2>2, <2>3, <2>4, <2>6, <2>7
<1>10. \A j \in S : yaml[j].indent \in Nat /\ yaml[j].indent >= Selection
  <2>1. ASSUME NEW j \in S PROVE yaml[j].indent \in Nat /\ yaml[j].indent >= Selection
    <3>1. j \in 1 .. N /\ j \in 1 .. j /\ ~Closed(yaml, j) /\ Opened(yaml, j - 1)
          /\ ~IsDetection(yaml[j])
      BY DEF InBlock
    <3>2. ~ (yaml[j].indent < Selection)  BY <3>1 DEF Closed
    <3>3. QED  BY <1>1, <3>1, <3>2 DEF Selection
  <2>2. QED  BY <2>1
<1>11. \A j \in S : (IsName(yaml[j]) <=> yaml[j].indent = Selection)
                 /\ (~IsName(yaml[j]) <=> yaml[j].indent > Selection)
  <2> HIDE DEF S
  <2>1. QED  BY <1>10 DEF IsName, Selection
\* The same within the lines of the block.
<1>12. ASSUME i \in S
       PROVE  Rank(i) \in Hits(L)
                <=> /\ yaml[i].key # NoKey
                    /\ \/ yaml[i].indent > Selection /\ \E j \in S : j <= i /\ named(j)
                       \/ named(i) /\ yaml[i].text # << >>
  <2> DEFINE r == Rank(i)
  <2>1. r \in 1 .. Len(L) /\ L[r] = yaml[i]  BY <1>3, <1>4, <1>5, <1>12
  <2>2. ~IsName(yaml[i]) =>
          (Selecting(L, r - 1) <=> \E j \in S : j <= i /\ named(j))
    <3> SUFFICES ASSUME ~IsName(yaml[i])
                 PROVE  Selecting(L, r - 1) <=> \E j \in S : j <= i /\ named(j)
      OBVIOUS
    <3>1. ASSUME NEW k \in 1 .. r - 1, L[k].key \notin {NoKey, "condition"}, IsName(L[k])
          PROVE  \E j \in S : j <= i /\ named(j)
      <4> HIDE DEF L
      <4>1. k \in 1 .. Cardinality(S)  BY <1>4, <2>1
      <4>2. PICK j \in S : Rank(j) = k  BY <1>5, <4>1
      <4>3. Rank(j) <= Rank(i)  BY <2>1, <4>1, <4>2
      <4>4. j <= i  BY <1>5, <1>12, <4>3
      <4>5. L[k] = yaml[j]  BY <1>3, <4>2
      <4>6. named(j)  BY <1>11, <3>1, <4>5
      <4>7. QED  BY <4>4, <4>6
    <3>2. ASSUME NEW j \in S, j <= i, named(j) PROVE Selecting(L, r - 1)
      <4> HIDE DEF L
      <4>1. IsName(yaml[j]) /\ yaml[j].key \notin {NoKey, "condition"}  BY <1>11, <3>2
      <4>2. j # i  BY <4>1
      <4>3. ~ (i <= j)
        <5>1. i \in 1 .. N /\ j \in 1 .. N  BY <1>2
        <5>2. QED  BY <3>2, <4>2, <5>1
      <4>4. ~ (Rank(i) <= Rank(j))  BY <1>5, <1>12, <4>3
      <4>5. Rank(j) \in 1 .. Cardinality(S) /\ L[Rank(j)] = yaml[j]  BY <1>3, <1>5
      <4> HIDE DEF Rank
      <4>6. r \in Nat /\ Rank(j) \in Nat /\ Rank(j) >= 1  BY <2>1, <4>5
      <4>7. Rank(j) \in 1 .. r - 1  BY <4>4, <4>6
      <4>8. QED  BY <4>1, <4>5, <4>7 DEF Selecting
    <3> HIDE DEF r, L, S, named
    <3>3. QED  BY <3>1, <3>2 DEF Selecting
  <2>3. r \in Hits(L)
          <=> /\ yaml[i].key # NoKey
              /\ IF IsName(yaml[i]) THEN yaml[i].key # "condition" /\ yaml[i].text # << >>
                 ELSE Selecting(L, r - 1)
    <3> HIDE DEF r, L
    <3>1. QED  BY <2>1 DEF Hits
  <2>4. /\ IsName(yaml[i]) <=> yaml[i].indent = Selection
        /\ ~IsName(yaml[i]) <=> yaml[i].indent > Selection
    BY <1>11, <1>12
  <2>5. named(i) <=> yaml[i].indent = Selection /\ yaml[i].key \notin {NoKey, "condition"}
    OBVIOUS
  <2> HIDE DEF r, L, S
  <2>6. CASE IsName(yaml[i])  BY <2>3, <2>4, <2>5, <2>6 DEF r
  <2>7. CASE ~IsName(yaml[i])
    <3> HIDE DEF named
    <3>1. QED  BY <2>2, <2>3, <2>4, <2>5, <2>7 DEF r
  <2>8. QED  BY <2>6, <2>7
<1> HIDE DEF L, S, named
<1>13. ReadAsCondition(yaml, i) <=> i \in S /\ Rank(i) \in Hits(L)  BY <1>8, <1>9, <1>12
<1>14. QED  BY <1>13 DEF Rank, S, L

\* What a file compiles to has one condition for each line that is one, in the
\* order of the lines.
LEMMA CompiledConditions ==
    ASSUME NEW yaml, Written(yaml), NEW C, C = {i \in DOMAIN yaml : ReadAsCondition(yaml, i)}
    PROVE  /\ DOMAIN compile(yaml, 0).conditions = 1 .. Cardinality(C)
           /\ \A i \in C :
                compile(yaml, 0).conditions[Cardinality({j \in C : j <= i})].field = yaml[i].key
<1> DEFINE N == Len(yaml)
           S == InBlock(yaml)
           L == Block(yaml)
           E == Hits(L)
           Rank(k) == Cardinality({j \in S : j <= k})
           found == parse_detection(L)
           v == [n \in 1 .. Len(L) |-> FoundIn(L[n])]
<1>1. N \in Nat /\ DOMAIN yaml = 1 .. N  BY DEF Written
<1>2. S \in SUBSET (1 .. N)  BY DEF InBlock
<1>3. /\ L \in Seq(ToSet(yaml)) /\ DOMAIN L = 1 .. Cardinality(S)
      /\ \A j \in S : L[Rank(j)] = yaml[j]
  BY BlockGathers DEF Gathered
<1>4. DOMAIN L = 1 .. Len(L) /\ E \in SUBSET (1 .. Len(L))  BY <1>3 DEF Hits
<1>5. E \in SUBSET (1 .. Cardinality(S))
  <2> HIDE DEF E, L, S
  <2>1. QED  BY <1>3, <1>4
<1>6. C = {i \in S : Rank(i) \in E}
  <2>1. \A i \in 1 .. N : ReadAsCondition(yaml, i) <=> i \in S /\ Rank(i) \in E  BY ConditionHits
  <2> HIDE DEF S, Rank, E, N
  <2>2. QED  BY <1>1, <1>2, <2>1
<1>7. /\ DOMAIN found = 1 .. Cardinality(E)
      /\ \A m \in E : found[Cardinality({k \in E : k <= m})] = v[m]
  <2>1. Gathered(found, E, v)
    <3> DEFINE V == ToSet(yaml)
    <3>1. L \in Seq(V)  BY <1>3
    <3> HIDE DEF V
    <3>2. QED  BY <3>1, ParseGathers
  <2>2. QED  BY <2>1 DEF Gathered
<1>8. Cardinality(C) = Cardinality(E)
  <2> HIDE DEF S, E, N
  <2>1. N \in Nat  BY <1>1
  <2>2. QED  BY <1>2, <1>5, <1>6, <2>1, AsMany
<1>9. ASSUME NEW i \in C
      PROVE  /\ Rank(i) \in E /\ i \in S
             /\ Cardinality({j \in C : j <= i}) = Cardinality({k \in E : k <= Rank(i)})
  <2>1. Rank(i) \in E /\ i \in S  BY <1>6
  <2>2. Cardinality({j \in C : j <= i}) = Cardinality({k \in E : k <= Rank(i)})
    <3>1. Chosen(C, S, E)  BY <1>6 DEF Chosen
    <3>2. RanksAgree(C, S, E, i)
      <4> HIDE DEF S, E, N, Rank
      <4>1. N \in Nat  BY <1>1
      <4>2. QED  BY <1>2, <1>5, <3>1, <4>1, RankOfRank
    <3> HIDE DEF E, S
    <3>3. QED  BY <3>2 DEF RanksAgree
  <2>3. QED  BY <2>1, <2>2
<1>10. /\ DOMAIN compile(yaml, 0).conditions = DOMAIN found
       /\ \A k \in DOMAIN found : compile(yaml, 0).conditions[k].field = found[k].field
  <2> HIDE DEF found
  <2>1. compile(yaml, 0).conditions = compile_condition(found)  BY DEF compile, found, L
  <2>2. QED  BY <2>1 DEF compile_condition
<1>11. ASSUME NEW i \in C
       PROVE  compile(yaml, 0).conditions[Cardinality({j \in C : j <= i})].field = yaml[i].key
  <2> DEFINE m == Rank(i)
             k == Cardinality({n \in E : n <= m})
  <2>1. m \in E /\ i \in S /\ Cardinality({j \in C : j <= i}) = k  BY <1>9
  <2>2. found[k] = v[m]  BY <1>7, <2>1
  <2>3. k \in 1 .. Cardinality(E)
    <3> DEFINE K == Len(L)
    <3>1. K \in Nat /\ E \in SUBSET (1 .. K)  BY <1>3, <1>4
    <3> HIDE DEF K, E, m
    <3>2. QED  BY <2>1, <3>1, Ranks
  <2>4. v[m] = FoundIn(yaml[i])
    <3>1. m \in 1 .. Len(L)  BY <1>4, <2>1
    <3>2. L[m] = yaml[i]  BY <1>3, <2>1
    <3> HIDE DEF L, m
    <3>3. QED  BY <3>1, <3>2
  <2>5. FoundIn(yaml[i]).field = yaml[i].key  BY DEF FoundIn, Inline, FieldOf
  <2> HIDE DEF k, v, m, found, E, S, L
  <2>6. k \in DOMAIN found  BY <1>7, <2>3
  <2>7. compile(yaml, 0).conditions[k].field = found[k].field  BY <1>10, <2>6
  <2>8. QED  BY <2>1, <2>2, <2>4, <2>5, <2>7
<1> HIDE DEF found, E, L, S, N, v
<1>12. QED  BY <1>7, <1>8, <1>10, <1>11

\* What a file of the compiler's layout compiles to is exact, whatever number
\* its rule is given.
LEMMA CompiledExact ==
    ASSUME NEW yaml \in Texts, FourColumns(yaml), NEW k
    PROVE  Exact(SigmaRule(yaml, k), yaml)
<1> DEFINE C == {i \in DOMAIN yaml : IsCondition(yaml, i)}
           R == {i \in DOMAIN yaml : ReadAsCondition(yaml, i)}
           rule == SigmaRule(yaml, k)
<1>1. Written(yaml)  BY RulesAssumption DEF Written, Texts
<1>2. C = R
  <2>1. \A i \in DOMAIN yaml : i \in 1 .. Len(yaml)  BY <1>1 DEF Written
  <2>2. \A i \in DOMAIN yaml : IsCondition(yaml, i) <=> ReadAsCondition(yaml, i)
    BY <1>1, <2>1, FourColumnsRead
  <2>3. QED  BY <2>2
<1>3. /\ DOMAIN compile(yaml, 0).conditions = 1 .. Cardinality(R)
      /\ \A i \in R : compile(yaml, 0).conditions[Cardinality({j \in R : j <= i})].field = yaml[i].key
  BY <1>1, CompiledConditions
<1>4. /\ rule.name = compile(yaml, 0).name
      /\ rule.conditions = compile(yaml, 0).conditions
  <2>1. rule = [compile(yaml, 0) EXCEPT !.id = IdOf(yaml, k)]  BY DEF SigmaRule, RuleOf
  <2> HIDE DEF rule
  <2>2. /\ compile(yaml, 0).name = [compile(yaml, 0) EXCEPT !.id = IdOf(yaml, k)].name
        /\ compile(yaml, 0).conditions = [compile(yaml, 0) EXCEPT !.id = IdOf(yaml, k)].conditions
    BY DEF compile
  <2>3. QED  BY <2>1, <2>2
<1>5. compile(yaml, 0).name = ValueOr(yaml, "title", Untitled)  BY DEF compile
<1> HIDE DEF C, R, rule
<1>6. /\ rule.name = ValueOr(yaml, "title", Untitled)
      /\ DOMAIN rule.conditions = 1 .. Cardinality(C)
      /\ \A i \in C : rule.conditions[Cardinality({j \in C : j <= i})].field = yaml[i].key
  BY <1>2, <1>3, <1>4, <1>5
<1>7. QED  BY <1>6 DEF Exact, C, rule

\* Whatever files of the compiler's layout a directory holds, and whatever else
\* is loaded, reloaded, added and removed meanwhile: the rule a compilation
\* adds has the title of its file, one condition for each line YAML gives one
\* in, on the field the line names, in the order of the lines, and no other.
THEOREM ConditionsKept == RulesSpec => ConditionsExact
<1> DEFINE Right(t) == made'[t] \notin {made[t], << >>} =>
             (FourColumns(Head(unread[t])) => Exact(Last(made'[t]), Head(unread[t])))
<1>1. ASSUME ReadersInv, RulesNext, NEW t \in Threads PROVE Right(t)
  <2>1. /\ made \in [Threads -> Seq(Compilations)]
        /\ \A u \in Threads : unread[u] # << >> => \E d \in Directories : LeftOf(d, unread[u])
    BY <1>1 DEF ReadersInv, Lists, RulesTypeOK, LeftOf
  <2>2. ASSUME NEW u \in Threads, CompileOne(u) PROVE Right(t)
    <3>1. /\ unread[u] # << >>
          /\ made' = [made EXCEPT ![u] = Append(@, SigmaRule(Head(unread[u]), compiled))]
      BY <2>2 DEF CompileOne
    <3>2. CASE u # t  BY <2>1, <3>1, <3>2
    <3>3. CASE u = t
      <4>1. Head(unread[t]) \in Texts  BY <2>1, <3>1, <3>3, RestLeft
      <4>2. made'[t] = Append(made[t], SigmaRule(Head(unread[t]), compiled))  BY <2>1, <3>1, <3>3
      <4>3. Last(made'[t]) = SigmaRule(Head(unread[t]), compiled)
        <5> DEFINE s == made[t]
                   e == SigmaRule(Head(unread[t]), compiled)
        <5>1. s \in Seq(Compilations)  BY <2>1
        <5> HIDE DEF s, e
        <5>2. Append(s, e)[Len(Append(s, e))] = e  BY <5>1
        <5>3. QED  BY <4>2, <5>2 DEF Last, s, e
      <4>4. QED  BY <4>1, <4>3, CompiledExact
    <3>4. QED  BY <3>2, <3>3
  <2>3. ASSUME NEW u \in Threads,
               \/ CountCompiled(u) \/ FilesSkipped(u) \/ LoadBegins(u) \/ ReloadClears(u)
               \/ add_rule(u) \/ \E id \in Ids : remove_rule(u, id)
        PROVE  Right(t)
    <3>1. made' = made
      BY <2>3 DEF CountCompiled, FilesSkipped, LoadBegins, ReloadClears, add_rule, remove_rule
    <3>2. QED  BY <3>1
  <2>4. ASSUME NEW u \in Threads, LoadInserts(u) \/ ReloadInserts(u) PROVE Right(t)
    <3>1. made' = [made EXCEPT ![u] = << >>]  BY <2>4 DEF LoadInserts, ReloadInserts
    <3>2. made'[t] \in {made[t], << >>}  BY <2>1, <3>1
    <3>3. QED  BY <3>2
  <2>5. CASE Rest
    <3>1. made' = made  BY <2>5 DEF Rest, rulesVars, threadVars
    <3>2. QED  BY <3>1
  <2> HIDE DEF Right
  <2>6. QED  BY <1>1, <2>2, <2>3, <2>4, <2>5 DEF RulesNext, Step, CallStep
<1>2. ASSUME UNCHANGED rulesVars, NEW t \in Threads PROVE Right(t)
  BY <1>2 DEF rulesVars, threadVars
<1>3. ReadersInv /\ [RulesNext]_rulesVars => [\A t \in Threads : Right(t)]_rulesVars
  BY <1>1, <1>2
<1>4. QED  BY <1>3, AlwaysReaders, PTL DEF RulesSpec, ConditionsExact

=============================================================================
