------------------------ MODULE StreamProcessorProofs ------------------------
(***************************************************************************)
(* Where the events between Kafka and the correlation engine are, and what *)
(* the statistics say of them, for any number of consumers and workers,    *)
(* any batch size, queue length, topic, crashes and restarts.              *)
(***************************************************************************)
EXTENDS StreamProcessor, FiniteSetTheorems, TLAPS

(* Sequences *)

\* The positions at which m is in the sequence s.
Places(s, m) == {i \in DOMAIN s : s[i] = m}

\* A sequence holds m at finitely many places.
LEMMA PlacesFinite ==
    ASSUME NEW S, NEW s \in Seq(S), NEW m
    PROVE  IsFiniteSet(Places(s, m)) /\ Cardinality(Places(s, m)) \in Nat
<1>1. Places(s, m) \in SUBSET (1 .. Len(s)) /\ Len(s) \in Nat  BY DEF Places
<1>2. ASSUME NEW n \in Nat PROVE IsFiniteSet(1 .. n)  BY FS_Interval
<1>3. QED  BY <1>1, <1>2, FS_Subset, FS_CardinalityType

\* Appending x adds a place of x and of nothing else.
LEMMA PlacesAppend ==
    ASSUME NEW S, NEW s \in Seq(S), NEW x \in S, NEW m
    PROVE  Cardinality(Places(Append(s, x), m))
               = Cardinality(Places(s, m)) + (IF x = m THEN 1 ELSE 0)
<1>1. /\ DOMAIN s = 1 .. Len(s) /\ Len(s) \in Nat
      /\ DOMAIN Append(s, x) = 1 .. Len(s) + 1
      /\ \A i \in 1 .. Len(s) : Append(s, x)[i] = s[i]
      /\ Append(s, x)[Len(s) + 1] = x
  OBVIOUS
<1>2. 1 .. Len(s) + 1 = (1 .. Len(s)) \cup {Len(s) + 1} /\ Len(s) + 1 \notin 1 .. Len(s)
  <2>1. Len(s) \in Nat  OBVIOUS
  <2>2. QED  BY <2>1
<1>3. /\ Places(Append(s, x), m) =
             IF x = m THEN Places(s, m) \cup {Len(s) + 1} ELSE Places(s, m)
      /\ Len(s) + 1 \notin Places(s, m)
  BY <1>1, <1>2, Zenon DEF Places
<1>4. IsFiniteSet(Places(s, m)) /\ Cardinality(Places(s, m)) \in Nat  BY PlacesFinite
<1>5. CASE x = m
  <2>1. Cardinality(Places(s, m) \cup {Len(s) + 1}) = Cardinality(Places(s, m)) + 1
    BY <1>3, <1>4, FS_AddElement
  <2>2. QED  BY <1>3, <1>5, <2>1
<1>6. CASE x # m  BY <1>3, <1>4, <1>6
<1>7. QED  BY <1>5, <1>6

\* Dropping the first element takes a place from it and from nothing else.
LEMMA PlacesTail ==
    ASSUME NEW S, NEW s \in Seq(S), s # << >>, NEW m
    PROVE  Cardinality(Places(Tail(s), m))
               = Cardinality(Places(s, m)) - (IF Head(s) = m THEN 1 ELSE 0)
<1> DEFINE P == Places(s, m)
           Q == Places(Tail(s), m)
           f == [i \in Q |-> i + 1]
<1>1. /\ DOMAIN s = 1 .. Len(s) /\ Len(s) \in Nat \ {0} /\ Head(s) = s[1]
      /\ Tail(s) \in Seq(S)
      /\ DOMAIN Tail(s) = 1 .. Len(s) - 1
      /\ \A i \in 1 .. Len(s) - 1 : Tail(s)[i] = s[i + 1]
  OBVIOUS
<1>2. IsFiniteSet(P) /\ Cardinality(P) \in Nat /\ IsFiniteSet(Q) /\ Cardinality(Q) \in Nat
  BY <1>1, PlacesFinite
<1>3. Q \subseteq Nat /\ P \subseteq Nat  BY <1>1 DEF Places
<1>4. \A i \in Q : i + 1 \in P \ {1}
  BY <1>1 DEF Places
<1>5. ASSUME NEW j \in P \ {1} PROVE j - 1 \in Q
  <2>1. j \in 1 .. Len(s) /\ s[j] = m /\ j # 1  BY <1>1, <1>5 DEF Places
  <2>2. j - 1 \in 1 .. Len(s) - 1 /\ (j - 1) + 1 = j  BY <1>1, <2>1
  <2>3. Tail(s)[j - 1] = s[j]  BY <1>1, <2>2
  <2>4. QED  BY <1>1, <2>1, <2>2, <2>3 DEF Places
<1>6. 1 \in P <=> Head(s) = m  BY <1>1 DEF Places
<1> HIDE DEF P, Q
<1>7. f \in Bijection(Q, P \ {1})
  <2>1. f \in [Q -> P \ {1}]  BY <1>4
  <2>2. \A a, b \in Q : f[a] = f[b] => a = b  BY <1>3
  <2>3. ASSUME NEW j \in P \ {1} PROVE \E i \in Q : f[i] = j
    <3>1. j - 1 \in Q /\ (j - 1) + 1 = j  BY <1>3, <1>5
    <3>2. QED  BY <3>1
  <2>4. QED  BY <2>1, <2>2, <2>3 DEF Bijection, Injection, Surjection, IsInjective
<1>8. Cardinality(P \ {1}) = Cardinality(Q)
  BY <1>2, <1>7, FS_Bijection DEF ExistsBijection
<1>9. Cardinality(P \ {1}) = IF 1 \in P THEN Cardinality(P) - 1 ELSE Cardinality(P)
  BY <1>2, FS_RemoveElement
<1>10. QED  BY <1>2, <1>6, <1>8, <1>9 DEF P, Q

\* Appending adds exactly one element.
LEMMA ToSetAppend ==
    ASSUME NEW S, NEW s \in Seq(S), NEW x \in S
    PROVE  Append(s, x) \in Seq(S) /\ ToSet(Append(s, x)) = ToSet(s) \cup {x}
<1>1. /\ Append(s, x) \in Seq(S) /\ DOMAIN s = 1 .. Len(s) /\ Len(s) \in Nat
      /\ DOMAIN Append(s, x) = 1 .. Len(s) + 1
      /\ \A i \in 1 .. Len(s) : Append(s, x)[i] = s[i]
      /\ Append(s, x)[Len(s) + 1] = x
  OBVIOUS
<1>2. ASSUME NEW i \in 1 .. Len(s) + 1 PROVE i \in 1 .. Len(s) \/ i = Len(s) + 1
  BY <1>1
<1>3. ASSUME NEW i \in 1 .. Len(s) PROVE i \in 1 .. Len(s) + 1
  BY <1>1
<1>4. Len(s) + 1 \in 1 .. Len(s) + 1  BY <1>1
<1>5. QED  BY <1>1, <1>2, <1>3, <1>4, Zenon DEF ToSet

\* No element twice.
NoRepeat(s) == \A i, j \in DOMAIN s : s[i] = s[j] => i = j

\* Dropping the first of a sequence without repetition removes it for good.
LEMMA NoRepeatTail ==
    ASSUME NEW S, NEW s \in Seq(S), s # << >>, NoRepeat(s)
    PROVE  /\ Head(s) \in S /\ Tail(s) \in Seq(S) /\ Len(Tail(s)) = Len(s) - 1
           /\ Head(s) \in ToSet(s) /\ ToSet(Tail(s)) = ToSet(s) \ {Head(s)}
           /\ NoRepeat(Tail(s))
<1>1. /\ DOMAIN s = 1 .. Len(s) /\ Len(s) \in Nat \ {0} /\ Head(s) = s[1] /\ Head(s) \in S
      /\ Tail(s) \in Seq(S) /\ Len(Tail(s)) = Len(s) - 1
      /\ DOMAIN Tail(s) = 1 .. Len(s) - 1
      /\ \A i \in 1 .. Len(s) - 1 : Tail(s)[i] = s[i + 1]
  OBVIOUS
<1>2. ASSUME NEW i \in 1 .. Len(s) - 1
      PROVE  i + 1 \in DOMAIN s /\ i + 1 # 1 /\ Tail(s)[i] = s[i + 1]
  BY <1>1
<1>3. 1 \in DOMAIN s  BY <1>1
<1>4. ASSUME NEW i \in DOMAIN s, i # 1
      PROVE  i - 1 \in DOMAIN Tail(s) /\ s[i] = Tail(s)[i - 1]
  <2>1. i - 1 \in 1 .. Len(s) - 1 /\ (i - 1) + 1 = i  BY <1>1, <1>4
  <2>2. QED  BY <1>1, <2>1
<1>5. ToSet(Tail(s)) \subseteq ToSet(s) \ {Head(s)}
  <2>1. SUFFICES ASSUME NEW i \in 1 .. Len(s) - 1
                 PROVE  Tail(s)[i] \in ToSet(s) \ {Head(s)}
    BY <1>1 DEF ToSet
  <2>2. s[i + 1] # s[1]  BY <1>2, <1>3 DEF NoRepeat
  <2>3. QED  BY <1>1, <1>2, <2>2 DEF ToSet
<1>6. ToSet(s) \ {Head(s)} \subseteq ToSet(Tail(s))
  <2>1. SUFFICES ASSUME NEW i \in DOMAIN s, s[i] # s[1] PROVE s[i] \in ToSet(Tail(s))
    BY <1>1 DEF ToSet
  <2>2. i # 1  BY <2>1
  <2>3. QED  BY <1>4, <2>2 DEF ToSet
<1>7. NoRepeat(Tail(s))
  <2>1. SUFFICES ASSUME NEW i \in 1 .. Len(s) - 1, NEW j \in 1 .. Len(s) - 1,
                        Tail(s)[i] = Tail(s)[j]
                 PROVE  i = j
    BY <1>1 DEF NoRepeat
  <2>2. i + 1 = j + 1  BY <1>2, <2>1 DEF NoRepeat
  <2>3. i \in Int /\ j \in Int  OBVIOUS
  <2>4. QED  BY <2>2, <2>3
<1>8. Head(s) \in ToSet(s)  BY <1>1, <1>3 DEF ToSet
<1>9. QED  BY <1>1, <1>5, <1>6, <1>7, <1>8

\* Appending something new repeats nothing.
LEMMA NoRepeatAppend ==
    ASSUME NEW S, NEW s \in Seq(S), NEW x \in S, NoRepeat(s), x \notin ToSet(s)
    PROVE  NoRepeat(Append(s, x))
<1>1. /\ DOMAIN s = 1 .. Len(s) /\ Len(s) \in Nat
      /\ DOMAIN Append(s, x) = 1 .. Len(s) + 1
      /\ \A i \in 1 .. Len(s) : Append(s, x)[i] = s[i]
      /\ Append(s, x)[Len(s) + 1] = x
  OBVIOUS
<1>2. 1 .. Len(s) + 1 = (1 .. Len(s)) \cup {Len(s) + 1}
  <2>1. Len(s) \in Nat  OBVIOUS
  <2>2. QED  BY <2>1
<1>3. \A i \in 1 .. Len(s) : s[i] # x  BY <1>1 DEF ToSet
<1>4. SUFFICES ASSUME NEW i \in 1 .. Len(s) + 1, NEW j \in 1 .. Len(s) + 1,
                      Append(s, x)[i] = Append(s, x)[j]
               PROVE  i = j
  BY <1>1 DEF NoRepeat
<1>5. CASE i \in 1 .. Len(s) /\ j \in 1 .. Len(s)
  BY <1>1, <1>4, <1>5 DEF NoRepeat
<1>6. CASE i \notin 1 .. Len(s) \/ j \notin 1 .. Len(s)
  BY <1>1, <1>2, <1>3, <1>4, <1>6, Zenon
<1>7. QED  BY <1>5, <1>6

-----------------------------------------------------------------------------
(* Types and control *)

\* Types, with what the properties' TypeOK leaves out: a batch holds different
\* messages, all polled; a consumer outside a batch has none in hand, and one
\* that pushes has an event in hand; only a processor that was assigned a
\* position runs.
Typed ==
    /\ TypeOK
    /\ running \in BOOLEAN /\ phase \in {"idle", "running", "joining"}
    /\ cpc \in [Consumers -> {"exited", "loop", "poll", "next", "push"}]
    /\ batch \in [Consumers -> Seq(Msgs)]
    /\ wpc \in [Workers -> {"exited", "loop", "pop", "process"}]
    /\ hand \in [Workers -> Nat]
    /\ queue \in Seq(Msgs \ Garbage) /\ delivered \in Seq(Msgs \ Garbage)
    /\ dropped \subseteq Msgs \ Garbage
    /\ consumed \in Nat /\ processed \in Nat
    /\ position \in Nat /\ requested \in Nat /\ committed \in Nat
    /\ logEnd \in 0 .. MaxMsgs /\ base \in 0 .. position
    /\ phase # "idle" => position >= 1
    /\ \A c \in Consumers :
           /\ cpc[c] \in {"exited", "loop"} => batch[c] = << >>
           /\ cpc[c] = "push" => batch[c] # << >> /\ Head(batch[c]) \notin Garbage
           /\ NoRepeat(batch[c])
           /\ \A m \in ToSet(batch[c]) : m < position

\* A processor that has not started has the types.
LEMMA InitTyped == Init => Typed
<1>1. SUFFICES ASSUME Init PROVE Typed  OBVIOUS
<1>2. ToSet(<< >>) = {} /\ NoRepeat(<< >>)  BY DEF ToSet, NoRepeat
<1>3. << >> \in Seq(Msgs) /\ << >> \in Seq(Msgs \ Garbage) /\ Len(<< >>) = 0  OBVIOUS
<1>4. queue = << >> /\ delivered = << >>  BY <1>1 DEF Init, EventQueue!Init
<1>5. TypeOK
  BY <1>1, <1>2, <1>3, <1>4, StreamAssumption DEF Init, TypeOK, AllExited, None
<1>6. \A c \in Consumers : cpc[c] = "exited" /\ batch[c] = << >>  BY <1>1 DEF Init
<1>7. /\ cpc \in [Consumers -> {"exited", "loop", "poll", "next", "push"}]
      /\ batch \in [Consumers -> Seq(Msgs)]
      /\ wpc \in [Workers -> {"exited", "loop", "pop", "process"}]
      /\ hand \in [Workers -> Nat]
  BY <1>1, <1>3 DEF Init, None
<1>8. 0 \in 0 .. MaxMsgs /\ 0 \in 0 .. 0  BY StreamAssumption
<1>9. QED
  BY <1>1, <1>2, <1>3, <1>4, <1>5, <1>6, <1>7, <1>8 DEF Init, Typed

\* Every step preserves the types and the places in the loops.
LEMMA NextTyped == Typed /\ [Next]_vars => Typed'
<1>1. SUFFICES ASSUME Typed, [Next]_vars PROVE Typed'  OBVIOUS
<1> USE <1>1, StreamAssumption
<1>2. CASE Start
  <2>1. TypeOK'  BY <1>2 DEF Start, StartOffset, Typed, TypeOK, AllExited, statVars
  <2>2. \A c \in Consumers : batch[c] = << >> /\ cpc'[c] = "loop"
    BY <1>2 DEF Start, Typed, TypeOK, AllExited
  <2>3. /\ position' \in Nat /\ base' \in 0 .. position' /\ position' >= 1
        /\ cpc' \in [Consumers -> {"exited", "loop", "poll", "next", "push"}]
        /\ wpc' \in [Workers -> {"exited", "loop", "pop", "process"}]
    BY <1>2 DEF Start, StartOffset, Typed
  <2>4. ToSet(<< >>) = {}  BY DEF ToSet
  <2>5. QED  BY <1>2, <2>1, <2>2, <2>3, <2>4 DEF Start, Typed, statVars
<1>3. CASE Stop
  <2>1. TypeOK'  BY <1>3 DEF Stop, Typed, TypeOK, AllExited, threadVars, kafkaVars
  <2>2. QED  BY <1>3, <2>1 DEF Stop, Typed, threadVars, kafkaVars, statVars
<1>4. CASE Joined
  <2>1. TypeOK'  BY <1>4 DEF Joined, Typed, TypeOK, AllExited, threadVars, bookVars
  <2>2. QED  BY <1>4, <2>1 DEF Joined, Typed, threadVars, bookVars, statVars
<1>5. CASE CheckpointExits
  <2>1. TypeOK'  BY <1>5 DEF CheckpointExits, Typed, TypeOK, AllExited, kafkaVars
  <2>2. QED  BY <1>5, <2>1 DEF CheckpointExits, Typed, kafkaVars, statVars, bookVars
<1>6. ASSUME NEW c \in Consumers, Poll(c) PROVE Typed'
  <2>1. phase # "idle"  BY <1>6 DEF Poll, Typed, TypeOK, AllExited
  <2>2. position \in Msgs /\ Len(batch[c]) < BatchSize
    BY <1>6, <2>1 DEF Poll, Typed, Msgs
  <2>3. /\ Append(batch[c], position) \in Seq(Msgs)
        /\ ToSet(Append(batch[c], position)) = ToSet(batch[c]) \cup {position}
        /\ Len(Append(batch[c], position)) = Len(batch[c]) + 1
        /\ NoRepeat(Append(batch[c], position))
    <3>1. batch[c] \in Seq(Msgs) /\ position \notin ToSet(batch[c]) /\ NoRepeat(batch[c])
      BY DEF Typed
    <3>2. QED  BY <2>2, <3>1, ToSetAppend, NoRepeatAppend
  <2>4. /\ batch' = [batch EXCEPT ![c] = Append(batch[c], position)]
        /\ position' = position + 1 /\ cpc' = [cpc EXCEPT ![c] = "poll"] /\ position <= logEnd
        /\ UNCHANGED <<running, phase, wpc, hand, kpc, queue, delivered, consumed, processed,
                       requested, committed, logEnd, base, dropped>>
    BY <1>6 DEF Poll, statVars
  <2>5. \A d \in Consumers : \A m \in ToSet(batch[d]) : m \in Msgs /\ m < position /\ m \in Nat
    BY DEF Typed, TypeOK, Msgs
  <2>6. ASSUME NEW d \in Consumers
        PROVE  /\ Len(batch'[d]) <= BatchSize /\ ToSet(batch'[d]) \subseteq Msgs
               /\ cpc'[d] \in {"exited", "loop"} => batch'[d] = << >>
               /\ cpc'[d] = "push" => batch'[d] # << >> /\ Head(batch'[d]) \notin Garbage
               /\ NoRepeat(batch'[d])
               /\ \A m \in ToSet(batch'[d]) : m < position'
    <3>1. CASE d = c
      <4>1. Len(batch[c]) + 1 <= BatchSize
        <5>1. Len(batch[c]) \in Nat  BY DEF Typed
        <5>2. QED  BY <2>2, <5>1
      <4>2. batch'[d] = Append(batch[c], position) /\ cpc'[d] = "poll"
        BY <2>4, <3>1 DEF Typed
      <4>3. \A m \in ToSet(batch[c]) \cup {position} : m \in Msgs /\ m < position + 1
        BY <2>2, <2>5 DEF Typed
      <4>4. QED  BY <2>3, <2>4, <4>1, <4>2, <4>3
    <3>2. CASE d # c
      <4>1. batch'[d] = batch[d] /\ cpc'[d] = cpc[d]  BY <2>4, <3>2 DEF Typed
      <4>2. \A m \in ToSet(batch[d]) : m < position + 1  BY <2>5 DEF Typed
      <4>3. QED  BY <2>4, <4>1, <4>2 DEF Typed, TypeOK
    <3>3. QED  BY <3>1, <3>2
  <2>7. TypeOK'
    BY <2>1, <2>4, <2>6 DEF Typed, TypeOK
  <2>8. batch' \in [Consumers -> Seq(Msgs)] /\ cpc' \in [Consumers -> {"exited", "loop", "poll", "next", "push"}]
    BY <2>3, <2>4 DEF Typed
  <2>9. QED  BY <2>4, <2>6, <2>7, <2>8 DEF Typed
<1>7. ASSUME NEW c \in Consumers, BatchComplete(c) \/ ConsumerExits(c) PROVE Typed'
  <2>1. TypeOK'
    BY <1>7 DEF BatchComplete, ConsumerExits, Typed, TypeOK, AllExited, kafkaVars
  <2>2. QED
    BY <1>7, <2>1 DEF BatchComplete, ConsumerExits, Typed, kafkaVars, statVars, bookVars
<1>8. ASSUME NEW c \in Consumers, TakeFromBatch(c) PROVE Typed'
  <2>1. /\ Tail(batch[c]) \in Seq(Msgs) /\ Len(Tail(batch[c])) = Len(batch[c]) - 1
        /\ ToSet(Tail(batch[c])) \subseteq ToSet(batch[c]) /\ NoRepeat(Tail(batch[c]))
        /\ Len(batch[c]) \in Nat
    BY <1>8, NoRepeatTail DEF TakeFromBatch, Typed
  <2>2. /\ cpc[c] = "next" /\ batch[c] # << >> /\ phase # "idle"
        /\ \/ /\ Head(batch[c]) \in Garbage /\ cpc' = cpc
              /\ batch' = [batch EXCEPT ![c] = Tail(batch[c])]
           \/ /\ Head(batch[c]) \notin Garbage /\ batch' = batch
              /\ cpc' = [cpc EXCEPT ![c] = "push"]
        /\ UNCHANGED <<running, phase, wpc, hand, kpc, queue, delivered, processed, position,
                       requested, committed, logEnd, base, dropped>>
    BY <1>8 DEF TakeFromBatch, kafkaVars, bookVars, Typed, TypeOK, AllExited
  <2>3. ASSUME NEW d \in Consumers
        PROVE  /\ Len(batch'[d]) <= BatchSize /\ ToSet(batch'[d]) \subseteq Msgs
               /\ cpc'[d] \in {"exited", "loop"} => batch'[d] = << >>
               /\ cpc'[d] = "push" => batch'[d] # << >> /\ Head(batch'[d]) \notin Garbage
               /\ NoRepeat(batch'[d])
               /\ \A m \in ToSet(batch'[d]) : m < position
    <3>1. CASE d = c
      <4>1. CASE Head(batch[c]) \in Garbage
        <5>1. batch'[d] = Tail(batch[c]) /\ cpc'[d] = "next"  BY <2>2, <3>1, <4>1 DEF Typed
        <5>2. Len(batch[c]) - 1 <= BatchSize /\ ToSet(batch[c]) \subseteq Msgs
          BY <2>1 DEF Typed, TypeOK
        <5>3. QED  BY <2>1, <3>1, <5>1, <5>2 DEF Typed
      <4>2. CASE Head(batch[c]) \notin Garbage
        <5>1. batch'[d] = batch[c] /\ cpc'[d] = "push"  BY <2>2, <3>1, <4>2 DEF Typed
        <5>2. QED  BY <2>2, <3>1, <4>2, <5>1 DEF Typed, TypeOK
      <4>3. QED  BY <4>1, <4>2
    <3>2. CASE d # c
      <4>1. batch'[d] = batch[d] /\ cpc'[d] = cpc[d]  BY <2>2, <3>2 DEF Typed
      <4>2. QED  BY <4>1 DEF Typed, TypeOK
    <3>3. QED  BY <3>1, <3>2
  <2>4. TypeOK'
    BY <2>2, <2>3 DEF Typed, TypeOK
  <2>5. consumed' \in Nat  BY <1>8 DEF TakeFromBatch, ConsumedAfter, Typed
  <2>6. /\ batch' \in [Consumers -> Seq(Msgs)]
        /\ cpc' \in [Consumers -> {"exited", "loop", "poll", "next", "push"}]
    BY <2>1, <2>2 DEF Typed
  <2>7. QED
    BY <2>2, <2>3, <2>4, <2>5, <2>6 DEF Typed
<1>9. ASSUME NEW c \in Consumers, Push(c) PROVE Typed'
  <2>1. /\ Tail(batch[c]) \in Seq(Msgs) /\ Len(Tail(batch[c])) = Len(batch[c]) - 1
        /\ ToSet(Tail(batch[c])) \subseteq ToSet(batch[c]) /\ NoRepeat(Tail(batch[c]))
        /\ Len(batch[c]) \in Nat /\ Head(batch[c]) \in Msgs \ Garbage
    BY <1>9, NoRepeatTail DEF Push, Typed
  <2>2. /\ queue' = Append(queue, Head(batch[c])) /\ Len(queue) < QueueLimit
        /\ delivered' = delivered
    BY <1>9 DEF Push, EventQueue!Put
  <2>3. /\ queue' \in Seq(Msgs \ Garbage) /\ Len(queue') <= QueueLimit
        /\ ToSet(queue') \subseteq Msgs \ Garbage
    <3>1. queue \in Seq(Msgs \ Garbage) /\ ToSet(queue) \subseteq Msgs \ Garbage
      BY DEF Typed, TypeOK
    <3>2. Len(queue') = Len(queue) + 1 /\ Len(queue) \in Nat  BY <2>1, <2>2, <3>1
    <3>3. QED  BY <2>1, <2>2, <3>1, <3>2, ToSetAppend
  <2>4. TypeOK'
    BY <1>9, <2>1, <2>3 DEF Push, AfterPush, Typed, TypeOK, AllExited, kafkaVars
  <2>5. QED
    BY <1>9, <2>1, <2>2, <2>3, <2>4 DEF Push, AfterPush, Typed, kafkaVars, bookVars, statVars
<1>10. ASSUME NEW c \in Consumers, PushRefused(c) PROVE Typed'
  <2>1. /\ Tail(batch[c]) \in Seq(Msgs) /\ Len(Tail(batch[c])) = Len(batch[c]) - 1
        /\ ToSet(Tail(batch[c])) \subseteq ToSet(batch[c]) /\ NoRepeat(Tail(batch[c]))
        /\ Len(batch[c]) \in Nat /\ Head(batch[c]) \in Msgs \ Garbage
    BY <1>10, NoRepeatTail DEF PushRefused, Typed
  <2>2. TypeOK'
    BY <1>10, <2>1 DEF PushRefused, Typed, TypeOK, AllExited, kafkaVars
  <2>3. QED
    BY <1>10, <2>1, <2>2 DEF PushRefused, Typed, kafkaVars, statVars
<1>11. ASSUME NEW c \in Consumers, CommitAsync(c) PROVE Typed'
  <2>1. TypeOK'
    BY <1>11 DEF CommitAsync, CommitOffset, Typed, TypeOK, AllExited
  <2>2. QED
    BY <1>11, <2>1 DEF CommitAsync, CommitOffset, Typed, statVars, bookVars
<1>12. ASSUME NEW w \in Workers, WorkerEnters(w) \/ PopEmpty(w) \/ WorkerExits(w) PROVE Typed'
  <2>1. CASE WorkerEnters(w)
    <3>1. TypeOK'  BY <2>1 DEF WorkerEnters, Typed, TypeOK, AllExited, kafkaVars
    <3>2. QED  BY <2>1, <3>1 DEF WorkerEnters, Typed, kafkaVars, statVars, bookVars
  <2>2. CASE PopEmpty(w)
    <3>1. TypeOK'  BY <2>2 DEF PopEmpty, Typed, TypeOK, AllExited, kafkaVars
    <3>2. QED  BY <2>2, <3>1 DEF PopEmpty, Typed, kafkaVars, statVars, bookVars
  <2>3. CASE WorkerExits(w)
    <3>1. TypeOK'  BY <2>3 DEF WorkerExits, Typed, TypeOK, AllExited, kafkaVars
    <3>2. QED  BY <2>3, <3>1 DEF WorkerExits, Typed, kafkaVars, statVars, bookVars
  <2>4. QED  BY <1>12, <2>1, <2>2, <2>3
<1>13. ASSUME NEW w \in Workers, Pop(w) PROVE Typed'
  <2>1. /\ queue # << >> /\ queue' = Tail(queue) /\ delivered' = Append(delivered, Head(queue))
    BY <1>13 DEF Pop, EventQueue!Take
  <2>2. /\ Head(queue) \in Msgs \ Garbage /\ queue' \in Seq(Msgs \ Garbage)
        /\ Len(queue') <= QueueLimit /\ delivered' \in Seq(Msgs \ Garbage)
    BY <2>1 DEF Typed, TypeOK
  <2>3. ToSet(queue') \subseteq Msgs \ Garbage  BY <2>2 DEF ToSet
  <2>4. Head(queue) \in Nat /\ Head(queue) # None  BY <2>2 DEF Msgs, None
  <2>5. TypeOK'
    BY <1>13, <2>1, <2>2, <2>3, <2>4 DEF Pop, Typed, TypeOK, AllExited, kafkaVars
  <2>6. QED
    BY <1>13, <2>1, <2>2, <2>4, <2>5 DEF Pop, Typed, kafkaVars, statVars, bookVars
<1>14. ASSUME NEW w \in Workers, Process(w) PROVE Typed'
  <2>1. TypeOK'
    BY <1>14 DEF Process, Typed, TypeOK, AllExited, kafkaVars, None
  <2>2. QED
    BY <1>14, <2>1 DEF Process, Typed, kafkaVars, None
<1>15. CASE CommitAnswered
  <2>1. TypeOK'
    BY <1>15 DEF CommitAnswered, Typed, TypeOK, AllExited, threadVars
  <2>2. QED  BY <1>15, <2>1 DEF CommitAnswered, Typed, threadVars, statVars, bookVars
<1>16. CASE Produce
  <2>1. TypeOK'
    BY <1>16 DEF Produce, Typed, TypeOK, AllExited, threadVars
  <2>2. QED  BY <1>16, <2>1 DEF Produce, Typed, threadVars, statVars, bookVars
<1>17. CASE Crash
  <2>1. ToSet(<< >>) = {} /\ NoRepeat(<< >>)  BY DEF ToSet, NoRepeat
  <2>2. << >> \in Seq(Msgs) /\ << >> \in Seq(Msgs \ Garbage) /\ Len(<< >>) = 0  OBVIOUS
  <2>3. TypeOK'
    BY <1>17, <2>1, <2>2 DEF Crash, Typed, TypeOK, AllExited, None
  <2>4. \A c \in Consumers : cpc'[c] = "exited" /\ batch'[c] = << >>  BY <1>17 DEF Crash
  <2>5. /\ cpc' \in [Consumers -> {"exited", "loop", "poll", "next", "push"}]
        /\ batch' \in [Consumers -> Seq(Msgs)]
        /\ wpc' \in [Workers -> {"exited", "loop", "pop", "process"}]
        /\ hand' \in [Workers -> Nat] /\ 0 \in 0 .. 0
    BY <1>17, <2>2 DEF Crash, None
  <2>6. /\ committed' \in Nat /\ logEnd' = logEnd /\ queue' = << >> /\ delivered' = << >>
        /\ consumed' = 0 /\ processed' = 0 /\ dropped' = {} /\ phase' = "idle" /\ running' = FALSE
        /\ position' = 0 /\ requested' = 0 /\ base' = 0
    BY <1>17 DEF Crash, Typed
  <2>7. QED  BY <2>1, <2>2, <2>3, <2>4, <2>5, <2>6 DEF Typed
<1>18. CASE UNCHANGED vars
  BY <1>18 DEF vars, Typed, TypeOK, AllExited, threadVars, kafkaVars, statVars, bookVars
<1>19. QED
  BY <1>2, <1>3, <1>4, <1>5, <1>6, <1>7, <1>8, <1>9, <1>10, <1>11, <1>12, <1>13, <1>14, <1>15,
     <1>16, <1>17, <1>18
  DEF Next, Consumer, Worker, StartFails, PushRetry

\* Types and places, for any number of threads and any topic.
THEOREM StreamTyped == Spec => []Typed
BY InitTyped, NextTyped, PTL DEF Spec

-----------------------------------------------------------------------------
(* Each event in one place *)

\* The consumers with m in their batch.
Holders(m) == {c \in Consumers : m \in ToSet(batch[c])}

\* Each event polled is in one place, once, and nothing else is anywhere.
Held ==
    \A m \in Msgs \ Garbage : Holdings(m) = IF m \in base .. position - 1 THEN 1 ELSE 0

\* An event's places, as numbers.
LEMMA HoldingsParts ==
    ASSUME Typed, NEW m
    PROVE  /\ Holdings(m) = Cardinality(Holders(m)) + Cardinality(Places(queue, m))
                             + Cardinality(Places(delivered, m)) + (IF m \in dropped THEN 1 ELSE 0)
           /\ IsFiniteSet(Holders(m)) /\ Cardinality(Holders(m)) \in Nat
           /\ Cardinality(Places(queue, m)) \in Nat
           /\ Cardinality(Places(delivered, m)) \in Nat
<1>1. IsFiniteSet(Holders(m)) /\ Cardinality(Holders(m)) \in Nat
  <2>1. Holders(m) \in SUBSET Consumers  BY DEF Holders
  <2>2. QED  BY <2>1, StreamAssumption, FS_Subset, FS_CardinalityType
<1>2. /\ Cardinality(Places(queue, m)) \in Nat
      /\ Cardinality(Places(delivered, m)) \in Nat
  BY PlacesFinite DEF Typed
<1>3. QED  BY <1>1, <1>2 DEF Holdings, Holders, Places

\* When a consumer drops the first message of its batch, that message loses a
\* holder and no other does.
LEMMA HoldersTail ==
    ASSUME Typed, NEW c \in Consumers, batch[c] # << >>,
           batch' = [batch EXCEPT ![c] = Tail(batch[c])], NEW m
    PROVE  /\ Cardinality(Holders(m))' =
                  Cardinality(Holders(m)) - (IF m = Head(batch[c]) THEN 1 ELSE 0)
           /\ c \in Holders(Head(batch[c]))
<1>1. /\ ToSet(Tail(batch[c])) = ToSet(batch[c]) \ {Head(batch[c])}
      /\ Head(batch[c]) \in ToSet(batch[c])
  <2>1. batch[c] \in Seq(Msgs) /\ NoRepeat(batch[c])  BY DEF Typed
  <2>2. QED  BY <2>1, NoRepeatTail
<1>2. \A d \in Consumers : batch'[d] = IF d = c THEN Tail(batch[c]) ELSE batch[d]
  BY DEF Typed
<1>3. Holders(m)' = IF m = Head(batch[c]) THEN Holders(m) \ {c} ELSE Holders(m)
  BY <1>1, <1>2 DEF Holders
<1>4. c \in Holders(Head(batch[c]))  BY <1>1 DEF Holders
<1>5. IsFiniteSet(Holders(m)) /\ Cardinality(Holders(m)) \in Nat  BY HoldingsParts
<1>6. CASE m = Head(batch[c])
  <2>1. Cardinality(Holders(m) \ {c}) = Cardinality(Holders(m)) - 1
    BY <1>4, <1>5, <1>6, FS_RemoveElement
  <2>2. QED  BY <1>3, <1>4, <1>6, <2>1
<1>7. CASE m # Head(batch[c])  BY <1>3, <1>4, <1>5, <1>7
<1>8. QED  BY <1>6, <1>7

\* An event in a batch has not been given up on.
LEMMA HeldNotDropped ==
    ASSUME Typed, Held, NEW c \in Consumers, batch[c] # << >>,
           Head(batch[c]) \in Msgs \ Garbage
    PROVE  Head(batch[c]) \notin dropped
<1> DEFINE m == Head(batch[c])
<1>1. c \in Holders(m)
  <2>1. batch[c] \in Seq(Msgs) /\ NoRepeat(batch[c])  BY DEF Typed
  <2>2. QED  BY <2>1, NoRepeatTail DEF Holders
<1>2. Cardinality(Holders(m)) # 0  BY <1>1, HoldingsParts, FS_EmptySet
<1>3. Holdings(m) = 0 \/ Holdings(m) = 1  BY DEF Held
<1>4. QED  BY <1>2, <1>3, HoldingsParts

\* Nothing has been polled at the start.
LEMMA InitHeld == Init => Held
<1>1. SUFFICES ASSUME Init, NEW m \in Msgs \ Garbage
               PROVE  Holdings(m) = IF m \in base .. position - 1 THEN 1 ELSE 0
  BY DEF Held
<1>2. Typed  BY <1>1, InitTyped
<1>3. Holders(m) = {} /\ Places(queue, m) = {} /\ Places(delivered, m) = {}
  BY <1>1 DEF Init, EventQueue!Init, Holders, Places, ToSet
<1>4. m \notin base .. position - 1 /\ m \notin dropped  BY <1>1 DEF Init, Msgs
<1>5. /\ Cardinality(Holders(m)) = 0 /\ Cardinality(Places(queue, m)) = 0
      /\ Cardinality(Places(delivered, m)) = 0
  BY <1>3, FS_EmptySet
<1>6. Holdings(m) = 0 + 0 + 0 + 0  BY <1>2, <1>4, <1>5, HoldingsParts
<1>7. QED  BY <1>4, <1>6

\* Every step moves an event from one place to another, or none.
LEMMA NextHeld == Typed /\ Held /\ [Next]_vars => Held'
<1>1. SUFFICES ASSUME Typed, Held, [Next]_vars PROVE Held'  OBVIOUS
<1> USE <1>1
<1>2. Typed'  BY NextTyped
<1>3. ASSUME UNCHANGED <<batch, queue, delivered, dropped, base, position>> PROVE Held'
  BY <1>3 DEF Held, Holdings
<1>4. CASE Start
  <2>1. SUFFICES ASSUME NEW m \in Msgs \ Garbage
                 PROVE  Holdings(m)' = IF m \in base' .. position' - 1 THEN 1 ELSE 0
    BY DEF Held
  <2>2. Holdings(m)' = Holdings(m)  BY <1>4 DEF Start, Holdings
  <2>3. m \in base' .. position' - 1 <=> m \in base .. position - 1
    BY <1>4 DEF Start, StartOffset, Typed, Msgs
  <2>4. QED  BY <2>2, <2>3 DEF Held
<1>5. CASE Stop \/ Joined \/ CheckpointExits \/ CommitAnswered \/ Produce
  BY <1>3, <1>5
  DEF Stop, Joined, CheckpointExits, CommitAnswered, Produce, threadVars, kafkaVars, bookVars
<1>6. ASSUME NEW c \in Consumers,
             BatchComplete(c) \/ PushRetry(c) \/ CommitAsync(c) \/ ConsumerExits(c)
      PROVE  Held'
  BY <1>3, <1>6
  DEF BatchComplete, PushRetry, CommitAsync, ConsumerExits, kafkaVars, bookVars, vars, threadVars
<1>7. ASSUME NEW w \in Workers, WorkerEnters(w) \/ PopEmpty(w) \/ WorkerExits(w) \/ Process(w)
      PROVE  Held'
  BY <1>3, <1>7 DEF WorkerEnters, PopEmpty, WorkerExits, Process, kafkaVars, bookVars
<1>8. ASSUME NEW c \in Consumers, Poll(c) PROVE Held'
  <2>1. SUFFICES ASSUME NEW m \in Msgs \ Garbage
                 PROVE  Holdings(m)' = IF m \in base' .. position' - 1 THEN 1 ELSE 0
    BY DEF Held
  <2>2. phase # "idle"  BY <1>8 DEF Poll, Typed, TypeOK, AllExited
  <2>3. position \in Msgs  BY <1>8, <2>2, StreamAssumption DEF Poll, Typed, Msgs
  <2>4. /\ batch' = [batch EXCEPT ![c] = Append(batch[c], position)]
        /\ UNCHANGED <<queue, delivered, dropped, base>> /\ position' = position + 1
    BY <1>8 DEF Poll
  <2>5. ToSet(Append(batch[c], position)) = ToSet(batch[c]) \cup {position}
    BY <2>3, ToSetAppend DEF Typed
  <2>6. \A d \in Consumers : ToSet(batch'[d]) =
            IF d = c THEN ToSet(batch[d]) \cup {position} ELSE ToSet(batch[d])
    BY <2>4, <2>5 DEF Typed
  <2>7. CASE m = position
    <3>1. Holders(m) = {}  BY <2>7 DEF Holders, Typed
    <3>2. Holders(m)' = {c}  BY <2>6, <2>7, <3>1 DEF Holders
    <3>3. Cardinality(Holders(m)) = 0 /\ Cardinality(Holders(m)') = 1
      BY <3>1, <3>2, FS_EmptySet, FS_Singleton
    <3>4. m \notin base .. position - 1 /\ m \in base' .. position' - 1
      BY <2>4, <2>7 DEF Typed
    <3>5. Holdings(m) = 0  BY <3>4 DEF Held
    <3>6. Holdings(m)' = Holdings(m) + 1
      <4>1. Holdings(m)' = Cardinality(Holders(m)') + Cardinality(Places(queue, m))
                + Cardinality(Places(delivered, m)) + (IF m \in dropped THEN 1 ELSE 0)
        BY <2>4 DEF Holdings, Holders, Places
      <4>2. QED  BY <3>3, <4>1, HoldingsParts
    <3>7. QED  BY <3>4, <3>5, <3>6
  <2>8. CASE m # position
    <3>1. Holders(m)' = Holders(m)  BY <2>6, <2>8 DEF Holders
    <3>2. Holdings(m)' = Holdings(m)  BY <2>4, <3>1 DEF Holdings, Holders
    <3>3. m \in base' .. position' - 1 <=> m \in base .. position - 1
      BY <2>4, <2>8 DEF Typed, Msgs
    <3>4. QED  BY <3>2, <3>3 DEF Held
  <2>9. QED  BY <2>7, <2>8
<1>9. ASSUME NEW c \in Consumers, TakeFromBatch(c) PROVE Held'
  <2>1. SUFFICES ASSUME NEW m \in Msgs \ Garbage PROVE Holdings(m)' = Holdings(m)
    BY <1>9 DEF Held, TakeFromBatch, kafkaVars, bookVars
  <2>2. UNCHANGED <<queue, delivered, dropped>> /\ batch[c] # << >>
    BY <1>9 DEF TakeFromBatch, bookVars
  <2>3. CASE Head(batch[c]) \in Garbage
    <3>1. m # Head(batch[c]) /\ batch' = [batch EXCEPT ![c] = Tail(batch[c])]
      BY <1>9, <2>3 DEF TakeFromBatch
    <3>2. Cardinality(Holders(m))' = Cardinality(Holders(m))
      <4>1. Cardinality(Holders(m))' =
                Cardinality(Holders(m)) - (IF m = Head(batch[c]) THEN 1 ELSE 0)
        BY <2>2, <3>1, HoldersTail
      <4>2. Cardinality(Holders(m)) \in Nat  BY HoldingsParts
      <4>3. QED  BY <3>1, <4>1, <4>2
    <3>3. QED  BY <2>2, <3>2 DEF Holdings, Holders
  <2>4. CASE Head(batch[c]) \notin Garbage
    BY <1>9, <2>2, <2>4 DEF TakeFromBatch, Holdings
  <2>5. QED  BY <2>3, <2>4
<1>10. ASSUME NEW c \in Consumers, Push(c) PROVE Held'
  <2>1. SUFFICES ASSUME NEW m \in Msgs \ Garbage PROVE Holdings(m)' = Holdings(m)
    BY <1>10 DEF Held, Push, kafkaVars, bookVars
  <2>2. /\ batch[c] # << >> /\ Head(batch[c]) \in Msgs \ Garbage
        /\ batch' = [batch EXCEPT ![c] = Tail(batch[c])]
        /\ queue' = Append(queue, Head(batch[c])) /\ UNCHANGED <<delivered, dropped>>
    BY <1>10 DEF Push, AfterPush, EventQueue!Put, Typed, bookVars
  <2>3. Cardinality(Holders(m))' =
            Cardinality(Holders(m)) - (IF m = Head(batch[c]) THEN 1 ELSE 0)
    BY <2>2, HoldersTail
  <2>4. Cardinality(Places(queue', m)) =
            Cardinality(Places(queue, m)) + (IF Head(batch[c]) = m THEN 1 ELSE 0)
    <3>1. queue \in Seq(Msgs \ Garbage)  BY DEF Typed
    <3>2. QED  BY <2>2, <3>1, PlacesAppend
  <2>5. Holdings(m)' = Cardinality(Holders(m))' + Cardinality(Places(queue', m))
            + Cardinality(Places(delivered, m)) + (IF m \in dropped THEN 1 ELSE 0)
    BY <2>2 DEF Holdings, Holders, Places
  <2>6. QED  BY <2>3, <2>4, <2>5, HoldingsParts
<1>11. ASSUME NEW c \in Consumers, PushRefused(c) PROVE Held'
  <2>1. SUFFICES ASSUME NEW m \in Msgs \ Garbage PROVE Holdings(m)' = Holdings(m)
    BY <1>11 DEF Held, PushRefused, kafkaVars
  <2>2. /\ batch[c] # << >> /\ Head(batch[c]) \in Msgs \ Garbage
        /\ batch' = [batch EXCEPT ![c] = Tail(batch[c])]
        /\ dropped' = dropped \cup {Head(batch[c])} /\ UNCHANGED <<queue, delivered>>
    BY <1>11 DEF PushRefused, Typed
  <2>3. Cardinality(Holders(m))' =
            Cardinality(Holders(m)) - (IF m = Head(batch[c]) THEN 1 ELSE 0)
    BY <2>2, HoldersTail
  <2>4. Head(batch[c]) \notin dropped  BY <2>2, HeldNotDropped
  <2>5. (IF m \in dropped' THEN 1 ELSE 0) =
            (IF m \in dropped THEN 1 ELSE 0) + (IF m = Head(batch[c]) THEN 1 ELSE 0)
    BY <2>2, <2>4
  <2>6. Holdings(m)' = Cardinality(Holders(m))' + Cardinality(Places(queue, m))
            + Cardinality(Places(delivered, m)) + (IF m \in dropped' THEN 1 ELSE 0)
    BY <2>2 DEF Holdings, Holders, Places
  <2>7. QED  BY <2>3, <2>5, <2>6, HoldingsParts
<1>12. ASSUME NEW w \in Workers, Pop(w) PROVE Held'
  <2>1. SUFFICES ASSUME NEW m \in Msgs \ Garbage PROVE Holdings(m)' = Holdings(m)
    BY <1>12 DEF Held, Pop, kafkaVars, bookVars
  <2>2. /\ queue # << >> /\ queue' = Tail(queue) /\ Head(queue) \in Msgs \ Garbage
        /\ delivered' = Append(delivered, Head(queue)) /\ UNCHANGED <<batch, dropped>>
    BY <1>12 DEF Pop, EventQueue!Take, Typed, bookVars
  <2>3. Cardinality(Places(queue', m)) =
            Cardinality(Places(queue, m)) - (IF Head(queue) = m THEN 1 ELSE 0)
    BY <2>2, PlacesTail DEF Typed
  <2>4. Cardinality(Places(delivered', m)) =
            Cardinality(Places(delivered, m)) + (IF Head(queue) = m THEN 1 ELSE 0)
    BY <2>2, PlacesAppend DEF Typed
  <2>5. Holdings(m)' = Cardinality(Holders(m)) + Cardinality(Places(queue', m))
            + Cardinality(Places(delivered', m)) + (IF m \in dropped THEN 1 ELSE 0)
    BY <2>2 DEF Holdings, Holders, Places
  <2>6. QED  BY <2>3, <2>4, <2>5, HoldingsParts
<1>13. CASE Crash
  <2>1. SUFFICES ASSUME NEW m \in Msgs \ Garbage
                 PROVE  Holdings(m)' = IF m \in base' .. position' - 1 THEN 1 ELSE 0
    BY DEF Held
  <2>2. /\ \A c \in Consumers : ToSet(batch'[c]) = {}
        /\ queue' = << >> /\ delivered' = << >> /\ dropped' = {} /\ base' = 0 /\ position' = 0
    BY <1>13 DEF Crash, ToSet
  <2>3. /\ {c \in Consumers : m \in ToSet(batch'[c])} = {}
        /\ {i \in DOMAIN queue' : queue'[i] = m} = {}
        /\ {i \in DOMAIN delivered' : delivered'[i] = m} = {}
    BY <2>2
  <2>4. Holdings(m)' = 0
    <3>1. Holdings(m)' = 0 + 0 + 0 + 0
      <4>1. Cardinality({}) = 0 /\ m \notin dropped'  BY <2>2, FS_EmptySet
      <4>2. QED  BY <2>3, <4>1 DEF Holdings
    <3>2. QED  BY <3>1
  <2>5. m \notin base' .. position' - 1  BY <2>2 DEF Msgs
  <2>6. QED  BY <2>4, <2>5
<1>14. CASE UNCHANGED vars
  BY <1>3, <1>14 DEF vars, threadVars, kafkaVars, bookVars
<1>15. CASE StartFails  BY <1>14, <1>15 DEF StartFails
<1>16. QED
  BY <1>4, <1>5, <1>6, <1>7, <1>8, <1>9, <1>10, <1>11, <1>12, <1>13, <1>14, <1>15
  DEF Next, Consumer, Worker

\* Between poll and the engine no event is lost silently or duplicated.
THEOREM EventsHeldOnce == Spec => []HeldOnce
<1>1. Spec => []Held
  BY InitHeld, NextHeld, StreamTyped, PTL DEF Spec
<1>2. Typed /\ Held => HeldOnce  BY DEF Typed, Held, HeldOnce
<1>3. QED  BY <1>1, <1>2, StreamTyped, PTL

-----------------------------------------------------------------------------
(* The statistics *)

\* Consumers with a counted event in hand, and workers with an event in hand.
Pushing    == {c \in Consumers : cpc[c] = "push"}
Processing == {w \in Workers : wpc[w] = "process"}

\* The sets that StatsAgree counts are finite.
LEMMA StatsFinite ==
    ASSUME Typed
    PROVE  /\ IsFiniteSet(Pushing) /\ Cardinality(Pushing) \in Nat
           /\ IsFiniteSet(Processing) /\ Cardinality(Processing) \in Nat
           /\ IsFiniteSet(dropped) /\ Cardinality(dropped) \in Nat
           /\ Len(queue) \in Nat /\ consumed \in Nat /\ processed \in Nat
           /\ StatsAgree <=> consumed - processed =
                  Cardinality(Pushing) + Len(queue) + Cardinality(Processing) + Cardinality(dropped)
<1>1. IsFiniteSet(Pushing) /\ Cardinality(Pushing) \in Nat
  <2>1. Pushing \in SUBSET Consumers  BY DEF Pushing
  <2>2. QED  BY <2>1, StreamAssumption, FS_Subset, FS_CardinalityType
<1>2. IsFiniteSet(Processing) /\ Cardinality(Processing) \in Nat
  <2>1. Processing \in SUBSET Workers  BY DEF Processing
  <2>2. QED  BY <2>1, StreamAssumption, FS_Subset, FS_CardinalityType
<1>3. IsFiniteSet(dropped) /\ Cardinality(dropped) \in Nat
  <2>1. dropped \in SUBSET (1 .. MaxMsgs)  BY DEF Typed, Msgs
  <2>2. IsFiniteSet(1 .. MaxMsgs)  BY StreamAssumption, FS_Interval
  <2>3. QED  BY <2>1, <2>2, FS_Subset, FS_CardinalityType
<1>4. Len(queue) \in Nat /\ consumed \in Nat /\ processed \in Nat  BY DEF Typed
<1>5. QED  BY <1>1, <1>2, <1>3, <1>4 DEF StatsAgree, Pushing, Processing

\* A processor that has not started has counted nothing.
LEMMA InitStats == Init => StatsAgree
<1>1. SUFFICES ASSUME Init PROVE StatsAgree  OBVIOUS
<1>2. /\ Pushing = {} /\ Processing = {} /\ dropped = {}
      /\ queue = << >> /\ consumed = 0 /\ processed = 0
  BY <1>1 DEF Init, EventQueue!Init, Pushing, Processing
<1>3. Cardinality(Pushing) = 0 /\ Cardinality(Processing) = 0 /\ Cardinality(dropped) = 0
      /\ Len(queue) = 0
  BY <1>2, FS_EmptySet
<1>4. consumed - processed = 0 + 0 + 0 + 0  BY <1>2
<1>5. QED  BY <1>1, <1>3, <1>4, InitTyped, StatsFinite

\* Every step keeps the balance of consumed and processed events.
LEMMA NextStats == Typed /\ Held /\ StatsAgree /\ [Next]_vars => StatsAgree'
<1>1. SUFFICES ASSUME Typed, Held, StatsAgree, [Next]_vars PROVE StatsAgree'  OBVIOUS
<1> USE <1>1
<1>2. /\ StatsAgree' <=> consumed' - processed' =
             Cardinality(Pushing') + Len(queue') + Cardinality(Processing') + Cardinality(dropped')
      /\ consumed' \in Nat /\ processed' \in Nat
  <2>1. consumed' \in Nat /\ processed' \in Nat  BY NextTyped DEF Typed
  <2>2. QED  BY <2>1 DEF StatsAgree, Pushing, Processing
<1>3. /\ IsFiniteSet(Pushing) /\ Cardinality(Pushing) \in Nat
      /\ IsFiniteSet(Processing) /\ Cardinality(Processing) \in Nat
      /\ IsFiniteSet(dropped) /\ Cardinality(dropped) \in Nat
      /\ Len(queue) \in Nat /\ consumed \in Nat /\ processed \in Nat
      /\ consumed - processed =
             Cardinality(Pushing) + Len(queue) + Cardinality(Processing) + Cardinality(dropped)
  BY StatsFinite
<1>4. ASSUME UNCHANGED <<queue, dropped, consumed, processed>>,
             Pushing' = Pushing, Processing' = Processing
      PROVE  StatsAgree'
  BY <1>2, <1>3, <1>4
<1>5. CASE Start
  <2>1. Pushing' = Pushing /\ Processing' = Processing
    BY <1>5 DEF Start, Typed, TypeOK, AllExited, Pushing, Processing
  <2>2. QED  BY <1>4, <1>5, <2>1 DEF Start, statVars
<1>6. CASE Stop \/ Joined \/ CheckpointExits \/ CommitAnswered \/ Produce
  <2>1. UNCHANGED <<queue, dropped, consumed, processed, cpc, wpc>>
    BY <1>6
    DEF Stop, Joined, CheckpointExits, CommitAnswered, Produce, threadVars, statVars, bookVars
  <2>2. QED  BY <1>4, <2>1 DEF Pushing, Processing
<1>7. ASSUME NEW c \in Consumers,
             Poll(c) \/ BatchComplete(c) \/ CommitAsync(c) \/ ConsumerExits(c)
      PROVE  StatsAgree'
  <2>1. /\ UNCHANGED <<queue, dropped, consumed, processed, wpc>> /\ cpc[c] # "push"
        /\ cpc'[c] # "push"
        /\ \A d \in Consumers : d # c => cpc'[d] = cpc[d]
    BY <1>7 DEF Poll, BatchComplete, CommitAsync, ConsumerExits, statVars, bookVars, Typed
  <2>2. Pushing' = Pushing  BY <2>1 DEF Pushing
  <2>3. QED  BY <1>4, <2>1, <2>2 DEF Processing
<1>8. ASSUME NEW w \in Workers, WorkerEnters(w) \/ PopEmpty(w) \/ WorkerExits(w)
      PROVE  StatsAgree'
  <2>1. /\ UNCHANGED <<queue, dropped, consumed, processed, cpc>> /\ wpc[w] # "process"
        /\ wpc'[w] # "process"
        /\ \A v \in Workers : v # w => wpc'[v] = wpc[v]
    BY <1>8 DEF WorkerEnters, PopEmpty, WorkerExits, statVars, bookVars, Typed
  <2>2. Processing' = Processing  BY <2>1 DEF Processing
  <2>3. QED  BY <1>4, <2>1, <2>2 DEF Pushing
<1>9. ASSUME NEW c \in Consumers, TakeFromBatch(c) PROVE StatsAgree'
  <2>1. UNCHANGED <<queue, dropped, processed, wpc>> /\ cpc[c] = "next"
    BY <1>9 DEF TakeFromBatch, bookVars
  <2>2. Processing' = Processing  BY <2>1 DEF Processing
  <2>3. CASE Head(batch[c]) \in Garbage
    <3>1. cpc' = cpc /\ consumed' = consumed  BY <1>9, <2>3 DEF TakeFromBatch, ConsumedAfter
    <3>2. Pushing' = Pushing  BY <3>1 DEF Pushing
    <3>3. QED  BY <1>4, <2>1, <2>2, <3>1, <3>2
  <2>4. CASE Head(batch[c]) \notin Garbage
    <3>1. cpc' = [cpc EXCEPT ![c] = "push"] /\ consumed' = consumed + 1
      BY <1>9, <2>4 DEF TakeFromBatch, ConsumedAfter
    <3>2. Pushing' = Pushing \cup {c} /\ c \notin Pushing
      BY <2>1, <3>1 DEF Pushing, Typed
    <3>3. Cardinality(Pushing') = Cardinality(Pushing) + 1  BY <1>3, <3>2, FS_AddElement
    <3>4. QED  BY <1>2, <1>3, <2>1, <2>2, <3>1, <3>3
  <2>5. QED  BY <2>3, <2>4
<1>10. ASSUME NEW c \in Consumers, Push(c) \/ PushRefused(c) PROVE StatsAgree'
  <2>1. /\ cpc[c] = "push" /\ cpc' = [cpc EXCEPT ![c] = "next"]
        /\ UNCHANGED <<wpc, consumed, processed>>
    BY <1>10 DEF Push, AfterPush, PushRefused, statVars
  <2>2. Pushing' = Pushing \ {c} /\ c \in Pushing  BY <2>1 DEF Pushing, Typed
  <2>3. Cardinality(Pushing') = Cardinality(Pushing) - 1  BY <1>3, <2>2, FS_RemoveElement
  <2>4. Processing' = Processing  BY <2>1 DEF Processing
  <2>5. batch[c] # << >> /\ Head(batch[c]) \in Msgs \ Garbage
    BY <2>1 DEF Typed
  <2>6. CASE Push(c)
    <3>1. queue' = Append(queue, Head(batch[c])) /\ dropped' = dropped
      BY <2>6 DEF Push, EventQueue!Put, bookVars
    <3>2. Len(queue') = Len(queue) + 1
      <4>1. queue \in Seq(Msgs \ Garbage)  BY DEF Typed
      <4>2. QED  BY <2>5, <3>1, <4>1
    <3>3. QED  BY <1>2, <1>3, <2>1, <2>3, <2>4, <3>1, <3>2
  <2>7. CASE PushRefused(c)
    <3>1. queue' = queue /\ dropped' = dropped \cup {Head(batch[c])}
      BY <2>7 DEF PushRefused
    <3>2. Head(batch[c]) \notin dropped  BY <2>5, HeldNotDropped
    <3>3. Cardinality(dropped') = Cardinality(dropped) + 1
      BY <1>3, <3>1, <3>2, FS_AddElement
    <3>4. QED  BY <1>2, <1>3, <2>1, <2>3, <2>4, <3>1, <3>3
  <2>8. QED  BY <1>10, <2>6, <2>7
<1>11. ASSUME NEW w \in Workers, Pop(w) PROVE StatsAgree'
  <2>1. /\ queue # << >> /\ queue' = Tail(queue) /\ wpc[w] = "pop"
        /\ wpc' = [wpc EXCEPT ![w] = "process"]
        /\ UNCHANGED <<cpc, dropped, consumed, processed>>
    BY <1>11 DEF Pop, EventQueue!Take, statVars, bookVars
  <2>2. Len(queue') = Len(queue) - 1
    <3>1. queue \in Seq(Msgs \ Garbage)  BY DEF Typed
    <3>2. QED  BY <2>1, <3>1
  <2>3. Processing' = Processing \cup {w} /\ w \notin Processing
    BY <2>1 DEF Processing, Typed
  <2>4. Cardinality(Processing') = Cardinality(Processing) + 1
    BY <1>3, <2>3, FS_AddElement
  <2>5. Pushing' = Pushing  BY <2>1 DEF Pushing
  <2>6. QED  BY <1>2, <1>3, <2>1, <2>2, <2>4, <2>5
<1>12. ASSUME NEW w \in Workers, Process(w) PROVE StatsAgree'
  <2>1. /\ wpc[w] = "process" /\ wpc' = [wpc EXCEPT ![w] = "loop"] /\ processed' = processed + 1
        /\ UNCHANGED <<cpc, queue, dropped, consumed>>
    BY <1>12 DEF Process
  <2>2. Processing' = Processing \ {w} /\ w \in Processing
    BY <2>1 DEF Processing, Typed
  <2>3. Cardinality(Processing') = Cardinality(Processing) - 1
    BY <1>3, <2>2, FS_RemoveElement
  <2>4. Pushing' = Pushing  BY <2>1 DEF Pushing
  <2>5. /\ consumed' - processed' = (consumed - processed) - 1
        /\ Len(queue') = Len(queue) /\ Cardinality(dropped') = Cardinality(dropped)
        /\ Cardinality(Pushing') = Cardinality(Pushing)
    BY <1>3, <2>1, <2>4
  <2>6. \A i, j, k, l, n \in Int :
            i = j + k + l + n => i - 1 = j + k + (l - 1) + n
    OBVIOUS
  <2>7. consumed - processed \in Int
    BY <1>3
  <2>8. (consumed - processed) - 1
          = Cardinality(Pushing) + Len(queue) + (Cardinality(Processing) - 1) + Cardinality(dropped)
    <3> DEFINE i == consumed - processed
               j == Cardinality(Pushing)
               k == Len(queue)
               l == Cardinality(Processing)
               n == Cardinality(dropped)
    <3>1. i \in Int /\ j \in Int /\ k \in Int /\ l \in Int /\ n \in Int
      BY <1>3, <2>7
    <3>2. i = j + k + l + n  BY <1>3
    <3> HIDE DEF i, j, k, l, n
    <3>3. i - 1 = j + k + (l - 1) + n  BY <2>6, <3>1, <3>2
    <3>4. QED  BY <3>3 DEF i, j, k, l, n
  <2>9. QED  BY <1>2, <2>3, <2>5, <2>8, Zenon
<1>13. CASE Crash
  <2>1. /\ Pushing' = {} /\ Processing' = {} /\ dropped' = {}
        /\ queue' = << >> /\ consumed' = 0 /\ processed' = 0
    BY <1>13 DEF Crash, Pushing, Processing
  <2>2. /\ Cardinality(Pushing') = 0 /\ Cardinality(Processing') = 0
        /\ Cardinality(dropped') = 0 /\ Len(queue') = 0
    BY <2>1, FS_EmptySet
  <2>3. /\ consumed' - processed' = 0
        /\ Cardinality(Pushing') + Len(queue') + Cardinality(Processing') + Cardinality(dropped') = 0
    <3>1. 0 + 0 + 0 + 0 = 0 /\ 0 - 0 = 0  OBVIOUS
    <3>2. QED  BY <2>1, <2>2, <3>1, Zenon
  <2>4. QED  BY <1>2, <2>3, Zenon
<1>14. CASE UNCHANGED vars
  <2>1. UNCHANGED <<queue, dropped, consumed, processed, cpc, wpc>>
    BY <1>14 DEF vars, threadVars, statVars, bookVars
  <2>2. QED  BY <1>4, <2>1 DEF Pushing, Processing
<1>15. ASSUME NEW c \in Consumers, PushRetry(c) PROVE StatsAgree'
  BY <1>14, <1>15 DEF PushRetry
<1>16. CASE StartFails  BY <1>14, <1>16 DEF StartFails
<1>17. QED
  BY <1>5, <1>6, <1>7, <1>8, <1>9, <1>10, <1>11, <1>12, <1>13, <1>14, <1>15, <1>16
  DEF Next, Consumer, Worker

\* The statistics account for every event, whatever the interleaving.
THEOREM StatisticsAgree == Spec => []StatsAgree
<1>1. Spec => []Held
  BY InitHeld, NextHeld, StreamTyped, PTL DEF Spec
<1>2. QED  BY <1>1, InitStats, NextStats, StreamTyped, PTL DEF Spec
=============================================================================
