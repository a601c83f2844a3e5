---------------------- MODULE CorrelationEngineProofs ----------------------
(***************************************************************************)
(* The correlation engine's properties, for any number of workers, rules   *)
(* and keys, any rule bodies and either choice of WriterPriority: its      *)
(* types and locks first, then on top of them one invariant for the ids of *)
(* the alerts, one for what an event counts towards, one for the windows   *)
(* of the alerts and one for the alerts that must not be missed.           *)
(***************************************************************************)
EXTENDS CorrelationEngine, FiniteSetTheorems, WellFoundedInduction, TLAPS

EventSet == [id : Nat, ts : Int, action : Actions \cup {Nil}, src : Keys \cup {Nil}]
KeyStates == [last_seen : Int, timestamps : Seq(EventSet), events : Seq(EventSet)]
AlertSet == [id : Nat \ {0}, rule : RuleIds, key : AggKeys, window : Nat, ts : Int,
             matched : Seq(EventSet), match_count : Nat, triggering : SUBSET EventSet]

\* Types, with what the properties' TypeOK leaves out, and: an alert is filled in
\* only by the worker that holds state_mutex_.
Typed ==
    /\ TypeOK
    /\ DOMAIN state = RuleIds
    /\ \A r \in RuleIds : \A k \in DOMAIN state[r] : state[r][k] \in KeyStates
    /\ seen \in [RuleIds -> [AggKeys -> SUBSET EventSet]]
    /\ pc \in [Workers -> {"idle", "scan", "alert"}]
    /\ event \in [Workers -> EventSet \cup {Nil}]
    /\ todo \in [Workers -> SUBSET RuleIds]
    /\ alerts \in [Workers -> Seq(AlertSet)]
    /\ pending \in [Workers -> AlertSet \cup {NoAlert}]
    /\ returned \subseteq AlertSet
    /\ wait \in [rule : RuleIds, body : RuleDefs \cup {Nil}] \cup {Nil}
    /\ sweep \in (SUBSET RuleIds) \cup {Nil}
    /\ alertsGenerated \in Nat /\ nextId \in Nat /\ now \in Nat /\ cutoffNow \in Nat
    /\ \A w \in Workers : /\ pc[w] # "idle" => event[w] \in EventSet
                          /\ pc[w] = "idle" => todo[w] = {}
                          /\ pc[w] = "alert" => stateLock = w

\* The timestamps recorded for key k of rule id r.
Stamps(r, k) == KeyState(r, k).timestamps

-----------------------------------------------------------------------------
(* Sequences of events *)

\* Every non-empty set of numbers has a least element.
LEMMA LeastNumber ==
    ASSUME NEW T \in SUBSET Nat, T # {}
    PROVE  \E n \in T : \A m \in T : n <= m
<1> DEFINE R == StrictSubsetOrdering(Nat)
           I == {0 .. n : n \in T}
<1>1. IsWellFoundedOn(R, FiniteSubsetsOf(Nat))
  BY FS_StrictSubsetOrderingWellFounded
<1>2. I \subseteq FiniteSubsetsOf(Nat) /\ I # {}
  <2>1. \A n \in T : IsFiniteSet(0 .. n) /\ 0 .. n \in SUBSET Nat  BY FS_Interval
  <2>2. QED  BY <2>1 DEF FiniteSubsetsOf
<1>3. ASSUME NEW m \in T, NEW n \in T, m < n PROVE <<0 .. m, 0 .. n>> \in R
  <2>1. n \in 0 .. n /\ n \notin 0 .. m /\ 0 .. m \subseteq 0 .. n  BY <1>3
  <2>2. 0 .. m \in SUBSET Nat /\ 0 .. n \in SUBSET Nat  OBVIOUS
  <2>3. QED  BY <2>1, <2>2 DEF StrictSubsetOrdering
<1> HIDE DEF R
<1>4. PICK S \in I : \A U \in I : ~ (<<U, S>> \in R)
  <2> HIDE DEF I
  <2>1. QED  BY <1>1, <1>2, WFMin
<1>5. PICK n \in T : S = 0 .. n  OBVIOUS
<1>6. \A m \in T : ~ (m < n)  BY <1>3, <1>4, <1>5
<1>7. QED  BY <1>6

\* Appending adds exactly one element.
LEMMA ToSetAppend ==
    ASSUME NEW S, NEW s \in Seq(S), NEW x \in S
    PROVE  /\ Append(s, x) \in Seq(S) /\ ToSet(Append(s, x)) = ToSet(s) \cup {x}
           /\ Append(s, x) # << >> /\ Last(Append(s, x)) = x
<1>1. /\ Append(s, x) \in Seq(S) /\ DOMAIN s = 1 .. Len(s) /\ Len(s) \in Nat
      /\ DOMAIN Append(s, x) = 1 .. Len(s) + 1
      /\ Len(Append(s, x)) = Len(s) + 1
      /\ \A i \in 1 .. Len(s) : Append(s, x)[i] = s[i]
      /\ Append(s, x)[Len(s) + 1] = x
  OBVIOUS
<1>2. ASSUME NEW i \in 1 .. Len(s) + 1 PROVE i \in 1 .. Len(s) \/ i = Len(s) + 1
  BY <1>1
<1>3. ASSUME NEW i \in 1 .. Len(s) PROVE i \in 1 .. Len(s) + 1
  BY <1>1
<1>4. Len(s) + 1 \in 1 .. Len(s) + 1  BY <1>1
<1>5. ToSet(Append(s, x)) = ToSet(s) \cup {x}
  BY <1>1, <1>2, <1>3, <1>4, Zenon DEF ToSet
<1>6. Append(s, x) # << >> /\ Last(Append(s, x)) = x  BY <1>1 DEF Last
<1>7. QED  BY <1>1, <1>5, <1>6

\* A sequence of events has finitely many elements, no more than its length.
LEMMA ToSetCardinality ==
    ASSUME NEW S, NEW s \in Seq(S)
    PROVE  IsFiniteSet(ToSet(s)) /\ Cardinality(ToSet(s)) <= Len(s)
<1>1. s \in [1 .. Len(s) -> ToSet(s)] /\ Len(s) \in Nat  BY DEF ToSet
<1>2. s \in Surjection(1 .. Len(s), ToSet(s))
  <2>1. DOMAIN s = 1 .. Len(s)  BY <1>1
  <2>2. \A x \in ToSet(s) : \E i \in 1 .. Len(s) : s[i] = x  BY <2>1 DEF ToSet
  <2>3. QED  BY <1>1, <2>2 DEF Surjection
<1>3. IsFiniteSet(1 .. Len(s)) /\ Cardinality(1 .. Len(s)) = Len(s)
  <2>1. ASSUME NEW n \in Nat
        PROVE  IsFiniteSet(1 .. n) /\ Cardinality(1 .. n) = n
    BY FS_Interval
  <2>2. QED  BY <1>1, <2>1
<1>4. QED  BY <1>2, <1>3, FS_Surjection

\* What is left by the loop that drops expired timestamps from the front: it
\* starts with one that is not expired, keeps the last one, and what it drops
\* is expired.
LEMMA PruneFrontKeeps ==
    ASSUME NEW s \in Seq(EventSet), NEW start \in Int, s # << >>, Last(s).ts >= start
    PROVE  LET p == PruneFront(s, start)
           IN  /\ p \in Seq(EventSet) /\ p # << >> /\ Last(p) = Last(s)
               /\ p[1].ts >= start
               /\ ToSet(p) \subseteq ToSet(s)
               /\ \A e \in ToSet(s) \ ToSet(p) : e.ts < start
<1> DEFINE kept == {i \in DOMAIN s : s[i].ts >= start}
           first == CHOOSE i \in kept : \A j \in kept : i <= j
           p == PruneFront(s, start)
<1>1. DOMAIN s = 1 .. Len(s) /\ Len(s) \in Nat \ {0}  OBVIOUS
<1>2. Len(s) \in kept  BY <1>1 DEF Last
<1>3. first \in kept /\ \A j \in kept : first <= j
  <2>1. kept \in SUBSET Nat /\ kept # {}  BY <1>1, <1>2
  <2> HIDE DEF kept
  <2>2. \E i \in kept : \A j \in kept : i <= j  BY <2>1, LeastNumber
  <2>3. QED  BY <2>2
<1>4. p = SubSeq(s, first, Len(s))  BY <1>2 DEF PruneFront
<1>5. /\ first \in 1 .. Len(s) /\ s[first].ts >= start
      /\ \A i \in 1 .. Len(s) : i < first => s[i].ts < start
  <2>1. \A i \in 1 .. Len(s) : s[i].ts \in Int
    <3>1. \A e \in EventSet : e.ts \in Int  BY DEF EventSet
    <3>2. QED  BY <1>1, <3>1
  <2>2. first \in 1 .. Len(s) /\ s[first].ts >= start  BY <1>1, <1>3
  <2>3. ASSUME NEW i \in 1 .. Len(s), i < first PROVE s[i].ts < start
    <3>1. i \notin kept
      <4> HIDE DEF kept, first
      <4>1. QED  BY <1>1, <1>3, <2>2, <2>3
    <3>2. ~ (s[i].ts >= start)  BY <1>1, <3>1
    <3>3. QED  BY <2>1, <3>2
  <2>4. QED  BY <2>2, <2>3
<1> HIDE DEF kept, first, p
<1>6. /\ p \in Seq(EventSet) /\ Len(p) = Len(s) - first + 1
      /\ DOMAIN p = 1 .. Len(s) - first + 1
      /\ \A i \in 1 .. Len(p) : p[i] = s[first + i - 1]
  BY <1>4, <1>5, <1>1
<1>7. p # << >> /\ Last(p) = Last(s) /\ p[1].ts >= start
  BY <1>1, <1>5, <1>6 DEF Last
<1>8. ToSet(p) \subseteq ToSet(s)
  <2>1. SUFFICES ASSUME NEW i \in 1 .. Len(p) PROVE p[i] \in ToSet(s)
    BY <1>6 DEF ToSet
  <2>2. first + i - 1 \in 1 .. Len(s)  BY <1>1, <1>5, <1>6
  <2>3. QED  BY <1>1, <1>6, <2>2 DEF ToSet
<1>9. ASSUME NEW e \in ToSet(s), e \notin ToSet(p) PROVE e.ts < start
  <2>1. PICK i \in 1 .. Len(s) : e = s[i]  BY <1>1 DEF ToSet
  <2>2. CASE i < first  BY <1>5, <2>1, <2>2
  <2>3. CASE i >= first
    <3>1. i - first + 1 \in 1 .. Len(p) /\ p[i - first + 1] = s[i]
      BY <1>1, <1>5, <1>6, <2>3
    <3>2. QED  BY <1>6, <1>9, <2>1, <3>1 DEF ToSet
  <2>4. QED  BY <1>5, <2>2, <2>3
<1>10. QED  BY <1>6, <1>7, <1>8, <1>9 DEF p

\* Timestamps recorded in order lie between the first and the last of them.
LEMMA InOrderBounds ==
    ASSUME NEW s \in Seq(EventSet), s # << >>, InOrder(s), NEW e \in ToSet(s)
    PROVE  /\ e.ts \in Int /\ s[1].ts \in Int /\ Last(s).ts \in Int
           /\ s[1].ts <= e.ts /\ e.ts <= Last(s).ts
<1>1. PICK i \in 1 .. Len(s) : e = s[i]  BY DEF ToSet
<1>2. \A x \in EventSet : x.ts \in Int  BY DEF EventSet
<1>3. DOMAIN s = 1 .. Len(s) /\ Len(s) \in Nat \ {0} /\ Last(s) = s[Len(s)]  BY DEF Last
<1>4. s[1] \in EventSet /\ s[Len(s)] \in EventSet /\ s[i] \in EventSet  BY <1>1, <1>3
<1>5. (i = Len(s) \/ i < Len(s)) /\ (i = 1 \/ 1 < i)
  <2>1. i \in 1 .. Len(s) /\ Len(s) \in Nat  BY <1>1, <1>3
  <2>2. QED  BY <2>1
<1>6. s[1].ts \in Int /\ s[i].ts \in Int /\ s[Len(s)].ts \in Int  BY <1>2, <1>4
<1>7. s[1].ts <= s[i].ts /\ s[i].ts <= s[Len(s)].ts
  <2>1. 1 \in DOMAIN s /\ i \in DOMAIN s /\ Len(s) \in DOMAIN s  BY <1>1, <1>3
  <2>2. i = 1 \/ s[1].ts <= s[i].ts  BY <1>5, <2>1 DEF InOrder
  <2>3. i = Len(s) \/ s[i].ts <= s[Len(s)].ts  BY <1>5, <2>1 DEF InOrder
  <2>4. QED  BY <1>6, <2>2, <2>3
<1>8. QED  BY <1>1, <1>3, <1>6, <1>7

-----------------------------------------------------------------------------
(* What a step does to a key's timestamps *)

\* Recording an event changes the state of one key of one rule: the event is
\* its last timestamp, and what is dropped lies outside the window.
LEMMA CorrelateEffect ==
    ASSUME Typed, NEW w \in Workers, NEW r \in RuleIds, Correlate(w, r)
    PROVE  LET e  == event[w]
               k  == AggKey(e, rules[r])
               ks == Observe(KeyState(r, k), e, rules[r])
           IN  /\ e \in EventSet /\ k \in AggKeys /\ ks \in KeyStates /\ EntryOK(ks)
               /\ r \in DOMAIN rules /\ rules[r].window \in Nat /\ rules[r].threshold \in Nat
               /\ ks.timestamps # << >> /\ Last(ks.timestamps) = e
               /\ ks.timestamps[1].ts >= e.ts - rules[r].window
               /\ e \in ToSet(ks.timestamps)
               /\ ToSet(ks.timestamps) \subseteq ToSet(Stamps(r, k)) \cup {e}
               /\ \A x \in ToSet(Stamps(r, k)) \ ToSet(ks.timestamps) :
                      x.ts < e.ts - rules[r].window
               /\ DOMAIN state' = RuleIds
               /\ \A q \in RuleIds \ {r} : state'[q] = state[q]
               /\ DOMAIN state'[r] = DOMAIN state[r] \cup {k}
               /\ state'[r][k] = ks
               /\ \A c \in DOMAIN state[r] \ {k} : state'[r][c] = state[r][c]
               /\ \A q \in RuleIds, c \in AggKeys :
                      Stamps(q, c)' = IF q = r /\ c = k THEN ks.timestamps ELSE Stamps(q, c)
<1> DEFINE e  == event[w]
           k  == AggKey(e, rules[r])
           ks == Observe(KeyState(r, k), e, rules[r])
           start == e.ts - rules[r].window
           grown == Append(Stamps(r, k), e)
<1>1. /\ e \in EventSet /\ r \in DOMAIN rules /\ rules[r] \in RuleDefs
      /\ rules[r].window \in Nat /\ rules[r].threshold \in Nat
  BY EngineAssumption DEF Typed, TypeOK, Correlate
<1>2. k \in AggKeys  BY <1>1 DEF AggKey, AggKeys, EventSet
<1>3. KeyState(r, k) \in KeyStates
  <2>1. NoState \in KeyStates  BY DEF NoState, KeyStates
  <2>2. QED  BY <2>1 DEF KeyState, Typed
<1>4. /\ grown \in Seq(EventSet) /\ ToSet(grown) = ToSet(Stamps(r, k)) \cup {e}
      /\ grown # << >> /\ Last(grown) = e
  BY <1>1, <1>3, ToSetAppend DEF Stamps, KeyStates
<1>5. e.ts \in Int /\ start \in Int /\ e.ts >= start  BY <1>1 DEF EventSet
<1>6. /\ ks.timestamps = PruneFront(grown, start) /\ ks.last_seen = e.ts
      /\ ks.events = IF Len(KeyState(r, k).events) < MaxStored
                      THEN Append(KeyState(r, k).events, e) ELSE KeyState(r, k).events
      /\ ks = [last_seen |-> ks.last_seen, timestamps |-> ks.timestamps, events |-> ks.events]
  BY DEF Observe, Stamps
<1> HIDE DEF e, k, grown, start
<1>7. /\ ks.timestamps \in Seq(EventSet)
      /\ ks.timestamps # << >> /\ Last(ks.timestamps) = e
      /\ ks.timestamps[1].ts >= start
      /\ ToSet(ks.timestamps) \subseteq ToSet(grown)
      /\ \A x \in ToSet(grown) \ ToSet(ks.timestamps) : x.ts < start
  <2> HIDE DEF ks
  <2>1. Last(grown).ts >= start  BY <1>4, <1>5
  <2>2. QED  BY <1>4, <1>5, <1>6, <2>1, PruneFrontKeeps
<1> HIDE DEF ks
<1>8. e \in ToSet(ks.timestamps)
  <2>1. Len(ks.timestamps) \in DOMAIN ks.timestamps  BY <1>7
  <2>2. QED  BY <1>7, <2>1 DEF ToSet, Last
<1>9. ks.events \in Seq(EventSet)
  BY <1>1, <1>3, <1>6 DEF KeyStates, e
<1>10. ks \in KeyStates  BY <1>5, <1>6, <1>7, <1>9 DEF KeyStates
<1>11. EntryOK(ks)
  <2>1. Len(KeyState(r, k).events) <= MaxStored
    <3>1. MaxStored \in Nat  BY EngineAssumption
    <3>2. QED  BY <3>1 DEF KeyState, NoState, Typed, TypeOK, EntryOK
  <2>2. KeyState(r, k).events \in Seq(EventSet) /\ MaxStored \in Nat
    BY <1>3, EngineAssumption DEF KeyStates
  <2>3. Len(ks.events) <= MaxStored  BY <1>6, <2>1, <2>2, <1>1
  <2>4. QED  BY <1>6, <1>7, <2>3 DEF EntryOK
<1>12. state' = PutState(r, k, ks)  BY DEF Correlate, e, k, ks
<1>13. /\ DOMAIN state' = RuleIds
       /\ \A q \in RuleIds \ {r} : state'[q] = state[q]
       /\ state'[r] = [x \in DOMAIN state[r] \cup {k} |-> IF x = k THEN ks ELSE state[r][x]]
  BY <1>12 DEF PutState, Typed
<1>14. /\ DOMAIN state'[r] = DOMAIN state[r] \cup {k}
       /\ state'[r][k] = ks
       /\ \A c \in DOMAIN state[r] \ {k} : state'[r][c] = state[r][c]
  BY <1>13
<1>15. ASSUME NEW q \in RuleIds, NEW c \in AggKeys
       PROVE  Stamps(q, c)' = IF q = r /\ c = k THEN ks.timestamps ELSE Stamps(q, c)
  BY <1>13, <1>14 DEF Stamps, KeyState
<1>16. QED
  BY <1>1, <1>2, <1>4, <1>7, <1>8, <1>10, <1>11, <1>13, <1>14, <1>15 DEF e, k, ks, start

\* Raising an alert empties the timestamps of its key and of no other.
LEMMA RaiseEffect ==
    ASSUME Typed, NEW w \in Workers, RaiseAlert(w)
    PROVE  /\ pending[w] \in AlertSet
           /\ DOMAIN state' = RuleIds
           /\ \A r \in RuleIds : DOMAIN state'[r] = DOMAIN state[r]
           /\ \A r \in RuleIds : \A k \in DOMAIN state[r] :
                  state'[r][k] = IF r = pending[w].rule /\ k = pending[w].key
                                 THEN ResetKey(state[r][k]) ELSE state[r][k]
           /\ \A r \in RuleIds, k \in AggKeys :
                  Stamps(r, k)' = IF r = pending[w].rule /\ k = pending[w].key
                                  THEN << >> ELSE Stamps(r, k)
<1>1. pending[w] \in AlertSet  BY DEF RaiseAlert, Typed, TypeOK
<1>2. pending[w].rule \in RuleIds /\ pending[w].key \in AggKeys
  BY <1>1 DEF AlertSet
<1>3. /\ DOMAIN state' = RuleIds
      /\ \A r \in RuleIds : r # pending[w].rule => state'[r] = state[r]
      /\ state'[pending[w].rule] =
             [state[pending[w].rule] EXCEPT ![pending[w].key] = ResetKey(@)]
  BY <1>2 DEF RaiseAlert, Typed
<1>4. ASSUME NEW r \in RuleIds
      PROVE  /\ DOMAIN state'[r] = DOMAIN state[r]
             /\ \A k \in DOMAIN state[r] :
                    state'[r][k] = IF r = pending[w].rule /\ k = pending[w].key
                                   THEN ResetKey(state[r][k]) ELSE state[r][k]
  BY <1>3
<1>5. ASSUME NEW ks \in KeyStates
      PROVE  ResetKey(ks).timestamps = << >>
  BY DEF ResetKey, KeyStates
<1>6. ASSUME NEW r \in RuleIds, NEW k \in AggKeys
      PROVE  Stamps(r, k)' = IF r = pending[w].rule /\ k = pending[w].key
                             THEN << >> ELSE Stamps(r, k)
  <2>1. CASE k \in DOMAIN state[r]
    <3>1. state[r][k] \in KeyStates  BY <2>1 DEF Typed
    <3>2. QED  BY <1>4, <1>5, <2>1, <3>1 DEF Stamps, KeyState
  <2>2. CASE k \notin DOMAIN state[r]
    BY <1>4, <2>2 DEF Stamps, KeyState, NoState
  <2>3. QED  BY <2>1, <2>2
<1>7. QED  BY <1>1, <1>3, <1>4, <1>6

\* A sweep empties the timestamps of the keys it erases, and of no other.
LEMMA SweepEffect ==
    ASSUME Typed, NEW r \in RuleIds, SweepRule(r)
    PROVE  /\ DOMAIN state' = RuleIds
           /\ \A q \in RuleIds \ {r} : state'[q] = state[q]
           /\ DOMAIN state'[r] = LiveKeys(r) /\ LiveKeys(r) \subseteq DOMAIN state[r]
           /\ \A k \in LiveKeys(r) : state'[r][k] = state[r][k]
           /\ \A q \in RuleIds, k \in AggKeys :
                  /\ seen'[q][k] = {} \/ (seen'[q][k] = seen[q][k] /\ Stamps(q, k)' = Stamps(q, k))
                  /\ Stamps(q, k)' \in {<< >>, Stamps(q, k)}
<1>1. /\ DOMAIN state' = RuleIds
      /\ \A q \in RuleIds \ {r} : state'[q] = state[q]
      /\ state'[r] = [k \in LiveKeys(r) |-> state[r][k]]
  BY DEF SweepRule, Typed
<1>2. LiveKeys(r) \subseteq DOMAIN state[r]  BY DEF LiveKeys
<1>3. DOMAIN state'[r] = LiveKeys(r) /\ \A k \in LiveKeys(r) : state'[r][k] = state[r][k]
  BY <1>1
<1>4. ASSUME NEW q \in RuleIds, NEW k \in AggKeys
      PROVE  /\ seen'[q][k] = {} \/ (seen'[q][k] = seen[q][k] /\ Stamps(q, k)' = Stamps(q, k))
             /\ Stamps(q, k)' \in {<< >>, Stamps(q, k)}
  <2>1. CASE q # r
    BY <1>1, <2>1 DEF SweepRule, Typed, Stamps, KeyState
  <2>2. CASE q = r /\ k \in LiveKeys(r)
    BY <1>2, <1>3, <2>2 DEF SweepRule, Typed, Stamps, KeyState
  <2>3. CASE q = r /\ k \notin LiveKeys(r)
    BY <1>2, <1>3, <2>3 DEF SweepRule, Typed, Stamps, KeyState, NoState
  <2>4. QED  BY <2>1, <2>2, <2>3
<1>5. QED  BY <1>1, <1>2, <1>3, <1>4

-----------------------------------------------------------------------------
(* Types and locks *)

\* A new engine has the types.
LEMMA InitTyped == Init => Typed
<1>1. SUFFICES ASSUME Init PROVE Typed  OBVIOUS
<1>2. TypeOK
  BY <1>1, EngineAssumption DEF Init, TypeOK, NoAlert
<1>3. QED
  BY <1>1, <1>2 DEF Init, Typed

\* Every step preserves the types and what holds a lock.
LEMMA NextTyped == Typed /\ [Next]_vars => Typed'
<1>1. SUFFICES ASSUME Typed, [Next]_vars PROVE Typed'  OBVIOUS
<1> USE <1>1
<1>2. ASSUME NEW w \in Workers, NEW e \in Events, BeginEvent(w, e) PROVE Typed'
  <2>1. e \in EventSet
    BY EngineAssumption DEF Events, EventSet, Typed
  <2>2. TypeOK'  BY <1>2, <2>1 DEF BeginEvent, Typed, TypeOK, cleanVars
  <2>3. QED  BY <1>2, <2>1, <2>2 DEF BeginEvent, Typed, TypeOK, cleanVars
<1>3. ASSUME NEW w \in Workers, NEW r \in RuleIds, Correlate(w, r) PROVE Typed'
  <2> DEFINE e  == event[w]
             k  == AggKey(e, rules[r])
             ks == Observe(KeyState(r, k), e, rules[r])
  <2>1. /\ e \in EventSet /\ k \in AggKeys /\ ks \in KeyStates /\ EntryOK(ks)
        /\ r \in DOMAIN rules /\ rules[r].window \in Nat
        /\ DOMAIN state' = RuleIds
        /\ \A q \in RuleIds \ {r} : state'[q] = state[q]
        /\ DOMAIN state'[r] = DOMAIN state[r] \cup {k}
        /\ state'[r][k] = ks
        /\ \A c \in DOMAIN state[r] \ {k} : state'[r][c] = state[r][c]
    BY <1>3, CorrelateEffect
  <2>2. /\ UNCHANGED <<rules, readers, wait, statVars, event, alerts, cleanVars,
                       inputVars, returned>>
        /\ todo' = [todo EXCEPT ![w] = @ \ {r}]
        /\ seen' = [seen EXCEPT ![r][k] = @ \cup {e}]
        /\ pc[w] = "scan" /\ stateLock = Nil
        /\ \/ /\ stateLock' = w
              /\ pc' = [pc EXCEPT ![w] = "alert"]
              /\ pending' = [pending EXCEPT ![w] = NewAlert(r, k, ks, e)]
           \/ UNCHANGED <<stateLock, pc, pending>>
    BY <1>3 DEF Correlate, StateFree
  <2>3. NewAlert(r, k, ks, e) \in AlertSet /\ NewAlert(r, k, ks, e) # NoAlert
    <3>1. /\ alertsGenerated + 1 \in Nat \ {0} /\ e.ts \in Int
          /\ ks.timestamps \in Seq(EventSet) /\ Len(ks.timestamps) \in Nat
          /\ ToSet(ks.events) \subseteq EventSet
      <4> HIDE DEF e, k, ks
      <4>1. ks.timestamps \in Seq(EventSet) /\ ks.events \in Seq(EventSet)
        BY <2>1 DEF KeyStates
      <4>2. ToSet(ks.events) \subseteq EventSet  BY <4>1 DEF ToSet
      <4>3. e.ts \in Int /\ alertsGenerated + 1 \in Nat \ {0}  BY <2>1 DEF EventSet, Typed
      <4>4. QED  BY <4>1, <4>2, <4>3
    <3>2. NewAlert(r, k, ks, e) \in AlertSet
      BY <2>1, <3>1 DEF NewAlert, AlertSet
    <3>3. QED  BY <3>1, <3>2 DEF NewAlert, NoAlert
  <2> HIDE DEF e, k, ks
  <2>4. \A q \in RuleIds : /\ DOMAIN state'[q] \subseteq AggKeys
                           /\ \A c \in DOMAIN state'[q] :
                                  state'[q][c] \in KeyStates /\ EntryOK(state'[q][c])
    BY <2>1 DEF Typed, TypeOK
  <2>5. TypeOK'
    BY <2>2, <2>3, <2>4, EngineAssumption DEF Typed, TypeOK, cleanVars, inputVars, statVars
  <2>6. seen' \in [RuleIds -> [AggKeys -> SUBSET EventSet]]
    BY <2>1, <2>2 DEF Typed
  <2>7. /\ pc' \in [Workers -> {"idle", "scan", "alert"}]
        /\ pending' \in [Workers -> AlertSet \cup {NoAlert}]
        /\ todo' \in [Workers -> SUBSET RuleIds]
    <3>1. pc' \in [Workers -> {"idle", "scan", "alert"}]  BY <2>2 DEF Typed
    <3>2. pending' \in [Workers -> AlertSet \cup {NoAlert}]
      <4> DEFINE a == NewAlert(r, k, ks, e)
      <4>1. a \in AlertSet  BY <2>3
      <4> HIDE DEF a
      <4>2. pending' = pending \/ pending' = [pending EXCEPT ![w] = a]  BY <2>2 DEF a
      <4>3. QED  BY <4>1, <4>2 DEF Typed
    <3>3. todo' \in [Workers -> SUBSET RuleIds]  BY <2>2 DEF Typed
    <3>4. QED  BY <3>1, <3>2, <3>3
  <2>8. ASSUME NEW v \in Workers
        PROVE  /\ pc'[v] # "idle" => event'[v] \in EventSet
               /\ pc'[v] = "idle" => todo'[v] = {}
               /\ pc'[v] = "alert" => stateLock' = v
    BY <2>2, EngineAssumption DEF Typed
  <2>9. QED
    BY <2>1, <2>2, <2>4, <2>5, <2>6, <2>7, <2>8 DEF Typed, cleanVars, inputVars, statVars
<1>4. ASSUME NEW w \in Workers, RaiseAlert(w) PROVE Typed'
  <2>1. /\ pending[w] \in AlertSet
        /\ DOMAIN state' = RuleIds
        /\ \A r \in RuleIds : DOMAIN state'[r] = DOMAIN state[r]
        /\ \A r \in RuleIds : \A k \in DOMAIN state[r] :
               state'[r][k] = IF r = pending[w].rule /\ k = pending[w].key
                              THEN ResetKey(state[r][k]) ELSE state[r][k]
    BY <1>4, RaiseEffect
  <2>2. ASSUME NEW ks \in KeyStates
        PROVE  ResetKey(ks) \in KeyStates /\ EntryOK(ResetKey(ks))
    <3>1. << >> \in Seq(EventSet) /\ Len(<< >>) = 0 /\ MaxStored \in Nat
      BY EngineAssumption
    <3>2. ResetKey(ks) \in KeyStates  BY <3>1 DEF ResetKey, KeyStates
    <3>3. ResetKey(ks).timestamps = << >> /\ ResetKey(ks).events = << >>
      BY DEF ResetKey, KeyStates
    <3>4. QED  BY <3>1, <3>2, <3>3 DEF EntryOK
  <2>3. ASSUME NEW r \in RuleIds
        PROVE  /\ DOMAIN state'[r] \subseteq AggKeys
               /\ \A k \in DOMAIN state'[r] :
                      state'[r][k] \in KeyStates /\ EntryOK(state'[r][k])
    <3>1. DOMAIN state[r] \subseteq AggKeys
          /\ \A k \in DOMAIN state[r] : state[r][k] \in KeyStates /\ EntryOK(state[r][k])
      BY DEF Typed, TypeOK
    <3>2. QED  BY <2>1, <2>2, <3>1
  <2>4. /\ alerts' = [alerts EXCEPT ![w] = Append(@, pending[w])]
        /\ seen' = [seen EXCEPT ![pending[w].rule][pending[w].key] = {}]
        /\ alertsGenerated' = alertsGenerated + 1
        /\ stateLock' = Nil /\ stateLock = w
        /\ pc[w] = "alert" /\ pc' = [pc EXCEPT ![w] = "scan"]
        /\ pending' = [pending EXCEPT ![w] = NoAlert]
        /\ UNCHANGED <<rules, readers, wait, event, todo, sweep, cutoffNow, now, nextId, returned>>
    BY <1>4 DEF RaiseAlert, Typed, cleanVars, inputVars
  <2>5. TypeOK'
    BY <2>3, <2>4, EngineAssumption DEF Typed, TypeOK
  <2>6. alerts' \in [Workers -> Seq(AlertSet)]  BY <2>1, <2>4 DEF Typed
  <2>7. ASSUME NEW v \in Workers
        PROVE  /\ pc'[v] # "idle" => event'[v] \in EventSet
               /\ pc'[v] = "idle" => todo'[v] = {}
               /\ pc'[v] = "alert" => stateLock' = v
    BY <2>4 DEF Typed
  <2>8. /\ seen' \in [RuleIds -> [AggKeys -> SUBSET EventSet]]
        /\ pc' \in [Workers -> {"idle", "scan", "alert"}]
        /\ pending' \in [Workers -> AlertSet \cup {NoAlert}]
        /\ alertsGenerated' \in Nat
    <3>1. seen' \in [RuleIds -> [AggKeys -> SUBSET EventSet]]
      <4>1. pending[w].rule \in RuleIds /\ pending[w].key \in AggKeys
        BY <2>1 DEF AlertSet
      <4>2. QED  BY <2>4, <4>1 DEF Typed
    <3>2. pc' \in [Workers -> {"idle", "scan", "alert"}] /\ alertsGenerated' \in Nat
      BY <2>4 DEF Typed
    <3>3. pending' \in [Workers -> AlertSet \cup {NoAlert}]  BY <2>4 DEF Typed
    <3>4. QED  BY <3>1, <3>2, <3>3
  <2>9. QED  BY <2>1, <2>3, <2>4, <2>5, <2>6, <2>7, <2>8 DEF Typed
<1>5. ASSUME NEW w \in Workers, EndEvent(w) PROVE Typed'
  <2>1. TypeOK'
    BY <1>5 DEF EndEvent, Typed, TypeOK, cleanVars
  <2>2. ToSet(alerts[w]) \subseteq AlertSet  BY DEF Typed, ToSet
  <2>3. QED
    BY <1>5, <2>1, <2>2 DEF EndEvent, Typed, cleanVars, inputVars, statVars
<1>6. CASE BeginSweep
  <2>1. sweep' \in SUBSET RuleIds  BY <1>6 DEF BeginSweep
  <2>2. TypeOK'
    BY <1>6, <2>1, EngineAssumption DEF BeginSweep, StateFree, Typed, TypeOK, workerVars, statVars
  <2>3. QED
    BY <1>6, <2>1, <2>2, EngineAssumption
    DEF BeginSweep, StateFree, Typed, workerVars, statVars, inputVars
<1>7. ASSUME NEW r \in RuleIds, SweepRule(r) PROVE Typed'
  <2>1. /\ DOMAIN state' = RuleIds
        /\ \A q \in RuleIds \ {r} : state'[q] = state[q]
        /\ DOMAIN state'[r] = LiveKeys(r) /\ LiveKeys(r) \subseteq DOMAIN state[r]
        /\ \A k \in LiveKeys(r) : state'[r][k] = state[r][k]
    BY <1>7, SweepEffect
  <2>2. \A q \in RuleIds : /\ DOMAIN state'[q] \subseteq AggKeys
                           /\ \A k \in DOMAIN state'[q] :
                                  state'[q][k] \in KeyStates /\ EntryOK(state'[q][k])
    BY <2>1 DEF Typed, TypeOK
  <2>3. /\ sweep # Nil /\ sweep \in SUBSET RuleIds /\ sweep' \in SUBSET RuleIds
        /\ seen' = [seen EXCEPT ![r] = [k \in AggKeys |-> IF k \in LiveKeys(r) THEN @[k] ELSE {}]]
        /\ UNCHANGED <<rules, readers, stateLock, wait, statVars, workerVars, cutoffNow,
                       inputVars, returned>>
    BY <1>7 DEF SweepRule, Typed, lockVars
  <2>4. TypeOK'
    BY <2>2, <2>3, EngineAssumption DEF Typed, TypeOK, workerVars
  <2>5. seen' \in [RuleIds -> [AggKeys -> SUBSET EventSet]]
    BY <2>3 DEF Typed
  <2>6. QED
    BY <2>1, <2>2, <2>3, <2>4, <2>5 DEF Typed, workerVars, statVars, inputVars
<1>8. CASE EndSweep
  <2>1. {} # Nil /\ Nil # Cleaner  BY EngineAssumption
  <2>2. TypeOK'
    BY <1>8, <2>1 DEF EndSweep, Typed, TypeOK, workerVars, statVars
  <2>3. QED
    BY <1>8, <2>1, <2>2, EngineAssumption
    DEF EndSweep, Typed, TypeOK, workerVars, statVars, inputVars
<1>9. ASSUME NEW r \in RuleIds, NEW d \in RuleDefs \cup {Nil}, RequestRuleChange(r, d)
      PROVE  Typed'
  <2>1. TypeOK'
    BY <1>9 DEF RequestRuleChange, Typed, TypeOK, workerVars, statVars, cleanVars
  <2>2. QED
    BY <1>9, <2>1 DEF RequestRuleChange, Typed, workerVars, statVars, cleanVars
<1>10. CASE AddRule
  <2>1. wait.rule \in RuleIds /\ wait.body \in RuleDefs
    BY <1>10 DEF AddRule, Typed
  <2>2. TypeOK'
    BY <1>10, <2>1 DEF AddRule, Typed, TypeOK, workerVars, statVars, cleanVars
  <2>3. seen' \in [RuleIds -> [AggKeys -> SUBSET EventSet]]
    BY <1>10, <2>1 DEF AddRule, Typed
  <2>4. QED
    BY <1>10, <2>2, <2>3 DEF AddRule, Typed, workerVars, statVars, cleanVars, inputVars
<1>11. CASE RemoveRule
  <2>1. \A w \in Workers : todo[w] = {}
    BY <1>11 DEF RemoveRule, Typed, TypeOK
  <2>2. TypeOK'
    BY <1>11, <2>1 DEF RemoveRule, Typed, TypeOK, workerVars, statVars, cleanVars
  <2>3. QED
    BY <1>11, <2>2 DEF RemoveRule, Typed, workerVars, statVars, cleanVars, inputVars
<1>12. CASE Tick
  BY <1>12 DEF Tick, Typed, TypeOK, lockVars, workerVars, statVars, cleanVars
<1>13. CASE UNCHANGED vars
  BY <1>13 DEF vars, Typed, TypeOK, lockVars, workerVars, statVars, cleanVars, inputVars
<1>14. QED
  BY <1>1, <1>2, <1>3, <1>4, <1>5, <1>6, <1>7, <1>8, <1>9, <1>10, <1>11, <1>12, <1>13
  DEF Next, Worker, Sweep, RuleChange

-----------------------------------------------------------------------------
(* Which alerts have been raised *)

\* A step that records nothing, raises nothing and admits no event.
Quiet ==
    /\ Raised' = Raised
    /\ UNCHANGED <<state, pending, alertsGenerated, nextId>>
    /\ \A v \in Workers :
           /\ pc'[v] = "alert" <=> pc[v] = "alert"
           /\ pc'[v] # "idle" => pc[v] # "idle" /\ event'[v] = event[v] /\ todo'[v] = todo[v]
           /\ pc'[v] = "idle" => todo'[v] = {}

\* Returning the alerts changes neither which there are nor anything else of Quiet.
LEMMA EndIsQuiet ==
    ASSUME Typed, NEW w \in Workers, EndEvent(w) PROVE Quiet
<1>1. ToSet(<< >>) = {}  BY DEF ToSet
<1>2. /\ alerts' = [alerts EXCEPT ![w] = << >>] /\ returned' = returned \cup ToSet(alerts[w])
      /\ pc[w] = "scan" /\ pc' = [pc EXCEPT ![w] = "idle"] /\ todo[w] = {}
      /\ event' = [event EXCEPT ![w] = Nil]
      /\ UNCHANGED <<state, pending, alertsGenerated, nextId, todo>>
  BY DEF EndEvent, statVars, inputVars
<1>3. Raised' = Raised
  <2>1. \A v \in Workers : ToSet(alerts'[v]) = IF v = w THEN {} ELSE ToSet(alerts[v])
    BY <1>1, <1>2 DEF Typed
  <2>2. (UNION {ToSet(alerts'[v]) : v \in Workers}) \cup ToSet(alerts[w])
            = UNION {ToSet(alerts[v]) : v \in Workers}
    BY <2>1
  <2>3. QED  BY <1>2, <2>2 DEF Raised
<1>4. QED  BY <1>2, <1>3 DEF Quiet, Typed

\* The steps the properties about alerts have to look at.
LEMMA StepKinds ==
    ASSUME Typed, [Next]_vars
    PROVE  \/ \E w \in Workers, e \in Events : BeginEvent(w, e)
           \/ \E w \in Workers, r \in RuleIds : Correlate(w, r)
           \/ \E w \in Workers : RaiseAlert(w)
           \/ \E r \in RuleIds : SweepRule(r)
           \/ Quiet
<1>1. ASSUME UNCHANGED <<state, alertsGenerated, nextId, workerVars, returned>>
      PROVE  Quiet
  BY <1>1 DEF Quiet, Raised, workerVars, Typed
<1>2. ASSUME BeginSweep \/ EndSweep PROVE Quiet
  BY <1>1, <1>2 DEF BeginSweep, EndSweep, statVars, inputVars
<1>3. ASSUME NEW r \in RuleIds, NEW d \in RuleDefs \cup {Nil}, RequestRuleChange(r, d)
      PROVE  Quiet
  BY <1>1, <1>3 DEF RequestRuleChange, statVars
<1>4. ASSUME AddRule \/ RemoveRule PROVE Quiet
  BY <1>1, <1>4 DEF AddRule, RemoveRule, statVars, inputVars
<1>5. ASSUME Tick \/ UNCHANGED vars PROVE Quiet
  BY <1>1, <1>5 DEF Tick, vars, statVars, inputVars
<1>6. QED
  BY <1>2, <1>3, <1>4, <1>5, EndIsQuiet DEF Next, Worker, Sweep, RuleChange

\* An alert joins those raised exactly when its worker appends it.
LEMMA RaisedEffect ==
    ASSUME Typed
    PROVE  /\ \A w \in Workers : RaiseAlert(w) => Raised' = Raised \cup {pending[w]}
           /\ \A w \in Workers, e \in Events : BeginEvent(w, e) => Raised' = Raised
           /\ \A w \in Workers, r \in RuleIds : Correlate(w, r) => Raised' = Raised
           /\ \A r \in RuleIds : SweepRule(r) => Raised' = Raised
<1>1. ASSUME NEW w \in Workers, RaiseAlert(w) PROVE Raised' = Raised \cup {pending[w]}
  <2>1. pending[w] \in AlertSet  BY <1>1, RaiseEffect
  <2>2. ToSet(Append(alerts[w], pending[w])) = ToSet(alerts[w]) \cup {pending[w]}
    BY <2>1, ToSetAppend DEF Typed
  <2>3. alerts' = [alerts EXCEPT ![w] = Append(alerts[w], pending[w])] /\ returned' = returned
    BY <1>1 DEF RaiseAlert
  <2>4. \A v \in Workers : ToSet(alerts'[v]) =
            IF v = w THEN ToSet(alerts[v]) \cup {pending[w]} ELSE ToSet(alerts[v])
    BY <2>2, <2>3 DEF Typed
  <2>5. UNION {ToSet(alerts'[v]) : v \in Workers}
            = (UNION {ToSet(alerts[v]) : v \in Workers}) \cup {pending[w]}
    BY <2>4
  <2>6. QED  BY <2>3, <2>5 DEF Raised
<1>2. QED  BY <1>1 DEF BeginEvent, Correlate, SweepRule, workerVars, Raised

\* Every raised alert is an alert, and its events are events.
LEMMA RaisedTyped ==
    ASSUME Typed
    PROVE  /\ Raised \subseteq AlertSet
           /\ \A a \in Raised : /\ a.rule \in RuleIds /\ a.key \in AggKeys
                                /\ ToSet(a.matched) \subseteq EventSet
<1>1. Raised \subseteq AlertSet
  <2>1. \A w \in Workers : ToSet(alerts[w]) \subseteq AlertSet  BY DEF Typed, ToSet
  <2>2. QED  BY <2>1 DEF Raised, Typed
<1>2. ASSUME NEW a \in AlertSet
      PROVE  a.rule \in RuleIds /\ a.key \in AggKeys /\ ToSet(a.matched) \subseteq EventSet
  <2>1. a.rule \in RuleIds /\ a.key \in AggKeys /\ a.matched \in Seq(EventSet)
    BY DEF AlertSet
  <2>2. ToSet(a.matched) \subseteq EventSet  BY <2>1 DEF ToSet
  <2>3. QED  BY <2>1, <2>2
<1>3. QED  BY <1>1, <1>2

\* What is recorded for a key are events.
LEMMA StampsTyped ==
    ASSUME Typed
    PROVE  \A r \in RuleIds, k \in AggKeys :
               Stamps(r, k) \in Seq(EventSet) /\ ToSet(Stamps(r, k)) \subseteq EventSet
<1>1. SUFFICES ASSUME NEW r \in RuleIds, NEW k \in AggKeys
               PROVE  Stamps(r, k) \in Seq(EventSet) /\ ToSet(Stamps(r, k)) \subseteq EventSet
  OBVIOUS
<1>2. KeyState(r, k) \in KeyStates
  <2>1. NoState \in KeyStates  BY DEF NoState, KeyStates
  <2>2. QED  BY <2>1 DEF KeyState, Typed
<1>3. Stamps(r, k) \in Seq(EventSet)  BY <1>2 DEF Stamps, KeyStates
<1>4. QED  BY <1>3 DEF ToSet

-----------------------------------------------------------------------------
(* Alert ids *)

\* The alerts raised so far carry the ids 1 to alerts_generated, and the one
\* being raised the next id.
Numbered ==
    /\ IsFiniteSet(Raised) /\ Cardinality(Raised) = alertsGenerated
    /\ {a.id : a \in Raised} = 1 .. alertsGenerated
    /\ \A w \in Workers : pc[w] = "alert" => pending[w].id = alertsGenerated + 1

\* A new engine has given out no number.
LEMMA InitNumbered == Init => Numbered
<1>1. SUFFICES ASSUME Init PROVE Numbered  OBVIOUS
<1>2. Raised = {}
  <2>1. \A w \in Workers : ToSet(alerts[w]) = {}  BY <1>1 DEF Init, ToSet
  <2>2. QED  BY <1>1, <2>1 DEF Init, Raised
<1>3. QED  BY <1>1, <1>2, FS_EmptySet DEF Init, Numbered

\* No step gives an id twice or skips one: the id was read from the counter
\* under the lock that the worker still holds.
LEMMA NextNumbered == Typed /\ Numbered /\ [Next]_vars => Numbered'
<1>1. SUFFICES ASSUME Typed, Numbered, [Next]_vars PROVE Numbered'  OBVIOUS
<1> USE <1>1
<1>2. ASSUME NEW w \in Workers, NEW e \in Events, BeginEvent(w, e) PROVE Numbered'
  BY <1>2, RaisedEffect DEF BeginEvent, Numbered, Typed
<1>3. ASSUME NEW w \in Workers, NEW r \in RuleIds, Correlate(w, r) PROVE Numbered'
  <2>1. Raised' = Raised /\ alertsGenerated' = alertsGenerated
    BY <1>3, RaisedEffect DEF Correlate, statVars
  <2>2. ASSUME NEW v \in Workers, pc'[v] = "alert"
        PROVE  pending'[v].id = alertsGenerated + 1
    <3>1. CASE v = w
      BY <1>3, <2>2, <3>1 DEF Correlate, Typed, NewAlert
    <3>2. CASE v # w
      BY <1>3, <2>2, <3>2 DEF Correlate, Typed, Numbered
    <3>3. QED  BY <3>1, <3>2
  <2>3. QED  BY <2>1, <2>2 DEF Numbered
<1>4. ASSUME NEW w \in Workers, RaiseAlert(w) PROVE Numbered'
  <2> DEFINE a == pending[w]
  <2>1. /\ Raised' = Raised \cup {a} /\ alertsGenerated' = alertsGenerated + 1
        /\ a.id = alertsGenerated + 1 /\ alertsGenerated \in Nat
    BY <1>4, RaisedEffect DEF RaiseAlert, Numbered, Typed
  <2>2. a \notin Raised
    <3>1. a.id \notin 1 .. alertsGenerated  BY <2>1
    <3>2. QED  BY <3>1 DEF Numbered
  <2>3. IsFiniteSet(Raised') /\ Cardinality(Raised') = alertsGenerated'
    BY <2>1, <2>2, FS_AddElement DEF Numbered
  <2>4. {x.id : x \in Raised'} = 1 .. alertsGenerated'
    <3>1. {x.id : x \in Raised'} = {x.id : x \in Raised} \cup {a.id}  BY <2>1
    <3>2. 1 .. alertsGenerated + 1 = (1 .. alertsGenerated) \cup {alertsGenerated + 1}
      BY <2>1
    <3>3. QED  BY <2>1, <3>1, <3>2 DEF Numbered
  <2>5. \A v \in Workers : pc'[v] # "alert"
    BY <1>4 DEF RaiseAlert, Typed
  <2>6. QED  BY <2>3, <2>4, <2>5 DEF Numbered
<1>5. ASSUME NEW r \in RuleIds, SweepRule(r) PROVE Numbered'
  BY <1>5, RaisedEffect DEF SweepRule, statVars, workerVars, Numbered
<1>6. CASE Quiet  BY <1>6 DEF Quiet, Numbered
<1>7. QED  BY <1>2, <1>3, <1>4, <1>5, <1>6, StepKinds

\* Types, and what holds a lock, for any number of workers and rules.
THEOREM EngineTyped == Spec => []Typed
BY InitTyped, NextTyped, PTL DEF Spec

\* Concurrent workers never give two alerts one id and skip none.
THEOREM IdsUnique == Spec => []AlertIdsUnique
<1>1. Spec => []Numbered
  BY InitNumbered, NextNumbered, EngineTyped, PTL DEF Spec
<1>2. Typed /\ Numbered => AlertIdsUnique
  BY DEF Typed, Numbered, AlertIdsUnique
<1>3. QED  BY <1>1, <1>2, EngineTyped, PTL

-----------------------------------------------------------------------------
(* Events counted once *)

\* Workers hold different events, and no event recorded anywhere is yet to come.
EventsKnown ==
    /\ \A w \in Workers : pc[w] # "idle" => event[w].id <= nextId
    /\ \A v, w \in Workers : v # w /\ pc[v] # "idle" /\ pc[w] # "idle" => event[v] # event[w]
    /\ \A r \in RuleIds, k \in AggKeys : \A e \in ToSet(Stamps(r, k)) : e.id <= nextId
    /\ \A a \in Raised : \A e \in ToSet(a.matched) : e.id <= nextId

\* The event a worker has still to record for a rule counts nowhere under it.
NotYetCounted ==
    \A w \in Workers : \A r \in todo[w] :
        /\ \A k \in AggKeys : event[w] \notin ToSet(Stamps(r, k))
        /\ \A a \in Raised : a.rule = r => event[w] \notin ToSet(a.matched)

\* An event is recorded under one key of a rule.
KeysApart ==
    \A r \in RuleIds, k, c \in AggKeys :
        k # c => ToSet(Stamps(r, k)) \cap ToSet(Stamps(r, c)) = {}

\* What a raised alert counted is recorded no longer.
CountedGone ==
    \A a \in Raised, k \in AggKeys : ToSet(a.matched) \cap ToSet(Stamps(a.rule, k)) = {}

\* The alert being raised counts what its key still records.
PendingCurrent ==
    \A w \in Workers, r \in RuleIds, k \in AggKeys :
        pc[w] = "alert" /\ pending[w].rule = r /\ pending[w].key = k
            => pending[w].matched = Stamps(r, k)

OnceInv ==
    EventsKnown /\ NotYetCounted /\ KeysApart /\ CountedGone /\ PendingCurrent /\ CountedOnce

\* A new engine has counted no event.
LEMMA InitOnce == Init => OnceInv
<1>1. SUFFICES ASSUME Init PROVE OnceInv  OBVIOUS
<1>2. ToSet(<< >>) = {}  BY DEF ToSet
<1>3. Raised = {}
  <2>1. \A w \in Workers : ToSet(alerts[w]) = {}  BY <1>1, <1>2 DEF Init
  <2>2. QED  BY <1>1, <2>1 DEF Init, Raised
<1>4. \A r \in RuleIds, k \in AggKeys : ToSet(Stamps(r, k)) = {}
  BY <1>1, <1>2 DEF Init, Stamps, KeyState, NoState
<1>5. \A w \in Workers : pc[w] = "idle" /\ todo[w] = {}  BY <1>1 DEF Init
<1>6. QED
  BY <1>3, <1>4, <1>5
  DEF OnceInv, EventsKnown, NotYetCounted, KeysApart, CountedGone, PendingCurrent, CountedOnce

\* A worker enters with an event nobody has seen.
LEMMA BeginOnce ==
    ASSUME Typed, OnceInv, NEW w \in Workers, NEW e \in Events, BeginEvent(w, e)
    PROVE  OnceInv'
<1>1. /\ Raised' = Raised /\ state' = state /\ nextId' = nextId + 1 /\ nextId \in Nat
      /\ pc' = [pc EXCEPT ![w] = "scan"] /\ event' = [event EXCEPT ![w] = e]
      /\ todo'[w] \subseteq RuleIds /\ pending' = pending
      /\ \A v \in Workers \ {w} : todo'[v] = todo[v]
      /\ pc[w] = "idle" /\ e.id = nextId + 1
  BY RaisedEffect DEF BeginEvent, Typed, TypeOK, Events
<1>2. \A r \in RuleIds, k \in AggKeys : Stamps(r, k)' = Stamps(r, k)
  BY <1>1 DEF Stamps, KeyState
<1>3. /\ \A r \in RuleIds, k \in AggKeys : \A x \in ToSet(Stamps(r, k)) : x.id \in Nat /\ x.id <= nextId
      /\ \A a \in Raised : \A x \in ToSet(a.matched) : x.id \in Nat /\ x.id <= nextId
      /\ \A v \in Workers : pc[v] # "idle" => event[v].id \in Nat /\ event[v].id <= nextId
  <2>1. \A x \in EventSet : x.id \in Nat  BY DEF EventSet
  <2>2. \A r \in RuleIds, k \in AggKeys : ToSet(Stamps(r, k)) \subseteq EventSet
    BY StampsTyped
  <2>3. \A a \in Raised : ToSet(a.matched) \subseteq EventSet
    BY RaisedTyped
  <2>4. QED  BY <2>1, <2>2, <2>3 DEF OnceInv, EventsKnown, Typed
<1>4. EventsKnown'
  <2>1. \A v \in Workers : pc'[v] # "idle" => event'[v].id <= nextId'
    BY <1>1, <1>3 DEF Typed
  <2>2. ASSUME NEW v \in Workers, NEW u \in Workers, v # u, pc'[v] # "idle", pc'[u] # "idle"
        PROVE  event'[v] # event'[u]
    <3>1. CASE v # w /\ u # w
      BY <1>1, <2>2, <3>1 DEF OnceInv, EventsKnown, Typed
    <3>2. CASE v = w \/ u = w
      BY <1>1, <1>3, <2>2, <3>2 DEF Typed
    <3>3. QED  BY <3>1, <3>2
  <2>3. QED  BY <1>1, <1>2, <1>3, <2>1, <2>2 DEF EventsKnown
<1>5. NotYetCounted'
  <2>1. SUFFICES ASSUME NEW v \in Workers, NEW r \in todo'[v]
                 PROVE  /\ \A k \in AggKeys : event'[v] \notin ToSet(Stamps(r, k)')
                        /\ \A a \in Raised : a.rule = r => event'[v] \notin ToSet(a.matched)
    BY <1>1 DEF NotYetCounted
  <2>2. r \in RuleIds  BY <1>1 DEF Typed
  <2>3. CASE v = w
    <3>1. event'[v] = e  BY <1>1, <2>3 DEF Typed
    <3>2. QED  BY <1>1, <1>2, <1>3, <2>2, <3>1
  <2>4. CASE v # w
    <3>1. event'[v] = event[v] /\ r \in todo[v]  BY <1>1, <2>4 DEF Typed
    <3>2. QED  BY <1>1, <1>2, <2>2, <3>1 DEF OnceInv, NotYetCounted
  <2>5. QED  BY <2>3, <2>4
<1>6. KeysApart'  BY <1>2 DEF OnceInv, KeysApart
<1>7. CountedGone'  BY <1>1, <1>2, RaisedTyped DEF OnceInv, CountedGone
<1>8. PendingCurrent'
  <2>1. \A v \in Workers : pc'[v] = "alert" => pc[v] = "alert"  BY <1>1 DEF Typed
  <2>2. QED  BY <1>1, <1>2, <2>1 DEF OnceInv, PendingCurrent
<1>9. CountedOnce'  BY <1>1 DEF OnceInv, CountedOnce
<1>10. QED  BY <1>4, <1>5, <1>6, <1>7, <1>8, <1>9 DEF OnceInv

\* Recording an event for a rule: it was nowhere under that rule, and is now
\* under one key.
LEMMA CorrelateOnce ==
    ASSUME Typed, OnceInv, NEW w \in Workers, NEW r \in RuleIds, Correlate(w, r)
    PROVE  OnceInv'
<1> DEFINE e  == event[w]
           k  == AggKey(e, rules[r])
           ks == Observe(KeyState(r, k), e, rules[r])
<1>1. /\ e \in EventSet /\ k \in AggKeys
      /\ ToSet(ks.timestamps) \subseteq ToSet(Stamps(r, k)) \cup {e}
      /\ \A q \in RuleIds, c \in AggKeys :
             Stamps(q, c)' = IF q = r /\ c = k THEN ks.timestamps ELSE Stamps(q, c)
  BY CorrelateEffect
<1>2. /\ Raised' = Raised /\ event' = event /\ nextId' = nextId
      /\ pc[w] = "scan" /\ r \in todo[w] /\ stateLock = Nil
      /\ todo' = [todo EXCEPT ![w] = @ \ {r}]
      /\ \/ /\ pc' = [pc EXCEPT ![w] = "alert"]
            /\ pending' = [pending EXCEPT ![w] = NewAlert(r, k, ks, e)]
         \/ pc' = pc /\ pending' = pending
  BY RaisedEffect DEF Correlate, StateFree, inputVars
<1> HIDE DEF e, k, ks
<1>3. \A q \in RuleIds, c \in AggKeys : ToSet(Stamps(q, c)') \subseteq
          IF q = r /\ c = k THEN ToSet(Stamps(q, c)) \cup {e} ELSE ToSet(Stamps(q, c))
  BY <1>1
<1>4. /\ \A c \in AggKeys : e \notin ToSet(Stamps(r, c))
      /\ \A a \in Raised : a.rule = r => e \notin ToSet(a.matched)
      /\ e.id <= nextId
      /\ \A v \in Workers : v # w /\ pc[v] # "idle" => event[v] # e
  BY <1>2 DEF OnceInv, EventsKnown, NotYetCounted, e
<1>5. \A v \in Workers : /\ pc'[v] = "idle" <=> pc[v] = "idle"
                         /\ todo'[v] = IF v = w THEN todo[v] \ {r} ELSE todo[v]
  BY <1>2 DEF Typed
<1>6. EventsKnown'
  BY <1>2, <1>3, <1>4, <1>5 DEF OnceInv, EventsKnown
<1>7. NotYetCounted'
  <2>1. SUFFICES ASSUME NEW v \in Workers, NEW q \in todo'[v]
                 PROVE  /\ \A c \in AggKeys : event[v] \notin ToSet(Stamps(q, c)')
                        /\ \A a \in Raised : a.rule = q => event[v] \notin ToSet(a.matched)
    BY <1>2 DEF NotYetCounted
  <2>2. q \in RuleIds /\ q \in todo[v] /\ (v = w => q # r)
    <3>1. q \in todo[v] /\ (v = w => q # r)  BY <1>5, <2>1
    <3>2. todo[v] \subseteq RuleIds  BY DEF Typed
    <3>3. QED  BY <3>1, <3>2
  <2>3. pc[v] # "idle"  BY <2>2 DEF Typed
  <2>4. event[v] # e \/ q # r  BY <1>4, <2>2, <2>3
  <2>5. QED  BY <1>3, <2>2, <2>4 DEF OnceInv, NotYetCounted
<1>8. KeysApart'
  <2>1. SUFFICES ASSUME NEW q \in RuleIds, NEW c \in AggKeys, NEW d \in AggKeys, c # d
                 PROVE  ToSet(Stamps(q, c)') \cap ToSet(Stamps(q, d)') = {}
    BY DEF KeysApart
  <2>2. ToSet(Stamps(q, c)) \cap ToSet(Stamps(q, d)) = {}  BY <2>1 DEF OnceInv, KeysApart
  <2>3. QED  BY <1>3, <1>4, <2>1, <2>2
<1>9. CountedGone'
  <2>1. SUFFICES ASSUME NEW a \in Raised, NEW c \in AggKeys
                 PROVE  ToSet(a.matched) \cap ToSet(Stamps(a.rule, c)') = {}
    BY <1>2 DEF CountedGone
  <2>2. a.rule \in RuleIds  BY RaisedTyped
  <2>3. ToSet(a.matched) \cap ToSet(Stamps(a.rule, c)) = {}  BY DEF OnceInv, CountedGone
  <2>4. QED  BY <1>3, <1>4, <2>2, <2>3
<1>10. PendingCurrent'
  <2>1. SUFFICES ASSUME NEW v \in Workers, NEW q \in RuleIds, NEW c \in AggKeys,
                        pc'[v] = "alert", pending'[v].rule = q, pending'[v].key = c
                 PROVE  pending'[v].matched = Stamps(q, c)'
    BY DEF PendingCurrent
  <2>2. v = w  BY <1>2, <2>1, EngineAssumption DEF Typed
  <2>3. pending'[w] = NewAlert(r, k, ks, e)  BY <1>2, <2>1, <2>2 DEF Typed
  <2>4. pending'[w].rule = r /\ pending'[w].key = k /\ pending'[w].matched = ks.timestamps
    BY <2>3 DEF NewAlert
  <2>5. QED  BY <1>1, <2>1, <2>2, <2>4
<1>11. CountedOnce'  BY <1>2 DEF OnceInv, CountedOnce
<1>12. QED  BY <1>6, <1>7, <1>8, <1>9, <1>10, <1>11 DEF OnceInv

\* Raising an alert moves what its key records into the alert.
LEMMA RaiseOnce ==
    ASSUME Typed, OnceInv, NEW w \in Workers, RaiseAlert(w) PROVE OnceInv'
<1> DEFINE a == pending[w]
<1>1. /\ a \in AlertSet
      /\ \A r \in RuleIds, k \in AggKeys :
             Stamps(r, k)' = IF r = a.rule /\ k = a.key THEN << >> ELSE Stamps(r, k)
      /\ a.matched = Stamps(a.rule, a.key)
  <2>1. a \in AlertSet /\ a.rule \in RuleIds /\ a.key \in AggKeys
    BY RaiseEffect DEF AlertSet
  <2>2. a.matched = Stamps(a.rule, a.key)
    <3>1. pc[w] = "alert"  BY DEF RaiseAlert
    <3>2. QED  BY <2>1, <3>1 DEF OnceInv, PendingCurrent
  <2>3. QED  BY <2>1, <2>2, RaiseEffect
<1>2. /\ Raised' = Raised \cup {a} /\ event' = event /\ nextId' = nextId
      /\ pc[w] = "alert" /\ pc' = [pc EXCEPT ![w] = "scan"] /\ todo' = todo
  BY RaisedEffect DEF RaiseAlert, inputVars
<1>3. a.rule \in RuleIds /\ a.key \in AggKeys  BY <1>1 DEF AlertSet
<1> HIDE DEF a
<1>4. \A r \in RuleIds, k \in AggKeys :
          /\ ToSet(Stamps(r, k)') \subseteq ToSet(Stamps(r, k))
          /\ r = a.rule /\ k = a.key => ToSet(Stamps(r, k)') = {}
  <2>1. ToSet(<< >>) = {}  BY DEF ToSet
  <2>2. QED  BY <1>1, <2>1
<1>5. ToSet(a.matched) = ToSet(Stamps(a.rule, a.key))  BY <1>1
<1>6. \A v \in Workers : pc'[v] = "idle" <=> pc[v] = "idle"  BY <1>2 DEF Typed
<1>7. EventsKnown'
  BY <1>2, <1>3, <1>4, <1>5, <1>6 DEF OnceInv, EventsKnown
<1>8. NotYetCounted'
  <2>1. SUFFICES ASSUME NEW v \in Workers, NEW r \in todo[v]
                 PROVE  /\ \A k \in AggKeys : event[v] \notin ToSet(Stamps(r, k)')
                        /\ \A b \in Raised' : b.rule = r => event[v] \notin ToSet(b.matched)
    BY <1>2 DEF NotYetCounted
  <2>2. r \in RuleIds  BY DEF Typed
  <2>3. /\ \A k \in AggKeys : event[v] \notin ToSet(Stamps(r, k))
        /\ \A b \in Raised : b.rule = r => event[v] \notin ToSet(b.matched)
    BY DEF OnceInv, NotYetCounted
  <2>4. QED  BY <1>2, <1>3, <1>4, <1>5, <2>2, <2>3
<1>9. KeysApart'
  BY <1>4 DEF OnceInv, KeysApart
<1>10. CountedGone'
  <2>1. SUFFICES ASSUME NEW b \in Raised \cup {a}, NEW k \in AggKeys
                 PROVE  ToSet(b.matched) \cap ToSet(Stamps(b.rule, k)') = {}
    BY <1>2 DEF CountedGone
  <2>2. CASE b \in Raised
    <3>1. b.rule \in RuleIds  BY <2>2, RaisedTyped
    <3>2. QED  BY <1>4, <2>2, <3>1 DEF OnceInv, CountedGone
  <2>3. CASE b = a
    <3>1. k = a.key \/ ToSet(Stamps(a.rule, a.key)) \cap ToSet(Stamps(a.rule, k)) = {}
      BY <1>3 DEF OnceInv, KeysApart
    <3>2. QED  BY <1>3, <1>4, <1>5, <2>3, <3>1
  <2>4. QED  BY <2>2, <2>3
<1>11. PendingCurrent'
  <2>1. \A v \in Workers : pc'[v] # "alert"  BY <1>2 DEF Typed
  <2>2. QED  BY <2>1 DEF PendingCurrent
<1>12. CountedOnce'
  <2>1. \A b \in Raised : b.rule = a.rule => ToSet(b.matched) \cap ToSet(a.matched) = {}
    BY <1>3, <1>5 DEF OnceInv, CountedGone
  <2>2. QED  BY <1>2, <2>1 DEF OnceInv, CountedOnce
<1>13. QED  BY <1>7, <1>8, <1>9, <1>10, <1>11, <1>12 DEF OnceInv

\* A sweep only removes what is recorded, and no alert is being raised.
LEMMA SweepOnce ==
    ASSUME Typed, OnceInv, NEW r \in RuleIds, SweepRule(r) PROVE OnceInv'
<1>1. \A q \in RuleIds, k \in AggKeys : ToSet(Stamps(q, k)') \subseteq ToSet(Stamps(q, k))
  <2>1. ToSet(<< >>) = {}  BY DEF ToSet
  <2>2. QED  BY <2>1, SweepEffect
<1>2. Raised' = Raised /\ UNCHANGED <<event, nextId, pc, todo, pending>>
  BY RaisedEffect DEF SweepRule, workerVars, inputVars
<1>3. EventsKnown'  BY <1>1, <1>2 DEF OnceInv, EventsKnown
<1>4. NotYetCounted'
  <2>1. \A v \in Workers : todo[v] \subseteq RuleIds  BY DEF Typed
  <2>2. QED  BY <1>1, <1>2, <2>1 DEF OnceInv, NotYetCounted
<1>5. KeysApart'  BY <1>1 DEF OnceInv, KeysApart
<1>6. CountedGone'  BY <1>1, <1>2, RaisedTyped DEF OnceInv, CountedGone
<1>7. PendingCurrent'
  <2>1. \A v \in Workers : pc[v] # "alert"
    BY EngineAssumption DEF SweepRule, Typed, TypeOK
  <2>2. QED  BY <1>2, <2>1 DEF PendingCurrent
<1>8. CountedOnce'  BY <1>2 DEF OnceInv, CountedOnce
<1>9. QED  BY <1>3, <1>4, <1>5, <1>6, <1>7, <1>8 DEF OnceInv

\* Every step counts an event at most once per rule.
LEMMA NextOnce == Typed /\ OnceInv /\ [Next]_vars => OnceInv'
<1>1. SUFFICES ASSUME Typed, OnceInv, [Next]_vars PROVE OnceInv'  OBVIOUS
<1>2. ASSUME Quiet PROVE OnceInv'
  <2>1. \A r \in RuleIds, k \in AggKeys : Stamps(r, k)' = Stamps(r, k)
    BY <1>2 DEF Quiet, Stamps, KeyState
  <2>2. EventsKnown'  BY <1>1, <1>2, <2>1 DEF Quiet, OnceInv, EventsKnown
  <2>3. NotYetCounted'
    <3>1. SUFFICES ASSUME NEW w \in Workers, NEW r \in todo'[w]
                   PROVE  /\ \A k \in AggKeys : event'[w] \notin ToSet(Stamps(r, k)')
                          /\ \A a \in Raised' : a.rule = r => event'[w] \notin ToSet(a.matched)
      BY DEF NotYetCounted
    <3>2. event'[w] = event[w] /\ r \in todo[w] /\ Raised' = Raised
      BY <1>2, <3>1 DEF Quiet
    <3>3. r \in RuleIds  BY <1>1, <3>2 DEF Typed
    <3>4. QED  BY <1>1, <2>1, <3>2, <3>3 DEF OnceInv, NotYetCounted
  <2>4. KeysApart'  BY <1>1, <2>1 DEF OnceInv, KeysApart
  <2>5. CountedGone'  BY <1>1, <1>2, <2>1, RaisedTyped DEF Quiet, OnceInv, CountedGone
  <2>6. PendingCurrent'
    BY <1>1, <1>2 DEF Quiet, OnceInv, PendingCurrent, Stamps, KeyState
  <2>7. CountedOnce'  BY <1>1, <1>2 DEF Quiet, OnceInv, CountedOnce
  <2>8. QED  BY <2>2, <2>3, <2>4, <2>5, <2>6, <2>7 DEF OnceInv
<1>3. QED  BY <1>1, <1>2, StepKinds, BeginOnce, CorrelateOnce, RaiseOnce, SweepOnce

\* An event counts towards at most one alert of a rule.
THEOREM EventsCountedOnce == Spec => []CountedOnce
<1>1. Spec => []OnceInv
  BY InitOnce, NextOnce, EngineTyped, PTL DEF Spec
<1>2. OnceInv => CountedOnce  BY DEF OnceInv
<1>3. QED  BY <1>1, <1>2, PTL

-----------------------------------------------------------------------------
(* Windows *)

\* Of events recorded in order, the alert counts those within its window.
WithinWindow(a) ==
    InOrder(a.matched) => \A e \in ToSet(a.matched) : e.ts \in (a.ts - a.window) .. a.ts

WindowInv ==
    /\ AlertWithinWindow
    /\ \A w \in Workers : pc[w] = "alert" => WithinWindow(pending[w])

\* The alert filled in when an event brings a key to its threshold.
LEMMA NewAlertWithin ==
    ASSUME Typed, NEW w \in Workers, NEW r \in RuleIds, Correlate(w, r)
    PROVE  LET e  == event[w]
               k  == AggKey(e, rules[r])
               ks == Observe(KeyState(r, k), e, rules[r])
           IN  WithinWindow(NewAlert(r, k, ks, e))
<1> DEFINE e  == event[w]
           k  == AggKey(e, rules[r])
           ks == Observe(KeyState(r, k), e, rules[r])
           a  == NewAlert(r, k, ks, e)
           s  == ks.timestamps
<1>1. /\ e \in EventSet /\ ks \in KeyStates /\ rules[r].window \in Nat
      /\ s # << >> /\ Last(s) = e /\ s[1].ts >= e.ts - rules[r].window
  BY CorrelateEffect
<1>2. a.matched = s /\ a.ts = e.ts /\ a.window = rules[r].window  BY DEF NewAlert
<1> HIDE DEF e, k, ks, a
<1>3. /\ s \in Seq(EventSet) /\ e.ts \in Int
      /\ \A x \in EventSet : x.ts \in Int
  BY <1>1 DEF KeyStates, EventSet
<1> HIDE DEF s
<1>4. ASSUME InOrder(s), NEW x \in ToSet(s)
      PROVE  x.ts \in (e.ts - rules[r].window) .. e.ts
  <2>1. x.ts \in Int /\ s[1].ts \in Int /\ s[1].ts <= x.ts /\ x.ts <= e.ts
    BY <1>1, <1>3, <1>4, InOrderBounds
  <2>2. QED  BY <1>1, <1>3, <2>1
<1>5. QED  BY <1>2, <1>4 DEF WithinWindow, a, e, k, ks

\* A new engine has raised no alert.
LEMMA InitWindow == Init => WindowInv
<1>1. SUFFICES ASSUME Init PROVE WindowInv  OBVIOUS
<1>2. Raised = {}
  <2>1. \A w \in Workers : ToSet(alerts[w]) = {}  BY <1>1 DEF Init, ToSet
  <2>2. QED  BY <1>1, <2>1 DEF Init, Raised
<1>3. QED  BY <1>1, <1>2 DEF Init, WindowInv, AlertWithinWindow

\* Only Correlate fills an alert in, and only RaiseAlert adds one.
LEMMA NextWindow == Typed /\ WindowInv /\ [Next]_vars => WindowInv'
<1>1. SUFFICES ASSUME Typed, WindowInv, [Next]_vars PROVE WindowInv'  OBVIOUS
<1>2. AlertWithinWindow <=> \A a \in Raised : WithinWindow(a)
  BY DEF AlertWithinWindow, WithinWindow
<1>3. AlertWithinWindow' <=> \A a \in Raised' : WithinWindow(a)
  BY DEF AlertWithinWindow, WithinWindow
<1>4. ASSUME NEW w \in Workers, NEW e \in Events, BeginEvent(w, e) PROVE WindowInv'
  <2>1. /\ Raised' = Raised /\ pending' = pending
        /\ \A v \in Workers : pc'[v] = "alert" => pc[v] = "alert"
    BY <1>1, <1>4, RaisedEffect DEF BeginEvent, Typed
  <2>2. \A v \in Workers : WithinWindow(pending[v])' <=> WithinWindow(pending[v])
    BY <2>1 DEF WithinWindow
  <2>3. QED  BY <1>1, <1>2, <1>3, <2>1, <2>2 DEF WindowInv
<1>5. ASSUME NEW w \in Workers, NEW r \in RuleIds, Correlate(w, r) PROVE WindowInv'
  <2> DEFINE e  == event[w]
             k  == AggKey(e, rules[r])
             ks == Observe(KeyState(r, k), e, rules[r])
             a  == NewAlert(r, k, ks, e)
  <2>1. WithinWindow(a)  BY <1>1, <1>5, NewAlertWithin
  <2>2. /\ Raised' = Raised /\ w \in DOMAIN pending /\ w \in DOMAIN pc
        /\ \/ /\ pc' = [pc EXCEPT ![w] = "alert"] /\ pending' = [pending EXCEPT ![w] = a]
           \/ pc' = pc /\ pending' = pending
    BY <1>1, <1>5, RaisedEffect DEF Correlate, Typed
  <2> HIDE DEF a
  <2>3. ASSUME NEW v \in Workers, pc'[v] = "alert" PROVE WithinWindow(pending'[v])
    <3>1. pending'[v] = a \/ (pc[v] = "alert" /\ pending'[v] = pending[v])
      BY <1>1, <2>2, <2>3 DEF Typed
    <3>2. QED  BY <1>1, <2>1, <3>1 DEF WindowInv
  <2>4. QED  BY <1>1, <1>2, <1>3, <2>2, <2>3 DEF WindowInv, WithinWindow
<1>6. ASSUME NEW w \in Workers, RaiseAlert(w) PROVE WindowInv'
  <2>1. /\ Raised' = Raised \cup {pending[w]} /\ pc[w] = "alert"
        /\ \A v \in Workers : pc'[v] # "alert"
    BY <1>1, <1>6, RaisedEffect DEF RaiseAlert, Typed
  <2>2. QED  BY <1>1, <1>2, <1>3, <2>1 DEF WindowInv
<1>7. ASSUME NEW r \in RuleIds, SweepRule(r) PROVE WindowInv'
  <2>1. Raised' = Raised /\ pending' = pending /\ pc' = pc
    BY <1>1, <1>7, RaisedEffect DEF SweepRule, workerVars
  <2>2. QED  BY <1>1, <1>2, <1>3, <2>1 DEF WindowInv, WithinWindow
<1>8. CASE Quiet
  BY <1>1, <1>2, <1>3, <1>8 DEF Quiet, WindowInv, WithinWindow
<1>9. QED  BY <1>1, <1>4, <1>5, <1>6, <1>7, <1>8, StepKinds

\* An alert for events recorded in order counts only those in its window.
THEOREM AlertsWithinWindow == Spec => []AlertWithinWindow
<1>1. Spec => []WindowInv
  BY InitWindow, NextWindow, EngineTyped, PTL DEF Spec
<1>2. WindowInv => AlertWithinWindow  BY DEF WindowInv
<1>3. QED  BY <1>1, <1>2, PTL

\* cleanup_expired erases only keys all of whose timestamps, if they were recorded
\* in order, are older than the cutoff of this sweep, made of the clock and the
\* window of the rule as they are.
THEOREM ErasesOnlyExpired == Spec => CleanupErasesExpired
<1> DEFINE Erases == \A r \in RuleIds : \A k \in DOMAIN state[r] \ DOMAIN state'[r] :
                         InOrder(state[r][k].timestamps) =>
                             \A e \in ToSet(state[r][k].timestamps) : e.ts < Cutoff(r)
<1>1. ASSUME Typed, [Next]_vars PROVE Erases
  <2> SUFFICES ASSUME NEW r \in RuleIds, NEW k \in DOMAIN state[r] \ DOMAIN state'[r],
                      InOrder(state[r][k].timestamps),
                      NEW e \in ToSet(state[r][k].timestamps)
               PROVE  e.ts < Cutoff(r)
    OBVIOUS
  <2>1. SweepRule(r)
    <3>1. \A w \in Workers, q \in RuleIds : Correlate(w, q) => DOMAIN state[r] \subseteq DOMAIN state'[r]
      <4>1. SUFFICES ASSUME NEW w \in Workers, NEW q \in RuleIds, Correlate(w, q)
                     PROVE  DOMAIN state[r] \subseteq DOMAIN state'[r]
        OBVIOUS
      <4>2. r = q \/ state'[r] = state[r]  BY <1>1, <4>1, CorrelateEffect
      <4>3. DOMAIN state[q] \subseteq DOMAIN state'[q]  BY <1>1, <4>1, CorrelateEffect
      <4>4. QED  BY <4>2, <4>3
    <3>2. \A w \in Workers : RaiseAlert(w) => DOMAIN state'[r] = DOMAIN state[r]
      BY <1>1, RaiseEffect
    <3>3. \A q \in RuleIds : SweepRule(q) => r = q \/ state'[r] = state[r]
      BY <1>1, SweepEffect
    <3>4. \A w \in Workers, x \in Events : BeginEvent(w, x) => state' = state
      BY DEF BeginEvent
    <3>5. Quiet => state' = state  BY DEF Quiet
    <3>6. QED  BY <1>1, <3>1, <3>2, <3>3, <3>4, <3>5, StepKinds
  <2>2. k \notin LiveKeys(r)  BY <1>1, <2>1, SweepEffect
  <2>3. state[r][k].last_seen < Cutoff(r)
    <3>1. state[r][k].last_seen \in Int  BY <1>1 DEF Typed, KeyStates
    <3>2. Cutoff(r) \in Int  BY <1>1, EngineAssumption DEF Cutoff, Typed, TypeOK
    <3>3. QED  BY <2>2, <3>1, <3>2 DEF LiveKeys
  <2> DEFINE s == state[r][k].timestamps
  <2>4. s \in Seq(EventSet) /\ EntryOK(state[r][k])
    BY <1>1 DEF Typed, TypeOK, KeyStates
  <2>5. s # << >>
    <3>1. ToSet(<< >>) = {}  BY DEF ToSet
    <3>2. QED  BY <3>1
  <2>6. Last(s).ts = state[r][k].last_seen  BY <2>4, <2>5 DEF EntryOK
  <2>7. InOrder(s) /\ e \in ToSet(s)  OBVIOUS
  <2> HIDE DEF s
  <2>8. e.ts \in Int /\ e.ts <= Last(s).ts  BY <2>4, <2>5, <2>7, InOrderBounds
  <2>9. state[r][k].last_seen \in Int /\ Cutoff(r) \in Int
    BY <1>1, EngineAssumption DEF Typed, TypeOK, KeyStates, Cutoff
  <2>10. QED  BY <2>3, <2>6, <2>8, <2>9
<1>2. QED  BY <1>1, EngineTyped, PTL DEF Spec, CleanupErasesExpired

-----------------------------------------------------------------------------
(* No alert missed *)

\* An alert for key k of rule r is being raised.
Alerting(r, k) ==
    \E w \in Workers : pc[w] = "alert" /\ pending[w].rule = r /\ pending[w].key = k

\* A key that has seen an event records fewer than threshold, or is alerting.
BelowThreshold(r, k) ==
    seen[r][k] # {} => Alerting(r, k) \/ Len(Stamps(r, k)) < rules[r].threshold

\* An event seen is still recorded, or outside the window of a later one.
Remembered(r, k) ==
    \A s \in seen[r][k] :
        s \in ToSet(Stamps(r, k)) \/ \E e \in seen[r][k] : s.ts < e.ts - rules[r].window

\* Some event seen is the latest.
HasLatest(r, k) ==
    seen[r][k] # {} => \E m \in seen[r][k] : \A e \in seen[r][k] : e.ts <= m.ts

MissedInv ==
    \A r \in DOMAIN rules, k \in AggKeys :
        BelowThreshold(r, k) /\ Remembered(r, k) /\ HasLatest(r, k)

\* A step that leaves what was seen and recorded for a key, and its rule.
LEMMA MissedUnchanged ==
    ASSUME NEW r, NEW k,
           BelowThreshold(r, k), Remembered(r, k), HasLatest(r, k),
           seen'[r][k] = {} \/ (seen'[r][k] = seen[r][k] /\ Stamps(r, k)' = Stamps(r, k)),
           rules'[r] = rules[r], Alerting(r, k) => Alerting(r, k)'
    PROVE  BelowThreshold(r, k)' /\ Remembered(r, k)' /\ HasLatest(r, k)'
BY DEF BelowThreshold, Remembered, HasLatest

\* Recording an event keeps it and drops only what it puts outside the window.
LEMMA CorrelateMissed ==
    ASSUME Typed, MissedInv, NEW w \in Workers, NEW r \in RuleIds, Correlate(w, r)
    PROVE  MissedInv'
<1> DEFINE e  == event[w]
           k  == AggKey(e, rules[r])
           ks == Observe(KeyState(r, k), e, rules[r])
<1>1. /\ e \in EventSet /\ k \in AggKeys /\ ks \in KeyStates
      /\ r \in DOMAIN rules /\ rules[r].window \in Nat /\ rules[r].threshold \in Nat
      /\ e \in ToSet(ks.timestamps)
      /\ \A x \in ToSet(Stamps(r, k)) \ ToSet(ks.timestamps) : x.ts < e.ts - rules[r].window
      /\ \A q \in RuleIds, c \in AggKeys :
             Stamps(q, c)' = IF q = r /\ c = k THEN ks.timestamps ELSE Stamps(q, c)
  BY CorrelateEffect
<1>2. /\ rules' = rules /\ stateLock = Nil /\ seen' = [seen EXCEPT ![r][k] = @ \cup {e}]
      /\ \/ /\ Len(ks.timestamps) >= rules[r].threshold
            /\ pc' = [pc EXCEPT ![w] = "alert"]
            /\ pending' = [pending EXCEPT ![w] = NewAlert(r, k, ks, e)]
         \/ /\ ~ (Len(ks.timestamps) >= rules[r].threshold)
            /\ pc' = pc /\ pending' = pending
  BY DEF Correlate, StateFree
<1> HIDE DEF e, k, ks
<1>3. \A v \in Workers : pc[v] # "alert"
  BY <1>2, EngineAssumption DEF Typed
<1>4. SUFFICES ASSUME NEW q \in DOMAIN rules, NEW c \in AggKeys
               PROVE  BelowThreshold(q, c)' /\ Remembered(q, c)' /\ HasLatest(q, c)'
  BY <1>2 DEF MissedInv
<1>5. q \in RuleIds  BY DEF Typed, TypeOK
<1>6. BelowThreshold(q, c) /\ Remembered(q, c) /\ HasLatest(q, c)  BY DEF MissedInv
<1>7. CASE q # r \/ c # k
  <2>1. seen'[q][c] = seen[q][c] /\ Stamps(q, c)' = Stamps(q, c)
    BY <1>1, <1>2, <1>5, <1>7 DEF Typed
  <2>2. Alerting(q, c) => Alerting(q, c)'  BY <1>3 DEF Alerting
  <2>3. QED  BY <1>2, <1>6, <2>1, <2>2, MissedUnchanged
<1>8. CASE q = r /\ c = k
  <2>1. seen'[q][c] = seen[q][c] \cup {e} /\ Stamps(q, c)' = ks.timestamps
    BY <1>1, <1>2, <1>5, <1>8 DEF Typed
  <2>2. BelowThreshold(q, c)'
    <3>1. CASE Len(ks.timestamps) >= rules[r].threshold
      <4>1. pc'[w] = "alert" /\ pending'[w] = NewAlert(r, k, ks, e)
        BY <1>2, <3>1 DEF Typed
      <4>2. pending'[w].rule = q /\ pending'[w].key = c
        BY <1>8, <4>1 DEF NewAlert
      <4>3. QED  BY <4>1, <4>2 DEF BelowThreshold, Alerting
    <3>2. CASE ~ (Len(ks.timestamps) >= rules[r].threshold)
      <4>1. Len(ks.timestamps) \in Nat  BY <1>1 DEF KeyStates
      <4>2. Len(ks.timestamps) < rules[r].threshold  BY <1>1, <3>2, <4>1
      <4>3. QED  BY <1>2, <1>8, <2>1, <4>2 DEF BelowThreshold
    <3>3. QED  BY <3>1, <3>2
  <2>3. Remembered(q, c)'
    <3>1. SUFFICES ASSUME NEW s \in seen[q][c] \cup {e}
                   PROVE  \/ s \in ToSet(ks.timestamps)
                          \/ \E x \in seen[q][c] \cup {e} : s.ts < x.ts - rules[q].window
      BY <1>2, <2>1 DEF Remembered
    <3>2. CASE s = e  BY <1>1, <3>2
    <3>3. CASE s \in seen[q][c]  BY <1>1, <1>6, <1>8, <3>3 DEF Remembered
    <3>4. QED  BY <3>2, <3>3
  <2>4. HasLatest(q, c)'
    <3>1. \A x \in seen[q][c] \cup {e} : x.ts \in Int
      BY <1>1, <1>5 DEF Typed, EventSet
    <3>2. CASE seen[q][c] = {}  BY <2>1, <3>1, <3>2 DEF HasLatest
    <3>3. CASE seen[q][c] # {}
      <4>1. PICK m \in seen[q][c] : \A x \in seen[q][c] : x.ts <= m.ts
        BY <1>6, <3>3 DEF HasLatest
      <4>2. CASE e.ts <= m.ts  BY <2>1, <4>1, <4>2 DEF HasLatest
      <4>3. CASE ~ (e.ts <= m.ts)
        <5>1. \A x \in seen[q][c] \cup {e} : x.ts <= e.ts  BY <3>1, <4>1, <4>3
        <5>2. QED  BY <2>1, <5>1 DEF HasLatest
      <4>4. QED  BY <4>2, <4>3
    <3>4. QED  BY <3>2, <3>3
  <2>5. QED  BY <2>2, <2>3, <2>4
<1>9. QED  BY <1>7, <1>8

\* A new engine has seen no event.
LEMMA InitMissed == Init => MissedInv
<1>1. SUFFICES ASSUME Init, NEW r \in DOMAIN rules, NEW k \in AggKeys
               PROVE  seen[r][k] = {}
  BY DEF MissedInv, BelowThreshold, Remembered, HasLatest
<1>2. r \in RuleIds  BY <1>1 DEF Init
<1>3. QED  BY <1>1, <1>2 DEF Init

\* Every step keeps what the window needs.
LEMMA NextMissed == Typed /\ MissedInv /\ [Next]_vars => MissedInv'
<1>1. SUFFICES ASSUME Typed, MissedInv, [Next]_vars PROVE MissedInv'  OBVIOUS
<1> USE <1>1
<1>2. ASSUME UNCHANGED <<rules, state, seen, pending>>,
             \A v \in Workers : pc[v] = "alert" => pc'[v] = "alert"
      PROVE  MissedInv'
  <2>1. SUFFICES ASSUME NEW r \in DOMAIN rules, NEW k \in AggKeys
                 PROVE  BelowThreshold(r, k)' /\ Remembered(r, k)' /\ HasLatest(r, k)'
    BY <1>2 DEF MissedInv
  <2>2. Stamps(r, k)' = Stamps(r, k) /\ seen'[r][k] = seen[r][k] /\ rules'[r] = rules[r]
    BY <1>2 DEF Stamps, KeyState
  <2>3. Alerting(r, k) => Alerting(r, k)'  BY <1>2 DEF Alerting
  <2>4. QED  BY <2>2, <2>3, MissedUnchanged DEF MissedInv
<1>3. ASSUME NEW w \in Workers, NEW e \in Events, BeginEvent(w, e) PROVE MissedInv'
  BY <1>2, <1>3 DEF BeginEvent, Typed
<1>4. ASSUME NEW w \in Workers, RaiseAlert(w) PROVE MissedInv'
  <2>1. /\ pending[w] \in AlertSet /\ pc[w] = "alert" /\ rules' = rules
        /\ pending[w].rule \in RuleIds /\ pending[w].key \in AggKeys
        /\ seen' = [seen EXCEPT ![pending[w].rule][pending[w].key] = {}]
        /\ \A v \in Workers : v # w => pc[v] # "alert"
    BY <1>4, RaiseEffect, EngineAssumption DEF RaiseAlert, AlertSet, Typed
  <2>2. SUFFICES ASSUME NEW r \in DOMAIN rules, NEW k \in AggKeys
                 PROVE  BelowThreshold(r, k)' /\ Remembered(r, k)' /\ HasLatest(r, k)'
    BY <2>1 DEF MissedInv
  <2>3. r \in RuleIds  BY DEF Typed, TypeOK
  <2>4. CASE r = pending[w].rule /\ k = pending[w].key
    <3>1. seen'[r][k] = {}  BY <2>1, <2>3, <2>4 DEF Typed
    <3>2. QED  BY <3>1 DEF BelowThreshold, Remembered, HasLatest
  <2>5. CASE ~ (r = pending[w].rule /\ k = pending[w].key)
    <3>1. seen'[r][k] = seen[r][k]  BY <2>1, <2>3, <2>5 DEF Typed
    <3>2. Stamps(r, k)' = Stamps(r, k)  BY <1>4, <2>3, <2>5, RaiseEffect
    <3>3. ~ Alerting(r, k)  BY <2>1, <2>5 DEF Alerting
    <3>4. QED  BY <2>1, <3>1, <3>2, <3>3, MissedUnchanged DEF MissedInv
  <2>6. QED  BY <2>4, <2>5
<1>5. ASSUME NEW w \in Workers, EndEvent(w) PROVE MissedInv'
  BY <1>2, <1>5 DEF EndEvent, Typed
<1>6. CASE BeginSweep \/ EndSweep
  BY <1>2, <1>6 DEF BeginSweep, EndSweep, workerVars
<1>7. ASSUME NEW r \in RuleIds, SweepRule(r) PROVE MissedInv'
  <2>1. rules' = rules /\ pc' = pc /\ pending' = pending  BY <1>7 DEF SweepRule, workerVars
  <2>2. SUFFICES ASSUME NEW q \in DOMAIN rules, NEW k \in AggKeys
                 PROVE  BelowThreshold(q, k)' /\ Remembered(q, k)' /\ HasLatest(q, k)'
    BY <2>1 DEF MissedInv
  <2>3. q \in RuleIds  BY DEF Typed, TypeOK
  <2>4. seen'[q][k] = {} \/ (seen'[q][k] = seen[q][k] /\ Stamps(q, k)' = Stamps(q, k))
    BY <1>7, <2>3, SweepEffect
  <2>5. Alerting(q, k) => Alerting(q, k)'  BY <2>1 DEF Alerting
  <2>6. QED  BY <2>1, <2>4, <2>5, MissedUnchanged DEF MissedInv
<1>8. ASSUME NEW r \in RuleIds, NEW d \in RuleDefs \cup {Nil}, RequestRuleChange(r, d)
      PROVE  MissedInv'
  BY <1>2, <1>8 DEF RequestRuleChange, workerVars
<1>9. CASE AddRule \/ RemoveRule
  <2>1. /\ state' = state /\ pc' = pc /\ pending' = pending /\ wait.rule \in RuleIds
        /\ \/ /\ DOMAIN rules' = DOMAIN rules \cup {wait.rule}
              /\ \A r \in DOMAIN rules \ {wait.rule} : rules'[r] = rules[r]
              /\ seen' = [seen EXCEPT ![wait.rule] = [k \in AggKeys |-> {}]]
           \/ /\ DOMAIN rules' \subseteq DOMAIN rules /\ seen' = seen
              /\ \A r \in DOMAIN rules' : rules'[r] = rules[r]
    <3>1. CASE AddRule    BY <3>1 DEF AddRule, Typed, workerVars
    <3>2. CASE RemoveRule  BY <3>2 DEF RemoveRule, Typed, workerVars
    <3>3. QED  BY <1>9, <3>1, <3>2
  <2>2. SUFFICES ASSUME NEW r \in DOMAIN rules', NEW k \in AggKeys
                 PROVE  BelowThreshold(r, k)' /\ Remembered(r, k)' /\ HasLatest(r, k)'
    BY DEF MissedInv
  <2>3. r \in RuleIds  BY <2>1 DEF Typed, TypeOK
  <2>4. \/ seen'[r][k] = {}
        \/ r \in DOMAIN rules /\ rules'[r] = rules[r] /\ seen'[r][k] = seen[r][k]
    BY <2>1, <2>3 DEF Typed
  <2>5. CASE seen'[r][k] = {}  BY <2>5 DEF BelowThreshold, Remembered, HasLatest
  <2>6. CASE r \in DOMAIN rules /\ rules'[r] = rules[r] /\ seen'[r][k] = seen[r][k]
    <3>1. Stamps(r, k)' = Stamps(r, k)  BY <2>1 DEF Stamps, KeyState
    <3>2. Alerting(r, k) => Alerting(r, k)'  BY <2>1 DEF Alerting
    <3>3. QED  BY <2>6, <3>1, <3>2, MissedUnchanged DEF MissedInv
  <2>7. QED  BY <2>4, <2>5, <2>6
<1>10. CASE Tick \/ UNCHANGED vars
  BY <1>2, <1>10 DEF Tick, vars, workerVars
<1>11. QED
  BY <1>3, CorrelateMissed, <1>4, <1>5, <1>6, <1>7, <1>8, <1>9, <1>10
  DEF Next, Worker, Sweep, RuleChange

\* Among the events seen for a key with nothing being raised, fewer than the
\* threshold are within the window of the latest.
LEMMA MissedImplies == Typed /\ MissedInv => NoMissedAlert
<1>1. SUFFICES ASSUME Typed, MissedInv, NEW r \in DOMAIN rules, NEW k \in AggKeys,
                      seen[r][k] # {}, stateLock = Nil
               PROVE  Cardinality(InWindow(r, k)) < rules[r].threshold
  BY DEF NoMissedAlert
<1> DEFINE s == seen[r][k]
           latest == CHOOSE t \in {e.ts : e \in s} : \A e \in s : e.ts <= t
<1>2. /\ r \in RuleIds /\ rules[r].threshold \in Nat /\ rules[r].window \in Nat
      /\ s \subseteq EventSet /\ \A e \in s : e.ts \in Int
  BY <1>1, EngineAssumption DEF Typed, TypeOK, EventSet
<1>3. ~ Alerting(r, k)  BY <1>1, EngineAssumption DEF Alerting, Typed
<1>4. /\ Len(Stamps(r, k)) < rules[r].threshold
      /\ Remembered(r, k) /\ HasLatest(r, k)
  BY <1>1, <1>3 DEF MissedInv, BelowThreshold
<1>5. latest \in Int /\ \A e \in s : e.ts <= latest
  <2>1. \E t \in {e.ts : e \in s} : \A e \in s : e.ts <= t  BY <1>1, <1>4 DEF HasLatest
  <2>2. latest \in {e.ts : e \in s} /\ \A e \in s : e.ts <= latest
    <3> HIDE DEF s
    <3>1. QED  BY <2>1
  <2>3. QED  BY <1>2, <2>2
<1>6. InWindow(r, k) = {e \in s : e.ts >= latest - rules[r].window}  BY DEF InWindow
<1> HIDE DEF latest
<1>7. InWindow(r, k) \subseteq ToSet(Stamps(r, k))
  <2>1. SUFFICES ASSUME NEW x \in s, x.ts >= latest - rules[r].window
                 PROVE  x \in ToSet(Stamps(r, k))
    BY <1>6
  <2>2. \A e \in s : ~ (x.ts < e.ts - rules[r].window)
    BY <1>2, <1>5, <2>1
  <2>3. QED  BY <1>4, <2>2 DEF Remembered
<1>8. Stamps(r, k) \in Seq(EventSet)  BY <1>1, <1>2, StampsTyped
<1>9. /\ IsFiniteSet(ToSet(Stamps(r, k)))
      /\ Cardinality(ToSet(Stamps(r, k))) <= Len(Stamps(r, k))
      /\ Cardinality(InWindow(r, k)) <= Cardinality(ToSet(Stamps(r, k)))
  BY <1>7, <1>8, ToSetCardinality, FS_Subset
<1>10. /\ Cardinality(InWindow(r, k)) \in Nat /\ Cardinality(ToSet(Stamps(r, k))) \in Nat
       /\ Len(Stamps(r, k)) \in Nat
  BY <1>7, <1>8, <1>9, FS_Subset, FS_CardinalityType
<1>11. QED  BY <1>2, <1>4, <1>9, <1>10

\* No alert is missed, in whatever order any number of workers record events.
THEOREM AlertsNotMissed == Spec => []NoMissedAlert
<1>1. Spec => []MissedInv
  BY InitMissed, NextMissed, EngineTyped, PTL DEF Spec
<1>2. QED  BY <1>1, MissedImplies, EngineTyped, PTL
=============================================================================
