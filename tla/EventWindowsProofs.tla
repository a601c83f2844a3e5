------------------------- MODULE EventWindowsProofs -------------------------
(***************************************************************************)
(* The windows manager for every set of specs, of groups and of events:    *)
(* what process_hopping's arithmetic computes, and that every event is in  *)
(* the windows it belongs to, emitted or open.                             *)
(***************************************************************************)
EXTENDS EventWindows, FiniteSetTheorems, WellFoundedInduction, TLAPS

-----------------------------------------------------------------------------
(* The inductive invariant *)

\* What windows hold, and the windows.
Copies == [id : Nat, ts : Nat, group : Groups, amount : Nat]
Windows == [start : Int, end : Int, group : Groups \cup {Global}, events : Seq(Copies)]

\* An event as its source has it, and whether a window has an event.
EventType == [id : Nat, ts : Nat, group : Groups, amount : Amounts]
Holds(win, id) == \E i \in DOMAIN win.events : win.events[i].id = id

\* A session ends at its last event and has no gap; every other window has the
\* length of its spec.
Shape(spec, win) ==
    IF spec.type = "Session"
    THEN /\ win.end = win.events[Len(win.events)].ts
         /\ \A i \in 2 .. Len(win.events) : win.events[i].ts - win.events[i - 1].ts <= spec.gap
    ELSE win.end = win.start + spec.size

\* acc = [windows, results] holds what the specs of list made of events with
\* ids up to last.
WellFormed(acc, list, last) ==
    /\ acc = [windows |-> acc.windows, results |-> acc.results]
    /\ IsFiniteSet(DOMAIN acc.windows)
    /\ acc.windows \in [DOMAIN acc.windows -> Windows]
    /\ \A k \in DOMAIN acc.windows :
         /\ acc.windows[k].events # << >>
         /\ \E s \in ToSet(list) : s.id = k[1] /\ Shape(s, acc.windows[k])
         /\ \A i \in DOMAIN acc.windows[k].events : acc.windows[k].events[i].id <= last
    /\ acc.results \in Seq(ToSet(acc.results))
    /\ \A i \in DOMAIN acc.results : ToSet(acc.results[i].ids) \subseteq 0 .. last

\* How often a spec is to count an event it was there for.
CountRight(acc, spec, e) ==
    LET n == CountIn(acc, spec, e.id)
    IN  CASE spec.type = "Tumbling" -> n >= 1
          [] spec.type = "Hopping"  -> n = Cardinality(HopWindows(spec, e.ts))
          [] OTHER -> n = 1

Books == [windows |-> windows, results |-> results]

SpecsDistinct ==
    /\ specs \in Seq(Specs)
    /\ \A i, j \in DOMAIN specs : specs[i] = specs[j] => i = j

WindowsInv ==
    /\ SpecsDistinct
    /\ nextId \in Nat /\ now \in Nat
    /\ WellFormed(Books, specs, nextId)
    /\ \A p \in processed :
         /\ p.event.id \in 1 .. nextId /\ p.event.ts \in Nat
         /\ p.specs \subseteq ToSet(specs)
         /\ \A s \in p.specs : CountRight(Books, s, p.event)

-----------------------------------------------------------------------------
(* The hops of an event *)

\* A quotient rounded towards zero is within one divisor of the dividend, on
\* the side of zero.
LEMMA TruncDivBounds ==
    ASSUME NEW a \in Int, NEW b \in Nat \ {0}
    PROVE  /\ TruncDiv(a, b) \in Int
           /\ a >= 0 => /\ TruncDiv(a, b) * b <= a
                        /\ a < TruncDiv(a, b) * b + b
           /\ a < 0  => /\ a <= TruncDiv(a, b) * b
                        /\ TruncDiv(a, b) * b < a + b
<1>1. ASSUME NEW n \in Nat
      PROVE  n \div b \in Nat /\ (n \div b) * b <= n /\ n < (n \div b) * b + b
  BY <1>1, SMT
<1>2. CASE a >= 0
  BY <1>1, <1>2 DEF TruncDiv
<1>3. CASE a < 0
  <2>1. -a \in Nat  BY <1>3
  <2> DEFINE q == (-a) \div b
  <2>2. q \in Nat /\ q * b <= -a /\ -a < q * b + b  BY <1>1, <2>1
  <2>3. TruncDiv(a, b) = -q  BY <1>3 DEF TruncDiv
  <2> HIDE DEF q
  <2>4. (-q) * b = -(q * b)  BY <2>2, SMT
  <2>5. QED  BY <1>3, <2>2, <2>3, <2>4, SMT
<1>4. QED  BY <1>2, <1>3

\* Multiples of a positive hop are ordered as the multipliers are.
LEMMA HopOrder ==
    ASSUME NEW v \in Int, NEW w \in Int, NEW b \in Nat \ {0}, v * b < w * b + b
    PROVE  v <= w
<1>1. SUFFICES ASSUME v >= w + 1 PROVE FALSE  OBVIOUS
<1>2. (w + 1) * b <= v * b
  <2>1. PICK d \in Nat : v = w + 1 + d  BY <1>1, SMT
  <2>2. v * b = (w + 1) * b + d * b  BY <2>1, SMT
  <2>3. d * b >= 0  BY <2>1, SMT
  <2>4. QED  BY <2>2, <2>3, SMT
<1>3. (w + 1) * b = w * b + b  BY SMT
<1>4. QED  BY <1>2, <1>3, SMT

\* The range that process_hopping walks, cut down by its "continue", holds
\* every window that covers the event and no other, whatever the size, the
\* hop and the event's distance from the epoch: rounding towards zero never
\* loses the oldest window.
THEOREM HopWindowsExact ==
    ASSUME NEW spec, spec.size \in Nat \ {0}, spec.slide \in Nat \ {0},
           NEW ts \in Nat
    PROVE  HopWindows(spec, ts) = {w \in Int : Covers(spec, w, ts)}
<1> DEFINE size == spec.size
           slide == spec.slide
           first == TruncDiv(ts - size, slide)
           last == TruncDiv(ts, slide)
<1>1. size \in Nat \ {0} /\ slide \in Nat \ {0}  OBVIOUS
<1>2. ts - size \in Int /\ ts >= 0 /\ ts \in Int  BY <1>1
<1> HIDE DEF size, slide
<1>3. /\ first \in Int
      /\ ts - size >= 0 => first * slide <= ts - size
      /\ ts - size < 0 => first * slide < ts - size + slide
  BY <1>1, <1>2, TruncDivBounds
<1>4. last \in Int /\ ts < last * slide + slide
  BY <1>1, <1>2, TruncDivBounds
<1> HIDE DEF first, last
<1>5. ASSUME NEW w \in Int, w * slide <= ts, ts < w * slide + size
      PROVE  w \in first .. last
  <2>1. w <= last
    <3>1. w * slide < last * slide + slide  BY <1>1, <1>2, <1>4, <1>5, SMT
    <3>2. QED  BY <3>1, <1>1, <1>4, HopOrder
  <2>2. first <= w
    <3>1. first * slide < w * slide + slide  BY <1>1, <1>2, <1>3, <1>5, SMT
    <3>2. QED  BY <3>1, <1>1, <1>3, HopOrder
  <2>3. QED  BY <2>1, <2>2, <1>3, <1>4
<1>6. ASSUME NEW w \in Int
      PROVE  Covers(spec, w, ts) <=> w * slide <= ts /\ ts < w * slide + size
  BY DEF Covers, HopStart, size, slide
<1>7. HopWindows(spec, ts) = {w \in first .. last : Covers(spec, w, ts)}
  BY DEF HopWindows, first, last, size, slide
<1>8. first .. last \subseteq Int  BY <1>3, <1>4
<1>9. QED  BY <1>5, <1>6, <1>7, <1>8

-----------------------------------------------------------------------------
(* The loop over the specs *)

\* Every non-empty set of numbers has a least element.
LEMMA LeastNumber ==
    ASSUME NEW T \in SUBSET Nat, T # {}
    PROVE  \E n \in T : \A m \in T : n <= m
<1> DEFINE R == StrictSubsetOrdering(Nat)
           I == {0 .. n : n \in T}
<1>1. IsWellFoundedOn(R, FiniteSubsetsOf(Nat))
  BY FS_StrictSubsetOrderingWellFounded
<1>2. I \subseteq FiniteSubsetsOf(Nat) /\ I # {}
  <2>1. \A n \in T : IsFiniteSet(0 .. n) /\ 0 .. n \in SUBSET Nat  BY FS_Interval
  <2>2. QED  BY <2>1 DEF FiniteSubsetsOf
<1>3. ASSUME NEW m \in T, NEW n \in T, m < n PROVE <<0 .. m, 0 .. n>> \in R
  <2>1. n \in 0 .. n /\ n \notin 0 .. m /\ 0 .. m \subseteq 0 .. n  BY <1>3
  <2>2. 0 .. m \in SUBSET Nat /\ 0 .. n \in SUBSET Nat  OBVIOUS
  <2>3. QED  BY <2>1, <2>2 DEF StrictSubsetOrdering
<1> HIDE DEF R
<1>4. PICK S \in I : \A U \in I : ~ (<<U, S>> \in R)
  <2> HIDE DEF I
  <2>1. QED  BY <1>1, <1>2, WFMin
<1>5. PICK n \in T : S = 0 .. n  OBVIOUS
<1>6. \A m \in T : ~ (m < n)  BY <1>3, <1>4, <1>5
<1>7. QED  BY <1>6

\* What holds before the first of some steps and is handed on by each of them
\* holds after the last.
LEMMA StepByStep ==
    ASSUME NEW n \in Nat, NEW T, 0 \in T, \A i \in 1 .. n : i - 1 \in T => i \in T
    PROVE  n \in T
<1> SUFFICES ASSUME n \notin T PROVE FALSE  OBVIOUS
<1> DEFINE R == {i \in 0 .. n : i \notin T}
<1>1. R \in SUBSET Nat /\ n \in R  OBVIOUS
<1>2. PICK m \in R : \A i \in R : m <= i  BY <1>1, LeastNumber
<1>3. m \in 1 .. n /\ m - 1 \in 0 .. n /\ ~ (m <= m - 1)  BY <1>2
<1>4. m - 1 \in T  BY <1>2, <1>3
<1>5. QED  BY <1>2, <1>3, <1>4

\* f is the first n steps of the loop that processes e for the specs of list.
Loop(f, n, acc, list, e) ==
    f = [i \in 0 .. n |-> IF i = 0 THEN acc ELSE ProcessSpec(f[i - 1], list[i], e)]

\* The loop has as many steps as one likes: it is a recursive function that
\* exists.
LEMMA LoopExists ==
    ASSUME NEW n \in Nat, NEW acc, NEW list, NEW e
    PROVE  \E f : Loop(f, n, acc, list, e)
<1> DEFINE T == {m \in Nat : \E f : Loop(f, m, acc, list, e)}
<1>1. 0 \in T
  <2>1. Loop([i \in 0 .. 0 |-> acc], 0, acc, list, e)
    <3>1. \A i \in 0 .. 0 : i = 0  OBVIOUS
    <3>2. QED  BY <3>1 DEF Loop
  <2>2. QED  BY <2>1
<1>2. ASSUME NEW m \in 1 .. n, m - 1 \in T
      PROVE  m \in T
  <2>1. PICK f : Loop(f, m - 1, acc, list, e)  BY <1>2
  <2>2. f = [i \in 0 .. m - 1 |-> IF i = 0 THEN acc ELSE ProcessSpec(f[i - 1], list[i], e)]
    BY <2>1 DEF Loop
  <2> DEFINE g == [i \in 0 .. m |-> IF i = m THEN ProcessSpec(f[m - 1], list[m], e) ELSE f[i]]
             h == [i \in 0 .. m |-> IF i = 0 THEN acc ELSE ProcessSpec(g[i - 1], list[i], e)]
  <2>3. ASSUME NEW i \in 0 .. m PROVE g[i] = h[i]
    <3>1. CASE i = 0  BY <3>1, <2>2
    <3>2. CASE i = m
      <4>1. m - 1 \in 0 .. m /\ m - 1 # m  OBVIOUS
      <4>2. QED  BY <3>2, <4>1
    <3>3. CASE i \in 1 .. m - 1
      <4>1. i \in 0 .. m - 1 /\ i # 0 /\ i # m /\ i - 1 \in 0 .. m /\ i - 1 # m  BY <3>3
      <4>2. g[i - 1] = f[i - 1] /\ g[i] = f[i]  BY <4>1
      <4>3. QED  BY <2>2, <4>1, <4>2
    <3>4. QED  BY <3>1, <3>2, <3>3
  <2>4. g = h  BY <2>3
  <2>5. Loop(g, m, acc, list, e)  BY <2>4 DEF Loop
  <2>6. m \in Nat  OBVIOUS
  <2>7. QED  BY <2>5, <2>6
<1> HIDE DEF T
<1>3. n \in T  BY <1>1, <1>2, StepByStep
<1>4. QED  BY <1>3 DEF T

\* process_event goes through the specs one by one.
LEMMA LoopSteps ==
    ASSUME NEW acc, NEW list, Len(list) \in Nat, NEW e
    PROVE  \E a : /\ a[0] = acc /\ a[Len(list)] = ProcessSpecs(acc, list, e)
                  /\ \A i \in 1 .. Len(list) : a[i] = ProcessSpec(a[i - 1], list[i], e)
<1> DEFINE a == CHOOSE f : Loop(f, Len(list), acc, list, e)
<1>1. Loop(a, Len(list), acc, list, e)
  <2>1. \E f : Loop(f, Len(list), acc, list, e)  BY LoopExists
  <2>2. QED  BY <2>1
<1>2. a[Len(list)] = ProcessSpecs(acc, list, e)
  BY DEF ProcessSpecs, Loop
<1> HIDE DEF a
<1>3. a = [i \in 0 .. Len(list) |-> IF i = 0 THEN acc ELSE ProcessSpec(a[i - 1], list[i], e)]
  BY <1>1 DEF Loop
<1>4. a[0] = acc  BY <1>3
<1>5. ASSUME NEW i \in 1 .. Len(list)
      PROVE  a[i] = ProcessSpec(a[i - 1], list[i], e)
  <2>1. i \in 0 .. Len(list) /\ i # 0  OBVIOUS
  <2>2. QED  BY <1>3, <2>1
<1>6. QED  BY <1>2, <1>4, <1>5

-----------------------------------------------------------------------------
(* Windows with an event more *)

\* Appending adds exactly one element, at the end.
LEMMA AppendEffect ==
    ASSUME NEW S, NEW s \in Seq(S), NEW x \in S
    PROVE  /\ Append(s, x) \in Seq(S) /\ Len(Append(s, x)) = Len(s) + 1
           /\ DOMAIN s = 1 .. Len(s) /\ Len(s) \in Nat
           /\ DOMAIN Append(s, x) = 1 .. Len(s) + 1
           /\ \A i \in 1 .. Len(s) : Append(s, x)[i] = s[i]
           /\ Append(s, x)[Len(s) + 1] = x
           /\ Append(s, x) # << >>
<1>1. /\ Append(s, x) \in Seq(S) /\ Len(Append(s, x)) = Len(s) + 1
      /\ DOMAIN s = 1 .. Len(s) /\ Len(s) \in Nat
      /\ DOMAIN Append(s, x) = 1 .. Len(s) + 1
      /\ \A i \in 1 .. Len(s) : Append(s, x)[i] = s[i]
      /\ Append(s, x)[Len(s) + 1] = x
  OBVIOUS
<1>2. Append(s, x) # << >>  BY <1>1
<1>3. QED  BY <1>1, <1>2

\* Specs with one id are one spec.
LEMMA SpecFacts ==
    ASSUME NEW spec \in Specs
    PROVE  /\ spec.type \in {"Tumbling", "Sliding", "Session", "Hopping"}
           /\ spec.size \in Nat \ {0} /\ spec.slide \in Nat \ {0} /\ spec.gap \in Nat
           /\ \A s \in Specs : s.id = spec.id => s = spec
BY WindowsAssumption

\* The group of an event is one of the groups, whatever spec asks.
LEMMA GroupKeyType ==
    ASSUME NEW e \in EventType, NEW spec
    PROVE  GroupKey(e, spec) \in Groups \cup {Global}
BY DEF GroupKey, EventType

\* A window is its four fields.
LEMMA WindowFields ==
    ASSUME NEW win \in Windows
    PROVE  /\ win.start \in Int /\ win.end \in Int /\ win.group \in Groups \cup {Global}
           /\ win.events \in Seq(Copies) /\ DOMAIN win.events = 1 .. Len(win.events)
           /\ Len(win.events) \in Nat
           /\ \A i \in DOMAIN win.events : win.events[i] \in Copies
BY DEF Windows

\* The copy of an event has its id and its timestamp.
LEMMA CopyType ==
    ASSUME NEW e \in EventType
    PROVE  /\ StoredCopy(e) \in Copies /\ StoredCopy(e).id = e.id /\ StoredCopy(e).ts = e.ts
           /\ e.id \in Nat /\ e.ts \in Nat
BY DEF EventType, StoredCopy, Copies

\* Storing an event adds it, and nothing else, behind the others.
LEMMA StoreEffect ==
    ASSUME NEW win \in Windows, NEW e \in EventType
    PROVE  /\ Store(win, e) \in Windows
           /\ Store(win, e).start = win.start /\ Store(win, e).end = win.end
           /\ Store(win, e).events # << >>
           /\ Len(Store(win, e).events) = Len(win.events) + 1
           /\ \A i \in 1 .. Len(win.events) : Store(win, e).events[i] = win.events[i]
           /\ Store(win, e).events[Len(win.events) + 1].id = e.id
           /\ Store(win, e).events[Len(win.events) + 1].ts = e.ts
           /\ \A id : Holds(Store(win, e), id) <=> Holds(win, id) \/ id = e.id
<1> DEFINE c == StoredCopy(e)
           s == win.events
<1>1. c \in Copies /\ c.id = e.id /\ c.ts = e.ts  BY CopyType
<1>2. s \in Seq(Copies) /\ DOMAIN s = 1 .. Len(s) /\ Len(s) \in Nat  BY WindowFields
<1>3. /\ Store(win, e) = [start |-> win.start, end |-> win.end, group |-> win.group,
                          events |-> Append(s, c)]
      /\ win.start \in Int /\ win.end \in Int /\ win.group \in Groups \cup {Global}
  BY DEF Store, Windows
<1> HIDE DEF c, s
<1>4. /\ Append(s, c) \in Seq(Copies) /\ Len(Append(s, c)) = Len(s) + 1
      /\ DOMAIN Append(s, c) = 1 .. Len(s) + 1
      /\ \A i \in 1 .. Len(s) : Append(s, c)[i] = s[i]
      /\ Append(s, c)[Len(s) + 1] = c
      /\ Append(s, c) # << >>
  BY <1>1, <1>2, AppendEffect
<1>5. Store(win, e) \in Windows  BY <1>3, <1>4 DEF Windows
<1>6. Store(win, e).events = Append(s, c)  BY <1>3
<1>7. ASSUME NEW id
      PROVE  Holds(Store(win, e), id) <=> Holds(win, id) \/ id = e.id
  <2>1. 1 .. Len(s) + 1 = (1 .. Len(s)) \cup {Len(s) + 1}  BY <1>2
  <2>2. Holds(Store(win, e), id) <=> \E i \in 1 .. Len(s) + 1 : Append(s, c)[i].id = id
    BY <1>4, <1>6 DEF Holds
  <2>3. Holds(win, id) <=> \E i \in 1 .. Len(s) : s[i].id = id
    BY <1>2 DEF Holds, s
  <2>4. QED  BY <2>1, <2>2, <2>3, <1>1, <1>4, Zenon
<1>8. /\ Len(Store(win, e).events) = Len(win.events) + 1
      /\ \A i \in 1 .. Len(win.events) : Store(win, e).events[i] = win.events[i]
      /\ Store(win, e).events[Len(win.events) + 1].id = e.id
      /\ Store(win, e).events[Len(win.events) + 1].ts = e.ts
      /\ Store(win, e).events # << >>
  BY <1>1, <1>4, <1>6 DEF s
<1>9. Store(win, e).start = win.start /\ Store(win, e).end = win.end  BY <1>3
<1>10. QED  BY <1>5, <1>7, <1>8, <1>9

\* The window that a key has, or a new one without events.
LEMMA AtWindow ==
    ASSUME NEW ws, ws \in [DOMAIN ws -> Windows], NEW key, NEW g \in Groups \cup {Global}
    PROVE  /\ At(ws, key, g) \in Windows
           /\ \A id : Holds(At(ws, key, g), id) <=> key \in DOMAIN ws /\ Holds(ws[key], id)
           /\ At(ws, key, g).events # << >> => key \in DOMAIN ws /\ At(ws, key, g) = ws[key]
<1>1. CASE key \in DOMAIN ws
  BY <1>1 DEF At
<1>2. CASE key \notin DOMAIN ws
  <2>1. At(ws, key, g) = [start |-> 0, end |-> 0, group |-> g, events |-> << >>]
    BY <1>2 DEF At, NoWindow
  <2>2. << >> \in Seq(Copies) /\ DOMAIN << >> = {}  OBVIOUS
  <2>3. At(ws, key, g) \in Windows  BY <2>1, <2>2 DEF Windows
  <2>4. \A id : ~ Holds(At(ws, key, g), id)  BY <2>1, <2>2 DEF Holds
  <2>5. QED  BY <1>2, <2>1, <2>3, <2>4
<1>3. QED  BY <1>1, <1>2

\* Moving a window changes its interval only.
LEMMA MoveEffect ==
    ASSUME NEW win \in Windows, NEW start \in Int, NEW spec \in Specs
    PROVE  /\ MoveTo(win, start, spec) \in Windows
           /\ MoveTo(win, start, spec).end = MoveTo(win, start, spec).start + spec.size
           /\ MoveTo(win, start, spec).events = win.events
           /\ \A id : Holds(MoveTo(win, start, spec), id) <=> Holds(win, id)
<1>1. start + spec.size \in Int  BY SpecFacts
<1> DEFINE mid == [win EXCEPT !.start = start]
<1>2. /\ mid \in Windows /\ mid.start = start /\ mid.group = win.group /\ mid.events = win.events
      /\ MoveTo(win, start, spec) = [mid EXCEPT !.end = start + spec.size]
  BY DEF MoveTo, Windows
<1> HIDE DEF mid
<1>3. /\ MoveTo(win, start, spec) \in Windows /\ MoveTo(win, start, spec).start = start
      /\ MoveTo(win, start, spec).end = start + spec.size
      /\ MoveTo(win, start, spec).events = win.events
  BY <1>1, <1>2 DEF Windows
<1>4. QED  BY <1>3 DEF Holds

-----------------------------------------------------------------------------
(* What one spec's branch leaves *)

\* The map of windows with those of W new or in their places.
Updated(ws, W) == [k \in DOMAIN ws \cup DOMAIN W |-> IF k \in DOMAIN W THEN W[k] ELSE ws[k]]

\* W is fit to be spec's windows after events with ids up to last.
FitWindows(W, spec, last) ==
    /\ IsFiniteSet(DOMAIN W) /\ W \in [DOMAIN W -> Windows]
    /\ \A k \in DOMAIN W :
         /\ k[1] = spec.id /\ W[k].events # << >> /\ Shape(spec, W[k])
         /\ \A i \in DOMAIN W[k].events : W[k].events[i].id <= last

\* Entering windows of spec in the map changes what spec's windows hold, and
\* no other's.
LEMMA UpdatedHolds ==
    ASSUME NEW acc, NEW b, NEW W, b.windows = Updated(acc.windows, W), NEW spec, NEW id,
           \A k \in DOMAIN W : k[1] = spec.id
    PROVE  /\ \A s : s.id # spec.id => InWindows(b, s, id) = InWindows(acc, s, id)
           /\ InWindows(b, spec, id) = (InWindows(acc, spec, id) \ DOMAIN W)
                                        \cup {k \in DOMAIN W : Holds(W[k], id)}
<1>1. /\ DOMAIN b.windows = DOMAIN acc.windows \cup DOMAIN W
      /\ \A k \in DOMAIN W : b.windows[k] = W[k]
      /\ \A k \in DOMAIN acc.windows \ DOMAIN W : b.windows[k] = acc.windows[k]
  BY DEF Updated
<1>2. ASSUME NEW s
      PROVE  /\ InWindows(b, s, id) = {k \in DOMAIN b.windows : k[1] = s.id /\ Holds(b.windows[k], id)}
             /\ InWindows(acc, s, id) = {k \in DOMAIN acc.windows : k[1] = s.id /\ Holds(acc.windows[k], id)}
  BY DEF InWindows, Holds
<1>3. ASSUME NEW s, s.id # spec.id
      PROVE  InWindows(b, s, id) = InWindows(acc, s, id)
  <2>1. ASSUME NEW k, k[1] = s.id PROVE k \notin DOMAIN W  BY <1>3, <2>1
  <2>2. ASSUME NEW k, k[1] = s.id
        PROVE  /\ k \in DOMAIN b.windows <=> k \in DOMAIN acc.windows
               /\ k \in DOMAIN acc.windows => b.windows[k] = acc.windows[k]
    BY <1>1, <2>1, <2>2
  <2>3. QED  BY <1>2, <2>2, Zenon
<1>4. ASSUME NEW k
      PROVE  k \in InWindows(b, spec, id) <=>
                \/ k \in InWindows(acc, spec, id) \ DOMAIN W
                \/ k \in DOMAIN W /\ Holds(W[k], id)
  <2>1. /\ k \in InWindows(b, spec, id) <=>
               k \in DOMAIN b.windows /\ k[1] = spec.id /\ Holds(b.windows[k], id)
        /\ k \in InWindows(acc, spec, id) <=>
               k \in DOMAIN acc.windows /\ k[1] = spec.id /\ Holds(acc.windows[k], id)
    BY <1>2
  <2>2. CASE k \in DOMAIN W  BY <1>1, <2>1, <2>2
  <2>3. CASE k \notin DOMAIN W  BY <1>1, <2>1, <2>3
  <2>4. QED  BY <2>2, <2>3
<1>5. QED  BY <1>3, <1>4

\* A map with fit windows entered is still well formed.
LEMMA UpdatedWellFormed ==
    ASSUME NEW acc, NEW b, NEW W, NEW list, NEW spec \in ToSet(list), NEW last \in Nat,
           WellFormed(acc, list, last), FitWindows(W, spec, last),
           b = [windows |-> Updated(acc.windows, W), results |-> b.results],
           b.results \in Seq(ToSet(b.results)),
           \A i \in DOMAIN b.results : ToSet(b.results[i].ids) \subseteq 0 .. last
    PROVE  WellFormed(b, list, last)
<1> DEFINE ws == b.windows
<1>1. b.windows = Updated(acc.windows, W) /\ b = [windows |-> b.windows, results |-> b.results]
  OBVIOUS
<1>2. /\ DOMAIN ws = DOMAIN acc.windows \cup DOMAIN W
      /\ \A k \in DOMAIN W : ws[k] = W[k]
      /\ \A k \in DOMAIN acc.windows \ DOMAIN W : ws[k] = acc.windows[k]
      /\ ws = [k \in DOMAIN ws |-> ws[k]]
  BY <1>1 DEF Updated
<1> HIDE DEF ws
<1>3. IsFiniteSet(DOMAIN ws)
  <2>1. IsFiniteSet(DOMAIN acc.windows)  BY DEF WellFormed
  <2>2. IsFiniteSet(DOMAIN W)  BY DEF FitWindows
  <2>3. IsFiniteSet(DOMAIN acc.windows \cup DOMAIN W)  BY <2>1, <2>2, FS_Union
  <2>4. QED  BY <1>2, <2>3, Zenon
<1>4. ASSUME NEW k \in DOMAIN ws
      PROVE  /\ ws[k] \in Windows /\ ws[k].events # << >>
             /\ \E s \in ToSet(list) : s.id = k[1] /\ Shape(s, ws[k])
             /\ \A i \in DOMAIN ws[k].events : ws[k].events[i].id <= last
  <2>1. CASE k \in DOMAIN W
    BY <1>2, <2>1 DEF FitWindows
  <2>2. CASE k \notin DOMAIN W
    <3>1. k \in DOMAIN acc.windows /\ ws[k] = acc.windows[k]  BY <1>2, <2>2
    <3>2. QED  BY <3>1 DEF WellFormed
  <2>3. QED  BY <2>1, <2>2
<1>5. ws \in [DOMAIN ws -> Windows]  BY <1>2, <1>4
<1>6. QED  BY <1>1, <1>3, <1>4, <1>5 DEF WellFormed, ws

\* What a result counts is what its window holds.
LEMMA ResultIds ==
    ASSUME NEW spec, NEW win \in Windows, NEW via
    PROVE  /\ Result(spec, win, via).spec = spec
           /\ \A id : id \in ToSet(Result(spec, win, via).ids) <=> Holds(win, id)
<1>1. /\ Result(spec, win, via).spec = spec
      /\ Result(spec, win, via).ids = [i \in DOMAIN win.events |-> win.events[i].id]
  BY DEF Result
<1>2. QED  BY <1>1 DEF ToSet, Holds

\* Emitting one more result adds it to its spec's results with its ids.
Emits(acc, b, r, T) ==
    /\ acc.results \in Seq(ToSet(acc.results)) /\ b.results = Append(acc.results, r)
    /\ ToSet(r.ids) \subseteq T
    /\ \A i \in DOMAIN acc.results : ToSet(acc.results[i].ids) \subseteq T

Emitted(acc, b, r, T) ==
    /\ b.results \in Seq(ToSet(b.results))
    /\ \A i \in DOMAIN b.results : ToSet(b.results[i].ids) \subseteq T
    /\ \A s, id :
         /\ r.spec = s /\ id \in ToSet(r.ids) =>
              /\ InResults(b, s, id) = InResults(acc, s, id) \cup {Len(acc.results) + 1}
              /\ Len(acc.results) + 1 \notin InResults(acc, s, id)
         /\ ~ (r.spec = s /\ id \in ToSet(r.ids)) =>
              InResults(b, s, id) = InResults(acc, s, id)

LEMMA EmitEffect ==
    ASSUME NEW acc, NEW b, NEW r, NEW T, Emits(acc, b, r, T)
    PROVE  Emitted(acc, b, r, T)
<1> DEFINE q == acc.results
           S == ToSet(q) \cup {r}
<1>1. q \in Seq(S) /\ r \in S /\ b.results = Append(q, r)  BY DEF Emits
<1>2. ToSet(r.ids) \subseteq T /\ \A i \in DOMAIN q : ToSet(q[i].ids) \subseteq T
  BY DEF Emits
<1> HIDE DEF S, q
<1>3. /\ b.results \in Seq(S) /\ DOMAIN b.results = 1 .. Len(q) + 1
      /\ DOMAIN q = 1 .. Len(q) /\ Len(q) \in Nat
      /\ \A i \in 1 .. Len(q) : b.results[i] = q[i]
      /\ b.results[Len(q) + 1] = r
  BY <1>1, AppendEffect
<1>4. b.results \in Seq(ToSet(b.results))
  <2>1. \A i \in 1 .. Len(b.results) : b.results[i] \in ToSet(b.results)
    BY <1>3 DEF ToSet
  <2>2. QED  BY <1>3, <2>1
<1>5. 1 .. Len(q) + 1 = (1 .. Len(q)) \cup {Len(q) + 1} /\ Len(q) + 1 \notin 1 .. Len(q)
  BY <1>3
<1>6. ASSUME NEW s, NEW id
      PROVE  /\ r.spec = s /\ id \in ToSet(r.ids) =>
                     /\ InResults(b, s, id) = InResults(acc, s, id) \cup {Len(q) + 1}
                     /\ Len(q) + 1 \notin InResults(acc, s, id)
             /\ ~ (r.spec = s /\ id \in ToSet(r.ids)) =>
                     InResults(b, s, id) = InResults(acc, s, id)
  <2>1. /\ InResults(b, s, id) = {i \in DOMAIN b.results : b.results[i].spec = s
                                                          /\ id \in ToSet(b.results[i].ids)}
        /\ InResults(acc, s, id) = {i \in DOMAIN q : q[i].spec = s /\ id \in ToSet(q[i].ids)}
    BY DEF InResults, q
  <2>2. QED  BY <1>3, <1>5, <2>1, Zenon
<1>7. \A i \in DOMAIN b.results : ToSet(b.results[i].ids) \subseteq T
  BY <1>2, <1>3, <1>5, Zenon
<1>8. QED  BY <1>4, <1>6, <1>7 DEF q, Emitted

\* A window's result has its ids.
LEMMA ResultWithin ==
    ASSUME NEW spec, NEW win \in Windows, NEW via, NEW last \in Nat,
           \A i \in DOMAIN win.events : win.events[i].id <= last
    PROVE  ToSet(Result(spec, win, via).ids) \subseteq 0 .. last
<1>1. ASSUME NEW id \in ToSet(Result(spec, win, via).ids) PROVE id \in 0 .. last
  <2>1. Holds(win, id)  BY ResultIds
  <2>2. PICK i \in DOMAIN win.events : win.events[i].id = id  BY <2>1 DEF Holds
  <2>3. win.events[i] \in Copies  BY WindowFields
  <2>4. QED  BY <2>2, <2>3 DEF Copies
<1>2. QED  BY <1>1

\* The counts are of finite sets.
LEMMA CountsFinite ==
    ASSUME NEW acc, NEW list, NEW last, WellFormed(acc, list, last), NEW spec, NEW id
    PROVE  /\ IsFiniteSet(InResults(acc, spec, id)) /\ IsFiniteSet(InWindows(acc, spec, id))
           /\ Cardinality(InResults(acc, spec, id)) \in Nat
           /\ Cardinality(InWindows(acc, spec, id)) \in Nat
           /\ CountIn(acc, spec, id) \in Nat
<1>1. IsFiniteSet(DOMAIN acc.windows)  BY DEF WellFormed
<1>2. IsFiniteSet(DOMAIN acc.results)
  <2>1. DOMAIN acc.results = 1 .. Len(acc.results) /\ Len(acc.results) \in Nat
    BY DEF WellFormed
  <2>2. QED  BY <2>1, FS_Interval
<1>3. InResults(acc, spec, id) \in SUBSET DOMAIN acc.results
      /\ InWindows(acc, spec, id) \in SUBSET DOMAIN acc.windows
  BY DEF InResults, InWindows
<1>4. IsFiniteSet(InResults(acc, spec, id)) /\ IsFiniteSet(InWindows(acc, spec, id))
  BY <1>1, <1>2, <1>3, FS_Subset
<1>5. Cardinality(InResults(acc, spec, id)) \in Nat /\ Cardinality(InWindows(acc, spec, id)) \in Nat
  BY <1>4, FS_CardinalityType
<1>6. QED  BY <1>4, <1>5 DEF CountIn

-----------------------------------------------------------------------------
(* The four branches *)

\* What processing e for spec does to the counts: those of other specs stay;
\* spec counts no earlier event less often, and only a tumbling window counts
\* one more often; e is counted as it should be.
OthersKept(a, b, spec) ==
    \A s \in Specs \ {spec} : \A id \in Nat : CountIn(b, s, id) = CountIn(a, s, id)

SpecDone(a, b, spec, e) ==
    /\ \A id \in Nat \ {e.id} :
         IF spec.type = "Tumbling" THEN CountIn(b, spec, id) >= CountIn(a, spec, id)
         ELSE CountIn(b, spec, id) = CountIn(a, spec, id)
    /\ CountIn(a, spec, e.id) = 0 => CountRight(b, spec, e)

BranchRight(acc, b, list, spec, e) ==
    WellFormed(b, list, e.id) /\ OthersKept(acc, b, spec) /\ SpecDone(acc, b, spec, e)

\* No earlier event leaves a window, and e is in each of W.
Extends(ws, W, e) ==
    \A k \in DOMAIN W :
        /\ Holds(W[k], e.id)
        /\ \A id \in Nat \ {e.id} : Holds(W[k], id) <=> k \in DOMAIN ws /\ Holds(ws[k], id)

\* What a well-formed map says of its parts.
LEMMA WellFormedParts ==
    ASSUME NEW acc, NEW list \in Seq(Specs), NEW last, WellFormed(acc, list, last),
           NEW spec \in ToSet(list)
    PROVE  /\ acc = [windows |-> acc.windows, results |-> acc.results]
           /\ acc.windows \in [DOMAIN acc.windows -> Windows]
           /\ acc.results \in Seq(ToSet(acc.results))
           /\ \A i \in DOMAIN acc.results : ToSet(acc.results[i].ids) \subseteq 0 .. last
           /\ \A k \in DOMAIN acc.windows :
                /\ acc.windows[k].events # << >>
                /\ \A i \in DOMAIN acc.windows[k].events : acc.windows[k].events[i].id <= last
                /\ k[1] = spec.id => Shape(spec, acc.windows[k])
           /\ spec \in Specs
<1>1. ToSet(list) \subseteq Specs  BY DEF ToSet
<1>2. ASSUME NEW k \in DOMAIN acc.windows, k[1] = spec.id
      PROVE  Shape(spec, acc.windows[k])
  <2>1. PICK s \in ToSet(list) : s.id = k[1] /\ Shape(s, acc.windows[k])  BY DEF WellFormed
  <2>2. s = spec  BY <1>1, <1>2, <2>1, SpecFacts
  <2>3. QED  BY <2>1, <2>2
<1>3. QED  BY <1>1, <1>2 DEF WellFormed

\* Event e joins the windows W of spec, whatever is emitted besides.
Joins(acc, b, list, spec, e, W) ==
    /\ WellFormed(acc, list, e.id) /\ WellFormed(b, list, e.id)
    /\ b.windows = Updated(acc.windows, W)
    /\ FitWindows(W, spec, e.id) /\ Extends(acc.windows, W, e)
    /\ \A id \in Nat : InResults(acc, spec, id) \subseteq InResults(b, spec, id)

\* No count of an earlier event shrinks, and none changes unless something is
\* emitted; e is counted in each of the windows.
JoinCounts(acc, b, spec, e, W) ==
    /\ \A id \in Nat \ {e.id} :
         /\ CountIn(b, spec, id) >= CountIn(acc, spec, id)
         /\ InResults(b, spec, id) = InResults(acc, spec, id)
              => CountIn(b, spec, id) = CountIn(acc, spec, id)
    /\ CountIn(acc, spec, e.id) = 0 =>
         /\ CountIn(b, spec, e.id) >= Cardinality(DOMAIN W)
         /\ InResults(b, spec, e.id) = InResults(acc, spec, e.id)
              => CountIn(b, spec, e.id) = Cardinality(DOMAIN W)

LEMMA ExtendedCounts ==
    ASSUME NEW acc, NEW b, NEW list, NEW spec, NEW e \in EventType, NEW W,
           Joins(acc, b, list, spec, e, W)
    PROVE  JoinCounts(acc, b, spec, e, W)
<1>0. /\ WellFormed(acc, list, e.id) /\ WellFormed(b, list, e.id)
      /\ b.windows = Updated(acc.windows, W)
      /\ FitWindows(W, spec, e.id) /\ Extends(acc.windows, W, e)
      /\ \A id \in Nat : InResults(acc, spec, id) \subseteq InResults(b, spec, id)
  BY DEF Joins
<1>1. \A k \in DOMAIN W : k[1] = spec.id  BY <1>0 DEF FitWindows
<1>2. ASSUME NEW id
      PROVE  InWindows(b, spec, id) = (InWindows(acc, spec, id) \ DOMAIN W)
                                        \cup {k \in DOMAIN W : Holds(W[k], id)}
  BY <1>1, <1>0, UpdatedHolds
<1>3. e.id \in Nat  BY CopyType
<1>4. ASSUME NEW id \in Nat \ {e.id}
      PROVE  InWindows(b, spec, id) = InWindows(acc, spec, id)
  <2>1. ASSUME NEW k \in DOMAIN W
        PROVE  Holds(W[k], id) <=> k \in InWindows(acc, spec, id)
    <3>1. Holds(W[k], id) <=> k \in DOMAIN acc.windows /\ Holds(acc.windows[k], id)
      BY <1>0 DEF Extends
    <3>2. k[1] = spec.id  BY <1>1
    <3>3. QED  BY <3>1, <3>2 DEF InWindows, Holds
  <2>2. QED  BY <1>2, <2>1
<1>5. ASSUME NEW id \in Nat
      PROVE  /\ IsFiniteSet(InResults(b, spec, id))
             /\ Cardinality(InResults(acc, spec, id)) \in Nat
             /\ Cardinality(InResults(b, spec, id)) \in Nat
             /\ Cardinality(InResults(acc, spec, id)) <= Cardinality(InResults(b, spec, id))
             /\ Cardinality(InWindows(acc, spec, id)) \in Nat
             /\ Cardinality(InWindows(b, spec, id)) \in Nat
  <2>1. IsFiniteSet(InResults(b, spec, id))  BY <1>0, CountsFinite
  <2>2. InResults(acc, spec, id) \in SUBSET InResults(b, spec, id)  BY <1>0
  <2>3. Cardinality(InResults(acc, spec, id)) <= Cardinality(InResults(b, spec, id))
    BY <2>1, <2>2, FS_Subset
  <2>4. QED  BY <2>1, <2>3, <1>0, CountsFinite
<1>6. ASSUME NEW id \in Nat \ {e.id}
      PROVE  /\ CountIn(b, spec, id) >= CountIn(acc, spec, id)
             /\ InResults(b, spec, id) = InResults(acc, spec, id)
                  => CountIn(b, spec, id) = CountIn(acc, spec, id)
  BY <1>4, <1>5 DEF CountIn
<1>7. ASSUME CountIn(acc, spec, e.id) = 0
      PROVE  /\ CountIn(b, spec, e.id) >= Cardinality(DOMAIN W)
             /\ InResults(b, spec, e.id) = InResults(acc, spec, e.id)
                  => CountIn(b, spec, e.id) = Cardinality(DOMAIN W)
  <2>1. Cardinality(InResults(acc, spec, e.id)) = 0 /\ Cardinality(InWindows(acc, spec, e.id)) = 0
    BY <1>3, <1>5, <1>7 DEF CountIn
  <2>2. IsFiniteSet(InWindows(acc, spec, e.id))  BY <1>0, CountsFinite
  <2>3. InWindows(acc, spec, e.id) = {}  BY <2>1, <2>2, FS_EmptySet
  <2>4. InWindows(b, spec, e.id) = DOMAIN W
    BY <1>2, <1>0, <2>3 DEF Extends
  <2>5. QED  BY <1>3, <1>5, <2>1, <2>4 DEF CountIn
<1>8. QED  BY <1>6, <1>7 DEF JoinCounts

\* The first part, for one of the other specs.
LEMMA UpdatedOthers ==
    ASSUME NEW acc, NEW b, NEW W, b.windows = Updated(acc.windows, W), NEW spec, NEW id,
           \A k \in DOMAIN W : k[1] = spec.id, NEW s, s.id # spec.id
    PROVE  InWindows(b, s, id) = InWindows(acc, s, id)
BY UpdatedHolds

\* The counts of other specs, whatever spec's windows become, when every
\* result that is added is spec's.
LEMMA OthersCounts ==
    ASSUME NEW acc, NEW b, NEW spec \in Specs, NEW W, b.windows = Updated(acc.windows, W),
           \A k \in DOMAIN W : k[1] = spec.id,
           \A s \in Specs \ {spec} : \A id \in Nat : InResults(b, s, id) = InResults(acc, s, id)
    PROVE  OthersKept(acc, b, spec)
<1>1. ASSUME NEW s \in Specs \ {spec}, NEW id \in Nat
      PROVE  InWindows(b, s, id) = InWindows(acc, s, id)
  <2>1. s.id # spec.id  BY SpecFacts
  <2>2. QED  BY <2>1, UpdatedOthers
<1>2. QED  BY <1>1 DEF OthersKept, CountIn

\* A map of one window.
Only(key, win) == [k \in {key} |-> win]

FitWindow(key, win, spec, last) ==
    /\ win \in Windows /\ key[1] = spec.id /\ win.events # << >> /\ Shape(spec, win)
    /\ \A i \in DOMAIN win.events : win.events[i].id <= last

OneFits(key, win, spec, last) ==
    /\ FitWindows(Only(key, win), spec, last)
    /\ \A ws : Put(ws, key, win) = Updated(ws, Only(key, win))
    /\ DOMAIN Only(key, win) = {key} /\ Only(key, win)[key] = win
    /\ Cardinality(DOMAIN Only(key, win)) = 1

LEMMA OnlyFits ==
    ASSUME NEW key, NEW win, NEW spec, NEW last, FitWindow(key, win, spec, last)
    PROVE  OneFits(key, win, spec, last)
<1>0. /\ win \in Windows /\ key[1] = spec.id /\ win.events # << >> /\ Shape(spec, win)
      /\ \A i \in DOMAIN win.events : win.events[i].id <= last
  BY DEF FitWindow
<1>1. DOMAIN Only(key, win) = {key} /\ Only(key, win)[key] = win  BY DEF Only
<1>2. IsFiniteSet({key}) /\ Cardinality({key}) = 1  BY FS_Singleton
<1>3. Only(key, win) \in [{key} -> Windows]  BY <1>0 DEF Only
<1>4. FitWindows(Only(key, win), spec, last)
  BY <1>0, <1>1, <1>2, <1>3 DEF FitWindows
<1>5. ASSUME NEW ws PROVE Put(ws, key, win) = Updated(ws, Only(key, win))
  BY <1>1 DEF Put, Updated
<1>6. QED  BY <1>1, <1>2, <1>4, <1>5 DEF OneFits

\* The ids of a window with e stored.
LEMMA StoreWithin ==
    ASSUME NEW win \in Windows, NEW e \in EventType,
           \A i \in DOMAIN win.events : win.events[i].id <= e.id
    PROVE  \A i \in DOMAIN Store(win, e).events : Store(win, e).events[i].id <= e.id
<1>1. e.id \in Nat  BY CopyType
<1>2. ASSUME NEW i \in DOMAIN Store(win, e).events
      PROVE  Store(win, e).events[i].id <= e.id
  <2>1. Holds(Store(win, e), Store(win, e).events[i].id)  BY DEF Holds
  <2>2. Holds(win, Store(win, e).events[i].id) \/ Store(win, e).events[i].id = e.id
    BY <2>1, StoreEffect
  <2>3. CASE Holds(win, Store(win, e).events[i].id)
    <3>1. PICK j \in DOMAIN win.events : win.events[j].id = Store(win, e).events[i].id
      BY <2>3 DEF Holds
    <3>2. QED  BY <3>1
  <2>4. QED  BY <1>1, <2>2, <2>3
<1>3. QED  BY <1>2

\* A window that holds e and what its key's window held.
LEMMA OnlyExtends ==
    ASSUME NEW ws, ws \in [DOMAIN ws -> Windows], NEW key, NEW g \in Groups \cup {Global},
           NEW e \in EventType, NEW win,
           \A id : Holds(win, id) <=> Holds(At(ws, key, g), id) \/ id = e.id
    PROVE  Extends(ws, Only(key, win), e)
<1>1. DOMAIN Only(key, win) = {key} /\ Only(key, win)[key] = win  BY DEF Only
<1>2. \A id : Holds(At(ws, key, g), id) <=> key \in DOMAIN ws /\ Holds(ws[key], id)
  BY AtWindow
<1>3. QED  BY <1>1, <1>2 DEF Extends

\* The window a key has, or a new one, holds ids up to last.
LEMMA AtWithin ==
    ASSUME NEW ws, ws \in [DOMAIN ws -> Windows], NEW key, NEW g \in Groups \cup {Global}, NEW last,
           \A k \in DOMAIN ws : \A i \in DOMAIN ws[k].events : ws[k].events[i].id <= last
    PROVE  \A i \in DOMAIN At(ws, key, g).events : At(ws, key, g).events[i].id <= last
<1>1. CASE At(ws, key, g).events = << >>  BY <1>1
<1>2. CASE At(ws, key, g).events # << >>
  <2>1. key \in DOMAIN ws /\ At(ws, key, g) = ws[key]  BY <1>2, AtWindow
  <2>2. QED  BY <2>1
<1>3. QED  BY <1>1, <1>2

\* An event joins the windows of W, and nothing is emitted.
LEMMA JoinEffect ==
    ASSUME NEW acc, NEW b, NEW list \in Seq(Specs), NEW spec \in ToSet(list), NEW e \in EventType,
           NEW W, WellFormed(acc, list, e.id), FitWindows(W, spec, e.id), Extends(acc.windows, W, e),
           b = [windows |-> Updated(acc.windows, W), results |-> acc.results]
    PROVE  /\ WellFormed(b, list, e.id) /\ OthersKept(acc, b, spec)
           /\ \A id \in Nat \ {e.id} : CountIn(b, spec, id) = CountIn(acc, spec, id)
           /\ CountIn(acc, spec, e.id) = 0 => CountIn(b, spec, e.id) = Cardinality(DOMAIN W)
<1>1. /\ b = [windows |-> Updated(acc.windows, W), results |-> b.results]
      /\ b.windows = Updated(acc.windows, W) /\ b.results = acc.results
  OBVIOUS
<1>2. /\ acc.results \in Seq(ToSet(acc.results))
      /\ \A i \in DOMAIN acc.results : ToSet(acc.results[i].ids) \subseteq 0 .. e.id
      /\ spec \in Specs /\ e.id \in Nat
  BY WellFormedParts, CopyType
<1>3. WellFormed(b, list, e.id)
  BY <1>1, <1>2, UpdatedWellFormed
<1>4. \A s, id : InResults(b, s, id) = InResults(acc, s, id)  BY <1>1 DEF InResults
<1>5. OthersKept(acc, b, spec)
  <2>1. \A k \in DOMAIN W : k[1] = spec.id  BY DEF FitWindows
  <2>2. QED  BY <1>1, <1>2, <1>4, <2>1, OthersCounts
<1>6. JoinCounts(acc, b, spec, e, W)
  <2>1. \A id \in Nat : InResults(acc, spec, id) \subseteq InResults(b, spec, id)
    BY <1>4
  <2>2. Joins(acc, b, list, spec, e, W)  BY <1>1, <1>3, <2>1 DEF Joins
  <2>3. QED  BY <2>2, ExtendedCounts
<1>7. QED  BY <1>2, <1>3, <1>4, <1>5, <1>6 DEF JoinCounts

\* process_sliding.
LEMMA SlidingEffect ==
    ASSUME NEW acc, NEW list \in Seq(Specs), NEW spec \in ToSet(list), NEW e \in EventType,
           WellFormed(acc, list, e.id), NEW g \in Groups \cup {Global}, spec.type = "Sliding"
    PROVE  BranchRight(acc, process_sliding(acc, spec, e, g), list, spec, e)
<1> DEFINE b == process_sliding(acc, spec, e, g)
           ws == acc.windows
           key == <<spec.id, g, e.ts>>
           old == At(ws, key, g)
           moved == MoveTo(old, e.ts, spec)
           win == Store(moved, e)
           W == Only(key, win)
<1>1. /\ acc = [windows |-> ws, results |-> acc.results] /\ ws \in [DOMAIN ws -> Windows]
      /\ acc.results \in Seq(ToSet(acc.results))
      /\ \A i \in DOMAIN acc.results : ToSet(acc.results[i].ids) \subseteq 0 .. e.id
      /\ \A k \in DOMAIN ws : \A i \in DOMAIN ws[k].events : ws[k].events[i].id <= e.id
      /\ spec \in Specs
  BY WellFormedParts
<1>2. e.id \in Nat /\ e.ts \in Nat /\ e.ts \in Int /\ key[1] = spec.id  BY CopyType
<1>3. b = [windows |-> Put(ws, key, win), results |-> acc.results]
  BY <1>1 DEF process_sliding
<1> HIDE DEF key, ws
<1>4. /\ old \in Windows
      /\ \A i \in DOMAIN old.events : old.events[i].id <= e.id
  BY <1>1, AtWindow, AtWithin
<1> HIDE DEF old, b
<1>5. /\ moved \in Windows /\ moved.end = moved.start + spec.size /\ moved.events = old.events
      /\ \A id : Holds(moved, id) <=> Holds(old, id)
  BY <1>1, <1>2, <1>4, MoveEffect
<1> HIDE DEF moved
<1>6. /\ win \in Windows /\ win.events # << >> /\ win.end = win.start + spec.size
      /\ \A id : Holds(win, id) <=> Holds(old, id) \/ id = e.id
      /\ \A i \in DOMAIN win.events : win.events[i].id <= e.id
  <2>1. \A i \in DOMAIN moved.events : moved.events[i].id <= e.id  BY <1>4, <1>5
  <2>2. \A i \in DOMAIN win.events : win.events[i].id <= e.id  BY <1>5, <2>1, StoreWithin
  <2>3. /\ win \in Windows /\ win.events # << >>
        /\ win.start = moved.start /\ win.end = moved.end
        /\ \A id : Holds(win, id) <=> Holds(moved, id) \/ id = e.id
    BY <1>5, StoreEffect
  <2>4. QED  BY <1>5, <2>2, <2>3
<1> HIDE DEF win
<1>7. Shape(spec, win)  BY <1>6 DEF Shape
<1>8. /\ FitWindows(W, spec, e.id) /\ Put(ws, key, win) = Updated(ws, W)
      /\ Cardinality(DOMAIN W) = 1
  <2>1. key[1] = spec.id  BY <1>2
  <2>2. \A i \in DOMAIN win.events : win.events[i].id <= e.id  BY <1>6
  <2>3. win \in Windows /\ win.events # << >>  BY <1>6
  <2>4. FitWindow(key, win, spec, e.id)  BY <2>1, <2>2, <2>3, <1>7 DEF FitWindow
  <2>5. OneFits(key, win, spec, e.id)  BY <2>4, OnlyFits
  <2>6. QED  BY <2>5 DEF OneFits
<1>9. Extends(ws, W, e)
  BY <1>1, <1>6, OnlyExtends DEF old
<1> HIDE DEF W
<1>10. b = [windows |-> Updated(acc.windows, W), results |-> acc.results]
  BY <1>3, <1>8 DEF ws
<1>11. Extends(acc.windows, W, e)  BY <1>9 DEF ws
<1>12. FitWindows(W, spec, e.id)  BY <1>8
<1>13. /\ WellFormed(b, list, e.id) /\ OthersKept(acc, b, spec)
       /\ \A id \in Nat \ {e.id} : CountIn(b, spec, id) = CountIn(acc, spec, id)
       /\ CountIn(acc, spec, e.id) = 0 => CountIn(b, spec, e.id) = Cardinality(DOMAIN W)
  BY <1>10, <1>11, <1>12, JoinEffect
<1>14. SpecDone(acc, b, spec, e)
  BY <1>8, <1>13 DEF SpecDone, CountRight
<1>15. QED  BY <1>13, <1>14 DEF b, BranchRight

\* process_hopping: e joins the windows that cover it, opened where need be.
LEMMA HoppingEffect ==
    ASSUME NEW acc, NEW list \in Seq(Specs), NEW spec \in ToSet(list), NEW e \in EventType,
           WellFormed(acc, list, e.id), NEW g \in Groups \cup {Global}, spec.type = "Hopping"
    PROVE  BranchRight(acc, process_hopping(acc, spec, e, g), list, spec, e)
<1> DEFINE b == process_hopping(acc, spec, e, g)
           ws == acc.windows
           hops == HopWindows(spec, e.ts)
           keys == {<<spec.id, g, w>> : w \in hops}
           Opened(k) == MoveTo(NoWindow(g), HopStart(spec, k[3]), spec)
           Window(k) == IF k \in DOMAIN ws THEN ws[k] ELSE Opened(k)
           W == [k \in keys |-> Store(Window(k), e)]
<1>1. /\ acc = [windows |-> ws, results |-> acc.results] /\ ws \in [DOMAIN ws -> Windows]
      /\ \A k \in DOMAIN ws :
           /\ \A i \in DOMAIN ws[k].events : ws[k].events[i].id <= e.id
           /\ k[1] = spec.id => Shape(spec, ws[k])
      /\ spec \in Specs
  BY WellFormedParts
<1>2. e.id \in Nat /\ e.ts \in Nat /\ spec.size \in Nat \ {0} /\ spec.slide \in Nat \ {0}
  BY <1>1, CopyType, SpecFacts
<1>3. IsFiniteSet(hops) /\ hops \subseteq Int
  <2>1. TruncDiv(e.ts - spec.size, spec.slide) \in Int /\ TruncDiv(e.ts, spec.slide) \in Int
    <3>1. e.ts - spec.size \in Int /\ e.ts \in Int  BY <1>2
    <3>2. QED  BY <1>2, <3>1, TruncDivBounds
  <2> DEFINE range == TruncDiv(e.ts - spec.size, spec.slide) .. TruncDiv(e.ts, spec.slide)
  <2>2. IsFiniteSet(range) /\ range \subseteq Int  BY <2>1, FS_Interval
  <2>3. hops \in SUBSET range  BY DEF HopWindows
  <2> HIDE DEF range, hops
  <2>4. IsFiniteSet(hops)  BY <2>2, <2>3, FS_Subset
  <2>5. QED  BY <2>2, <2>3, <2>4
<1>4. b = [windows |-> Updated(ws, W), results |-> acc.results]
  <2>1. process_hopping(acc, spec, e, g)
          = [acc EXCEPT !.windows = [k \in DOMAIN ws \cup keys |->
                IF k \in keys THEN Store(Window(k), e) ELSE ws[k]]]
    BY DEF process_hopping
  <2>2. [k \in DOMAIN ws \cup keys |-> IF k \in keys THEN Store(Window(k), e) ELSE ws[k]]
          = Updated(ws, W)
    BY DEF Updated
  <2> HIDE DEF W, keys, ws
  <2>3. QED  BY <1>1, <2>1, <2>2
<1> HIDE DEF b, ws, hops
<1>5. ASSUME NEW k \in keys
      PROVE  /\ k[1] = spec.id /\ k[3] \in Int /\ Window(k) \in Windows
             /\ Window(k).end = Window(k).start + spec.size
             /\ \A id : Holds(Window(k), id) <=> k \in DOMAIN ws /\ Holds(ws[k], id)
             /\ \A i \in DOMAIN Window(k).events : Window(k).events[i].id <= e.id
  <2>1. k[1] = spec.id /\ k[3] \in Int
    <3>1. PICK w \in hops : k = <<spec.id, g, w>>  OBVIOUS
    <3>2. w \in Int  BY <1>3, <3>1
    <3>3. QED  BY <3>1, <3>2
  <2>2. CASE k \in DOMAIN ws
    <3>1. Window(k) = ws[k] /\ Shape(spec, ws[k])  BY <1>1, <2>1, <2>2
    <3>2. ws[k].end = ws[k].start + spec.size  BY <3>1 DEF Shape
    <3>3. QED  BY <1>1, <2>1, <2>2, <3>1, <3>2
  <2>3. CASE k \notin DOMAIN ws
    <3>1. Window(k) = MoveTo(NoWindow(g), HopStart(spec, k[3]), spec)  BY <2>3
    <3>2. NoWindow(g) \in Windows /\ NoWindow(g).events = << >>
      BY DEF NoWindow, Windows
    <3>3. HopStart(spec, k[3]) \in Int  BY <1>2, <2>1 DEF HopStart
    <3>4. /\ Window(k) \in Windows /\ Window(k).end = Window(k).start + spec.size
          /\ Window(k).events = << >>
      BY <1>1, <3>1, <3>2, <3>3, MoveEffect
    <3>5. QED  BY <2>1, <2>3, <3>4 DEF Holds
  <2>4. QED  BY <2>2, <2>3
<1> HIDE DEF Window
<1>6. ASSUME NEW k \in keys
      PROVE  /\ W[k] \in Windows /\ W[k].events # << >> /\ Shape(spec, W[k])
             /\ \A i \in DOMAIN W[k].events : W[k].events[i].id <= e.id
             /\ \A id : Holds(W[k], id) <=> (k \in DOMAIN ws /\ Holds(ws[k], id)) \/ id = e.id
  <2>1. W[k] = Store(Window(k), e)  OBVIOUS
  <2>2. /\ W[k] \in Windows /\ W[k].events # << >> /\ W[k].end = W[k].start + spec.size
        /\ \A id : Holds(W[k], id) <=> Holds(Window(k), id) \/ id = e.id
    BY <1>5, <2>1, StoreEffect
  <2>3. \A i \in DOMAIN W[k].events : W[k].events[i].id <= e.id
    BY <1>5, <2>1, StoreWithin
  <2>4. Shape(spec, W[k])  BY <2>2 DEF Shape
  <2>5. QED  BY <1>5, <2>2, <2>3, <2>4
<1>7. DOMAIN W = keys /\ W = [k \in DOMAIN W |-> W[k]]  OBVIOUS
<1>8. IsFiniteSet(keys) /\ Cardinality(keys) = Cardinality(hops)
  <2> DEFINE f == [w \in hops |-> <<spec.id, g, w>>]
  <2>1. f \in Bijection(hops, keys)
    <3>1. f \in [hops -> keys]  OBVIOUS
    <3>2. \A v, w \in hops : f[v] = f[w] => v = w  OBVIOUS
    <3>3. \A k \in keys : \E w \in hops : f[w] = k  OBVIOUS
    <3>4. QED  BY <3>1, <3>2, <3>3 DEF Bijection, Injection, Surjection, IsInjective
  <2>2. ExistsBijection(hops, keys)  BY <2>1 DEF ExistsBijection
  <2>3. QED  BY <1>3, <2>2, FS_Bijection
<1>9. FitWindows(W, spec, e.id)
  BY <1>5, <1>6, <1>7, <1>8 DEF FitWindows
<1>10. Extends(acc.windows, W, e)
  BY <1>6, <1>7 DEF Extends, ws
<1> HIDE DEF W, keys
<1>11. b = [windows |-> Updated(acc.windows, W), results |-> acc.results]
  BY <1>4 DEF ws
<1>12. /\ WellFormed(b, list, e.id) /\ OthersKept(acc, b, spec)
       /\ \A id \in Nat \ {e.id} : CountIn(b, spec, id) = CountIn(acc, spec, id)
       /\ CountIn(acc, spec, e.id) = 0 => CountIn(b, spec, e.id) = Cardinality(DOMAIN W)
  BY <1>9, <1>10, <1>11, JoinEffect
<1>13. SpecDone(acc, b, spec, e)
  BY <1>7, <1>8, <1>12 DEF SpecDone, CountRight, hops
<1>14. QED  BY <1>12, <1>13 DEF b, BranchRight

\* process_session: e extends the group's session, or ends it and begins one.
LEMMA SessionEffect ==
    ASSUME NEW acc, NEW list \in Seq(Specs), NEW spec \in ToSet(list), NEW e \in EventType,
           WellFormed(acc, list, e.id), NEW g \in Groups \cup {Global}, spec.type = "Session"
    PROVE  BranchRight(acc, process_session(acc, spec, e, g), list, spec, e)
<1> DEFINE b == process_session(acc, spec, e, g)
           ws == acc.windows
           key == <<spec.id, g>>
           old == At(ws, key, g)
           begun == [old EXCEPT !.start = e.ts, !.end = e.ts, !.events = << >>]
           grown == [old EXCEPT !.end = e.ts]
           Fresh == old.events = << >> \/ SessionEnded(old, spec, e)
           win == ExtendSession(old, spec, e)
           W == Only(key, win)
<1>1. /\ acc = [windows |-> ws, results |-> acc.results] /\ ws \in [DOMAIN ws -> Windows]
      /\ acc.results \in Seq(ToSet(acc.results))
      /\ \A i \in DOMAIN acc.results : ToSet(acc.results[i].ids) \subseteq 0 .. e.id
      /\ \A k \in DOMAIN ws :
           /\ ws[k].events # << >>
           /\ \A i \in DOMAIN ws[k].events : ws[k].events[i].id <= e.id
           /\ k[1] = spec.id => Shape(spec, ws[k])
      /\ spec \in Specs
  BY WellFormedParts
<1>2. e.id \in Nat /\ e.ts \in Nat /\ e.ts \in Int /\ spec.gap \in Nat /\ key[1] = spec.id
  BY <1>1, CopyType, SpecFacts
<1>3. /\ b.windows = Put(ws, key, win)
      /\ b = [windows |-> b.windows, results |-> b.results]
      /\ b.results = IF old.events # << >> /\ SessionEnded(old, spec, e)
                     THEN Append(acc.results, Result(spec, old, "callback"))
                     ELSE acc.results
  BY DEF process_session
<1> HIDE DEF key, ws, b
<1>4. /\ old \in Windows
      /\ \A i \in DOMAIN old.events : old.events[i].id <= e.id
      /\ \A id : Holds(old, id) <=> key \in DOMAIN ws /\ Holds(ws[key], id)
      /\ old.events # << >> => key \in DOMAIN ws /\ old = ws[key]
  BY <1>1, AtWindow, AtWithin
<1> HIDE DEF old
<1>5. /\ begun \in Windows /\ begun.end = e.ts /\ begun.events = << >>
      /\ \A id : ~ Holds(begun, id)
  <2>1. /\ begun \in Windows /\ begun.end = e.ts /\ begun.events = << >>
    <3> DEFINE one == [old EXCEPT !.start = e.ts]
               two == [one EXCEPT !.end = e.ts]
    <3>1. one \in Windows  BY <1>2, <1>4 DEF Windows
    <3>2. begun = [two EXCEPT !.events = << >>]  OBVIOUS
    <3> HIDE DEF one, begun
    <3>3. two \in Windows /\ two.end = e.ts  BY <1>2, <3>1 DEF Windows
    <3> HIDE DEF two
    <3>4. << >> \in Seq(Copies)  OBVIOUS
    <3>5. QED  BY <3>2, <3>3, <3>4 DEF Windows
  <2>2. QED  BY <2>1 DEF Holds
<1>6. /\ grown \in Windows /\ grown.end = e.ts /\ grown.events = old.events
      /\ \A id : Holds(grown, id) <=> Holds(old, id)
  <2>1. grown \in Windows /\ grown.end = e.ts /\ grown.events = old.events
    BY <1>2, <1>4 DEF Windows
  <2>2. QED  BY <2>1 DEF Holds
<1>7. win = Store(IF Fresh THEN begun ELSE grown, e)
  BY DEF ExtendSession
<1> HIDE DEF begun, grown, win
<1>8. ASSUME Fresh
      PROVE  /\ win \in Windows /\ win.events # << >> /\ Shape(spec, win)
             /\ \A i \in DOMAIN win.events : win.events[i].id <= e.id
             /\ \A id : Holds(win, id) <=> id = e.id
  <2>1. win = Store(begun, e)  BY <1>7, <1>8
  <2>2. /\ win \in Windows /\ win.events # << >> /\ win.end = e.ts
        /\ Len(win.events) = 1 /\ win.events[Len(win.events)].ts = e.ts
        /\ \A id : Holds(win, id) <=> id = e.id
    <3>1. Len(begun.events) = 0 /\ begun \in Windows /\ begun.end = e.ts  BY <1>5
    <3>2. /\ win \in Windows /\ win.events # << >> /\ win.end = begun.end
          /\ Len(win.events) = Len(begun.events) + 1
          /\ win.events[Len(begun.events) + 1].ts = e.ts
          /\ \A id : Holds(win, id) <=> Holds(begun, id) \/ id = e.id
      <4> DEFINE c == Store(begun, e)
      <4>1. c \in Windows /\ c.events # << >> /\ c.end = begun.end  BY <3>1, StoreEffect
      <4>2. /\ Len(c.events) = Len(begun.events) + 1
            /\ c.events[Len(begun.events) + 1].ts = e.ts
        BY <3>1, StoreEffect
      <4>3. \A id : Holds(c, id) <=> Holds(begun, id) \/ id = e.id  BY <3>1, StoreEffect
      <4> HIDE DEF c
      <4>4. win = c  BY <2>1 DEF c
      <4>5. QED  BY <4>1, <4>2, <4>3, <4>4
    <3>3. \A id : ~Holds(begun, id)  BY <1>5
    <3>4. Len(win.events) = 1  BY <3>1, <3>2
    <3>5. win.events[Len(win.events)].ts = e.ts  BY <3>1, <3>2
    <3>6. QED  BY <3>1, <3>2, <3>3, <3>4, <3>5
  <2>3. \A i \in DOMAIN win.events : win.events[i].id <= e.id
    <3>1. \A i \in DOMAIN begun.events : begun.events[i].id <= e.id  BY <1>5
    <3>2. QED  BY <1>5, <2>1, <3>1, StoreWithin
  <2>4. Shape(spec, win)  BY <2>2 DEF Shape
  <2>5. QED  BY <2>2, <2>3, <2>4
<1>9. ASSUME ~ Fresh
      PROVE  /\ win \in Windows /\ win.events # << >> /\ Shape(spec, win)
             /\ \A i \in DOMAIN win.events : win.events[i].id <= e.id
             /\ \A id : Holds(win, id) <=> Holds(old, id) \/ id = e.id
  <2>1. win = Store(grown, e)  BY <1>7, <1>9
  <2>2. /\ win \in Windows /\ win.events # << >> /\ win.end = e.ts
        /\ Len(win.events) = Len(old.events) + 1
        /\ \A i \in 1 .. Len(old.events) : win.events[i] = old.events[i]
        /\ win.events[Len(old.events) + 1].ts = e.ts
        /\ \A id : Holds(win, id) <=> Holds(old, id) \/ id = e.id
    BY <1>6, <2>1, StoreEffect
  <2>3. \A i \in DOMAIN win.events : win.events[i].id <= e.id
    <3>1. \A i \in DOMAIN grown.events : grown.events[i].id <= e.id  BY <1>4, <1>6
    <3>2. QED  BY <1>6, <2>1, <3>1, StoreWithin
  <2>4. Shape(spec, win)
    <3>1. old.events # << >> /\ ~ (e.ts - old.end > spec.gap)
      BY <1>9 DEF SessionEnded
    <3>2. Shape(spec, old)
      <4>1. key \in DOMAIN ws /\ old = ws[key]  BY <1>4, <3>1
      <4>2. QED  BY <1>1, <1>2, <4>1
    <3>3. /\ old.end = old.events[Len(old.events)].ts /\ Len(old.events) \in Nat
          /\ old.end \in Int
          /\ \A i \in 2 .. Len(old.events) : old.events[i].ts - old.events[i - 1].ts <= spec.gap
      BY <1>4, <3>2, WindowFields DEF Shape
    <3>4. Len(old.events) >= 1  BY <1>4, <3>1, <3>3, WindowFields
    <3>5. ASSUME NEW i \in 2 .. Len(win.events)
          PROVE  win.events[i].ts - win.events[i - 1].ts <= spec.gap
      <4>1. CASE i \in 2 .. Len(old.events)
        <5>1. i \in 1 .. Len(old.events) /\ i - 1 \in 1 .. Len(old.events)  BY <3>3, <4>1
        <5>2. QED  BY <2>2, <3>3, <4>1, <5>1
      <4>2. CASE i = Len(old.events) + 1
        <5>1. i - 1 = Len(old.events) /\ i - 1 \in 1 .. Len(old.events)
          BY <3>3, <3>4, <4>2
        <5>2. win.events[i].ts = e.ts /\ win.events[i - 1].ts = old.end
          BY <2>2, <3>3, <4>2, <5>1
        <5>3. QED  BY <1>2, <3>1, <3>3, <5>2
      <4>3. QED  BY <2>2, <3>3, <4>1, <4>2
    <3>6. QED  BY <2>2, <3>5 DEF Shape
  <2>5. QED  BY <2>2, <2>3, <2>4
<1>10. /\ FitWindows(W, spec, e.id) /\ Put(ws, key, win) = Updated(ws, W)
       /\ DOMAIN W = {key} /\ W[key] = win /\ Cardinality(DOMAIN W) = 1
  <2>1. /\ win \in Windows /\ win.events # << >> /\ Shape(spec, win)
        /\ \A i \in DOMAIN win.events : win.events[i].id <= e.id
    BY <1>8, <1>9
  <2>2. FitWindow(key, win, spec, e.id)  BY <1>2, <2>1 DEF FitWindow
  <2>3. OneFits(key, win, spec, e.id)  BY <2>2, OnlyFits
  <2>4. QED  BY <2>3 DEF OneFits
<1>11. CASE old.events # << >> /\ SessionEnded(old, spec, e)
  <2> DEFINE r == Result(spec, old, "callback")
  <2>1. b.results = Append(acc.results, r)  BY <1>3, <1>11
  <2>2. r.spec = spec /\ \A id : id \in ToSet(r.ids) <=> Holds(old, id)
    BY <1>4, ResultIds
  <2> HIDE DEF r, W
  <2>3. Emits(acc, b, r, 0 .. e.id)
    <3>1. ToSet(r.ids) \subseteq 0 .. e.id  BY <1>2, <1>4, ResultWithin DEF r
    <3>2. QED  BY <1>1, <2>1, <3>1 DEF Emits
  <2>4. /\ b.results \in Seq(ToSet(b.results))
        /\ \A i \in DOMAIN b.results : ToSet(b.results[i].ids) \subseteq 0 .. e.id
        /\ \A s, id :
             /\ r.spec = s /\ id \in ToSet(r.ids) =>
                  /\ InResults(b, s, id) = InResults(acc, s, id) \cup {Len(acc.results) + 1}
                  /\ Len(acc.results) + 1 \notin InResults(acc, s, id)
             /\ ~ (r.spec = s /\ id \in ToSet(r.ids)) =>
                  InResults(b, s, id) = InResults(acc, s, id)
    <3>1. Emitted(acc, b, r, 0 .. e.id)  BY <2>3, EmitEffect
    <3>2. QED  BY <3>1 DEF Emitted
  <2>5. b = [windows |-> Updated(acc.windows, W), results |-> b.results]
        /\ b.windows = Updated(acc.windows, W)
    BY <1>3, <1>10 DEF ws
  <2>6. WellFormed(b, list, e.id)
    BY <1>2, <1>10, <2>4, <2>5, UpdatedWellFormed
  <2>7. OthersKept(acc, b, spec)
    <3>1. \A k \in DOMAIN W : k[1] = spec.id  BY <1>2, <1>10
    <3>2. \A s \in Specs \ {spec} : \A id \in Nat : InResults(b, s, id) = InResults(acc, s, id)
      BY <2>2, <2>4
    <3>3. QED  BY <1>1, <2>5, <3>1, <3>2, OthersCounts
  <2>8. ASSUME NEW id
        PROVE  /\ InWindows(b, spec, id) = (InWindows(acc, spec, id) \ {key})
                                              \cup (IF id = e.id THEN {key} ELSE {})
               /\ key \in InWindows(acc, spec, id) <=> Holds(old, id)
    <3>1. \A k \in DOMAIN W : k[1] = spec.id  BY <1>2, <1>10
    <3>2. InWindows(b, spec, id) = (InWindows(acc, spec, id) \ DOMAIN W)
                                     \cup {k \in DOMAIN W : Holds(W[k], id)}
      BY <2>5, <3>1, UpdatedHolds
    <3>3. Holds(W[key], id) <=> id = e.id  BY <1>8, <1>10, <1>11
    <3>4. {k \in DOMAIN W : Holds(W[k], id)} = IF id = e.id THEN {key} ELSE {}
      BY <1>10, <3>3
    <3>5. key \in InWindows(acc, spec, id) <=> key \in DOMAIN ws /\ Holds(ws[key], id)
      BY <1>2 DEF InWindows, Holds, ws
    <3>6. QED  BY <1>4, <1>10, <3>2, <3>4, <3>5
  <2>9. ASSUME NEW id \in Nat
        PROVE  /\ IsFiniteSet(InResults(acc, spec, id)) /\ IsFiniteSet(InWindows(acc, spec, id))
               /\ Cardinality(InResults(acc, spec, id)) \in Nat
               /\ Cardinality(InWindows(acc, spec, id)) \in Nat
    BY CountsFinite
  <2>10. ASSUME NEW id \in Nat \ {e.id}
         PROVE  CountIn(b, spec, id) = CountIn(acc, spec, id)
    <3>1. CASE Holds(old, id)
      <4>1. InResults(b, spec, id) = InResults(acc, spec, id) \cup {Len(acc.results) + 1}
            /\ Len(acc.results) + 1 \notin InResults(acc, spec, id)
        BY <2>2, <2>4, <3>1
      <4>2. InWindows(b, spec, id) = InWindows(acc, spec, id) \ {key}
            /\ key \in InWindows(acc, spec, id)
        BY <2>8, <3>1
      <4>3. Cardinality(InResults(b, spec, id)) = Cardinality(InResults(acc, spec, id)) + 1
        BY <2>9, <4>1, FS_AddElement
      <4>4. Cardinality(InWindows(b, spec, id)) = Cardinality(InWindows(acc, spec, id)) - 1
        <5>1. IsFiniteSet(InWindows(acc, spec, id))  BY <2>9
        <5>2. QED  BY <4>2, <5>1, FS_RemoveElement
      <4>5. QED  BY <2>9, <4>3, <4>4 DEF CountIn
    <3>2. CASE ~ Holds(old, id)
      <4>1. InResults(b, spec, id) = InResults(acc, spec, id)  BY <2>2, <2>4, <3>2
      <4>2. InWindows(b, spec, id) = InWindows(acc, spec, id)
        <5>1. id # e.id /\ key \notin InWindows(acc, spec, id)  BY <2>8, <3>2
        <5>2. InWindows(b, spec, id) = InWindows(acc, spec, id) \ {key}  BY <2>8, <5>1
        <5>3. QED  BY <5>1, <5>2
      <4>3. QED  BY <4>1, <4>2 DEF CountIn
    <3>3. QED  BY <3>1, <3>2
  <2>11. ASSUME CountIn(acc, spec, e.id) = 0
         PROVE  CountIn(b, spec, e.id) = 1
    <3>1. Cardinality(InResults(acc, spec, e.id)) = 0 /\ Cardinality(InWindows(acc, spec, e.id)) = 0
      <4>1. /\ Cardinality(InResults(acc, spec, e.id)) \in Nat
            /\ Cardinality(InWindows(acc, spec, e.id)) \in Nat
        BY <1>2, <2>9
      <4>2. Cardinality(InResults(acc, spec, e.id)) + Cardinality(InWindows(acc, spec, e.id)) = 0
        BY <2>11 DEF CountIn
      <4>3. QED  BY <4>1, <4>2
    <3>2. InResults(acc, spec, e.id) = {} /\ InWindows(acc, spec, e.id) = {}
      BY <1>2, <2>9, <3>1, FS_EmptySet
    <3>3. ~ Holds(old, e.id)  BY <2>8, <3>2
    <3>4. InResults(b, spec, e.id) = {} /\ InWindows(b, spec, e.id) = {key}
      BY <2>2, <2>4, <2>8, <3>2, <3>3
    <3>5. Cardinality(InResults(b, spec, e.id)) = 0 /\ Cardinality(InWindows(b, spec, e.id)) = 1
      BY <3>4, FS_EmptySet, FS_Singleton
    <3>6. QED  BY <3>5 DEF CountIn
  <2>12. SpecDone(acc, b, spec, e)
    BY <2>10, <2>11 DEF SpecDone, CountRight
  <2>13. QED  BY <2>6, <2>7, <2>12 DEF b, BranchRight
<1>12. CASE ~ (old.events # << >> /\ SessionEnded(old, spec, e))
  <2>1. \A id : Holds(win, id) <=> Holds(old, id) \/ id = e.id
    <3>1. CASE old.events = << >>
      <4>1. \A id : ~ Holds(old, id)  BY <3>1 DEF Holds
      <4>2. QED  BY <1>8, <3>1, <4>1
    <3>2. CASE ~ SessionEnded(old, spec, e) /\ old.events # << >>
      BY <1>9, <3>2
    <3>3. QED  BY <1>12, <3>1, <3>2
  <2>2. Extends(acc.windows, W, e)
    BY <1>1, <2>1, OnlyExtends DEF old, ws
  <2> HIDE DEF W
  <2>3. b = [windows |-> Updated(acc.windows, W), results |-> acc.results]
    BY <1>3, <1>10, <1>12 DEF ws
  <2>4. FitWindows(W, spec, e.id)  BY <1>10
  <2>5. /\ WellFormed(b, list, e.id) /\ OthersKept(acc, b, spec)
        /\ \A id \in Nat \ {e.id} : CountIn(b, spec, id) = CountIn(acc, spec, id)
        /\ CountIn(acc, spec, e.id) = 0 => CountIn(b, spec, e.id) = Cardinality(DOMAIN W)
    BY <2>2, <2>3, <2>4, JoinEffect
  <2>6. SpecDone(acc, b, spec, e)
    BY <1>10, <2>5 DEF SpecDone, CountRight
  <2>7. QED  BY <2>5, <2>6 DEF b, BranchRight
<1>13. QED  BY <1>11, <1>12

\* process_tumbling: the group's window moves to the period of e, and is
\* emitted before if it was in another.
LEMMA TumblingEffect ==
    ASSUME NEW acc, NEW list \in Seq(Specs), NEW spec \in ToSet(list), NEW e \in EventType,
           WellFormed(acc, list, e.id), NEW g \in Groups \cup {Global}, spec.type = "Tumbling"
    PROVE  BranchRight(acc, process_tumbling(acc, spec, e, g), list, spec, e)
<1> DEFINE b == process_tumbling(acc, spec, e, g)
           ws == acc.windows
           key == <<spec.id, g>>
           old == At(ws, key, g)
           start == e.ts - (e.ts % spec.size)
           moved == MoveTo(old, start, spec)
           win == Store(moved, e)
           W == Only(key, win)
           r == Result(spec, old, "callback")
<1>1. /\ ws \in [DOMAIN ws -> Windows]
      /\ acc.results \in Seq(ToSet(acc.results))
      /\ \A i \in DOMAIN acc.results : ToSet(acc.results[i].ids) \subseteq 0 .. e.id
      /\ \A k \in DOMAIN ws : \A i \in DOMAIN ws[k].events : ws[k].events[i].id <= e.id
      /\ spec \in Specs
  BY WellFormedParts
<1>2. e.id \in Nat /\ e.ts \in Nat /\ key[1] = spec.id  BY CopyType
<1>3. start \in Int
  <2>1. spec.size \in Nat \ {0}  BY <1>1, SpecFacts
  <2>2. e.ts % spec.size \in Int  BY <1>2, <2>1, SMT
  <2>3. QED  BY <1>2, <2>2
<1> HIDE DEF start
<1>4. /\ b.windows = Put(ws, key, win)
      /\ b = [windows |-> b.windows, results |-> b.results]
      /\ b.results = IF old.events # << >> /\ old.start # start
                     THEN Append(acc.results, r) ELSE acc.results
  BY DEF process_tumbling, start
<1> HIDE DEF key, ws, b
<1>5. /\ old \in Windows
      /\ \A i \in DOMAIN old.events : old.events[i].id <= e.id
  BY <1>1, AtWindow, AtWithin
<1> HIDE DEF old
<1>6. /\ moved \in Windows /\ moved.end = moved.start + spec.size /\ moved.events = old.events
      /\ \A id : Holds(moved, id) <=> Holds(old, id)
  BY <1>1, <1>3, <1>5, MoveEffect
<1> HIDE DEF moved
<1>7. /\ win \in Windows /\ win.events # << >> /\ win.end = win.start + spec.size
      /\ \A id : Holds(win, id) <=> Holds(old, id) \/ id = e.id
      /\ \A i \in DOMAIN win.events : win.events[i].id <= e.id
  <2>1. \A i \in DOMAIN moved.events : moved.events[i].id <= e.id  BY <1>5, <1>6
  <2>2. \A i \in DOMAIN win.events : win.events[i].id <= e.id  BY <1>6, <2>1, StoreWithin
  <2>3. /\ win \in Windows /\ win.events # << >>
        /\ win.start = moved.start /\ win.end = moved.end
        /\ \A id : Holds(win, id) <=> Holds(moved, id) \/ id = e.id
    BY <1>6, StoreEffect
  <2>4. QED  BY <1>6, <2>2, <2>3
<1> HIDE DEF win
<1>8. Shape(spec, win)  BY <1>7 DEF Shape
<1>9. /\ FitWindows(W, spec, e.id) /\ Put(ws, key, win) = Updated(ws, W)
      /\ Cardinality(DOMAIN W) = 1
  <2>1. key[1] = spec.id  BY <1>2
  <2>2. \A i \in DOMAIN win.events : win.events[i].id <= e.id  BY <1>7
  <2>3. win \in Windows /\ win.events # << >>  BY <1>7
  <2>4. FitWindow(key, win, spec, e.id)  BY <2>1, <2>2, <2>3, <1>8 DEF FitWindow
  <2>5. OneFits(key, win, spec, e.id)  BY <2>4, OnlyFits
  <2>6. QED  BY <2>5 DEF OneFits
<1>10. Extends(acc.windows, W, e)
  BY <1>1, <1>7, OnlyExtends DEF old, ws
<1> HIDE DEF W
<1>11. r.spec = spec  BY <1>5, ResultIds
<1>12. ToSet(r.ids) \subseteq 0 .. e.id  BY <1>2, <1>5, ResultWithin
<1> HIDE DEF r
<1>13. /\ b.results \in Seq(ToSet(b.results))
       /\ \A i \in DOMAIN b.results : ToSet(b.results[i].ids) \subseteq 0 .. e.id
       /\ \A s \in Specs \ {spec} : \A id \in Nat : InResults(b, s, id) = InResults(acc, s, id)
       /\ \A id \in Nat : InResults(acc, spec, id) \subseteq InResults(b, spec, id)
  <2>1. CASE b.results = acc.results
    <3>1. \A s, id : InResults(b, s, id) = InResults(acc, s, id)  BY <2>1 DEF InResults
    <3>2. QED  BY <1>1, <2>1, <3>1
  <2>2. CASE b.results = Append(acc.results, r)
    <3>1. Emits(acc, b, r, 0 .. e.id)  BY <1>1, <1>12, <2>2 DEF Emits
    <3>2. Emitted(acc, b, r, 0 .. e.id)  BY <3>1, EmitEffect
    <3>3. QED  BY <1>11, <3>2 DEF Emitted
  <2>3. QED  BY <1>4, <2>1, <2>2
<1>14. b = [windows |-> Updated(acc.windows, W), results |-> b.results]
       /\ b.windows = Updated(acc.windows, W)
  BY <1>4, <1>9 DEF ws
<1>15. WellFormed(b, list, e.id)
  BY <1>2, <1>9, <1>13, <1>14, UpdatedWellFormed
<1>16. OthersKept(acc, b, spec)
  <2>1. \A k \in DOMAIN W : k[1] = spec.id  BY <1>9 DEF FitWindows
  <2>2. QED  BY <1>1, <1>13, <1>14, <2>1, OthersCounts
<1>17. JoinCounts(acc, b, spec, e, W)
  <2>1. Joins(acc, b, list, spec, e, W)
    BY <1>9, <1>10, <1>13, <1>14, <1>15 DEF Joins
  <2>2. QED  BY <2>1, ExtendedCounts
<1>18. SpecDone(acc, b, spec, e)
  BY <1>9, <1>17 DEF JoinCounts, SpecDone, CountRight
<1>19. QED  BY <1>15, <1>16, <1>18 DEF b, BranchRight

\* Whatever the type of the spec, processing an event for it leaves a
\* well-formed map and counts that are right.
LEMMA BranchEffect ==
    ASSUME NEW acc, NEW list \in Seq(Specs), NEW spec \in ToSet(list), NEW e \in EventType,
           WellFormed(acc, list, e.id)
    PROVE  BranchRight(acc, ProcessSpec(acc, spec, e), list, spec, e)
<1> DEFINE g == GroupKey(e, spec)
<1>1. g \in Groups \cup {Global}  BY GroupKeyType
<1>2. spec \in Specs  BY WellFormedParts
<1>3. spec.type \in {"Tumbling", "Sliding", "Session", "Hopping"}  BY <1>2, SpecFacts
<1> HIDE DEF g
<1>4. CASE spec.type = "Tumbling"
  <2>1. ProcessSpec(acc, spec, e) = process_tumbling(acc, spec, e, g)
    BY <1>4 DEF ProcessSpec, g
  <2>2. QED  BY <1>1, <1>4, <2>1, TumblingEffect
<1>5. CASE spec.type = "Sliding"
  <2>1. ProcessSpec(acc, spec, e) = process_sliding(acc, spec, e, g)
    BY <1>5 DEF ProcessSpec, g
  <2>2. QED  BY <1>1, <1>5, <2>1, SlidingEffect
<1>6. CASE spec.type = "Session"
  <2>1. ProcessSpec(acc, spec, e) = process_session(acc, spec, e, g)
    BY <1>6 DEF ProcessSpec, g
  <2>2. QED  BY <1>1, <1>6, <2>1, SessionEffect
<1>7. CASE spec.type = "Hopping"
  <2>1. ProcessSpec(acc, spec, e) = process_hopping(acc, spec, e, g)
    BY <1>7 DEF ProcessSpec, g
  <2>2. QED  BY <1>1, <1>7, <2>1, HoppingEffect
<1>8. QED  BY <1>3, <1>4, <1>5, <1>6, <1>7

-----------------------------------------------------------------------------
(* The operations *)

\* process_event: every spec's counts come out right, whatever its place.
LEMMA LoopEffect ==
    ASSUME NEW acc, NEW list \in Seq(Specs), NEW e \in EventType, WellFormed(acc, list, e.id),
           \A i, j \in DOMAIN list : list[i] = list[j] => i = j
    PROVE  /\ WellFormed(ProcessSpecs(acc, list, e), list, e.id)
           /\ \A s \in ToSet(list) : SpecDone(acc, ProcessSpecs(acc, list, e), s, e)
<1> DEFINE n == Len(list)
           b == ProcessSpecs(acc, list, e)
<1>1. n \in Nat /\ DOMAIN list = 1 .. n  OBVIOUS
<1>2. PICK a : /\ a[0] = acc /\ a[n] = b
               /\ \A i \in 1 .. n : a[i] = ProcessSpec(a[i - 1], list[i], e)
  BY <1>1, LoopSteps
<1> HIDE DEF n, b
<1>3. ASSUME NEW i \in 1 .. n
      PROVE  list[i] \in ToSet(list) /\ list[i] \in Specs /\ i - 1 \in 0 .. n
  <2>1. i \in DOMAIN list  BY <1>1
  <2>2. list[i] \in Specs  BY <2>1
  <2>3. i - 1 \in 0 .. n  BY <1>1
  <2>4. QED  BY <2>1, <2>2, <2>3 DEF ToSet
<1>4. ASSUME NEW m \in 0 .. n PROVE WellFormed(a[m], list, e.id)
  <2> DEFINE T == {i \in 0 .. n : WellFormed(a[i], list, e.id)}
  <2>1. 0 \in T  BY <1>1, <1>2
  <2>2. ASSUME NEW i \in 1 .. m, i - 1 \in T PROVE i \in T
    <3>1. i \in 1 .. n  BY <1>1
    <3>2. WellFormed(a[i - 1], list, e.id)  BY <2>2
    <3>3. BranchRight(a[i - 1], a[i], list, list[i], e)
      BY <1>2, <1>3, <3>1, <3>2, BranchEffect
    <3>4. QED  BY <1>1, <3>1, <3>3 DEF BranchRight
  <2>3. m \in Nat  BY <1>1
  <2> HIDE DEF T
  <2>4. m \in T  BY <2>1, <2>2, <2>3, StepByStep
  <2>5. QED  BY <2>4 DEF T
<1>5. ASSUME NEW i \in 1 .. n PROVE BranchRight(a[i - 1], a[i], list, list[i], e)
  <2>1. WellFormed(a[i - 1], list, e.id)  BY <1>3, <1>4
  <2>2. QED  BY <1>2, <1>3, <2>1, BranchEffect
<1>6. WellFormed(b, list, e.id)
  <2>1. n \in 0 .. n  BY <1>1
  <2>2. QED  BY <1>2, <1>4, <2>1
<1>7. ASSUME NEW j \in 1 .. n PROVE SpecDone(acc, b, list[j], e)
  <2> DEFINE s == list[j]
  <2>1. ASSUME NEW i \in 1 .. n, i # j, NEW id \in Nat
        PROVE  CountIn(a[i], s, id) = CountIn(a[i - 1], s, id)
    <3>1. s # list[i] /\ s \in Specs  BY <1>1, <1>3, <2>1
    <3>2. OthersKept(a[i - 1], a[i], list[i])  BY <1>5 DEF BranchRight
    <3> HIDE DEF s
    <3>3. QED  BY <3>1, <3>2 DEF OthersKept
  <2>2. SpecDone(a[j - 1], a[j], s, e)  BY <1>5 DEF BranchRight
  <2> HIDE DEF s
  <2>3. ASSUME NEW id \in Nat PROVE CountIn(a[j - 1], s, id) = CountIn(acc, s, id)
    <3> DEFINE T == {i \in 0 .. n : CountIn(a[i], s, id) = CountIn(acc, s, id)}
    <3>1. 0 \in T  BY <1>1, <1>2
    <3>2. ASSUME NEW i \in 1 .. j - 1, i - 1 \in T PROVE i \in T
      <4>1. i \in 1 .. n /\ i # j /\ i \in 0 .. n  BY <1>1
      <4>2. CountIn(a[i], s, id) = CountIn(a[i - 1], s, id)  BY <2>1, <4>1
      <4>3. QED  BY <3>2, <4>1, <4>2
    <3>3. j - 1 \in Nat  BY <1>1
    <3> HIDE DEF T
    <3>4. j - 1 \in T  BY <3>1, <3>2, <3>3, StepByStep
    <3>5. QED  BY <3>4 DEF T
  <2>4. ASSUME NEW id \in Nat PROVE CountIn(b, s, id) = CountIn(a[j], s, id)
    <3> DEFINE T == {i \in 0 .. n : i >= j => CountIn(a[i], s, id) = CountIn(a[j], s, id)}
    <3>1. 0 \in T  BY <1>1
    <3>2. ASSUME NEW i \in 1 .. n, i - 1 \in T PROVE i \in T
      <4>1. i \in 0 .. n  BY <1>1
      <4>2. CASE i > j
        <5>1. CountIn(a[i], s, id) = CountIn(a[i - 1], s, id)  BY <2>1, <4>2
        <5>2. i - 1 >= j  BY <4>2
        <5>3. QED  BY <3>2, <4>1, <5>1, <5>2
      <4>3. CASE ~ (i > j)
        <5>1. i >= j => i = j  BY <4>3
        <5>2. QED  BY <4>1, <5>1
      <4>4. QED  BY <4>2, <4>3
    <3> HIDE DEF T
    <3>3. n \in T  BY <1>1, <3>1, <3>2, StepByStep
    <3>4. n >= j  BY <1>1
    <3>5. QED  BY <1>2, <3>3, <3>4 DEF T
  <2>5. e.id \in Nat  BY CopyType
  <2>6. CountRight(a[j], s, e) => CountRight(b, s, e)
    BY <2>4, <2>5 DEF CountRight
  <2>7. SpecDone(acc, b, s, e)
    BY <2>2, <2>3, <2>4, <2>5, <2>6 DEF SpecDone
  <2>8. QED  BY <2>7 DEF s
<1>8. ASSUME NEW s \in ToSet(list) PROVE SpecDone(acc, b, s, e)
  <2>1. PICK j \in 1 .. n : list[j] = s  BY <1>1 DEF ToSet
  <2>2. QED  BY <1>7, <2>1
<1>9. QED  BY <1>6, <1>8 DEF b

\* A sequence is one of its own elements.
LEMMA SeqOfItsElements ==
    ASSUME NEW S, NEW q \in Seq(S)
    PROVE  q \in Seq(ToSet(q))
<1>1. DOMAIN q = 1 .. Len(q) /\ Len(q) \in Nat  OBVIOUS
<1>2. \A i \in DOMAIN q : q[i] \in ToSet(q)  BY DEF ToSet
<1>3. q \in [1 .. Len(q) -> ToSet(q)]  BY <1>1, <1>2
<1>4. QED  BY <1>1, <1>3

\* A sequence behind another.
LEMMA ConcatEffect ==
    ASSUME NEW S, NEW s \in Seq(S), NEW t \in Seq(S)
    PROVE  /\ s \o t \in Seq(S) /\ DOMAIN (s \o t) = 1 .. Len(s) + Len(t)
           /\ DOMAIN s = 1 .. Len(s) /\ Len(s) \in Nat
           /\ \A i \in 1 .. Len(s) : (s \o t)[i] = s[i]
           /\ \A i \in Len(s) + 1 .. Len(s) + Len(t) : (s \o t)[i] = t[i - Len(s)]
<1>1. s \o t \in Seq(S) /\ Len(s \o t) = Len(s) + Len(t) /\ Len(s) \in Nat /\ Len(t) \in Nat
  OBVIOUS
<1>2. DOMAIN (s \o t) = 1 .. Len(s) + Len(t) /\ DOMAIN s = 1 .. Len(s)  BY <1>1
<1>3. \A i \in 1 .. Len(s) : (s \o t)[i] = s[i]  BY <1>1
<1>4. \A i \in Len(s) + 1 .. Len(s) + Len(t) : (s \o t)[i] = t[i - Len(s)]  BY <1>1
<1>5. QED  BY <1>1, <1>2, <1>3, <1>4

\* The order in which expire_windows meets the keys: each once.
LEMMA OrderOf ==
    ASSUME NEW S, IsFiniteSet(S)
    PROVE  SetToSeq(S) \in Bijection(1 .. Cardinality(S), S) /\ Cardinality(S) \in Nat
<1> DEFINE n == Cardinality(S)
           f == SetToSeq(S)
<1>1. n \in Nat /\ ExistsBijection(1 .. n, S)  BY FS_CardinalityType
<1>2. PICK g : g \in Bijection(1 .. n, S)  BY <1>1 DEF ExistsBijection
<1>3. g \in [1 .. n -> S] /\ IsInjective(g)
  BY <1>2 DEF Bijection, Injection
<1>4. f \in [1 .. n -> S] /\ IsInjective(f)
  BY <1>3 DEF SetToSeq
<1> HIDE DEF f
<1>5. f \in Injection(1 .. n, S)  BY <1>4 DEF Injection
<1>6. Cardinality(1 .. n) = n
  <2>1. ASSUME NEW m \in Nat PROVE Cardinality(1 .. m) = m  BY FS_Interval
  <2>2. QED  BY <1>1, <2>1
<1>7. f \in Surjection(1 .. n, S)  BY <1>5, <1>6, FS_Injection
<1>8. QED  BY <1>1, <1>5, <1>7 DEF Bijection, f

\* The spec of a window's key.
LEMMA SpecOfKey ==
    ASSUME specs \in Seq(Specs), NEW k, NEW s \in ToSet(specs), s.id = k[1]
    PROVE  SpecOf(k) = s
<1>1. ToSet(specs) \subseteq Specs  BY DEF ToSet
<1>2. \A t \in ToSet(specs) : t.id = k[1] => t = s  BY <1>1, SpecFacts
<1>3. QED  BY <1>2 DEF SpecOf

\* What expire_windows leaves: the windows that ended have become results, so
\* no count changes.
Swept == [windows |-> [k \in DOMAIN windows \ Expired |-> windows[k]],
          results |-> results \o Returned]

LEMMA SweepEffect ==
    ASSUME specs \in Seq(Specs), NEW last \in Nat, WellFormed(Books, specs, last)
    PROVE  /\ WellFormed(Swept, specs, last)
           /\ \A s \in ToSet(specs) : \A id \in Nat : CountIn(Swept, s, id) = CountIn(Books, s, id)
<1> DEFINE order == SetToSeq(Expired)
           n == Cardinality(Expired)
           m == Len(results)
           q == results \o Returned
<1>0. /\ Books.windows = windows /\ Books.results = results
      /\ Swept.windows = [k \in DOMAIN windows \ Expired |-> windows[k]] /\ Swept.results = q
      /\ Swept = [windows |-> Swept.windows, results |-> Swept.results]
  BY DEF Books, Swept
<1>1. /\ IsFiniteSet(DOMAIN windows) /\ windows \in [DOMAIN windows -> Windows]
      /\ \A k \in DOMAIN windows :
           /\ windows[k].events # << >>
           /\ \E s \in ToSet(specs) : s.id = k[1] /\ Shape(s, windows[k])
           /\ \A i \in DOMAIN windows[k].events : windows[k].events[i].id <= last
      /\ results \in Seq(ToSet(results))
      /\ \A i \in DOMAIN results : ToSet(results[i].ids) \subseteq 0 .. last
  BY <1>0 DEF WellFormed
<1>2. Expired \in SUBSET DOMAIN windows  BY DEF Expired
<1>3. IsFiniteSet(Expired)  BY <1>1, <1>2, FS_Subset
<1>4. /\ n \in Nat /\ order \in [1 .. n -> Expired] /\ order \in Bijection(1 .. n, Expired)
      /\ \A i, j \in 1 .. n : order[i] = order[j] => i = j
      /\ \A k \in Expired : \E i \in 1 .. n : order[i] = k
  <2>1. order \in Bijection(1 .. n, Expired) /\ n \in Nat  BY <1>3, OrderOf
  <2>2. QED  BY <2>1 DEF Bijection, Injection, Surjection, IsInjective
<1> HIDE DEF n
<1>5. /\ Returned = [i \in 1 .. n |-> Result(SpecOf(order[i]), windows[order[i]], "returned")]
      /\ DOMAIN order = 1 .. n
  BY <1>4 DEF Returned
<1> HIDE DEF order
<1>6. ASSUME NEW i \in 1 .. n
      PROVE  /\ order[i] \in DOMAIN windows
             /\ Returned[i].spec = SpecOf(order[i])
             /\ \A id : id \in ToSet(Returned[i].ids) <=> Holds(windows[order[i]], id)
             /\ ToSet(Returned[i].ids) \subseteq 0 .. last
  <2>1. order[i] \in DOMAIN windows /\ windows[order[i]] \in Windows  BY <1>1, <1>2, <1>4
  <2>2. Returned[i] = Result(SpecOf(order[i]), windows[order[i]], "returned")  BY <1>5
  <2>3. \A j \in DOMAIN windows[order[i]].events : windows[order[i]].events[j].id <= last
    BY <1>1, <2>1
  <2>4. ToSet(Returned[i].ids) \subseteq 0 .. last  BY <2>1, <2>2, <2>3, ResultWithin
  <2>5. QED  BY <2>1, <2>2, <2>4, ResultIds
<1>7. /\ q \in Seq(ToSet(q)) /\ DOMAIN q = 1 .. m + n /\ DOMAIN results = 1 .. m /\ m \in Nat
      /\ \A i \in 1 .. m : q[i] = results[i]
      /\ \A i \in m + 1 .. m + n : q[i] = Returned[i - m]
  <2> DEFINE S == ToSet(results) \cup ToSet(Returned)
  <2>1. results \in Seq(S)  BY <1>1
  <2>2. Returned \in Seq(S) /\ Len(Returned) = n
    <3>1. DOMAIN Returned = 1 .. n  BY <1>5
    <3>2. \A i \in 1 .. n : Returned[i] \in S  BY <3>1 DEF ToSet
    <3>3. Returned \in [1 .. n -> S]  BY <1>5, <3>2
    <3>4. QED  BY <1>4, <3>3
  <2> HIDE DEF S
  <2>3. /\ q \in Seq(S) /\ DOMAIN q = 1 .. m + n /\ DOMAIN results = 1 .. m /\ m \in Nat
        /\ \A i \in 1 .. m : q[i] = results[i]
        /\ \A i \in m + 1 .. m + n : q[i] = Returned[i - m]
    BY <2>1, <2>2, ConcatEffect
  <2> HIDE DEF q
  <2>4. q \in Seq(ToSet(q))  BY <2>3, SeqOfItsElements
  <2>5. QED  BY <2>3, <2>4
<1> HIDE DEF q, m
<1>8. WellFormed(Swept, specs, last)
  <2> DEFINE left == [k \in DOMAIN windows \ Expired |-> windows[k]]
  <2>1. /\ IsFiniteSet(DOMAIN left) /\ left \in [DOMAIN left -> Windows]
        /\ \A k \in DOMAIN left : k \in DOMAIN windows /\ left[k] = windows[k]
    <3>1. DOMAIN left = DOMAIN windows \ Expired  OBVIOUS
    <3>2. IsFiniteSet(DOMAIN windows \ Expired)  BY <1>1, FS_Difference
    <3>3. \A k \in DOMAIN left : k \in DOMAIN windows /\ left[k] = windows[k]  OBVIOUS
    <3>4. left \in [DOMAIN left -> Windows]  BY <1>1, <3>3
    <3>5. QED  BY <3>1, <3>2, <3>3, <3>4
  <2> HIDE DEF left
  <2>2. \A k \in DOMAIN left :
           /\ left[k].events # << >>
           /\ \E s \in ToSet(specs) : s.id = k[1] /\ Shape(s, left[k])
           /\ \A i \in DOMAIN left[k].events : left[k].events[i].id <= last
    BY <1>1, <2>1
  <2>3. \A i \in DOMAIN q : ToSet(q[i].ids) \subseteq 0 .. last
    <3>1. ASSUME NEW i \in 1 .. m + n PROVE ToSet(q[i].ids) \subseteq 0 .. last
      <4>1. CASE i \in 1 .. m  BY <1>1, <1>7, <4>1
      <4>2. CASE i \in m + 1 .. m + n
        <5>1. i - m \in 1 .. n  BY <1>4, <1>7, <4>2
        <5>2. QED  BY <1>6, <1>7, <4>2, <5>1
      <4>3. QED  BY <1>4, <1>7, <4>1, <4>2
    <3>2. QED  BY <1>7, <3>1
  <2>4. Swept.windows = left /\ Swept.results = q  BY <1>0 DEF left
  <2>5. QED  BY <1>0, <1>7, <2>1, <2>2, <2>3, <2>4 DEF WellFormed
<1>9. ASSUME NEW s \in ToSet(specs), NEW id \in Nat
      PROVE  CountIn(Swept, s, id) = CountIn(Books, s, id)
  <2> DEFINE was == InResults(Books, s, id)
             open == InWindows(Books, s, id)
             gone == open \cap Expired
             new == {j \in m + 1 .. m + n : order[j - m] \in gone}
  <2>1. InWindows(Swept, s, id) = open \ gone
    BY <1>0, <1>2 DEF InWindows
  <2>2. InResults(Swept, s, id) = was \cup new
    <3>1. InResults(Swept, s, id) = {i \in 1 .. m + n : q[i].spec = s /\ id \in ToSet(q[i].ids)}
      BY <1>0, <1>7 DEF InResults
    <3>2. was = {i \in 1 .. m : results[i].spec = s /\ id \in ToSet(results[i].ids)}
      BY <1>0, <1>7 DEF InResults
    <3>3. ASSUME NEW j \in m + 1 .. m + n
          PROVE  (q[j].spec = s /\ id \in ToSet(q[j].ids)) <=> order[j - m] \in gone
      <4> DEFINE k == order[j - m]
      <4>1. j - m \in 1 .. n  BY <1>4, <1>7
      <4>2. k \in Expired /\ k \in DOMAIN windows  BY <1>4, <1>6, <4>1
      <4>3. q[j].spec = SpecOf(k) /\ (id \in ToSet(q[j].ids) <=> Holds(windows[k], id))
        BY <1>6, <1>7, <4>1
      <4> HIDE DEF k
      <4>4. SpecOf(k) = s <=> k[1] = s.id
        <5>1. PICK t \in ToSet(specs) : t.id = k[1]  BY <1>1, <4>2
        <5>2. SpecOf(k) = t  BY <5>1, SpecOfKey
        <5>3. k[1] = s.id => SpecOf(k) = s  BY SpecOfKey
        <5>4. QED  BY <5>1, <5>2, <5>3
      <4>5. k \in open <=> k[1] = s.id /\ Holds(windows[k], id)
        BY <1>0, <4>2 DEF InWindows, Holds
      <4>6. QED  BY <4>2, <4>3, <4>4, <4>5 DEF k
    <3>4. ASSUME NEW i \in 1 .. m PROVE i \in 1 .. m + n /\ q[i] = results[i]
      BY <1>4, <1>7
    <3>5. ASSUME NEW i \in 1 .. m + n PROVE i \in 1 .. m \/ i \in m + 1 .. m + n
      BY <1>4, <1>7
    <3>6. ASSUME NEW i \in m + 1 .. m + n PROVE i \in 1 .. m + n /\ i \notin 1 .. m
      BY <1>4, <1>7
    <3>7. new = {j \in m + 1 .. m + n : q[j].spec = s /\ id \in ToSet(q[j].ids)}
      BY <3>3
    <3> HIDE DEF new, was
    <3>8. QED  BY <3>1, <3>2, <3>4, <3>5, <3>6, <3>7, Zenon
  <2>3. was \cap new = {}
    <3>1. was \subseteq 1 .. m  BY <1>0, <1>7 DEF InResults
    <3>2. \A i \in 1 .. m : i \notin m + 1 .. m + n  BY <1>4, <1>7
    <3>3. QED  BY <3>1, <3>2
  <2>4. IsFiniteSet(was) /\ IsFiniteSet(open) /\ Cardinality(was) \in Nat /\ Cardinality(open) \in Nat
    BY CountsFinite
  <2>5. IsFiniteSet(new) /\ Cardinality(new) = Cardinality(gone) /\ Cardinality(gone) \in Nat
    <3> DEFINE f == [j \in new |-> order[j - m]]
    <3>1. \A j \in new : j - m \in 1 .. n /\ j \in Int  BY <1>4, <1>7
    <3>2. f \in [new -> gone]  OBVIOUS
    <3>3. ASSUME NEW i \in new, NEW j \in new, f[i] = f[j] PROVE i = j
      <4>1. order[i - m] = order[j - m]  BY <3>3
      <4>2. i - m = j - m  BY <1>4, <3>1, <4>1
      <4>3. QED  BY <1>7, <3>1, <4>2
    <3>4. ASSUME NEW k \in gone PROVE \E j \in new : f[j] = k
      <4>1. PICK i \in 1 .. n : order[i] = k  BY <1>4
      <4>2. i + m \in m + 1 .. m + n /\ (i + m) - m = i  BY <1>4, <1>7
      <4>3. i + m \in new  BY <4>1, <4>2
      <4>4. f[i + m] = order[(i + m) - m]  BY <4>3
      <4>5. QED  BY <4>1, <4>2, <4>3, <4>4
    <3>5. f \in Bijection(new, gone)
      BY <3>2, <3>3, <3>4 DEF Bijection, Injection, Surjection, IsInjective
    <3>6. new \in SUBSET (m + 1 .. m + n) /\ IsFiniteSet(m + 1 .. m + n)
      <4>1. m + 1 \in Int /\ m + n \in Int  BY <1>4, <1>7
      <4>2. QED  BY <4>1, FS_Interval
    <3>7. IsFiniteSet(new)  BY <3>6, FS_Subset
    <3>8. ExistsBijection(new, gone)  BY <3>5 DEF ExistsBijection
    <3> HIDE DEF new, gone, f
    <3>9. IsFiniteSet(gone) /\ Cardinality(gone) = Cardinality(new)  BY <3>7, <3>8, FS_Bijection
    <3>10. QED  BY <3>7, <3>9, FS_CardinalityType
  <2>6. Cardinality(was \cup new) = Cardinality(was) + Cardinality(gone)
    <3> HIDE DEF was, new, gone
    <3>1. Cardinality(was \cup new)
            = Cardinality(was) + Cardinality(new) - Cardinality(was \cap new)
      BY <2>4, <2>5, FS_Union
    <3>2. Cardinality(was \cap new) = 0  BY <2>3, FS_EmptySet
    <3>3. QED  BY <2>4, <2>5, <3>1, <3>2
  <2>7. Cardinality(open \ gone) = Cardinality(open) - Cardinality(gone)
    <3>1. open \cap gone = gone  OBVIOUS
    <3> HIDE DEF open, gone
    <3>2. Cardinality(open \ gone) = Cardinality(open) - Cardinality(open \cap gone)
      BY <2>4, FS_Difference
    <3>3. QED  BY <3>1, <3>2
  <2>8. CountIn(Swept, s, id) = Cardinality(was \cup new) + Cardinality(open \ gone)
    BY <2>1, <2>2 DEF CountIn
  <2>9. CountIn(Books, s, id) = Cardinality(was) + Cardinality(open)
    BY DEF CountIn
  <2> HIDE DEF was, open, gone, new
  <2>10. QED  BY <2>4, <2>5, <2>6, <2>7, <2>8, <2>9
<1>10. QED  BY <1>8, <1>9

-----------------------------------------------------------------------------
(* The invariant *)

\* What is well formed stays so for more specs and for later events.
LEMMA WellFormedGrows ==
    ASSUME NEW acc, NEW list, NEW more, NEW last \in Nat, NEW next \in Nat,
           WellFormed(acc, list, last), ToSet(list) \subseteq ToSet(more), last <= next
    PROVE  WellFormed(acc, more, next)
<1> DEFINE ws == acc.windows
           rs == acc.results
<1>1. /\ acc = [windows |-> ws, results |-> rs]
      /\ IsFiniteSet(DOMAIN ws) /\ ws \in [DOMAIN ws -> Windows]
      /\ \A k \in DOMAIN ws :
           /\ ws[k].events # << >>
           /\ \E s \in ToSet(list) : s.id = k[1] /\ Shape(s, ws[k])
           /\ \A i \in DOMAIN ws[k].events : ws[k].events[i].id <= last
      /\ rs \in Seq(ToSet(rs))
      /\ \A i \in DOMAIN rs : ToSet(rs[i].ids) \subseteq 0 .. last
  BY DEF WellFormed
<1> HIDE DEF ws, rs
<1>2. ASSUME NEW k \in DOMAIN ws, NEW i \in DOMAIN ws[k].events
      PROVE  ws[k].events[i].id <= next
  <2>1. ws[k] \in Windows  BY <1>1
  <2>2. ws[k].events[i] \in Copies  BY <2>1, WindowFields
  <2>3. ws[k].events[i].id \in Nat /\ ws[k].events[i].id <= last  BY <1>1, <2>2 DEF Copies
  <2>4. QED  BY <2>3
<1>3. 0 .. last \subseteq 0 .. next  OBVIOUS
<1>4. \A i \in DOMAIN rs : ToSet(rs[i].ids) \subseteq 0 .. next  BY <1>1, <1>3, Zenon
<1>5. \A k \in DOMAIN ws : \E s \in ToSet(more) : s.id = k[1] /\ Shape(s, ws[k])
  BY <1>1, Zenon
<1>6. QED  BY <1>1, <1>2, <1>4, <1>5 DEF WellFormed, ws, rs

\* An event that is still to come is in no window and in no result.
LEMMA NewEventUncounted ==
    ASSUME NEW acc, NEW list, NEW last \in Nat, WellFormed(acc, list, last),
           NEW spec, NEW id \in Nat, id > last
    PROVE  CountIn(acc, spec, id) = 0
<1>1. InResults(acc, spec, id) = {}
  <2>1. \A i \in DOMAIN acc.results : ToSet(acc.results[i].ids) \subseteq 0 .. last
    BY DEF WellFormed
  <2>2. id \notin 0 .. last  OBVIOUS
  <2>3. QED  BY <2>1, <2>2, Zenon DEF InResults
<1>2. InWindows(acc, spec, id) = {}
  <2>1. ASSUME NEW k \in DOMAIN acc.windows, NEW i \in DOMAIN acc.windows[k].events
        PROVE  acc.windows[k].events[i].id # id
    <3>1. acc.windows[k] \in Windows /\ acc.windows[k].events[i].id <= last
      BY DEF WellFormed
    <3>2. acc.windows[k].events[i].id \in Nat  BY <3>1, WindowFields DEF Copies
    <3>3. QED  BY <3>1, <3>2
  <2>2. QED  BY <2>1, Zenon DEF InWindows
<1>3. QED  BY <1>1, <1>2, FS_EmptySet DEF CountIn

\* At first nothing was processed.
LEMMA InitWindows == WindowsInit => WindowsInv
<1> SUFFICES ASSUME WindowsInit PROVE WindowsInv  OBVIOUS
<1>1. /\ specs = << >> /\ windows = << >> /\ now = 0 /\ nextId = 0
      /\ processed = {} /\ results = << >>
  BY DEF WindowsInit
<1>2. SpecsDistinct
  BY <1>1 DEF SpecsDistinct
<1>3. /\ Books = [windows |-> Books.windows, results |-> Books.results]
      /\ Books.windows = << >> /\ Books.results = << >>
  BY <1>1 DEF Books
<1>4. DOMAIN << >> = {} /\ << >> \in Seq(ToSet(<< >>)) /\ << >> \in [DOMAIN << >> -> Windows]
  OBVIOUS
<1>5. WellFormed(Books, specs, nextId)
  BY <1>3, <1>4, FS_EmptySet DEF WellFormed
<1>6. QED  BY <1>1, <1>2, <1>5 DEF WindowsInv

\* add_window: the specs stay distinct, and no count is about the new one.
LEMMA AddWindowStep ==
    ASSUME WindowsInv, NEW spec \in Specs \ ToSet(specs), AddWindow(spec)
    PROVE  WindowsInv'
<1>1. /\ specs' = Append(specs, spec) /\ windows' = windows /\ results' = results
      /\ now' = now /\ nextId' = nextId /\ processed' = processed
  BY DEF AddWindow
<1>2. /\ specs \in Seq(Specs) /\ nextId \in Nat /\ now \in Nat
      /\ \A i, j \in DOMAIN specs : specs[i] = specs[j] => i = j
      /\ WellFormed(Books, specs, nextId)
      /\ \A p \in processed :
           /\ p.event.id \in 1 .. nextId /\ p.event.ts \in Nat
           /\ p.specs \subseteq ToSet(specs)
           /\ \A s \in p.specs : CountRight(Books, s, p.event)
  BY DEF WindowsInv, SpecsDistinct
<1> DEFINE list == Append(specs, spec)
<1>3. /\ list \in Seq(Specs) /\ DOMAIN list = 1 .. Len(specs) + 1 /\ Len(specs) \in Nat
      /\ \A i \in 1 .. Len(specs) : list[i] = specs[i]
      /\ list[Len(specs) + 1] = spec /\ DOMAIN specs = 1 .. Len(specs)
  BY <1>2, AppendEffect
<1> HIDE DEF list
<1>4. \A i \in 1 .. Len(specs) : specs[i] # spec
  BY <1>3 DEF ToSet
<1>5. ASSUME NEW i \in DOMAIN list, NEW j \in DOMAIN list, list[i] = list[j]
      PROVE  i = j
  <2>1. CASE i \in 1 .. Len(specs) /\ j \in 1 .. Len(specs)
    BY <1>2, <1>3, <1>5, <2>1
  <2>2. CASE i = Len(specs) + 1 /\ j = Len(specs) + 1
    BY <2>2
  <2>3. CASE i \in 1 .. Len(specs) /\ j = Len(specs) + 1
    BY <1>3, <1>4, <1>5, <2>3
  <2>4. CASE i = Len(specs) + 1 /\ j \in 1 .. Len(specs)
    BY <1>3, <1>4, <1>5, <2>4
  <2>5. QED  BY <1>3, <2>1, <2>2, <2>3, <2>4
<1>6. ToSet(specs) \subseteq ToSet(list)
  <2>1. ASSUME NEW i \in DOMAIN specs PROVE i \in DOMAIN list /\ list[i] = specs[i]
    BY <1>3
  <2>2. QED  BY <2>1 DEF ToSet
<1>7. WellFormed(Books, list, nextId)
  BY <1>2, <1>6, WellFormedGrows
<1>8. Books' = Books  BY <1>1 DEF Books
<1>9. specs' = list  BY <1>1 DEF list
<1>10. SpecsDistinct'  BY <1>3, <1>5, <1>9 DEF SpecsDistinct
<1>11. WellFormed(Books', specs', nextId')  BY <1>1, <1>7, <1>8, <1>9
<1>12. \A p \in processed' :
          /\ p.event.id \in 1 .. nextId' /\ p.event.ts \in Nat
          /\ p.specs \subseteq ToSet(specs')
          /\ \A s \in p.specs : CountRight(Books', s, p.event)
  BY <1>1, <1>2, <1>6, <1>8, <1>9, Zenon
<1>13. QED  BY <1>1, <1>2, <1>10, <1>11, <1>12 DEF WindowsInv

\* The invariant, spelled out.
LEMMA WindowsInvParts ==
    ASSUME WindowsInv
    PROVE  /\ specs \in Seq(Specs) /\ nextId \in Nat /\ now \in Nat
           /\ \A i, j \in DOMAIN specs : specs[i] = specs[j] => i = j
           /\ WellFormed(Books, specs, nextId)
           /\ \A p \in processed :
                /\ p.event.id \in 1 .. nextId /\ p.event.ts \in Nat
                /\ p.specs \subseteq ToSet(specs)
                /\ \A s \in p.specs : CountRight(Books, s, p.event)
BY DEF WindowsInv, SpecsDistinct

\* An event that comes in is well typed and has the next number.
LEMMA EventsTyped ==
    ASSUME now \in Nat, nextId \in Nat, NEW e \in Events
    PROVE  e \in EventType /\ e.id = nextId + 1 /\ e.ts \in Nat
<1>1. MaxLag \in Nat  BY WindowsAssumption
<1>2. /\ e = [id |-> e.id, ts |-> e.ts, group |-> e.group, amount |-> e.amount]
      /\ e.id = nextId + 1 /\ e.ts \in Timestamps /\ e.group \in Groups /\ e.amount \in Amounts
  BY DEF Events
<1>3. e.ts \in Nat  BY <1>1, <1>2 DEF Timestamps
<1>4. QED  BY <1>2, <1>3 DEF EventType

\* process_event: the new event is counted as it must be, and the counts of
\* the earlier ones stay right.
LEMMA ProcessEventStep ==
    ASSUME WindowsInv, NEW e \in Events, ProcessEvent(e)
    PROVE  WindowsInv'
<1> DEFINE b == ProcessSpecs(Books, specs, e)
<1>1. /\ windows' = b.windows /\ results' = b.results /\ nextId' = nextId + 1
      /\ processed' = processed \cup {[event |-> e, specs |-> ToSet(specs)]}
      /\ specs' = specs /\ now' = now
  BY DEF ProcessEvent, Books
<1>2. /\ specs \in Seq(Specs) /\ nextId \in Nat /\ now \in Nat
      /\ \A i, j \in DOMAIN specs : specs[i] = specs[j] => i = j
      /\ WellFormed(Books, specs, nextId)
      /\ \A p \in processed :
           /\ p.event.id \in 1 .. nextId /\ p.event.ts \in Nat
           /\ p.specs \subseteq ToSet(specs)
           /\ \A s \in p.specs : CountRight(Books, s, p.event)
  BY WindowsInvParts
<1>3. e \in EventType /\ e.id = nextId + 1 /\ e.ts \in Nat  BY <1>2, EventsTyped
<1>4. WellFormed(Books, specs, e.id)
  <2>1. nextId + 1 \in Nat /\ nextId <= nextId + 1  BY <1>2
  <2>2. WellFormed(Books, specs, nextId + 1)  BY <1>2, <2>1, WellFormedGrows
  <2>3. QED  BY <1>3, <2>2
<1>5. WellFormed(b, specs, e.id) /\ \A s \in ToSet(specs) : SpecDone(Books, b, s, e)
  BY <1>2, <1>3, <1>4, LoopEffect
<1> HIDE DEF b
<1>6. Books' = b
  <2>1. b = [windows |-> b.windows, results |-> b.results]  BY <1>5 DEF WellFormed
  <2>2. Books' = [windows |-> windows', results |-> results']  BY DEF Books
  <2>3. QED  BY <1>1, <2>1, <2>2
<1>7. SpecsDistinct'  BY <1>1, <1>2 DEF SpecsDistinct
<1>8. WellFormed(Books', specs', nextId')  BY <1>1, <1>3, <1>5, <1>6
<1>9. ASSUME NEW p \in processed
      PROVE  /\ p.event.id \in 1 .. nextId + 1 /\ p.event.ts \in Nat
             /\ p.specs \subseteq ToSet(specs)
             /\ \A s \in p.specs : CountRight(b, s, p.event)
  <2>1. p.event.id \in 1 .. nextId + 1 /\ p.event.id \in Nat \ {e.id}
    BY <1>2, <1>3
  <2>2. ASSUME NEW s \in p.specs PROVE CountRight(b, s, p.event)
    <3>1. s \in ToSet(specs) /\ CountRight(Books, s, p.event)  BY <1>2
    <3>2. SpecDone(Books, b, s, e)  BY <1>5, <3>1
    <3> DEFINE id == p.event.id
    <3>3. IF s.type = "Tumbling" THEN CountIn(b, s, id) >= CountIn(Books, s, id)
          ELSE CountIn(b, s, id) = CountIn(Books, s, id)
      BY <2>1, <3>2 DEF SpecDone
    <3>4. CountIn(Books, s, id) \in Nat /\ CountIn(b, s, id) \in Nat
      BY <1>2, <1>5, CountsFinite
    <3>5. CASE s.type = "Tumbling"
      <4>1. CountIn(Books, s, id) >= 1  BY <3>1, <3>5 DEF CountRight
      <4>2. CountIn(b, s, id) >= CountIn(Books, s, id)  BY <3>3, <3>5
      <4> DEFINE n == CountIn(Books, s, id)
                 m == CountIn(b, s, id)
      <4>3. m >= 1
        <5>1. n \in Nat /\ m \in Nat /\ n >= 1 /\ m >= n  BY <3>4, <4>1, <4>2
        <5> HIDE DEF n, m
        <5>2. QED  BY <5>1
      <4>4. QED  BY <3>5, <4>3 DEF CountRight
    <3>6. CASE s.type # "Tumbling"
      <4>1. CountIn(b, s, id) = CountIn(Books, s, id)  BY <3>3, <3>6
      <4>2. QED  BY <3>1, <3>6, <4>1 DEF CountRight
    <3>7. QED  BY <3>5, <3>6
  <2>3. QED  BY <1>2, <2>1, <2>2
<1>10. ASSUME NEW s \in ToSet(specs) PROVE CountRight(b, s, e)
  <2>1. CountIn(Books, s, e.id) = 0
    <3>1. e.id \in Nat /\ e.id > nextId  BY <1>2, <1>3
    <3>2. QED  BY <1>2, <3>1, NewEventUncounted
  <2>2. QED  BY <1>5, <2>1 DEF SpecDone
<1> DEFINE new == [event |-> e, specs |-> ToSet(specs)]
<1>11. new.event = e /\ new.specs = ToSet(specs)  OBVIOUS
<1>12. processed' = processed \cup {new}  BY <1>1
<1> HIDE DEF new
<1>13. e.id \in 1 .. nextId + 1  BY <1>2, <1>3
<1>14. ASSUME NEW p \in processed'
       PROVE  /\ p.event.id \in 1 .. nextId' /\ p.event.ts \in Nat
              /\ p.specs \subseteq ToSet(specs')
              /\ \A s \in p.specs : CountRight(Books', s, p.event)
  <2>1. CASE p \in processed
    <3>1. /\ p.event.id \in 1 .. nextId + 1 /\ p.event.ts \in Nat
          /\ p.specs \subseteq ToSet(specs)
          /\ \A s \in p.specs : CountRight(b, s, p.event)
      BY <1>9, <2>1
    <3>2. QED  BY <1>1, <1>6, <3>1
  <2>2. CASE p = new
    <3>1. /\ p.event.id \in 1 .. nextId + 1 /\ p.event.ts \in Nat
          /\ p.specs \subseteq ToSet(specs)
          /\ \A s \in p.specs : CountRight(b, s, p.event)
      BY <1>3, <1>10, <1>11, <1>13, <2>2
    <3>2. QED  BY <1>1, <1>6, <3>1
  <2>3. QED  BY <1>12, <2>1, <2>2
<1>15. nextId' \in Nat /\ now' \in Nat  BY <1>1, <1>2
<1>16. QED  BY <1>7, <1>8, <1>14, <1>15 DEF WindowsInv

\* expire_windows: windows become results, which changes no count.
LEMMA ExpireWindowsStep ==
    ASSUME WindowsInv, ExpireWindows
    PROVE  WindowsInv'
<1>1. /\ results' = results \o Returned
      /\ windows' = [k \in DOMAIN windows \ Expired |-> windows[k]]
      /\ specs' = specs /\ now' = now /\ nextId' = nextId /\ processed' = processed
  BY DEF ExpireWindows
<1>2. /\ specs \in Seq(Specs) /\ nextId \in Nat /\ now \in Nat
      /\ WellFormed(Books, specs, nextId)
      /\ \A p \in processed :
           /\ p.event.id \in 1 .. nextId /\ p.event.ts \in Nat
           /\ p.specs \subseteq ToSet(specs)
           /\ \A s \in p.specs : CountRight(Books, s, p.event)
  BY WindowsInvParts
<1>3. Books' = Swept  BY <1>1 DEF Books, Swept
<1>4. /\ WellFormed(Swept, specs, nextId)
      /\ \A s \in ToSet(specs) : \A id \in Nat : CountIn(Swept, s, id) = CountIn(Books, s, id)
  BY <1>2, SweepEffect
<1>5. ASSUME NEW p \in processed, NEW s \in p.specs
      PROVE  CountRight(Swept, s, p.event)
  <2>1. s \in ToSet(specs) /\ p.event.id \in Nat /\ CountRight(Books, s, p.event)
    BY <1>2
  <2>2. CountIn(Swept, s, p.event.id) = CountIn(Books, s, p.event.id)  BY <1>4, <2>1
  <2>3. QED  BY <2>1, <2>2 DEF CountRight
<1>6. SpecsDistinct'  BY <1>1 DEF WindowsInv, SpecsDistinct
<1>7. WellFormed(Books', specs', nextId')  BY <1>1, <1>3, <1>4
<1>8. \A p \in processed' :
          /\ p.event.id \in 1 .. nextId' /\ p.event.ts \in Nat
          /\ p.specs \subseteq ToSet(specs')
          /\ \A s \in p.specs : CountRight(Books', s, p.event)
  BY <1>1, <1>2, <1>3, <1>5
<1>9. QED  BY <1>1, <1>2, <1>6, <1>7, <1>8 DEF WindowsInv

\* clear() leaves no window to be wrong and no event to be counted.
LEMMA ClearStep ==
    ASSUME WindowsInv, Clear
    PROVE  WindowsInv'
<1>1. /\ windows' = << >> /\ results' = << >> /\ processed' = {}
      /\ specs' = specs /\ now' = now /\ nextId' = nextId
  BY DEF Clear
<1>2. /\ Books' = [windows |-> Books'.windows, results |-> Books'.results]
      /\ Books'.windows = << >> /\ Books'.results = << >>
  BY <1>1 DEF Books
<1>3. DOMAIN << >> = {} /\ << >> \in Seq(ToSet(<< >>)) /\ << >> \in [DOMAIN << >> -> Windows]
  OBVIOUS
<1>4. WellFormed(Books', specs', nextId')
  BY <1>2, <1>3, FS_EmptySet DEF WellFormed
<1>5. SpecsDistinct' /\ nextId' \in Nat /\ now' \in Nat
  BY <1>1 DEF WindowsInv, SpecsDistinct
<1>6. QED  BY <1>1, <1>4, <1>5 DEF WindowsInv

\* The clock, and nothing at all, disturb nothing.
LEMMA IdleStep ==
    ASSUME WindowsInv, Tick \/ UNCHANGED windowsVars
    PROVE  WindowsInv'
<1>1. /\ windows' = windows /\ results' = results /\ processed' = processed
      /\ specs' = specs /\ nextId' = nextId
  BY DEF Tick, windowsVars
<1>2. now' \in Nat
  BY DEF WindowsInv, Tick, windowsVars
<1>3. Books' = Books  BY <1>1 DEF Books
<1>4. SpecsDistinct'  BY <1>1 DEF WindowsInv, SpecsDistinct
<1>5. WellFormed(Books', specs', nextId')  BY <1>1, <1>3 DEF WindowsInv
<1>6. \A p \in processed' :
          /\ p.event.id \in 1 .. nextId' /\ p.event.ts \in Nat
          /\ p.specs \subseteq ToSet(specs')
          /\ \A s \in p.specs : CountRight(Books', s, p.event)
  BY <1>1, <1>3, WindowsInvParts
<1>7. nextId' \in Nat  BY <1>1 DEF WindowsInv
<1>8. QED  BY <1>2, <1>4, <1>5, <1>6, <1>7 DEF WindowsInv

\* The windows manager's bookkeeping: windows_ is well formed, and every spec
\* counts every event processed since it was added and since the last clear()
\* as often as its type asks, over the results and the open windows.
THEOREM WindowsInvariant == WindowsSpec => []WindowsInv
<1>1. WindowsInit => WindowsInv  BY InitWindows
<1>2. WindowsInv /\ [WindowsNext]_windowsVars => WindowsInv'
  <2> SUFFICES ASSUME WindowsInv, [WindowsNext]_windowsVars PROVE WindowsInv'  OBVIOUS
  <2>1. CASE \E s \in Specs \ ToSet(specs) : AddWindow(s)  BY <2>1, AddWindowStep
  <2>2. CASE \E e \in Events : ProcessEvent(e)  BY <2>2, ProcessEventStep
  <2>3. CASE ExpireWindows  BY <2>3, ExpireWindowsStep
  <2>4. CASE Clear  BY <2>4, ClearStep
  <2>5. CASE Tick \/ UNCHANGED windowsVars  BY <2>5, IdleStep
  <2>6. QED  BY <2>1, <2>2, <2>3, <2>4, <2>5 DEF WindowsNext
<1>3. QED  BY <1>1, <1>2, PTL DEF WindowsSpec

-----------------------------------------------------------------------------
(* What the invariant says of the events *)

\* The spec that a window was made for, and the window's shape.
LEMMA WindowShape ==
    ASSUME WindowsInv, NEW k \in DOMAIN windows
    PROVE  /\ \E s \in ToSet(specs) : s.id = k[1]
           /\ SpecOf(k) \in ToSet(specs) /\ Shape(SpecOf(k), windows[k])
           /\ windows[k].events # << >>
<1>1. specs \in Seq(Specs) /\ WellFormed(Books, specs, nextId)  BY WindowsInvParts
<1>2. Books.windows = windows  BY DEF Books
<1>3. /\ windows[k].events # << >>
      /\ \E s \in ToSet(specs) : s.id = k[1] /\ Shape(s, windows[k])
  BY <1>1, <1>2 DEF WellFormed
<1>4. PICK s \in ToSet(specs) : s.id = k[1] /\ Shape(s, windows[k])  BY <1>3
<1>5. SpecOf(k) = s  BY <1>1, <1>4, SpecOfKey
<1>6. QED  BY <1>3, <1>4, <1>5

\* The counts of the events processed.
LEMMA EventsCounted ==
    ASSUME WindowsInv, NEW p \in processed, NEW s \in p.specs
    PROVE  /\ CountRight(Books, s, p.event)
           /\ CountIn(Books, s, p.event.id) = Counted(s, p.event.id)
           /\ s \in Specs /\ p.event.ts \in Nat
<1>1. /\ specs \in Seq(Specs) /\ p.specs \subseteq ToSet(specs) /\ p.event.ts \in Nat
      /\ CountRight(Books, s, p.event)
  BY WindowsInvParts
<1>2. ToSet(specs) \subseteq Specs  BY <1>1 DEF ToSet
<1>3. Counted(s, p.event.id) = CountIn(Books, s, p.event.id)  BY DEF Counted, Books
<1>4. QED  BY <1>1, <1>2, <1>3

\* No event is lost: whatever windows roll, end, expire or are begun anew,
\* every event that process_event has put into a window is in one that is
\* still open or in a result, and no window is without events, without a spec
\* or, sessions excepted, of another length than its spec's.
THEOREM EventsNotLost == WindowsSpec => []NoEventLost
<1>1. WindowsInv => NoEventLost
  <2> SUFFICES ASSUME WindowsInv PROVE NoEventLost  OBVIOUS
  <2>1. WindowsTypeOK
    <3>1. ToSet(specs) \subseteq Specs
      <4>1. specs \in Seq(Specs)  BY WindowsInvParts
      <4>2. QED  BY <4>1 DEF ToSet
    <3>2. ASSUME NEW k \in DOMAIN windows
          PROVE  /\ \E s \in ToSet(specs) : s.id = k[1]
                 /\ windows[k].events # << >>
                 /\ SpecOf(k).type # "Session" =>
                      windows[k].end = windows[k].start + SpecOf(k).size
      BY WindowShape DEF Shape
    <3>3. QED  BY <3>1, <3>2 DEF WindowsTypeOK
  <2>2. ASSUME NEW p \in processed, NEW s \in p.specs, s.type # "Hopping"
        PROVE  Counted(s, p.event.id) >= 1
    <3> DEFINE n == CountIn(Books, s, p.event.id)
    <3>1. CountRight(Books, s, p.event) /\ n = Counted(s, p.event.id)  BY EventsCounted
    <3>2. s.type = "Tumbling" => n >= 1  BY <3>1 DEF CountRight
    <3>3. s.type # "Tumbling" => n = 1  BY <2>2, <3>1 DEF CountRight
    <3> HIDE DEF n
    <3>4. n >= 1  BY <3>2, <3>3
    <3>5. QED  BY <3>1, <3>4
  <2>3. QED  BY <2>1, <2>2 DEF NoEventLost
<1>2. QED  BY <1>1, WindowsInvariant, PTL

\* Each event is in exactly one session of a spec, open or ended, in whatever
\* order timestamps, expiry and new sessions come, and an open session has not
\* gone on over a gap forward in time.  A late event joins it from any
\* distance: that is the one-sided test of the code.
THEOREM SessionsPartition == WindowsSpec => []SessionPartition
<1>1. WindowsInv => SessionPartition
  <2> SUFFICES ASSUME WindowsInv PROVE SessionPartition  OBVIOUS
  <2>1. SplitAtGaps
    BY WindowShape DEF SplitAtGaps, Shape
  <2>2. ASSUME NEW p \in processed, NEW s \in p.specs, s.type = "Session"
        PROVE  Counted(s, p.event.id) = 1
    BY <2>2, EventsCounted DEF CountRight
  <2>3. QED  BY <2>1, <2>2 DEF SessionPartition
<1>2. QED  BY <1>1, WindowsInvariant, PTL

\* The hops that cover an event are numbered from minus the size to the
\* timestamp: a hop is one millisecond or more.
LEMMA CoveringHops ==
    ASSUME NEW spec \in Specs, NEW ts \in Nat
    PROVE  HopWindows(spec, ts) = {w \in (-spec.size) .. ts : Covers(spec, w, ts)}
<1>1. HopWindows(spec, ts) = {w \in Int : Covers(spec, w, ts)}
  <2>1. spec.size \in Nat \ {0} /\ spec.slide \in Nat \ {0}  BY SpecFacts
  <2>2. QED  BY <2>1, HopWindowsExact
<1> DEFINE size == spec.size
           slide == spec.slide
<1>2. size \in Nat \ {0} /\ slide \in Nat \ {0}  BY SpecFacts
<1>3. \A w \in Int : Covers(spec, w, ts) <=> w * slide <= ts /\ ts < w * slide + size
  BY DEF Covers, HopStart
<1> HIDE DEF size, slide
<1>4. PICK d \in Nat : slide = d + 1
  <2>1. slide - 1 \in Nat /\ slide = (slide - 1) + 1  BY <1>2
  <2>2. QED  BY <2>1
<1>5. ASSUME NEW w \in Int, w * slide <= ts, ts < w * slide + size
      PROVE  w \in (-size) .. ts
  <2>1. w * slide = w * d + w /\ w * d \in Int  BY <1>4, SMT
  <2>2. CASE w >= 0
    <3>1. w * d >= 0  BY <2>2, <1>4, SMT
    <3>2. w <= ts  BY <1>5, <2>1, <3>1
    <3>3. QED  BY <1>2, <2>2, <3>2
  <2>3. CASE w < 0
    <3>1. w * d <= 0  BY <2>3, <1>4, SMT
    <3>2. -size <= w  BY <1>2, <1>5, <2>1, <3>1
    <3>3. QED  BY <1>2, <2>3, <3>2
  <2>4. QED  BY <2>2, <2>3
<1>6. QED  BY <1>1, <1>3, <1>5 DEF size

\* Hopping windows count an event exactly once for every interval of the
\* spec's length, at any multiple of its hop before, at or after the epoch,
\* that covers the event's timestamp.
THEOREM HoppingCountsExact == WindowsSpec => []HoppingExact
<1>1. WindowsInv => HoppingExact
  <2> SUFFICES ASSUME WindowsInv, NEW p \in processed, NEW s \in p.specs, s.type = "Hopping"
               PROVE  Counted(s, p.event.id) =
                        Cardinality({w \in (-s.size) .. p.event.ts :
                                       Covers(s, w, p.event.ts)})
    BY DEF HoppingExact
  <2>1. /\ CountRight(Books, s, p.event)
        /\ CountIn(Books, s, p.event.id) = Counted(s, p.event.id)
        /\ s \in Specs /\ p.event.ts \in Nat
    BY EventsCounted
  <2>2. Counted(s, p.event.id) = Cardinality(HopWindows(s, p.event.ts))
    BY <2>1 DEF CountRight
  <2>3. QED  BY <2>1, <2>2, CoveringHops
<1>2. QED  BY <1>1, WindowsInvariant, PTL

=============================================================================
