---------------------------- MODULE EventWindows ----------------------------
(***************************************************************************)
(* EventWindowManager: events are grouped into tumbling, sliding, session  *)
(* and hopping windows and every window ends as one WindowResult, either   *)
(* handed to the result callback or returned by expire_windows.  Every     *)
(* operation holds mutex_ throughout, callback included, so one action per *)
(* operation is exact.  Time is counted in milliseconds since the epoch.   *)
(***************************************************************************)
EXTENDS Integers, Sequences, FiniteSets, SequencesExt

CONSTANTS
    Specs,     \* WindowSpecs a caller may add, with distinct ids
    Groups,    \* values of the group_by_field, "" and "_unknown_" included
    Global,    \* the group key "_global_"
    Amounts,   \* values of the aggregation_field
    MaxEvents, MaxTime, MaxLag, \* bounds: events, clock, how late an event is
    MaxSpecs   \* bound: specs added

ASSUME WindowsAssumption ==
    /\ \A s \in Specs :
         /\ s.type \in {"Tumbling", "Sliding", "Session", "Hopping"}
         /\ {s.size, s.slide} \subseteq Nat \ {0} /\ s.gap \in Nat
         /\ s.grouped \in BOOLEAN /\ s.threshold \in Nat
         /\ s.function \in {"count", "sum", "avg", "min", "max"}
         /\ \A t \in Specs : s.id = t.id => s = t
    /\ Amounts \subseteq Nat
    /\ {MaxEvents, MaxTime, MaxLag, MaxSpecs} \subseteq Nat

VARIABLES
    specs,     \* specs_
    windows,   \* windows_, as one map from <<spec id, window key...>> to states
    now,       \* the system clock
    nextId,    \* the number of events processed
    processed, \* history: the events processed since the last clear(), each
               \* with the number of specs there were
    results    \* history: the results emitted since the last clear(), in order

windowsVars == <<specs, windows, now, nextId, processed, results>>

-----------------------------------------------------------------------------
(* Aggregation *)

\* get_group_key
GroupKey(e, spec) == IF spec.grouped THEN e.group ELSE Global

\* The copy a window keeps of an event: id, timestamp and names are copied,
\* byte counts, ports and custom fields are not.
StoredCopy(e) == [e EXCEPT !.amount = 0]

\* get_field_double of every event
FieldValues(events) == [i \in DOMAIN events |-> events[i].amount]

SumOf(values) == FoldLeft(LAMBDA a, b : a + b, 0, values)

\* aggregate(events) >= threshold; the mean is compared without dividing.
Exceeds(spec, events) ==
    LET v == FieldValues(events)
    IN  CASE spec.function = "count" -> Len(events) >= spec.threshold
          [] spec.function = "sum"   -> SumOf(v) >= spec.threshold
          [] spec.function = "avg"   -> SumOf(v) >= spec.threshold * Len(v)
          [] spec.function = "min"   -> \A x \in ToSet(v) : x >= spec.threshold
          [] spec.function = "max"   -> \E x \in ToSet(v) : x >= spec.threshold

\* The WindowResult of a window; via says who got it.
Result(spec, win, via) ==
    [spec |-> spec, group |-> win.group, start |-> win.start, end |-> win.end,
     ids |-> [i \in DOMAIN win.events |-> win.events[i].id],
     exceeded |-> Exceeds(spec, win.events), via |-> via]

-----------------------------------------------------------------------------
(* Windows.  The processing of an event maps acc = [windows, results] to   *)
(* what one spec's branch leaves.                                          *)

NoWindow(group) == [start |-> 0, end |-> 0, group |-> group, events |-> << >>]

At(ws, key, group) == IF key \in DOMAIN ws THEN ws[key] ELSE NoWindow(group)

Put(ws, key, win) == [k \in DOMAIN ws \cup {key} |-> IF k = key THEN win ELSE ws[k]]

Store(win, e) == [win EXCEPT !.events = Append(@, StoredCopy(e))]

\* The window given the interval of spec's size that begins at start.
MoveTo(win, start, spec) == [win EXCEPT !.start = start, !.end = start + spec.size]

\* An event of another window period emits the group's window and moves it to
\* the new period; the events it holds stay in it.
process_tumbling(acc, spec, e, g) ==
    LET key   == <<spec.id, g>>
        win   == At(acc.windows, key, g)
        start == e.ts - (e.ts % spec.size)
        moved == win.start # start
    IN  [windows |-> Put(acc.windows, key, Store(MoveTo(win, start, spec), e)),
         results |-> IF win.events # << >> /\ moved
                     THEN Append(acc.results, Result(spec, win, "callback"))
                     ELSE acc.results]

\* Every event opens a window of its own; events of one millisecond share it.
process_sliding(acc, spec, e, g) ==
    LET key == <<spec.id, g, e.ts>>
        win == At(acc.windows, key, g)
    IN  [acc EXCEPT !.windows = Put(@, key, Store(MoveTo(win, e.ts, spec), e))]

SessionEnded(win, spec, e) == e.ts - win.end > spec.gap

\* Mutant of ExtendSession: the events of the ended session are kept.
ExtendWithoutClear(win, spec, e) ==
    Store(IF win.events = << >> \/ SessionEnded(win, spec, e)
          THEN [win EXCEPT !.start = e.ts, !.end = e.ts]
          ELSE [win EXCEPT !.end = e.ts], e)

\* The group's session after event e: begun anew after the gap, or extended
\* to the timestamp of e, which may be earlier than its end was.
ExtendSession(win, spec, e) ==
    Store(IF win.events = << >> \/ SessionEnded(win, spec, e)
          THEN [win EXCEPT !.start = e.ts, !.end = e.ts, !.events = << >>]
          ELSE [win EXCEPT !.end = e.ts], e)

process_session(acc, spec, e, g) ==
    LET key == <<spec.id, g>>
        win == At(acc.windows, key, g)
    IN  [windows |-> Put(acc.windows, key, ExtendSession(win, spec, e)),
         results |-> IF win.events # << >> /\ SessionEnded(win, spec, e)
                     THEN Append(acc.results, Result(spec, win, "callback"))
                     ELSE acc.results]

\* Division of C++ integers: the quotient is rounded towards zero.
TruncDiv(a, b) == IF a >= 0 THEN a \div b ELSE -((-a) \div b)

HopStart(spec, w) == w * spec.slide

Covers(spec, w, ts) == HopStart(spec, w) <= ts /\ ts < HopStart(spec, w) + spec.size

\* Mutant of HopWindows: the oldest window is left out.
HopWindowsFromNext(spec, ts) ==
    {w \in TruncDiv(ts - spec.size, spec.slide) + 1 .. TruncDiv(ts, spec.slide) :
        Covers(spec, w, ts)}

\* The hop numbers of the windows that an event at ts goes into.
HopWindows(spec, ts) ==
    {w \in TruncDiv(ts - spec.size, spec.slide) .. TruncDiv(ts, spec.slide) :
        Covers(spec, w, ts)}

process_hopping(acc, spec, e, g) ==
    LET keys == {<<spec.id, g, w>> : w \in HopWindows(spec, e.ts)}
        Opened(k) == MoveTo(NoWindow(g), HopStart(spec, k[3]), spec)
        Window(k) == IF k \in DOMAIN acc.windows THEN acc.windows[k] ELSE Opened(k)
    IN  [acc EXCEPT !.windows = [k \in DOMAIN acc.windows \cup keys |->
            IF k \in keys THEN Store(Window(k), e) ELSE acc.windows[k]]]

\* The branch of process_event for one spec.
ProcessSpec(acc, spec, e) ==
    LET g == GroupKey(e, spec)
    IN  CASE spec.type = "Tumbling" -> process_tumbling(acc, spec, e, g)
          [] spec.type = "Sliding"  -> process_sliding(acc, spec, e, g)
          [] spec.type = "Session"  -> process_session(acc, spec, e, g)
          [] spec.type = "Hopping"  -> process_hopping(acc, spec, e, g)

\* The loop of process_event over specs_: what it leaves after the last one.
ProcessSpecs(acc, list, e) ==
    LET after[i \in 0 .. Len(list)] ==
            IF i = 0 THEN acc ELSE ProcessSpec(after[i - 1], list[i], e)
    IN  after[Len(list)]

-----------------------------------------------------------------------------
WindowsInit ==
    /\ specs = << >> /\ windows = << >>
    /\ now = 0 /\ nextId = 0
    /\ processed = {} /\ results = << >>

AddWindow(spec) ==
    /\ Len(specs) < MaxSpecs
    /\ specs' = Append(specs, spec)
    /\ UNCHANGED <<windows, now, nextId, processed, results>>

ProcessEvent(e) ==
    /\ nextId < MaxEvents
    /\ LET acc == ProcessSpecs([windows |-> windows, results |-> results], specs, e)
       IN  /\ windows' = acc.windows
           /\ results' = acc.results
    /\ nextId' = nextId + 1
    /\ processed' = processed \cup {[event |-> e, specs |-> ToSet(specs)]}
    /\ UNCHANGED <<specs, now>>

SpecOf(key) == CHOOSE s \in ToSet(specs) : s.id = key[1]

Expired == {k \in DOMAIN windows : windows[k].end <= now}

\* Mutant of Returned: only windows that reached the threshold are returned.
ReturnedExceeded ==
    LET order == SetToSeq({k \in Expired : Exceeds(SpecOf(k), windows[k].events)})
    IN  [i \in DOMAIN order |-> Result(SpecOf(order[i]), windows[order[i]], "returned")]

\* The results expire_windows returns, in the order of the hash map.
Returned ==
    LET order == SetToSeq(Expired)
    IN  [i \in DOMAIN order |-> Result(SpecOf(order[i]), windows[order[i]], "returned")]

\* expire_windows, as checkpoint_loop calls it.
ExpireWindows ==
    /\ Expired # {}
    /\ results' = results \o Returned
    /\ windows' = [k \in DOMAIN windows \ Expired |-> windows[k]]
    /\ UNCHANGED <<specs, now, nextId, processed>>

\* clear() drops every window; the histories start over.
Clear ==
    /\ windows' = << >>
    /\ processed' = {} /\ results' = << >>
    /\ UNCHANGED <<specs, now, nextId>>

Tick ==
    /\ now < MaxTime
    /\ now' = now + 1
    /\ UNCHANGED <<specs, windows, nextId, processed, results>>

Timestamps == {t \in (now - MaxLag) .. now : t >= 0}

Events == [id : {nextId + 1}, ts : Timestamps, group : Groups, amount : Amounts]

WindowsNext ==
    \/ \E s \in Specs \ ToSet(specs) : AddWindow(s)
    \/ \E e \in Events : ProcessEvent(e)
    \/ ExpireWindows
    \/ Clear
    \/ Tick

WindowsSpec == WindowsInit /\ [][WindowsNext]_windowsVars
-----------------------------------------------------------------------------
(* Properties *)

\* windows_ holds no empty window and none of a spec that was never added, and
\* all but sessions last exactly window_size_ms.
WindowsTypeOK ==
    /\ ToSet(specs) \subseteq Specs
    /\ \A k \in DOMAIN windows :
         /\ \E s \in ToSet(specs) : s.id = k[1]
         /\ windows[k].events # << >>
         /\ SpecOf(k).type # "Session" =>
              windows[k].end = windows[k].start + SpecOf(k).size

\* What spec made of event id in acc = [windows, results]: the results and the
\* open windows that have it.
InResults(acc, spec, id) ==
    {i \in DOMAIN acc.results : /\ acc.results[i].spec = spec
                                /\ id \in ToSet(acc.results[i].ids)}

InWindows(acc, spec, id) ==
    {k \in DOMAIN acc.windows :
        k[1] = spec.id /\ \E i \in DOMAIN acc.windows[k].events : acc.windows[k].events[i].id = id}

CountIn(acc, spec, id) ==
    Cardinality(InResults(acc, spec, id)) + Cardinality(InWindows(acc, spec, id))

\* How often a spec counts event id, over its results and its open windows.
Counted(spec, id) == CountIn([windows |-> windows, results |-> results], spec, id)

\* No event is lost: a window that process_event put it into is still open or
\* was emitted, whatever mixture of rolling, gaps and expiry there was, and no
\* window is left without events or with another length than its spec's.
NoEventLost ==
    /\ WindowsTypeOK
    /\ \A p \in processed : \A s \in p.specs :
         s.type # "Hopping" => Counted(s, p.event.id) >= 1

\* An event goes into every hopping window whose interval covers it, once,
\* and into no other, also near the epoch where the first hop is negative and
\* the division rounds up.  A hop lasts a millisecond or more, so the hops to
\* look at are numbered from -size, one size before the epoch, to ts.
HoppingExact ==
    \A p \in processed : \A s \in {t \in p.specs : t.type = "Hopping"} :
        Counted(s, p.event.id) =
            Cardinality({w \in (-s.size) .. p.event.ts : Covers(s, w, p.event.ts)})

\* No open session went on at an event that came later than the one before it
\* by more than the gap.  An event that is earlier than the one before it joins
\* the session however far back it lies: that is not what SessionGaps says.
SplitAtGaps ==
    \A k \in DOMAIN windows : SpecOf(k).type = "Session" =>
        \A i \in 2 .. Len(windows[k].events) :
            windows[k].events[i].ts - windows[k].events[i - 1].ts <= SpecOf(k).gap

\* Each event belongs to exactly one session, over rolling, expiry and late
\* events that move a session's end back, and a gap forward in time ends one.
SessionPartition ==
    /\ SplitAtGaps
    /\ \A p \in processed : \A s \in p.specs :
         s.type = "Session" => Counted(s, p.event.id) = 1

Apart(s, t) == IF s <= t THEN t - s ELSE s - t

\* What the README promises of sessions: a gap between two events longer than
\* the timeout starts a new one, whichever of the two is processed first.  The
\* code subtracts the session's end from the timestamp, and the difference of
\* a late event is negative.
SessionGaps ==
    \A k \in DOMAIN windows : SpecOf(k).type = "Session" =>
        \A i \in 2 .. Len(windows[k].events) :
            Apart(windows[k].events[i].ts, windows[k].events[i - 1].ts) <= SpecOf(k).gap

=============================================================================
