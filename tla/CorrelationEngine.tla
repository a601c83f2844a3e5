------------------------- MODULE CorrelationEngine -------------------------
(***************************************************************************)
(* CorrelationEngine: worker threads run process_event on the events they  *)
(* popped, the checkpoint thread runs cleanup_expired, and callers add and *)
(* remove rules, all on one engine with three locks: rules_mutex_ (shared  *)
(* or exclusive), state_mutex_ and stats_mutex_.  A step is one stretch of *)
(* code between two points where another thread can get in; the sections   *)
(* under stats_mutex_ call nothing and are part of the step around them.   *)
(***************************************************************************)
EXTENDS Integers, Sequences, FiniteSets, SequencesExt

CONSTANTS
    Workers,         \* threads that call process_event
    RuleIds,         \* rule identifiers
    RuleDefs,        \* rule bodies: [conditions, aggregated, window, threshold]
    Actions, Keys,   \* non-empty values of the matched and the grouping field
    Nil,             \* an empty field, and "no thread"
    Global,          \* the aggregation key "_global_"
    MaxStored,       \* the 100 events kept per key
    DefaultTimeout,  \* the 60 s used for state whose rule is gone
    WriterPriority,  \* whether a waiting writer holds back new readers of
                     \* rules_mutex_ (the standard leaves it to the build)
    MaxEvents, MaxTime, MaxLag, MaxRuleOps \* bounds: events, clock, how late
                                           \* an event's timestamp is, rule changes

Cleaner == "checkpoint"  \* the thread that runs cleanup_expired

ASSUME EngineAssumption ==
    /\ \A d \in RuleDefs : /\ d.window \in Nat /\ d.threshold \in Nat
                           /\ d.aggregated \in BOOLEAN
                           /\ \A c \in d.conditions : c \subseteq Actions
    /\ Nil \notin Actions \cup Keys \cup Workers /\ Global \notin Keys
    /\ Cleaner \notin Workers \cup {Nil} /\ \A S \in SUBSET RuleIds : S # Nil
    /\ {MaxStored, DefaultTimeout, MaxEvents, MaxTime, MaxLag, MaxRuleOps} \subseteq Nat
    /\ WriterPriority \in BOOLEAN

VARIABLES
    rules,      \* rules_: a function from the present ids to rule bodies
    state,      \* state_: rule id -> aggregation key -> CorrelationState
    alertsGenerated, rulesEvaluated, eventsProcessed, \* stats_ (rules_matched
                \* is incremented exactly where alerts_generated is)
    readers,    \* workers holding rules_mutex_ shared
    stateLock,  \* holder of state_mutex_, or Nil
    wait,       \* the rule change a caller waits to make, or Nil
    pc, event, todo, alerts, pending, \* per worker: place in process_event,
                \* its event, matching rules not yet visited, the alerts to
                \* return, the alert being raised
    sweep,      \* cleanup_expired: rule ids not yet visited, or Nil
    cutoffNow,  \* cleanup_expired: its reading of the clock
    now, nextId, ruleOps, \* the clock, the number of events and rule changes
    returned,   \* history: the alerts process_event has returned
    seen        \* history: rule id -> key -> events since the key's last alert,
                \* its erasure by cleanup_expired or a change of the rule

lockVars   == <<readers, stateLock, wait>>
statVars   == <<alertsGenerated, rulesEvaluated, eventsProcessed>>
workerVars == <<pc, event, todo, alerts, pending>>
cleanVars  == <<sweep, cutoffNow>>
inputVars  == <<now, nextId, ruleOps>>
vars == <<rules, state, lockVars, statVars, workerVars, cleanVars, inputVars,
          returned, seen>>

AggKeys == Keys \cup {Global}
NoState == [last_seen |-> 0, timestamps |-> << >>, events |-> << >>]
NoAlert == [id |-> 0]    \* ids start at 1

-----------------------------------------------------------------------------
(* Matching *)

\* A condition is the set of field values that satisfy its operator and value;
\* an empty field satisfies none.
check_condition(e, c) == e.action \in c

matches_conditions(e, rule) == \A c \in rule.conditions : check_condition(e, c)

AggKey(e, rule) == IF rule.aggregated /\ e.src # Nil THEN e.src ELSE Global

\* Mutants of PruneFront: nothing is dropped; an event at the edge is dropped.
PruneNothing(stamps, start) == stamps
PruneEdge(stamps, start) == SelectSeq(stamps, LAMBDA e : e.ts > start)

\* Drop timestamps from the front while they are older than start; entries
\* behind a younger one stay, whatever their age.
PruneFront(stamps, start) ==
    LET kept == {i \in DOMAIN stamps : stamps[i].ts >= start}
    IN  IF kept = {} THEN << >>
        ELSE SubSeq(stamps, CHOOSE i \in kept : \A j \in kept : i <= j, Len(stamps))

\* The key's state after event e, before the threshold check.  Timestamps
\* carry the event's id so that properties can tell them apart.
Observe(ks, e, rule) ==
    [last_seen  |-> e.ts,
     timestamps |-> PruneFront(Append(ks.timestamps, e), e.ts - rule.window),
     events     |-> IF Len(ks.events) < MaxStored THEN Append(ks.events, e)
                                                  ELSE ks.events]

KeyState(r, k) == IF k \in DOMAIN state[r] THEN state[r][k] ELSE NoState

\* rule_state[agg_key] = ks, creating the key when it is not there.
PutState(r, k, ks) ==
    [state EXCEPT ![r] = [x \in DOMAIN @ \cup {k} |-> IF x = k THEN ks ELSE @[x]]]

-----------------------------------------------------------------------------
Init ==
    /\ \E R \in SUBSET RuleIds : rules \in [R -> RuleDefs]
    /\ state = [r \in RuleIds |-> << >>]
    /\ alertsGenerated = 0 /\ rulesEvaluated = 0 /\ eventsProcessed = 0
    /\ readers = {} /\ stateLock = Nil /\ wait = Nil
    /\ pc = [w \in Workers |-> "idle"]
    /\ event = [w \in Workers |-> Nil]
    /\ todo = [w \in Workers |-> {}]
    /\ alerts = [w \in Workers |-> << >>]
    /\ pending = [w \in Workers |-> NoAlert]
    /\ sweep = Nil /\ cutoffNow = 0
    /\ now = 0 /\ nextId = 0 /\ ruleOps = 0
    /\ returned = {}
    /\ seen = [r \in RuleIds |-> [k \in AggKeys |-> {}]]

\* Whether lock_shared() on rules_mutex_ is granted.  A writer never keeps
\* the lock across steps, so only a waiting one can be in the way.
CanRead == ~(WriterPriority /\ wait # Nil)

(* process_event *)

\* A worker enters with the next event of the stream: takes rules_mutex_
\* shared, counts, and finds the rules that match.  No rule can change until
\* it leaves.
BeginEvent(w, e) ==
    /\ pc[w] = "idle" /\ nextId < MaxEvents /\ CanRead
    /\ nextId' = nextId + 1
    /\ readers' = readers \cup {w}
    /\ eventsProcessed' = eventsProcessed + 1
    /\ rulesEvaluated' = rulesEvaluated + Cardinality(DOMAIN rules)
    /\ pc' = [pc EXCEPT ![w] = "scan"]
    /\ event' = [event EXCEPT ![w] = e]
    /\ todo' = [todo EXCEPT ![w] = {r \in DOMAIN rules : matches_conditions(e, rules[r])}]
    /\ UNCHANGED <<rules, state, stateLock, wait, alertsGenerated, alerts, pending,
                   cleanVars, now, ruleOps, returned, seen>>

\* The alert filled in when event e brings key k of rule r to state ks.
NewAlert(r, k, ks, e) ==
    [id |-> alertsGenerated + 1, rule |-> r, key |-> k, window |-> rules[r].window,
     ts |-> e.ts, matched |-> ks.timestamps,
     match_count |-> Len(ks.timestamps), triggering |-> ToSet(ks.events)]

\* Mutant of StateFree: state_mutex_ is not taken.
StateAlwaysFree == TRUE

\* Whether lock() on state_mutex_ is granted.
StateFree == stateLock = Nil

\* Under state_mutex_: record the event for one matching rule.  Below the
\* threshold the lock is released; at it, the alert is filled in, its id
\* taken from a counter that is only incremented further down.
Correlate(w, r) ==
    /\ pc[w] = "scan" /\ r \in todo[w] /\ StateFree
    /\ LET e  == event[w]
           k  == AggKey(e, rules[r])
           ks == Observe(KeyState(r, k), e, rules[r])
       IN  /\ state' = PutState(r, k, ks)
           /\ seen' = [seen EXCEPT ![r][k] = @ \cup {e}]
           /\ IF Len(ks.timestamps) >= rules[r].threshold
              THEN /\ stateLock' = w
                   /\ pc' = [pc EXCEPT ![w] = "alert"]
                   /\ pending' = [pending EXCEPT ![w] = NewAlert(r, k, ks, e)]
              ELSE UNCHANGED <<stateLock, pc, pending>>
    /\ todo' = [todo EXCEPT ![w] = @ \ {r}]
    /\ UNCHANGED <<rules, readers, wait, statVars, event, alerts, cleanVars,
                   inputVars, returned>>

\* Mutant of ResetKey: the timestamps survive the alert.
ResetEventsOnly(ks) == [ks EXCEPT !.events = << >>]

\* The key's state after an alert.
ResetKey(ks) == [ks EXCEPT !.timestamps = << >>, !.events = << >>]

\* Still under state_mutex_: count the alert, reset the key, release.
RaiseAlert(w) ==
    /\ pc[w] = "alert"
    /\ LET a == pending[w]
       IN  /\ alerts' = [alerts EXCEPT ![w] = Append(@, a)]
           /\ state' = [state EXCEPT ![a.rule][a.key] = ResetKey(@)]
           /\ seen' = [seen EXCEPT ![a.rule][a.key] = {}]
    /\ alertsGenerated' = alertsGenerated + 1
    /\ stateLock' = Nil
    /\ pc' = [pc EXCEPT ![w] = "scan"]
    /\ pending' = [pending EXCEPT ![w] = NoAlert]
    /\ UNCHANGED <<rules, readers, wait, rulesEvaluated, eventsProcessed, event,
                   todo, cleanVars, inputVars, returned>>

\* All rules visited: release rules_mutex_ and return the alerts.
EndEvent(w) ==
    /\ pc[w] = "scan" /\ todo[w] = {}
    /\ readers' = readers \ {w}
    /\ returned' = returned \cup ToSet(alerts[w])
    /\ pc' = [pc EXCEPT ![w] = "idle"]
    /\ event' = [event EXCEPT ![w] = Nil]
    /\ alerts' = [alerts EXCEPT ![w] = << >>]
    /\ UNCHANGED <<rules, state, stateLock, wait, statVars, todo, pending,
                   cleanVars, inputVars, seen>>

(* cleanup_expired *)

\* Take state_mutex_, read the clock, and visit every rule id with state.
BeginSweep ==
    /\ sweep = Nil /\ StateFree
    /\ stateLock' = Cleaner
    /\ cutoffNow' = now
    /\ sweep' = {r \in RuleIds : DOMAIN state[r] # {}}
    /\ UNCHANGED <<rules, state, readers, wait, statVars, workerVars, inputVars,
                   returned, seen>>

\* Last moment before which the state of rule id r is expired.
Cutoff(r) == cutoffNow - IF r \in DOMAIN rules THEN rules[r].window ELSE DefaultTimeout

\* Mutant of LiveKeys: a key last seen at the cutoff goes too.
LiveKeysStrict(r) == {k \in DOMAIN state[r] : state[r][k].last_seen > Cutoff(r)}

\* The keys that a sweep keeps.
LiveKeys(r) == {k \in DOMAIN state[r] : state[r][k].last_seen >= Cutoff(r)}

\* Mutant of CanReadInSweep: the sweep takes rules_mutex_ exclusively.
SweepWaitsForReaders == CanRead /\ readers = {}

\* The sweep's lookup of a rule takes rules_mutex_ shared, as workers do.
CanReadInSweep == CanRead

\* For one rule id: look its window up under rules_mutex_ (shared), then
\* erase the keys last seen before the cutoff.
SweepRule(r) ==
    /\ sweep # Nil /\ r \in sweep /\ CanReadInSweep
    /\ state' = [state EXCEPT ![r] = [k \in LiveKeys(r) |-> @[k]]]
    /\ seen' = [seen EXCEPT ![r] = [k \in AggKeys |-> IF k \in LiveKeys(r) THEN @[k] ELSE {}]]
    /\ sweep' = sweep \ {r}
    /\ UNCHANGED <<rules, lockVars, statVars, workerVars, cutoffNow, inputVars,
                   returned>>

EndSweep ==
    /\ sweep = {}
    /\ sweep' = Nil
    /\ stateLock' = Nil
    /\ UNCHANGED <<rules, state, readers, wait, statVars, workerVars, cutoffNow,
                   inputVars, returned, seen>>

(* add_rule and remove_rule *)

\* A caller asks for rules_mutex_ exclusively, to install d as rule r or
\* (d = Nil) to remove r.
RequestRuleChange(r, d) ==
    /\ wait = Nil /\ ruleOps < MaxRuleOps
    /\ wait' = [rule |-> r, body |-> d]
    /\ ruleOps' = ruleOps + 1
    /\ UNCHANGED <<rules, state, readers, stateLock, statVars, workerVars,
                   cleanVars, now, nextId, returned, seen>>

\* add_rule: the rule replaces one of the same id; state_ is left as it is.
AddRule ==
    /\ wait # Nil /\ readers = {}
    /\ wait.body # Nil
    /\ rules' = [x \in DOMAIN rules \cup {wait.rule} |->
                    IF x = wait.rule THEN wait.body ELSE rules[x]]
    /\ seen' = [seen EXCEPT ![wait.rule] = [k \in AggKeys |-> {}]]
    /\ wait' = Nil
    /\ UNCHANGED <<state, readers, stateLock, statVars, workerVars, cleanVars,
                   inputVars, returned>>

\* remove_rule: the rule goes, the state it accumulated stays.
RemoveRule ==
    /\ wait # Nil /\ readers = {}
    /\ wait.body = Nil
    /\ rules' = [x \in DOMAIN rules \ {wait.rule} |-> rules[x]]
    /\ wait' = Nil
    /\ UNCHANGED <<state, readers, stateLock, statVars, workerVars, cleanVars,
                   inputVars, returned, seen>>

\* The system clock.
Tick ==
    /\ now < MaxTime
    /\ now' = now + 1
    /\ UNCHANGED <<rules, state, lockVars, statVars, workerVars, cleanVars,
                   nextId, ruleOps, returned, seen>>

Events == [id : {nextId + 1}, ts : (now - MaxLag) .. now,
           action : Actions \cup {Nil}, src : Keys \cup {Nil}]

Worker(w) ==
    \/ \E e \in Events : BeginEvent(w, e)
    \/ \E r \in RuleIds : Correlate(w, r)
    \/ RaiseAlert(w)
    \/ EndEvent(w)

Sweep == BeginSweep \/ EndSweep \/ \E r \in RuleIds : SweepRule(r)

RuleChange ==
    \/ \E r \in RuleIds, d \in RuleDefs \cup {Nil} : RequestRuleChange(r, d)
    \/ AddRule
    \/ RemoveRule

Next == (\E w \in Workers : Worker(w)) \/ Sweep \/ RuleChange \/ Tick

Spec == Init /\ [][Next]_vars

\* A thread inside a call is scheduled; a thread that keeps finding
\* state_mutex_ free from time to time gets it (the checkpoint thread sleeps
\* between sweeps, and workers hold it for one update).
FairSpec ==
    /\ Spec
    /\ \A w \in Workers :
           /\ SF_vars(\E r \in RuleIds : Correlate(w, r))
           /\ WF_vars(RaiseAlert(w) \/ EndEvent(w))
    /\ WF_vars((\E r \in RuleIds : SweepRule(r)) \/ EndSweep)
    /\ WF_vars(AddRule \/ RemoveRule)
-----------------------------------------------------------------------------
(* Properties *)

\* A key's state: the limit on events, and last_seen set with the last timestamp.
EntryOK(ks) ==
    /\ Len(ks.events) <= MaxStored
    /\ ks.timestamps # << >> => Last(ks.timestamps).ts = ks.last_seen

\* Types, and what holds a lock: exactly the workers inside process_event read
\* the rules, the sweep holds state_mutex_ throughout, and a key stores at most
\* MaxStored events.
TypeOK ==
    /\ DOMAIN rules \subseteq RuleIds
    /\ \A r \in DOMAIN rules : rules[r] \in RuleDefs
    /\ \A r \in RuleIds : /\ DOMAIN state[r] \subseteq AggKeys
                          /\ \A k \in DOMAIN state[r] : EntryOK(state[r][k])
    /\ readers = {w \in Workers : pc[w] # "idle"}
    /\ stateLock \in Workers \cup {Nil, Cleaner}
    /\ \A w \in Workers : /\ pc[w] \in {"idle", "scan", "alert"}
                          /\ pc[w] = "alert" <=> pending[w] # NoAlert
                          /\ todo[w] \subseteq DOMAIN rules
    /\ stateLock = Cleaner <=> sweep # Nil

\* Every alert filled in so far, whichever thread still holds it.
Raised == returned \cup UNION {ToSet(alerts[w]) : w \in Workers}

\* Concurrent workers never give two alerts one id and skip none: the ids are
\* 1 to alerts_generated, one alert each, although process_event computes the
\* id from the counter before it increments it under another lock.
AlertIdsUnique ==
    /\ TypeOK
    /\ Cardinality(Raised) = alertsGenerated
    /\ {a.id : a \in Raised} = 1 .. alertsGenerated

\* An event counts towards at most one alert of a rule: the reset after an
\* alert leaves nothing behind for the next one.
CountedOnce ==
    \A a, b \in Raised :
        a.rule = b.rule /\ ToSet(a.matched) \cap ToSet(b.matched) # {} => a = b

\* The events since the key's last alert within the window of the latest one.
InWindow(r, k) ==
    LET s == seen[r][k]
        latest == CHOOSE t \in {e.ts : e \in s} : \A e \in s : e.ts <= t
    IN  {e \in s : e.ts >= latest - rules[r].window}

\* No alert is missed, in whatever order the workers record the events:
\* whenever state_mutex_ is free, fewer than threshold of the events seen for a
\* key since its last alert, its erasure or a change of its rule lie within the
\* rule's window of the latest one.
NoMissedAlert ==
    \A r \in DOMAIN rules, k \in AggKeys :
        seen[r][k] # {} /\ stateLock = Nil
            => Cardinality(InWindow(r, k)) < rules[r].threshold

\* Timestamps recorded in the order of time.
InOrder(stamps) == \A i, j \in DOMAIN stamps : i < j => stamps[i].ts <= stamps[j].ts

\* Of timestamps recorded in order, cleanup_expired erases a key only when every
\* one is older than the window.
CleanupErasesExpired ==
    [][\A r \in RuleIds : \A k \in DOMAIN state[r] \ DOMAIN state'[r] :
           InOrder(state[r][k].timestamps) =>
               \A e \in ToSet(state[r][k].timestamps) : e.ts < Cutoff(r)]_vars

\* "Keep only events within the time window": an alert for events recorded in
\* order counts only those within time_window_ms of the one that raised it.
\* (Two workers may record them out of order; an old timestamp behind a younger
\* one is then counted.)
AlertWithinWindow ==
    \A a \in Raised : InOrder(a.matched) =>
        \A e \in ToSet(a.matched) : e.ts \in (a.ts - a.window) .. a.ts

\* process_event returns: no worker is held for ever between the two locks.
EventsComplete == \A w \in Workers : pc[w] # "idle" ~> pc[w] = "idle"
=============================================================================
