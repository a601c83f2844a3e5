----------------------------- MODULE ThreadPool -----------------------------
(***************************************************************************)
(* ThreadPool: callers submit tasks to one queue, workers sleep on         *)
(* condition_ and run them, shutdown() drains and joins.  A step is one    *)
(* critical section of mutex_, one notification, or one task.              *)
(***************************************************************************)
EXTENDS Naturals, Sequences, FiniteSets, SequencesExt

CONSTANTS Workers,   \* the pool's threads
          Tasks,     \* what callers may submit, each once
          Stoppers,  \* threads that call shutdown(), each once
          Idle       \* no task in hand

\* The constructor replaces a request for no threads by the number of cores,
\* taken here to be known and positive.
ASSUME PoolAssumption == Idle \notin Tasks /\ Workers # {}

VARIABLES tasks,     \* tasks_
          stop,      \* stop_
          wpc, hand, \* per worker: place in its loop, the task in hand
          spc,       \* per stopper: place in shutdown()
          notes,     \* submissions that have yet to call notify_one
          pushed,    \* history: tasks that were pushed
          refused,   \* history: tasks that found the pool stopped
          done       \* history: tasks that were run

poolVars == <<tasks, stop, wpc, hand, spc, notes, pushed, refused, done>>

-----------------------------------------------------------------------------
PoolInit ==
    /\ tasks = << >> /\ stop = FALSE
    /\ wpc = [w \in Workers |-> "check"] /\ hand = [w \in Workers |-> Idle]
    /\ spc = [s \in Stoppers |-> "begin"]
    /\ notes = 0 /\ pushed = {} /\ refused = {} /\ done = {}

(* submit and submit_void *)

Submit(t) ==
    /\ t \notin pushed \cup refused
    /\ ~stop
    /\ tasks' = Append(tasks, t)
    /\ pushed' = pushed \cup {t}
    /\ notes' = notes + 1
    /\ UNCHANGED <<stop, wpc, hand, spc, refused, done>>

\* The pool is stopped: submit throws, submit_void returns.
SubmitRefused(t) ==
    /\ t \notin pushed \cup refused
    /\ stop
    /\ refused' = refused \cup {t}
    /\ UNCHANGED <<tasks, stop, wpc, hand, spc, notes, pushed, done>>

Waiting == {w \in Workers : wpc[w] = "wait"}

\* Mutant of Woken: the notification goes nowhere.
WokenNone(w) == wpc

\* Worker w leaves condition_ and will check the predicate again.
Woken(w) == [wpc EXCEPT ![w] = "check"]

\* notify_one, after mutex_ was released: wakes a waiting worker, if any.
NotifyOne ==
    /\ notes > 0
    /\ notes' = notes - 1
    /\ IF Waiting = {} THEN UNCHANGED wpc
                       ELSE \E w \in Waiting : wpc' = Woken(w)
    /\ UNCHANGED <<tasks, stop, hand, spc, pushed, refused, done>>

(* The workers *)

\* The predicate of condition_.wait is false: sleep.
Sleep(w) ==
    /\ wpc[w] = "check" /\ ~stop /\ tasks = << >>
    /\ wpc' = [wpc EXCEPT ![w] = "wait"]
    /\ UNCHANGED <<tasks, stop, hand, spc, notes, pushed, refused, done>>

\* condition_ may wake a worker for no reason.
SpuriousWakeup(w) ==
    /\ wpc[w] = "wait"
    /\ wpc' = [wpc EXCEPT ![w] = "check"]
    /\ UNCHANGED <<tasks, stop, hand, spc, notes, pushed, refused, done>>

\* Mutant of Leaves: the worker leaves its tasks behind.
LeavesAtOnce == stop

\* A worker returns only when the pool is stopped and nothing is left.
Leaves == stop /\ tasks = << >>

Exit(w) ==
    /\ wpc[w] = "check" /\ Leaves
    /\ wpc' = [wpc EXCEPT ![w] = "exited"]
    /\ UNCHANGED <<tasks, stop, hand, spc, notes, pushed, refused, done>>

\* Mutant of RestOfTasks: the task is copied, not popped.
AllOfTasks == tasks

RestOfTasks == Tail(tasks)

Take(w) ==
    /\ wpc[w] = "check" /\ tasks # << >> /\ ~Leaves
    /\ hand' = [hand EXCEPT ![w] = Head(tasks)]
    /\ tasks' = RestOfTasks
    /\ wpc' = [wpc EXCEPT ![w] = "run"]
    /\ UNCHANGED <<stop, spc, notes, pushed, refused, done>>

\* The task ends, normally or with a std::exception that the worker logs.
RunTask(w) ==
    /\ wpc[w] = "run"
    /\ done' = done \cup {hand[w]}
    /\ hand' = [hand EXCEPT ![w] = Idle]
    /\ wpc' = [wpc EXCEPT ![w] = "check"]
    /\ UNCHANGED <<tasks, stop, spc, notes, pushed, refused>>

(* shutdown *)

\* stop_ after shutdown's critical section.
Stopped == TRUE

\* The first caller sets stop_; any other returns at once, joining nothing.
ShutdownBegin(s) ==
    /\ spc[s] = "begin"
    /\ stop' = Stopped
    /\ spc' = [spc EXCEPT ![s] = IF stop THEN "early" ELSE "notify"]
    /\ UNCHANGED <<tasks, wpc, hand, notes, pushed, refused, done>>

\* Mutant of AllWoken: notify_one for notify_all.
OneWoken ==
    IF Waiting = {} THEN wpc ELSE [wpc EXCEPT ![CHOOSE w \in Waiting : TRUE] = "check"]

\* The workers after notify_all.
AllWoken == [w \in Workers |-> IF w \in Waiting THEN "check" ELSE wpc[w]]

NotifyAll(s) ==
    /\ spc[s] = "notify"
    /\ wpc' = AllWoken
    /\ spc' = [spc EXCEPT ![s] = "join"]
    /\ UNCHANGED <<tasks, stop, hand, notes, pushed, refused, done>>

ShutdownReturns(s) ==
    /\ spc[s] = "join"
    /\ \A w \in Workers : wpc[w] = "exited"
    /\ spc' = [spc EXCEPT ![s] = "returned"]
    /\ UNCHANGED <<tasks, stop, wpc, hand, notes, pushed, refused, done>>

Worker(w) == Sleep(w) \/ SpuriousWakeup(w) \/ Exit(w) \/ Take(w) \/ RunTask(w)

Shutdown(s) == ShutdownBegin(s) \/ NotifyAll(s) \/ ShutdownReturns(s)

PoolNext ==
    \/ \E t \in Tasks : Submit(t) \/ SubmitRefused(t)
    \/ NotifyOne
    \/ \E w \in Workers : Worker(w)
    \/ \E s \in Stoppers : Shutdown(s)

PoolSpec == PoolInit /\ [][PoolNext]_poolVars

\* What is sure to be scheduled, besides NotifyOne: a worker that is awake runs,
\* a task ends, and a caller finishes the submit or shutdown it is in.  No wakeup
\* without a notification is assumed, and nobody is obliged to call shutdown.
WorkerRuns(w)   == Sleep(w) \/ Exit(w) \/ Take(w) \/ RunTask(w)
ShutdownRuns(s) == NotifyAll(s) \/ ShutdownReturns(s)
-----------------------------------------------------------------------------
(* Properties *)

\* Types, and that a thread past the first section of shutdown() implies stop_.
PoolTypeOK ==
    /\ tasks \in Seq(Tasks) /\ stop \in BOOLEAN /\ notes \in Nat
    /\ wpc \in [Workers -> {"check", "wait", "run", "exited"}]
    /\ hand \in [Workers -> Tasks \cup {Idle}]
    /\ spc \in [Stoppers -> {"begin", "notify", "join", "returned", "early"}]
    /\ pushed \subseteq Tasks /\ done \subseteq Tasks /\ refused \subseteq Tasks
    /\ \A w \in Workers : wpc[w] = "run" <=> hand[w] # Idle
    /\ \A s \in Stoppers : spc[s] # "begin" => stop

\* A task that was accepted is in the queue once, with one worker, or done:
\* none is lost and none is run twice.
InOnePlace ==
    \A t \in Tasks :
        Cardinality({i \in DOMAIN tasks : tasks[i] = t})
        + Cardinality({w \in Workers : hand[w] = t})
        + (IF t \in done THEN 1 ELSE 0) = IF t \in pushed THEN 1 ELSE 0

\* Graceful shutdown: when the shutdown() that joins returns, every task
\* accepted before or during it has been run.
ShutdownDrains ==
    (\E s \in Stoppers : spc[s] = "returned") => pushed = done

\* The tasks accepted are those done, in the queue or in hand.
Kept == pushed = done \cup ToSet(tasks) \cup {hand[w] : w \in {v \in Workers : wpc[v] = "run"}}

\* A worker that left did so with the pool stopped and the queue empty, and
\* the joining shutdown() returned after all of them.
LeftInOrder ==
    /\ (\E w \in Workers : wpc[w] = "exited") => stop /\ tasks = << >>
    /\ (\E s \in Stoppers : spc[s] = "returned") => \A w \in Workers : wpc[w] = "exited"

\* The inductive invariant behind ShutdownDrains.
DrainInv == PoolTypeOK /\ Kept /\ LeftInOrder

\* No wakeup is lost: every accepted task is run, shutdown or not.
AcceptedRuns == \A t \in Tasks : t \in pushed ~> t \in done

\* shutdown() returns: no worker sleeps through it.
ShutdownEnds == \A s \in Stoppers : spc[s] = "notify" ~> spc[s] = "returned"
=============================================================================
