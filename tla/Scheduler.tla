------------------------------ MODULE Scheduler ------------------------------
(***************************************************************************)
(* When a reconciliation starts: controller/controller.go (Run,            *)
(* ShouldRunOnce, ScheduleRunOnce, the time stamps of RunOnce) and the     *)
(* part of controller/execute.go (Execute) that starts the loop and        *)
(* registers ScheduleRunOnce as the sources' event handler.                *)
(*                                                                         *)
(* Two kinds of goroutine share lastRunAt and nextRunAt under runAtMutex:  *)
(* the run loop and the informers that call the event handler.  The mutex  *)
(* makes ScheduleRunOnce, ShouldRunOnce and the first statement of RunOnce *)
(* atomic; everything between them interleaves, and every caller reads     *)
(* time.Now() before it gets the lock.  Times are whole seconds, the       *)
(* period of the loop's ticker.  Time 0 is Go's zero time, which the       *)
(* fields of a new Controller hold, long before the process starts.        *)
(***************************************************************************)
EXTENDS Integers

CONSTANTS
    Interval,               \* --interval
    MinEventSyncInterval,   \* --min-event-sync-interval
    EventDelay,             \* the 5 seconds ScheduleRunOnce waits for more events
    Informers,              \* goroutines that deliver Kubernetes events
    StartTime,              \* wall clock when the first process starts
    MaxTime,                \* bound on the wall clock
    MaxSoftErrors           \* bound on consecutive soft errors

ASSUME SchedulerAssumption ==
    /\ Interval \in Nat
    /\ MinEventSyncInterval \in Nat
    /\ EventDelay \in Nat
    /\ StartTime \in Nat
    /\ MaxTime \in Nat
    /\ MaxSoftErrors \in Nat
    /\ MinEventSyncInterval <= StartTime

VARIABLES
    now,            \* the wall clock
    lastRunAt,      \* Controller.lastRunAt
    nextRunAt,      \* Controller.nextRunAt
    pc,             \* where the run loop is
    loopNow,        \* the time.Now() the loop hands to ShouldRunOnce
    tick,           \* the ticker's channel, of capacity one
    cancelled,      \* the context of the loop is done
    softErrorCount, \* the local counter of Run
    handler,        \* per informer, the time.Now() read by a handler in flight
    dueAt,          \* history: loopNow of the ShouldRunOnce that said yes last
    pending,        \* history: first handled event no Source read has followed
    raced           \* history: an event was handled between that ShouldRunOnce
                    \* and the moment its RunOnce stored lastRunAt

vars == <<now, lastRunAt, nextRunAt, pc, loopNow, tick, cancelled,
          softErrorCount, handler, dueAt, pending, raced>>

NoTime == -1

LoopStates == {"check", "due", "reading", "applying", "wait", "stopped", "exited"}
Alive == pc \notin {"stopped", "exited"}

earliest(s, t) == IF t < s THEN t ELSE s
latest(s, t) == IF t > s THEN t ELSE s

-----------------------------------------------------------------------------
(***************************************************************************)
(* The shared fields.                                                      *)
(***************************************************************************)

\* MUTANT: the minimal interval is measured from the event, so that a stream of
\* events keeps pushing the next run away.
ScheduledRunFromEvent(last, next, t) ==
    latest(t + MinEventSyncInterval, earliest(t + EventDelay, next))

\* MUTANT: the minimal interval is forgotten.
ScheduledRunUnspaced(last, next, t) == earliest(t + EventDelay, next)

\* MUTANT: an event is scheduled no earlier than the run already planned.
ScheduledRunLate(last, next, t) ==
    latest(last + MinEventSyncInterval, latest(t + EventDelay, next))

\* The value ScheduleRunOnce(t) stores in nextRunAt.
ScheduledRun(last, next, t) ==
    latest(last + MinEventSyncInterval, earliest(t + EventDelay, next))

\* A new process: the fields are zero, Execute calls ScheduleRunOnce once and
\* enters Run, whose first ShouldRunOnce comes before any tick.
StartProcess(t) ==
    /\ lastRunAt' = 0
    /\ nextRunAt' = ScheduledRun(0, 0, t)
    /\ loopNow' = t
    /\ pc' = "check"
    /\ tick' = FALSE
    /\ cancelled' = FALSE
    /\ softErrorCount' = 0
    /\ handler' = [i \in Informers |-> NoTime]
    /\ dueAt' = NoTime
    /\ raced' = FALSE

Init ==
    /\ now = StartTime
    /\ lastRunAt = 0
    /\ nextRunAt = ScheduledRun(0, 0, StartTime)
    /\ pc = "check"
    /\ loopNow = StartTime
    /\ tick = FALSE
    /\ cancelled = FALSE
    /\ softErrorCount = 0
    /\ handler = [i \in Informers |-> NoTime]
    /\ dueAt = NoTime
    /\ pending = NoTime
    /\ raced = FALSE

-----------------------------------------------------------------------------
(***************************************************************************)
(* The run loop.                                                           *)
(***************************************************************************)

\* ShouldRunOnce(loopNow), with the lock held.
ShouldRunOnce ==
    /\ pc = "check"
    /\ IF loopNow < nextRunAt
       THEN /\ pc' = "wait"
            /\ UNCHANGED <<nextRunAt, dueAt, raced>>
       ELSE /\ pc' = "due"
            /\ nextRunAt' = loopNow + Interval
            /\ dueAt' = loopNow
            /\ raced' = FALSE
    /\ UNCHANGED <<now, lastRunAt, loopNow, tick, cancelled, softErrorCount,
                   handler, pending>>

\* RunOnce stores lastRunAt under the lock before it does anything else.
RunOnceBegin ==
    /\ pc = "due"
    /\ lastRunAt' = now
    /\ pc' = "reading"
    /\ UNCHANGED <<now, nextRunAt, loopNow, tick, cancelled, softErrorCount,
                   handler, dueAt, pending, raced>>

\* Registry.Records has returned and Source.Endpoints reads the cluster: what
\* earlier events announced is now part of the plan.
RunOnceReadSource ==
    /\ pc = "reading"
    /\ pc' = "applying"
    /\ pending' = NoTime
    /\ UNCHANGED <<now, lastRunAt, nextRunAt, loopNow, tick, cancelled,
                   softErrorCount, handler, dueAt, raced>>

\* MUTANT: a success takes one soft error off the counter instead of clearing it.
RunOnceSucceedsCountsDown ==
    /\ pc = "applying"
    /\ softErrorCount' = softErrorCount - 1
    /\ pc' = "wait"
    /\ UNCHANGED <<now, lastRunAt, nextRunAt, loopNow, tick, cancelled, handler,
                   dueAt, pending, raced>>

\* RunOnce returned nil.
RunOnceSucceeds ==
    /\ pc = "applying"
    /\ softErrorCount' = 0
    /\ pc' = "wait"
    /\ UNCHANGED <<now, lastRunAt, nextRunAt, loopNow, tick, cancelled, handler,
                   dueAt, pending, raced>>

\* The registry, the source or the provider returned a SoftError.
RunOnceFailsSoftly ==
    /\ pc \in {"reading", "applying"}
    /\ softErrorCount < MaxSoftErrors
    /\ softErrorCount' = softErrorCount + 1
    /\ pc' = "wait"
    /\ UNCHANGED <<now, lastRunAt, nextRunAt, loopNow, tick, cancelled, handler,
                   dueAt, pending, raced>>

\* Any other error is log.Fatalf: the process exits with all its goroutines.
RunOnceFails ==
    /\ pc \in {"reading", "applying"}
    /\ pc' = "exited"
    /\ handler' = [i \in Informers |-> NoTime]
    /\ UNCHANGED <<now, lastRunAt, nextRunAt, loopNow, tick, cancelled,
                   softErrorCount, dueAt, pending, raced>>

\* The select of Run receives from the ticker.
WakeUp ==
    /\ pc = "wait"
    /\ tick
    /\ tick' = FALSE
    /\ loopNow' = now
    /\ pc' = "check"
    /\ UNCHANGED <<now, lastRunAt, nextRunAt, cancelled, softErrorCount, handler,
                   dueAt, pending, raced>>

\* The select of Run receives from ctx.Done().
Terminate ==
    /\ pc = "wait"
    /\ cancelled
    /\ pc' = "stopped"
    /\ handler' = [i \in Informers |-> NoTime]
    /\ UNCHANGED <<now, lastRunAt, nextRunAt, loopNow, tick, cancelled,
                   softErrorCount, dueAt, pending, raced>>

-----------------------------------------------------------------------------
(***************************************************************************)
(* The other goroutines and the environment.                               *)
(***************************************************************************)

\* handleSigterm cancels the loop's context.
Sigterm ==
    /\ Alive
    /\ ~cancelled
    /\ cancelled' = TRUE
    /\ UNCHANGED <<now, lastRunAt, nextRunAt, pc, loopNow, tick, softErrorCount,
                   handler, dueAt, pending, raced>>

\* An informer calls the handler Execute registered, which reads the clock ...
EventArrives(i) ==
    /\ Alive
    /\ handler[i] = NoTime
    /\ handler' = [handler EXCEPT ![i] = now]
    /\ UNCHANGED <<now, lastRunAt, nextRunAt, pc, loopNow, tick, cancelled,
                   softErrorCount, dueAt, pending, raced>>

\* ... and then runs ScheduleRunOnce with the lock held.
ScheduleRunOnce(i) ==
    /\ Alive
    /\ handler[i] # NoTime
    /\ nextRunAt' = ScheduledRun(lastRunAt, nextRunAt, handler[i])
    /\ pending' = IF pending = NoTime THEN handler[i] ELSE earliest(pending, handler[i])
    /\ raced' = (raced \/ pc = "due")
    /\ handler' = [handler EXCEPT ![i] = NoTime]
    /\ UNCHANGED <<now, lastRunAt, pc, loopNow, tick, cancelled, softErrorCount,
                   dueAt>>

\* The kubelet starts the container again.
Restart ==
    /\ ~Alive
    /\ StartProcess(now)
    /\ UNCHANGED <<now, pending>>

\* A second passes; the ticker fires and drops the tick if one is waiting.
Advance ==
    /\ now < MaxTime
    /\ now' = now + 1
    /\ tick' = TRUE
    /\ UNCHANGED <<lastRunAt, nextRunAt, pc, loopNow, cancelled, softErrorCount,
                   handler, dueAt, pending, raced>>

Next ==
    \/ ShouldRunOnce
    \/ RunOnceBegin
    \/ RunOnceReadSource
    \/ RunOnceSucceeds
    \/ RunOnceFailsSoftly
    \/ RunOnceFails
    \/ WakeUp
    \/ Terminate
    \/ Sigterm
    \/ \E i \in Informers : EventArrives(i) \/ ScheduleRunOnce(i)
    \/ Restart
    \/ Advance

Spec == Init /\ [][Next]_vars

-----------------------------------------------------------------------------
(***************************************************************************)
(* Properties.                                                             *)
(***************************************************************************)

Time == Nat
TimeOrNone == Nat \cup {NoTime}

\* The fields of the controller and the histories have their types.
TypeOK ==
    /\ now \in Time
    /\ lastRunAt \in Time
    /\ nextRunAt \in Time
    /\ pc \in LoopStates
    /\ loopNow \in Time
    /\ tick \in BOOLEAN
    /\ cancelled \in BOOLEAN
    /\ softErrorCount \in Nat
    /\ handler \in [Informers -> TimeOrNone]
    /\ dueAt \in TimeOrNone
    /\ pending \in TimeOrNone
    /\ raced \in BOOLEAN

\* No event waits for the periodic run: once a handler has returned, and unless
\* the run that should have served it failed, the loop is scheduled within
\* EventDelay of the first unserved event or at the end of the minimal interval,
\* however handlers and the loop interleaved (ScheduleRunOnce, ShouldRunOnce).
EventScheduled ==
    pending # NoTime /\ pc \in {"check", "wait"} /\ softErrorCount = 0
        => nextRunAt <= latest(lastRunAt + MinEventSyncInterval, pending + EventDelay)

\* No sequence of events, however dense, postpones the periodic run beyond
\* Interval after the start of the last one, or beyond the minimal interval when
\* that is the longer of the two; a failed run is retried by then, too.
PeriodicRunKept ==
    pc \in {"check", "wait", "reading", "applying"}
        => nextRunAt <= lastRunAt + latest(Interval, MinEventSyncInterval)

\* A run starts early only for events, and then no sooner than the minimal
\* interval after the run before it, provided no handler ran in the window
\* between ShouldRunOnce and the moment RunOnce stored lastRunAt.
SpacedUnlessRaced ==
    [][pc = "check" /\ pc' = "due" /\ ~raced
           => \/ loopNow >= lastRunAt + MinEventSyncInterval
              \/ loopNow >= dueAt + Interval]_vars

\* What the flag promises (docs/advanced/rate-limits.md:66): --min-event-sync-
\* interval is "the minimum interval between two consecutive synchronizations
\* triggered from kubernetes events".  A run that is not the periodic one starts
\* at least that long after its predecessor.
MinimumIntervalKept ==
    [][pc = "check" /\ pc' = "due" /\ dueAt # NoTime
           => \/ loopNow >= lastRunAt + MinEventSyncInterval
              \/ loopNow >= dueAt + Interval]_vars

-----------------------------------------------------------------------------
(***************************************************************************)
(* The inductive invariant behind the three properties above.              *)
(***************************************************************************)

\* Nothing the goroutines remember lies in the future.
ClocksInThePast ==
    /\ lastRunAt <= now
    /\ loopNow <= now
    /\ \A i \in Informers : handler[i] <= now

\* PeriodicRunKept, also between ShouldRunOnce and RunOnce, where lastRunAt is
\* still that of the run before.
PeriodicRunInv ==
    /\ PeriodicRunKept
    /\ pc = "due" => nextRunAt <= latest(loopNow + Interval, lastRunAt + MinEventSyncInterval)

\* EventScheduled, also for events handled after the running RunOnce has read the
\* source, whether or not earlier runs failed.
EventScheduledInv ==
    pending # NoTime /\ (pc = "applying" \/ (pc \in {"check", "wait"} /\ softErrorCount = 0))
        => nextRunAt <= latest(lastRunAt + MinEventSyncInterval, pending + EventDelay)

\* Unless a handler raced with it, the loop rests for the minimal interval or
\* until the periodic run.
RestInv ==
    ~raced => \/ pc = "due" /\ dueAt = loopNow /\ nextRunAt >= dueAt + Interval
              \/ pc # "due" /\ nextRunAt >= lastRunAt + MinEventSyncInterval
              \/ pc # "due" /\ nextRunAt >= dueAt + Interval

\* The conjunction is inductive, as SchedulerProofs shows.
SchedulerInv ==
    /\ TypeOK
    /\ ClocksInThePast
    /\ PeriodicRunInv
    /\ EventScheduledInv
    /\ RestInv

=============================================================================
