--------------------------- MODULE SchedulerProofs ---------------------------
(***************************************************************************)
(* Proofs about Scheduler, for every interval, every number of informers   *)
(* and every bound.                                                        *)
(***************************************************************************)
EXTENDS Scheduler, TLAPS

USE DEF Time, TimeOrNone, NoTime

\* What ScheduleRunOnce stores: never before the minimal interval is over, never
\* later than the event's delay or the time already planned, unless the minimal
\* interval demands it.
LEMMA ScheduledRunBounds ==
    ASSUME NEW last \in Nat, NEW next \in Nat, NEW t \in Nat
    PROVE  LET r == ScheduledRun(last, next, t)
           IN  /\ r \in Nat
               /\ r >= last + MinEventSyncInterval
               /\ r <= latest(last + MinEventSyncInterval, t + EventDelay)
               /\ r <= latest(last + MinEventSyncInterval, next)
  BY SchedulerAssumption DEF ScheduledRun, latest, earliest

\* A new process satisfies the invariant: its first run is already due.
LEMMA InitInv == Init => SchedulerInv
<1> SUFFICES ASSUME Init PROVE SchedulerInv
  OBVIOUS
<1> USE SchedulerAssumption DEF Init
<1>1. nextRunAt = MinEventSyncInterval
  BY DEF ScheduledRun, latest, earliest
<1>2. TypeOK
  BY <1>1 DEF TypeOK, LoopStates
<1>3. ClocksInThePast
  BY DEF ClocksInThePast
<1>4. PeriodicRunInv /\ EventScheduledInv /\ RestInv
  BY <1>1 DEF PeriodicRunInv, PeriodicRunKept, EventScheduledInv, RestInv, latest
<1> QED
  BY <1>2, <1>3, <1>4 DEF SchedulerInv

\* Every step keeps the invariant.
LEMMA NextInv == SchedulerInv /\ [Next]_vars => SchedulerInv'
<1> SUFFICES ASSUME SchedulerInv, [Next]_vars PROVE SchedulerInv'
  OBVIOUS
<1> USE SchedulerAssumption
        DEF SchedulerInv, TypeOK, LoopStates, ClocksInThePast, PeriodicRunInv,
            PeriodicRunKept, EventScheduledInv, RestInv, latest
<1>1. CASE ShouldRunOnce
  <2>1. TypeOK'
    <3>1. CASE loopNow < nextRunAt
      BY <1>1, <3>1 DEF ShouldRunOnce
    <3>2. CASE ~(loopNow < nextRunAt)
      <4>1. nextRunAt' \in Nat /\ dueAt' \in Nat
        BY <1>1, <3>2 DEF ShouldRunOnce
      <4> QED
        BY <1>1, <3>2, <4>1 DEF ShouldRunOnce
    <3> QED
      BY <3>1, <3>2
  <2>2. ClocksInThePast'
    BY <1>1 DEF ShouldRunOnce
  <2>3. PeriodicRunInv'
    BY <1>1 DEF ShouldRunOnce
  <2>4. EventScheduledInv'
    BY <1>1 DEF ShouldRunOnce
  <2>5. RestInv'
    BY <1>1 DEF ShouldRunOnce
  <2> QED
    BY <2>1, <2>2, <2>3, <2>4, <2>5
<1>2. CASE RunOnceBegin
  BY <1>2 DEF RunOnceBegin
<1>3. CASE RunOnceReadSource
  BY <1>3 DEF RunOnceReadSource
<1>4. CASE RunOnceSucceeds
  BY <1>4 DEF RunOnceSucceeds
<1>5. CASE RunOnceFailsSoftly
  BY <1>5 DEF RunOnceFailsSoftly
<1>6. CASE RunOnceFails
  BY <1>6 DEF RunOnceFails
<1>7. CASE WakeUp
  <2>1. TypeOK'
    BY <1>7 DEF WakeUp
  <2>2. ClocksInThePast'
    BY <1>7 DEF WakeUp
  <2>3. PeriodicRunInv'
    BY <1>7 DEF WakeUp
  <2>4. EventScheduledInv'
    BY <1>7 DEF WakeUp
  <2>5. RestInv'
    BY <1>7 DEF WakeUp
  <2> QED
    BY <2>1, <2>2, <2>3, <2>4, <2>5
<1>8. CASE Terminate
  BY <1>8 DEF Terminate
<1>9. CASE Sigterm
  BY <1>9 DEF Sigterm
<1>10. ASSUME NEW i \in Informers, EventArrives(i) PROVE SchedulerInv'
  BY <1>10 DEF EventArrives
<1>11. ASSUME NEW i \in Informers, ScheduleRunOnce(i) PROVE SchedulerInv'
  <2> DEFINE t == handler[i]
  <2>1. /\ t \in Nat
        /\ t <= now
        /\ nextRunAt' = ScheduledRun(lastRunAt, nextRunAt, t)
        /\ pending' = IF pending = NoTime THEN t ELSE earliest(pending, t)
        /\ raced' = (raced \/ pc = "due")
        /\ handler' = [handler EXCEPT ![i] = NoTime]
        /\ UNCHANGED <<now, lastRunAt, pc, loopNow, tick, cancelled,
                       softErrorCount, dueAt>>
    BY <1>11 DEF ScheduleRunOnce
  <2>2. /\ nextRunAt' \in Nat
        /\ nextRunAt' >= lastRunAt + MinEventSyncInterval
        /\ nextRunAt' <= latest(lastRunAt + MinEventSyncInterval, t + EventDelay)
        /\ nextRunAt' <= latest(lastRunAt + MinEventSyncInterval, nextRunAt)
    BY <2>1, ScheduledRunBounds
  <2> HIDE DEF t
  <2>3. pending' \in Nat /\ (pending' = t \/ pending' = pending)
    BY <2>1 DEF earliest
  <2>4. TypeOK'
    BY <2>1, <2>2, <2>3
  <2>5. ClocksInThePast'
    BY <2>1
  <2>6. PeriodicRunInv'
    BY <2>1, <2>2
  <2>7. EventScheduledInv'
    BY <2>1, <2>2, <2>3
  <2>8. RestInv'
    BY <2>1, <2>2
  <2> QED
    BY <2>4, <2>5, <2>6, <2>7, <2>8
<1>12. CASE Restart
  <2>1. /\ lastRunAt' = 0
        /\ nextRunAt' = MinEventSyncInterval
    BY <1>12 DEF Restart, StartProcess, ScheduledRun, earliest
  <2>2. handler' = [i \in Informers |-> NoTime] /\ now' = now /\ now \in Nat
    BY <1>12 DEF Restart, StartProcess
  <2>3. /\ handler' \in [Informers -> TimeOrNone]
        /\ \A i \in Informers : handler'[i] <= now'
    BY <2>2
  <2>4. ClocksInThePast'
    BY <1>12, <2>1, <2>3 DEF Restart, StartProcess
  <2>5. TypeOK'
    <3>1. loopNow' \in Time /\ softErrorCount' \in Nat /\ dueAt' \in TimeOrNone
      BY <1>12 DEF Restart, StartProcess
    <3>2. /\ pc' \in LoopStates
          /\ tick' \in BOOLEAN
          /\ cancelled' \in BOOLEAN
          /\ raced' \in BOOLEAN
      BY <1>12, Zenon DEF Restart, StartProcess
    <3>3. now' \in Time /\ pending' \in TimeOrNone
      BY <1>12 DEF Restart
    <3> QED
      BY <2>1, <2>3, <3>1, <3>2, <3>3
  <2>6. /\ PeriodicRunInv'
        /\ EventScheduledInv'
        /\ RestInv'
    BY <1>12, <2>1 DEF Restart, StartProcess
  <2> QED
    BY <2>4, <2>5, <2>6
<1>13. CASE Advance
  BY <1>13 DEF Advance
<1>14. CASE UNCHANGED vars
  BY <1>14 DEF vars
<1> QED
  BY <1>1, <1>2, <1>3, <1>4, <1>5, <1>6, <1>7, <1>8, <1>9, <1>10, <1>11,
     <1>12, <1>13, <1>14 DEF Next

\* The invariant holds in every reachable state.
THEOREM SchedulerCorrect == Spec => []SchedulerInv
  BY InitInv, NextInv, PTL DEF Spec

\* The controller's time stamps are times in every reachable state.
THEOREM TypeCorrect == Spec => []TypeOK
<1>1. SchedulerInv => TypeOK
  BY DEF SchedulerInv
<1> QED
  BY <1>1, SchedulerCorrect, PTL

\* No handled event is left to the periodic run.
THEOREM EventsAreScheduled == Spec => []EventScheduled
<1>1. SchedulerInv => EventScheduled
  BY DEF SchedulerInv, EventScheduledInv, EventScheduled
<1> QED
  BY <1>1, SchedulerCorrect, PTL

\* No stream of events starves the periodic run.
THEOREM PeriodicRunIsKept == Spec => []PeriodicRunKept
<1>1. SchedulerInv => PeriodicRunKept
  BY DEF SchedulerInv, PeriodicRunInv
<1> QED
  BY <1>1, SchedulerCorrect, PTL

\* Outside the race, event-triggered runs keep the minimal interval.
THEOREM RunsAreSpaced == Spec => SpacedUnlessRaced
<1> DEFINE Spaced == pc = "check" /\ pc' = "due" /\ ~raced
                         => \/ loopNow >= lastRunAt + MinEventSyncInterval
                            \/ loopNow >= dueAt + Interval
<1>1. SchedulerInv /\ [Next]_vars => [Spaced]_vars
  <2> SUFFICES ASSUME SchedulerInv, [Next]_vars, pc = "check", pc' = "due", ~raced
               PROVE  \/ loopNow >= lastRunAt + MinEventSyncInterval
                      \/ loopNow >= dueAt + Interval
    OBVIOUS
  <2>1. ShouldRunOnce
    BY DEF Next, vars, RunOnceBegin, RunOnceReadSource, RunOnceSucceeds,
           RunOnceFailsSoftly, RunOnceFails, WakeUp, Terminate, Sigterm,
           EventArrives, ScheduleRunOnce, Restart, StartProcess, Advance
  <2>2. loopNow >= nextRunAt
    BY <2>1 DEF ShouldRunOnce, SchedulerInv, TypeOK
  <2> QED
    BY <2>2, SchedulerAssumption DEF SchedulerInv, RestInv, TypeOK
<1> QED
  BY <1>1, SchedulerCorrect, PTL DEF Spec, SpacedUnlessRaced

=============================================================================
