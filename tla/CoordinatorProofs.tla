--------------------------- MODULE CoordinatorProofs ---------------------------
(***************************************************************************)
(* What holds of the coordinator for any number of writers and raw         *)
(* commands, whatever the unit does.                                       *)
(***************************************************************************)
EXTENDS Coordinator, TLAPS

USE CoordinatorAssumption

-------------------------------------------------------------------------------
(* Polling never stops                                                     *)

\* Every step leaves a refresh running or planned.
LEMMA RefreshPlannedStep == RefreshPlanned /\ [Next]_vars => RefreshPlanned'
<1>. SUFFICES ASSUME RefreshPlanned, [Next]_vars PROVE RefreshPlanned'
  OBVIOUS
<1>. USE DEF RefreshPlanned, pollVars, timerVars
<1>1. CASE TimerFires
  BY <1>1, Zenon DEF TimerFires
<1>2. CASE ScheduledRefresh
  BY <1>2 DEF ScheduledRefresh, Begin
<1>3. CASE RequestRefresh
  BY <1>3 DEF RequestRefresh, Begin
<1>4. CASE CooldownEnds
  BY <1>4 DEF CooldownEnds, Begin
<1>5. CASE PollStarts
  BY <1>5 DEF PollStarts
<1>6. CASE PollSeesNothing
  BY <1>6, Zenon DEF PollSeesNothing
<1>7. CASE PollSucceeds \/ PollFails \/ PollReported \/ PollCancelled
  BY <1>7, Zenon DEF PollSucceeds, PollFails, PollReported, PollCancelled, RefreshEnds
<1>8. CASE PollBreaks
  <2>1. CASE Reporting
    BY <1>8, <2>1 DEF PollBreaks
  <2>2. CASE ~Reporting
    BY <1>8, <2>2, Zenon DEF PollBreaks, RefreshEnds
  <2>. QED
    BY <2>1, <2>2
<1>9. ASSUME NEW w \in Writers, WriteSucceeds(w) PROVE RefreshPlanned'
  BY <1>9, Zenon DEF WriteSucceeds, SetUpdatedData
<1>10. ASSUME NEW r \in Raws, RawSucceeds(r) PROVE RefreshPlanned'
  BY <1>10, Zenon DEF RawSucceeds, SetUpdatedData
<1>11. ASSUME \/ \E t \in Tasks : Granted(t) \/ DeviceAnswers(t)
              \/ \E t \in Callers : \/ Call(t) \/ CallFails(t) \/ CallCancelled(t)
                                    \/ CallBreaks(t) \/ CallReported(t)
              \/ \E w \in Writers : DeviceHandles(w)
              \/ DeviceChanges
              \/ UNCHANGED vars
       PROVE  RefreshPlanned'
  <2>1. UNCHANGED <<refresh, due, scheduled>>
    BY <1>11, Zenon DEF Granted, DeviceAnswers, Call, CallFails, CallCancelled, CallBreaks,
       CallReported, DeviceHandles, DeviceChanges, vars
  <2>. QED
    BY <2>1
<1>. QED
  BY <1>1, <1>2, <1>3, <1>4, <1>5, <1>6, <1>7, <1>8, <1>9, <1>10, <1>11, Zenon DEF Next

\* Whatever ends a refresh, and whatever resets the timers, another refresh
\* follows.
THEOREM PollingGoesOn == Spec => []RefreshPlanned
<1>1. Init => RefreshPlanned
  BY DEF Init, RefreshPlanned
<1>. QED
  BY <1>1, RefreshPlannedStep, PTL DEF Spec

-------------------------------------------------------------------------------
(* A connected unit is available and has no failure pending                *)

\* Where the refresh stands tells whether it has a session or a report.
Place ==
    /\ stage \in [Tasks -> {"idle", "queued", "active"}]
    /\ reports \in [Tasks -> Unexpected \cup {None}]
    /\ stage[poll] # "idle" => refresh = "running"
    /\ reports[poll] # None => refresh = "reporting"

\* A refresh that reports an error has already disconnected the unit.
Confirmed ==
    /\ ConnectedIsConfirmed
    /\ refresh = "reporting" => ~connected

\* How each use of the session service moves the task that makes it.
LEMMA SessionMoves ==
    ASSUME NEW t \in Tasks, Place
    PROVE  /\ Ask(t) => /\ stage[t] = "idle"
                        /\ \/ stage' = [stage EXCEPT ![t] = "active"]
                           \/ stage' = [stage EXCEPT ![t] = "queued"]
           /\ Client!Grant(t) => /\ stage[t] = "queued"
                                 /\ stage' = [stage EXCEPT ![t] = "active"]
           /\ Client!GiveUp(t) => /\ stage[t] = "queued"
                                  /\ stage' = [stage EXCEPT ![t] = "idle"]
           /\ Over(t) => /\ stage[t] = "active"
                         /\ stage' = [stage EXCEPT ![t] = "idle"]
BY Zenon DEF Ask, Over, Client!AskServed, Client!AskQueued, Client!Grant, Client!GiveUp,
   Client!Finish, Client!Active

LEMMA PlaceStep == Place /\ [Next]_vars => Place'
<1>. SUFFICES ASSUME Place, [Next]_vars PROVE Place'
  OBVIOUS
<1>. USE DEF pollVars, reportVars, sessionVars
<1>0. poll \in Tasks /\ Callers \subseteq Tasks /\ poll \notin Callers /\ None \notin Unexpected
  BY DEF Tasks, Callers
<1>1. ASSUME TimerFires \/ ScheduledRefresh \/ RequestRefresh \/ CooldownEnds \/ PollSeesNothing
      PROVE  Place'
  <2>1. UNCHANGED <<stage, reports>>
    BY <1>1, Zenon DEF TimerFires, ScheduledRefresh, RequestRefresh, CooldownEnds, PollSeesNothing
  <2>2. \/ refresh' = refresh
        \/ refresh \in {"none", "starting"}
    BY <1>1 DEF TimerFires, ScheduledRefresh, RequestRefresh, CooldownEnds, PollSeesNothing
  <2>. QED
    BY <2>1, <2>2 DEF Place
<1>2. CASE PollStarts
  BY <1>0, <1>2, SessionMoves DEF PollStarts, Place
<1>3. CASE PollSucceeds \/ PollFails
  <2>1. Over(poll) /\ refresh' = "none" /\ UNCHANGED reports
    BY <1>3, Zenon DEF PollSucceeds, PollFails, Succeeds, Fails, RefreshEnds
  <2>. QED
    BY <1>0, <2>1, SessionMoves DEF Place
<1>4. CASE PollBreaks
  <2>1. Over(poll) /\ \E error \in Unexpected : Report(poll, error)
    BY <1>4, Zenon DEF PollBreaks, Fails
  <2>2. Reporting => refresh' = "reporting"
    BY <1>4, Zenon DEF PollBreaks
  <2>. QED
    BY <1>0, <2>1, <2>2, SessionMoves DEF Place, Report
<1>5. CASE PollReported
  BY <1>0, <1>5 DEF PollReported, Reported, RefreshEnds, Place
<1>6. CASE PollCancelled
  <2>1. refresh' = "none" /\ Interrupted
    BY <1>6, Zenon DEF PollCancelled, RefreshEnds
  <2>2. CASE Client!GiveUp(poll) /\ UNCHANGED reports
    BY <1>0, <2>1, <2>2, SessionMoves DEF Place
  <2>3. CASE Over(poll) /\ UNCHANGED reports
    BY <1>0, <2>1, <2>3, SessionMoves DEF Place
  <2>4. CASE Reported(poll) /\ UNCHANGED stage
    BY <1>0, <2>1, <2>4 DEF Place, Reported
  <2>. QED
    BY <2>1, <2>2, <2>3, <2>4, Zenon DEF Interrupted, Fails
<1>7. ASSUME NEW t \in Tasks, Granted(t) PROVE Place'
  <2>1. Client!Grant(t) /\ UNCHANGED <<refresh, reports>>
    BY <1>7, Zenon DEF Granted
  <2>. QED
    BY <1>0, <2>1, SessionMoves DEF Place
<1>8. ASSUME NEW t \in Callers, Call(t) PROVE Place'
  <2>1. Ask(t) /\ UNCHANGED <<refresh, reports>>
    BY <1>8, Zenon DEF Call
  <2>. QED
    BY <1>0, <2>1, SessionMoves DEF Place
<1>9. ASSUME NEW t \in Callers, CallFails(t) \/ CallCancelled(t) PROVE Place'
  <2>1. (Over(t) \/ Client!GiveUp(t)) /\ UNCHANGED <<refresh, reports>>
    BY <1>9, Zenon DEF CallFails, CallCancelled, Fails
  <2>. QED
    BY <1>0, <2>1, SessionMoves DEF Place
<1>10. ASSUME NEW t \in Callers, CallBreaks(t) PROVE Place'
  <2>1. Over(t) /\ UNCHANGED refresh /\ \E error \in Unexpected : Report(t, error)
    BY <1>10, Zenon DEF CallBreaks, Fails
  <2>. QED
    BY <1>0, <2>1, SessionMoves DEF Place, Report
<1>11. ASSUME NEW t \in Callers, CallReported(t) PROVE Place'
  BY <1>0, <1>11 DEF CallReported, Reported, Place
<1>12. ASSUME NEW w \in Writers, WriteSucceeds(w) PROVE Place'
  <2>1. Over(w) /\ UNCHANGED reports /\ (refresh' = refresh \/ refresh = "none")
    BY <1>12, Zenon DEF WriteSucceeds, Succeeds
  <2>2. w \in Callers
    BY DEF Callers
  <2>. QED
    BY <1>0, <2>1, <2>2, SessionMoves DEF Place
<1>13. ASSUME NEW r \in Raws, RawSucceeds(r) PROVE Place'
  <2>1. Over(r) /\ UNCHANGED <<refresh, reports>>
    BY <1>13, Zenon DEF RawSucceeds, Succeeds
  <2>2. r \in Callers
    BY DEF Callers
  <2>. QED
    BY <1>0, <2>1, <2>2, SessionMoves DEF Place
<1>14. ASSUME \/ \E t \in Tasks : DeviceAnswers(t)
              \/ \E w \in Writers : DeviceHandles(w)
              \/ DeviceChanges
              \/ UNCHANGED vars
       PROVE  Place'
  <2>1. UNCHANGED <<stage, refresh, reports>>
    BY <1>14, Zenon DEF DeviceAnswers, DeviceHandles, DeviceChanges, vars
  <2>. QED
    BY <2>1 DEF Place
<1>. QED
  BY <1>1, <1>2, <1>3, <1>4, <1>5, <1>6, <1>7, <1>8, <1>9, <1>10, <1>11, <1>12, <1>13, <1>14,
     Zenon DEF Next

LEMMA ConfirmedStep == Place /\ Confirmed /\ [Next]_vars => Confirmed'
<1>. SUFFICES ASSUME Place, Confirmed, [Next]_vars PROVE Confirmed'
  OBVIOUS
<1>. USE DEF Confirmed, ConnectedIsConfirmed, pollVars, telemetryVars
<1>0. poll \in Tasks
  BY DEF Tasks
<1>1. CASE PollSucceeds
  <2>1. connected' = TRUE /\ success' = TRUE /\ failures' = 0 /\ refresh' = "none"
    BY <1>1, Zenon DEF PollSucceeds, RefreshEnds
  <2>. QED
    BY <2>1
<1>2. ASSUME PollSeesNothing \/ PollFails \/ PollBreaks PROVE Confirmed'
  <2>1. connected' = FALSE
    BY <1>2, Zenon DEF PollSeesNothing, PollFails, PollBreaks
  <2>. QED
    BY <2>1
<1>3. CASE PollReported
  <2>1. refresh = "reporting"
    BY <1>3, <1>0 DEF PollReported, Reported, Place
  <2>2. UNCHANGED connected
    BY <1>3 DEF PollReported
  <2>. QED
    BY <2>1, <2>2
<1>4. ASSUME \/ \E w \in Writers : WriteSucceeds(w)
             \/ \E r \in Raws : RawSucceeds(r)
      PROVE  Confirmed'
  <2>1. success' = TRUE /\ UNCHANGED <<connected, failures>>
    BY <1>4, Zenon DEF WriteSucceeds, RawSucceeds, SetUpdatedData
  <2>2. refresh' = refresh \/ refresh' = "starting"
    BY <1>4, Zenon DEF WriteSucceeds, RawSucceeds, Begin
  <2>. QED
    BY <2>1, <2>2
<1>5. ASSUME \/ ScheduledRefresh \/ RequestRefresh \/ CooldownEnds
             \/ PollStarts \/ PollCancelled
      PROVE  Confirmed'
  <2>1. UNCHANGED <<connected, success, failures>>
    BY <1>5, Zenon DEF ScheduledRefresh, RequestRefresh, CooldownEnds, PollStarts, PollCancelled
  <2>2. refresh' = refresh \/ refresh' \in {"none", "starting", "running"}
    BY <1>5 DEF ScheduledRefresh, RequestRefresh, CooldownEnds, PollStarts, PollCancelled,
       Begin, RefreshEnds
  <2>. QED
    BY <2>1, <2>2
<1>6. ASSUME \/ TimerFires
             \/ \E t \in Tasks : Granted(t) \/ DeviceAnswers(t)
             \/ \E t \in Callers : \/ Call(t) \/ CallFails(t) \/ CallCancelled(t)
                                   \/ CallBreaks(t) \/ CallReported(t)
             \/ \E w \in Writers : DeviceHandles(w)
             \/ DeviceChanges
             \/ UNCHANGED vars
      PROVE  Confirmed'
  <2>1. UNCHANGED <<refresh, connected, success, failures>>
    BY <1>6, Zenon DEF TimerFires, Granted, DeviceAnswers, Call, CallFails, CallCancelled,
       CallBreaks, CallReported, DeviceHandles, DeviceChanges, vars
  <2>. QED
    BY <2>1
<1>. QED
  BY <1>1, <1>2, <1>3, <1>4, <1>5, <1>6, Zenon DEF Next

\* An entity that a poll confirmed stays available, with no failure counted,
\* until a poll fails.
THEOREM ConnectionIsConfirmed == Spec => []ConnectedIsConfirmed
<1>1. Init => Place /\ Confirmed
  <2>. SUFFICES ASSUME Init PROVE Place /\ Confirmed
    OBVIOUS
  <2>1. /\ stage = [t \in Tasks |-> "idle"]
        /\ reports = [t \in Tasks |-> None]
        /\ refresh = "none" /\ success = TRUE /\ failures = 0
    BY DEF Init, Client!Init
  <2>2. poll \in Tasks
    BY DEF Tasks
  <2>. QED
    BY <2>1, <2>2 DEF Place, Confirmed, ConnectedIsConfirmed
<1>2. Confirmed => ConnectedIsConfirmed
  BY DEF Confirmed
<1>. QED
  BY <1>1, <1>2, PlaceStep, ConfirmedStep, PTL DEF Spec

-------------------------------------------------------------------------------
(* The telemetry never steps back in the time of the device                *)

\* One session runs at a time.
Alone == \A s, t \in Tasks : Active(s) /\ Active(t) => s = t

\* A caller that has asked for a session knows the value it writes.
Wanting ==
    /\ want \in [Writers -> Values \cup {None}]
    /\ \A w \in Writers : stage[w] # "idle" => want[w] \in Values

Data ==
    /\ part \in [Tasks -> Samples \cup {None}]
    /\ shown \in Samples
    /\ dev \in Samples
    /\ changes \in 0..MaxChanges

\* What is shown is not younger than what the running session holds, and that
\* not younger than the device.
Ages ==
    /\ shown.at <= dev.at
    /\ dev.at <= changes
    /\ \A t \in Tasks :
          part[t] # None => Active(t) /\ shown.at <= part[t].at /\ part[t].at <= dev.at

\* Sessions are granted to one task at a time.
LEMMA AloneStep == Place /\ Alone /\ [Next]_vars => Alone'
<1>. SUFFICES ASSUME Place, Alone, [Next]_vars PROVE Alone'
  OBVIOUS
<1>. USE DEF Alone, Active, sessionVars
<1>1. ASSUME \/ UNCHANGED stage
             \/ \E t \in Tasks : \/ Client!GiveUp(t)
                                 \/ Over(t)
                                 \/ Ask(t)
                                 \/ Client!Grant(t)
      PROVE  Alone'
  <2>1. CASE UNCHANGED stage
    BY <2>1
  <2>2. ASSUME NEW t \in Tasks, Client!GiveUp(t) \/ Over(t) PROVE Alone'
    <3>1. stage' = [stage EXCEPT ![t] = "idle"]
      BY <2>2, SessionMoves
    <3>. QED
      BY <3>1 DEF Place
  <2>3. ASSUME NEW t \in Tasks, Ask(t) \/ Client!Grant(t) PROVE Alone'
    <3>1. \/ stage' = [stage EXCEPT ![t] = "queued"]
          \/ /\ stage' = [stage EXCEPT ![t] = "active"]
             /\ \A u \in Tasks : stage[u] # "active"
      BY <2>3, Zenon DEF Ask, Client!AskServed, Client!AskQueued, Client!Grant, Client!Active
    <3>. QED
      BY <3>1 DEF Place
  <2>. QED
    BY <1>1, <2>1, <2>2, <2>3, Zenon
<1>2. poll \in Tasks /\ Callers \subseteq Tasks /\ Writers \subseteq Tasks /\ Raws \subseteq Tasks
  BY DEF Tasks, Callers
<1>3. ASSUME PollStarts \/ PollSucceeds \/ PollFails \/ PollBreaks PROVE Alone'
  BY <1>1, <1>2, <1>3, Zenon DEF PollStarts, PollSucceeds, PollFails, PollBreaks, Succeeds, Fails
<1>4. CASE PollCancelled
  BY <1>1, <1>2, <1>4, Zenon DEF PollCancelled, Interrupted, Fails
<1>5. ASSUME NEW t \in Tasks, Granted(t) PROVE Alone'
  BY <1>1, <1>5, Zenon DEF Granted
<1>6. ASSUME NEW t \in Callers, Call(t) \/ CallFails(t) \/ CallCancelled(t) \/ CallBreaks(t)
      PROVE  Alone'
  <2>1. t \in Tasks
    BY <1>2
  <2>. QED
    BY <1>1, <1>6, <2>1, Zenon DEF Call, CallFails, CallCancelled, CallBreaks, Fails
<1>7. ASSUME NEW w \in Writers, WriteSucceeds(w) PROVE Alone'
  <2>1. w \in Tasks
    BY <1>2
  <2>. QED
    BY <1>1, <1>7, <2>1, Zenon DEF WriteSucceeds, Succeeds
<1>8. ASSUME NEW r \in Raws, RawSucceeds(r) PROVE Alone'
  <2>1. r \in Tasks
    BY <1>2
  <2>. QED
    BY <1>1, <1>8, <2>1, Zenon DEF RawSucceeds, Succeeds
<1>9. ASSUME \/ TimerFires \/ ScheduledRefresh \/ RequestRefresh \/ CooldownEnds
             \/ PollSeesNothing \/ PollReported
             \/ \E t \in Tasks : DeviceAnswers(t)
             \/ \E t \in Callers : CallReported(t)
             \/ \E w \in Writers : DeviceHandles(w)
             \/ DeviceChanges
             \/ UNCHANGED vars
      PROVE  Alone'
  <2>1. UNCHANGED stage
    BY <1>9, Zenon DEF TimerFires, ScheduledRefresh, RequestRefresh, CooldownEnds, PollSeesNothing,
       PollReported, DeviceAnswers, CallReported, DeviceHandles, DeviceChanges, vars
  <2>. QED
    BY <2>1
<1>. QED
  BY <1>3, <1>4, <1>5, <1>6, <1>7, <1>8, <1>9, Zenon DEF Next

LEMMA WantingStep == Place /\ Wanting /\ [Next]_vars => Wanting'
<1>. SUFFICES ASSUME Place, Wanting, [Next]_vars PROVE Wanting'
  OBVIOUS
<1>. USE DEF Wanting, sessionVars
<1>0. /\ poll \in Tasks /\ Callers \subseteq Tasks /\ Writers \subseteq Callers /\ Raws \subseteq Callers
      /\ poll \notin Callers /\ Writers \cap Raws = {}
  BY DEF Tasks, Callers
\* A step that asks for no session and forgets nothing.
<1>1. ASSUME UNCHANGED want, \A w \in Writers : stage'[w] # "idle" => stage[w] # "idle"
      PROVE  Wanting'
  BY <1>1
\* A step that ends a call.
<1>2. ASSUME NEW t \in Callers, Forget(t), Over(t) \/ Client!GiveUp(t) PROVE Wanting'
  <2>1. stage' = [stage EXCEPT ![t] = "idle"]
    BY <1>0, <1>2, SessionMoves
  <2>. QED
    BY <1>0, <1>2, <2>1 DEF Forget, Place
<1>3. ASSUME \/ TimerFires \/ ScheduledRefresh \/ RequestRefresh \/ CooldownEnds
             \/ PollSeesNothing \/ PollReported
             \/ \E t \in Tasks : DeviceAnswers(t)
             \/ \E t \in Callers : CallReported(t)
             \/ \E w \in Writers : DeviceHandles(w)
             \/ DeviceChanges
             \/ UNCHANGED vars
      PROVE  Wanting'
  <2>1. UNCHANGED <<stage, want>>
    BY <1>3, Zenon DEF TimerFires, ScheduledRefresh, RequestRefresh, CooldownEnds, PollSeesNothing,
       PollReported, DeviceAnswers, CallReported, DeviceHandles, DeviceChanges, vars
  <2>. QED
    BY <2>1
<1>4. ASSUME PollStarts \/ PollSucceeds \/ PollFails \/ PollBreaks PROVE Wanting'
  <2>1. UNCHANGED want /\ (Ask(poll) \/ Over(poll))
    BY <1>4, Zenon DEF PollStarts, PollSucceeds, PollFails, PollBreaks, Succeeds, Fails
  <2>. QED
    BY <1>0, <1>1, <2>1, SessionMoves DEF Place
<1>5. CASE PollCancelled
  <2>1. UNCHANGED want /\ (Client!GiveUp(poll) \/ Over(poll) \/ UNCHANGED stage)
    BY <1>5, Zenon DEF PollCancelled, Interrupted, Fails
  <2>. QED
    BY <1>0, <1>1, <2>1, SessionMoves DEF Place
<1>6. ASSUME NEW t \in Tasks, Granted(t) PROVE Wanting'
  <2>1. UNCHANGED want /\ Client!Grant(t)
    BY <1>6, Zenon DEF Granted
  <2>. QED
    BY <1>0, <1>1, <2>1, SessionMoves DEF Place
<1>7. ASSUME NEW t \in Callers, Call(t) PROVE Wanting'
  <2>1. /\ Ask(t)
        /\ IF t \in Writers
           THEN \E v \in Values : want' = [want EXCEPT ![t] = v]
           ELSE UNCHANGED want
    BY <1>7, Zenon DEF Call
  <2>. QED
    BY <1>0, <2>1, SessionMoves DEF Place
<1>8. ASSUME NEW t \in Callers, CallFails(t) \/ CallCancelled(t) \/ CallBreaks(t) PROVE Wanting'
  BY <1>2, <1>8, Zenon DEF CallFails, CallCancelled, CallBreaks, Fails
<1>9. ASSUME NEW w \in Writers, WriteSucceeds(w) PROVE Wanting'
  <2>1. w \in Callers
    BY <1>0
  <2>. QED
    BY <1>2, <1>9, <2>1, Zenon DEF WriteSucceeds, Succeeds
<1>10. ASSUME NEW r \in Raws, RawSucceeds(r) PROVE Wanting'
  <2>1. UNCHANGED want /\ Over(r)
    BY <1>10, Zenon DEF RawSucceeds, Succeeds
  <2>. QED
    BY <1>0, <1>1, <2>1, SessionMoves DEF Place
<1>. QED
  BY <1>3, <1>4, <1>5, <1>6, <1>7, <1>8, <1>9, <1>10, Zenon DEF Next

LEMMA AgesStep ==
    Place /\ Alone /\ Wanting /\ Data /\ Ages /\ [Next]_vars
        => Data' /\ Ages' /\ shown'.at >= shown.at
<1>. SUFFICES ASSUME Place, Alone, Wanting, Data, Ages, [Next]_vars
              PROVE  Data' /\ Ages' /\ shown'.at >= shown.at
  OBVIOUS
<1>. DEFINE Good == Data' /\ Ages' /\ shown'.at >= shown.at
<1>. USE DEF sessionVars, deviceVars, telemetryVars
<1>0. /\ poll \in Tasks /\ Callers \subseteq Tasks /\ Writers \subseteq Tasks /\ Raws \subseteq Tasks
      /\ None \notin Samples
  BY DEF Tasks, Callers
<1>a. /\ shown.at \in Nat /\ dev.at \in Nat /\ changes \in Nat
      /\ \A t \in Tasks : part[t] # None => part[t] \in Samples /\ part[t].at \in Nat
  BY DEF Data, Samples
\* A step that moves a task towards or away from its session, not in it.
<1>1. ASSUME NEW t \in Tasks, Ask(t) \/ Client!Grant(t) \/ Client!GiveUp(t),
             UNCHANGED <<part, shown, dev>>, changes' \in 0..MaxChanges, changes <= changes'
      PROVE  Good
  <2>1. /\ stage[t] # "active"
        /\ \A u \in Tasks : stage[u] = "active" => stage'[u] = "active"
    BY <1>1, SessionMoves DEF Place
  <2>2. Data'
    BY <1>1 DEF Data
  <2>3. Ages'
    BY <1>1, <1>a, <2>1 DEF Ages, Active, Data
  <2>. QED
    BY <1>1, <1>a, <2>2, <2>3
\* A session ends; its sample is shown or dropped.
<1>2. ASSUME NEW t \in Tasks, Over(t), UNCHANGED deviceVars,
             shown' = shown \/ (part[t] # None /\ shown' = part[t])
      PROVE  Good
  <2>1. /\ stage[t] = "active" /\ stage' = [stage EXCEPT ![t] = "idle"]
        /\ part' = [part EXCEPT ![t] = None]
    BY <1>2, SessionMoves DEF Over
  <2>2. \A u \in Tasks : part'[u] = None
    BY <2>1 DEF Data, Ages, Alone, Active
  <2>3. shown' \in Samples /\ shown.at <= shown'.at /\ shown'.at <= dev.at
    BY <1>2, <1>a DEF Data, Ages
  <2>4. Data'
    BY <1>2, <2>1, <2>3 DEF Data
  <2>5. Ages'
    BY <1>2, <2>2, <2>3 DEF Ages
  <2>. QED
    BY <1>a, <2>3, <2>4, <2>5 DEF Data, Samples
<1>3. ASSUME NEW t \in Tasks, DeviceAnswers(t) PROVE Good
  <2>1. /\ Active(t) /\ part' = [part EXCEPT ![t] = dev]
        /\ UNCHANGED <<stage, shown, dev, changes>>
    BY <1>3, Zenon DEF DeviceAnswers
  <2>. QED
    BY <1>a, <2>1 DEF Data, Ages, Active
<1>4. ASSUME NEW w \in Writers, DeviceHandles(w) PROVE Good
  <2>1. /\ Active(w)
        /\ dev' = [value |-> want[w], at |-> changes] \/ dev' = dev
        /\ part' = [part EXCEPT ![w] = [value |-> want[w], at |-> dev'.at]]
        /\ UNCHANGED <<stage, shown, changes>>
    BY <1>4, Zenon DEF DeviceHandles, DeviceSets
  <2>2. want[w] \in Values
    BY <2>1 DEF Wanting, Active
  <2>3. dev' \in Samples /\ dev.at <= dev'.at /\ dev'.at <= changes /\ dev'.at \in 0..MaxChanges
    BY <1>a, <2>1, <2>2 DEF Data, Ages, Samples
  <2>4. [value |-> want[w], at |-> dev'.at] \in Samples
    BY <2>2, <2>3 DEF Samples
  <2>5. Data'
    BY <2>1, <2>3, <2>4 DEF Data
  <2>6. Ages'
    BY <1>0, <1>a, <2>1, <2>3 DEF Ages, Active, Data
  <2>. QED
    BY <1>a, <2>1, <2>5, <2>6
<1>5. CASE DeviceChanges
  <2>1. PICK v \in Values : dev' = [value |-> v, at |-> changes + 1]
    BY <1>5, Zenon DEF DeviceChanges, DeviceSets
  <2>2. /\ changes < MaxChanges /\ changes' = changes + 1
        /\ UNCHANGED <<stage, part, shown>>
    BY <1>5 DEF DeviceChanges
  <2>3. dev' \in Samples /\ dev.at <= dev'.at /\ dev'.at = changes'
    BY <1>a, <2>1, <2>2 DEF Ages, Samples
  <2>. QED
    BY <1>a, <2>2, <2>3 DEF Data, Ages, Active
<1>6. ASSUME UNCHANGED <<stage, part, shown, dev, changes>> PROVE Good
  BY <1>6, <1>a DEF Data, Ages, Active
<1>7. CASE PollStarts
  <2>1. Ask(poll) /\ UNCHANGED <<part, shown, dev, changes>>
    BY <1>7, Zenon DEF PollStarts
  <2>. QED
    BY <1>0, <1>1, <1>a, <2>1 DEF Data
<1>8. ASSUME NEW t \in Callers, Call(t) PROVE Good
  <2>1. Ask(t) /\ UNCHANGED <<part, shown, dev>> /\ changes' = changes + 1 /\ changes < MaxChanges
    BY <1>8, Zenon DEF Call
  <2>. QED
    BY <1>0, <1>1, <1>a, <2>1
<1>9. ASSUME NEW t \in Tasks, Granted(t) PROVE Good
  <2>1. Client!Grant(t) /\ UNCHANGED <<part, shown, dev, changes>>
    BY <1>9, Zenon DEF Granted
  <2>. QED
    BY <1>1, <1>a, <2>1 DEF Data
<1>10. ASSUME NEW t \in Callers, CallCancelled(t) PROVE Good
  <2>1. Client!GiveUp(t) /\ UNCHANGED <<part, shown, dev, changes>>
    BY <1>10, Zenon DEF CallCancelled
  <2>. QED
    BY <1>0, <1>1, <1>a, <2>1 DEF Data
<1>11. ASSUME NEW t \in Callers, CallFails(t) \/ CallBreaks(t) PROVE Good
  <2>1. Over(t) /\ UNCHANGED <<shown, deviceVars>>
    BY <1>11, Zenon DEF CallFails, CallBreaks, Fails
  <2>. QED
    BY <1>0, <1>2, <2>1
<1>12. ASSUME PollFails \/ PollBreaks PROVE Good
  <2>1. Over(poll) /\ UNCHANGED <<shown, deviceVars>>
    BY <1>12, Zenon DEF PollFails, PollBreaks, Fails
  <2>. QED
    BY <1>0, <1>2, <2>1
<1>13. CASE PollSucceeds
  <2>1. Over(poll) /\ part[poll] # None /\ shown' = part[poll] /\ UNCHANGED deviceVars
    BY <1>13, Zenon DEF PollSucceeds, Succeeds
  <2>. QED
    BY <1>0, <1>2, <2>1
<1>14. ASSUME NEW w \in Writers, WriteSucceeds(w) PROVE Good
  <2>1. Over(w) /\ part[w] # None /\ shown' = part[w] /\ UNCHANGED deviceVars
    BY <1>14, Zenon DEF WriteSucceeds, Succeeds
  <2>. QED
    BY <1>0, <1>2, <2>1
<1>15. ASSUME NEW r \in Raws, RawSucceeds(r) PROVE Good
  <2>1. /\ Over(r) /\ part[r] # None /\ UNCHANGED deviceVars
        /\ shown' \in {part[r], shown}
    BY <1>15, Zenon DEF RawSucceeds, Succeeds
  <2>2. shown' = part[r] \/ shown' = shown
    BY <2>1
  <2>. QED
    BY <1>0, <1>2, <2>1, <2>2
<1>16. CASE PollCancelled
  <2>1. UNCHANGED <<shown, dev, changes>> /\ Interrupted
    BY <1>16, Zenon DEF PollCancelled
  <2>2. CASE Client!GiveUp(poll) /\ UNCHANGED part
    BY <1>0, <1>1, <1>a, <2>1, <2>2 DEF Data
  <2>3. CASE Over(poll)
    BY <1>0, <1>2, <2>1, <2>3
  <2>4. CASE UNCHANGED <<sessionVars, part>>
    BY <1>6, <2>1, <2>4
  <2>. QED
    BY <2>1, <2>2, <2>3, <2>4, Zenon DEF Interrupted, Fails
<1>17. ASSUME \/ TimerFires \/ ScheduledRefresh \/ RequestRefresh \/ CooldownEnds
              \/ PollSeesNothing \/ PollReported
              \/ \E t \in Callers : CallReported(t)
              \/ UNCHANGED vars
       PROVE  Good
  <2>1. UNCHANGED <<stage, part, shown, dev, changes>>
    BY <1>17, Zenon DEF TimerFires, ScheduledRefresh, RequestRefresh, CooldownEnds,
       PollSeesNothing, PollReported, CallReported, vars
  <2>. QED
    BY <1>6, <2>1
<1>. QED
  BY <1>3, <1>4, <1>5, <1>7, <1>8, <1>9, <1>10, <1>11, <1>12, <1>13, <1>14, <1>15, <1>16, <1>17,
     Zenon DEF Next

Inv == Place /\ Alone /\ Wanting /\ Data /\ Ages

LEMMA InvInit == Init => Inv
<1>. SUFFICES ASSUME Init PROVE Inv
  OBVIOUS
<1>1. /\ stage = [t \in Tasks |-> "idle"]
      /\ reports = [t \in Tasks |-> None]
      /\ part = [t \in Tasks |-> None]
      /\ want = [w \in Writers |-> None]
      /\ refresh = "none" /\ changes = 0 /\ shown = dev
  BY DEF Init, Client!Init
<1>2. dev \in Samples /\ dev.at = 0
  BY DEF Init, Samples
<1>3. poll \in Tasks /\ Writers \subseteq Tasks
  BY DEF Tasks
<1>4. Place /\ Alone /\ Wanting
  BY <1>1, <1>3 DEF Place, Alone, Active, Wanting
<1>5. Data /\ Ages
  BY <1>1, <1>2 DEF Data, Ages
<1>. QED
  BY <1>4, <1>5 DEF Inv

LEMMA InvStep == Inv /\ [Next]_vars => Inv'
  BY PlaceStep, AloneStep, WantingStep, AgesStep, Zenon DEF Inv

\* A poll that read the field before a write does not overwrite what the write
\* left, whatever the order in which their sessions end.
THEOREM TelemetryAdvances == Spec => NeverGoesBack
<1>1. Inv /\ [Next]_vars => [shown'.at >= shown.at]_vars
  BY AgesStep, Zenon DEF Inv
<1>. QED
  BY <1>1, InvInit, InvStep, PTL DEF Spec, NeverGoesBack

-------------------------------------------------------------------------------
(* Types                                                                   *)

QueueTyped ==
    /\ ahead \in [Tasks -> SUBSET Tasks]
    /\ got \in Nat
    /\ verdict \in [Tasks -> {"none", "ok", "failed"}]

FlagsTyped ==
    /\ refresh \in {"none", "starting", "running", "reporting"}
    /\ runner \in {"timer", "request"}
    /\ due \in BOOLEAN /\ scheduled \in BOOLEAN /\ cooling \in BOOLEAN /\ atEnd \in BOOLEAN
    /\ connected \in BOOLEAN /\ success \in BOOLEAN

CountsTyped ==
    /\ reported \subseteq Unexpected
    /\ failures \in 0..MaxFailures

\* A step uses the session service once at most.
LEMMA SessionUses ==
    ASSUME [Next]_vars
    PROVE  \/ UNCHANGED sessionVars
           \/ \E t \in Tasks : Ask(t) \/ Client!Grant(t) \/ Client!GiveUp(t) \/ Client!Finish(t)
<1>0. poll \in Tasks /\ Callers \subseteq Tasks /\ Writers \subseteq Tasks /\ Raws \subseteq Tasks
  BY DEF Tasks, Callers
<1>1. ASSUME \/ TimerFires \/ ScheduledRefresh \/ RequestRefresh \/ CooldownEnds
             \/ PollSeesNothing \/ PollReported
             \/ \E t \in Tasks : DeviceAnswers(t)
             \/ \E t \in Callers : CallReported(t)
             \/ \E w \in Writers : DeviceHandles(w)
             \/ DeviceChanges
             \/ UNCHANGED vars
      PROVE  UNCHANGED sessionVars
  BY <1>1, Zenon DEF TimerFires, ScheduledRefresh, RequestRefresh, CooldownEnds,
     PollSeesNothing, PollReported, DeviceAnswers, CallReported, DeviceHandles, DeviceChanges,
     vars
<1>2. ASSUME PollStarts \/ PollSucceeds \/ PollFails \/ PollBreaks
      PROVE  Ask(poll) \/ Client!Finish(poll)
  BY <1>2, Zenon DEF PollStarts, PollSucceeds, PollFails, PollBreaks, Succeeds, Fails, Over
<1>3. ASSUME PollCancelled
      PROVE  Client!GiveUp(poll) \/ Client!Finish(poll) \/ UNCHANGED sessionVars
  BY <1>3, Zenon DEF PollCancelled, Interrupted, Fails, Over
<1>4. ASSUME NEW t \in Callers, Call(t) \/ CallFails(t) \/ CallCancelled(t) \/ CallBreaks(t)
      PROVE  Ask(t) \/ Client!GiveUp(t) \/ Client!Finish(t)
  BY <1>4, Zenon DEF Call, CallFails, CallCancelled, CallBreaks, Fails, Over
<1>5. ASSUME NEW w \in Writers, WriteSucceeds(w) PROVE Client!Finish(w)
  BY <1>5, Zenon DEF WriteSucceeds, Succeeds, Over
<1>6. ASSUME NEW r \in Raws, RawSucceeds(r) PROVE Client!Finish(r)
  BY <1>6, Zenon DEF RawSucceeds, Succeeds, Over
<1>7. ASSUME NEW t \in Tasks, Granted(t) PROVE Client!Grant(t)
  BY <1>7, Zenon DEF Granted
<1>8. UNCHANGED vars \/ Next
  OBVIOUS
<1>. QED
  BY <1>0, <1>1, <1>2, <1>3, <1>4, <1>5, <1>6, <1>7, <1>8 DEF Next

LEMMA QueueStep == QueueTyped /\ [Next]_vars => QueueTyped'
<1>. SUFFICES ASSUME QueueTyped, [Next]_vars PROVE QueueTyped'
  OBVIOUS
<1>1. CASE UNCHANGED sessionVars
  BY <1>1 DEF QueueTyped, sessionVars
<1>2. ASSUME NEW t \in Tasks, Ask(t) PROVE QueueTyped'
  BY <1>2 DEF QueueTyped, Ask, Client!AskServed, Client!AskQueued, Client!Queued
<1>3. ASSUME NEW t \in Tasks, Client!Grant(t) \/ Client!GiveUp(t) PROVE QueueTyped'
  BY <1>3 DEF QueueTyped, Client!Grant, Client!GiveUp, Client!LeaveQueue
<1>4. ASSUME NEW t \in Tasks, Client!Finish(t) PROVE QueueTyped'
  BY <1>4 DEF QueueTyped, Client!Finish
<1>. QED
  BY <1>1, <1>2, <1>3, <1>4, SessionUses, Zenon

LEMMA FlagsStep == FlagsTyped /\ [Next]_vars => FlagsTyped'
<1>. SUFFICES ASSUME FlagsTyped, [Next]_vars PROVE FlagsTyped'
  OBVIOUS
<1>. USE DEF FlagsTyped, pollVars, timerVars, telemetryVars
<1>0. TRUE \in BOOLEAN /\ FALSE \in BOOLEAN /\ (runner = "request") \in BOOLEAN
  BY Zenon
<1>1. ASSUME RefreshEnds, UNCHANGED <<connected, success>>
             \/ (connected' \in BOOLEAN /\ success' \in BOOLEAN)
      PROVE  FlagsTyped'
  BY <1>0, <1>1, Zenon DEF RefreshEnds
<1>2. CASE TimerFires
  BY <1>0, <1>2, Zenon DEF TimerFires
<1>3. CASE ScheduledRefresh \/ RequestRefresh \/ CooldownEnds
  BY <1>0, <1>3, Zenon DEF ScheduledRefresh, RequestRefresh, CooldownEnds, Begin
<1>4. CASE PollStarts \/ PollSeesNothing
  BY <1>0, <1>4, Zenon DEF PollStarts, PollSeesNothing
<1>5. CASE PollSucceeds \/ PollFails \/ PollReported \/ PollCancelled
  BY <1>0, <1>1, <1>5, Zenon DEF PollSucceeds, PollFails, PollReported, PollCancelled
<1>6. CASE PollBreaks
  <2>1. CASE Reporting
    BY <1>0, <1>6, <2>1, Zenon DEF PollBreaks
  <2>2. CASE ~Reporting
    BY <1>0, <1>1, <1>6, <2>2, Zenon DEF PollBreaks
  <2>. QED
    BY <2>1, <2>2
<1>7. ASSUME NEW w \in Writers, WriteSucceeds(w) PROVE FlagsTyped'
  BY <1>0, <1>7, Zenon DEF WriteSucceeds, SetUpdatedData, Begin
<1>8. ASSUME NEW r \in Raws, RawSucceeds(r) PROVE FlagsTyped'
  BY <1>0, <1>8, Zenon DEF RawSucceeds, SetUpdatedData
<1>9. ASSUME \/ \E t \in Tasks : Granted(t) \/ DeviceAnswers(t)
             \/ \E t \in Callers : \/ Call(t) \/ CallFails(t) \/ CallCancelled(t)
                                   \/ CallBreaks(t) \/ CallReported(t)
             \/ \E w \in Writers : DeviceHandles(w)
             \/ DeviceChanges
             \/ UNCHANGED vars
      PROVE  FlagsTyped'
  <2>1. UNCHANGED <<pollVars, timerVars, connected, success>>
    BY <1>9, Zenon DEF Granted, DeviceAnswers, Call, CallFails, CallCancelled, CallBreaks,
       CallReported, DeviceHandles, DeviceChanges, vars
  <2>. QED
    BY <2>1, Zenon
<1>. QED
  BY <1>2, <1>3, <1>4, <1>5, <1>6, <1>7, <1>8, <1>9, Zenon DEF Next

LEMMA CountsStep == CountsTyped /\ [Next]_vars => CountsTyped'
<1>. SUFFICES ASSUME CountsTyped, [Next]_vars PROVE CountsTyped'
  OBVIOUS
<1>. USE DEF CountsTyped
<1>1. ASSUME UNCHANGED reported \/ \E t \in Tasks, error \in Unexpected : Report(t, error),
             \/ UNCHANGED failures
             \/ failures' = 0
             \/ failures' = IF failures < MaxFailures THEN failures + 1 ELSE failures
      PROVE  CountsTyped'
  BY <1>1 DEF Report
<1>2. UNCHANGED vars \/ Next
  OBVIOUS
<1>3. UNCHANGED reported \/ \E t \in Tasks, error \in Unexpected : Report(t, error)
  <2>0. poll \in Tasks /\ Callers \subseteq Tasks
    BY DEF Tasks, Callers
  <2>1. ASSUME PollBreaks PROVE \E error \in Unexpected : Report(poll, error)
    BY <2>1, Zenon DEF PollBreaks
  <2>2. ASSUME NEW t \in Callers, CallBreaks(t) PROVE \E error \in Unexpected : Report(t, error)
    BY <2>2, Zenon DEF CallBreaks
  <2>3. ASSUME UNCHANGED vars \/ Next, ~PollBreaks, \A t \in Callers : ~CallBreaks(t)
        PROVE  UNCHANGED reported
    BY <2>3, Zenon DEF Next, TimerFires, ScheduledRefresh, RequestRefresh, CooldownEnds,
       PollStarts, PollSeesNothing, PollSucceeds, PollFails, PollReported, PollCancelled, Granted,
       DeviceAnswers, Call, CallFails, CallCancelled, CallReported, WriteSucceeds, DeviceHandles,
       RawSucceeds, DeviceChanges, vars, reportVars
  <2>. QED
    BY <1>2, <2>0, <2>1, <2>2, <2>3
<1>4. \/ UNCHANGED failures
      \/ failures' = 0
      \/ failures' = IF failures < MaxFailures THEN failures + 1 ELSE failures
  BY <1>2, Zenon DEF Next, TimerFires, ScheduledRefresh, RequestRefresh, CooldownEnds,
     PollStarts, PollSeesNothing, PollSucceeds, PollFails, PollBreaks, PollReported,
     PollCancelled, Granted, DeviceAnswers, Call, CallFails, CallCancelled, CallBreaks,
     CallReported, WriteSucceeds, DeviceHandles, RawSucceeds, DeviceChanges, vars, telemetryVars
<1>. QED
  BY <1>1, <1>3, <1>4

\* However polls, writes and raw commands overlap, every part of the state of the
\* coordinator and of the sessions it waits for keeps its type.
THEOREM TypeCorrect == Spec => []TypeOK
<1>1. Init => QueueTyped /\ FlagsTyped /\ CountsTyped
  <2>1. Init => QueueTyped
    BY DEF Init, Client!Init, QueueTyped
  <2>2. Init => FlagsTyped
    BY Zenon DEF Init, FlagsTyped
  <2>3. Init => CountsTyped
    BY CoordinatorAssumption DEF Init, CountsTyped
  <2>. QED
    BY <2>1, <2>2, <2>3
<1>2. Inv /\ QueueTyped /\ FlagsTyped /\ CountsTyped => TypeOK
  BY DEF Inv, Place, Wanting, Data, QueueTyped, FlagsTyped, CountsTyped, TypeOK, Client!TypeOK
<1>. QED
  BY <1>1, <1>2, InvInit, InvStep, QueueStep, FlagsStep, CountsStep, PTL DEF Spec
===============================================================================
