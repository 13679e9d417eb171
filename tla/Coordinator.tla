------------------------------ MODULE Coordinator -----------------------------
(***************************************************************************)
(* The coordinator of one Jackery unit                                     *)
(* (src/custom_components/jackery/coordinator.py), between its setup and   *)
(* its unload.                                                             *)
(*                                                                         *)
(* The scheduled poll, the writes of the switches and the raw command      *)
(* service share one BLE client, here what BleSession is shown to          *)
(* implement: SerialSessions.  The telemetry is one field of the device;   *)
(* a value comes with the device time it stands for, so that stale values  *)
(* can be told from fresh ones.                                            *)
(*                                                                         *)
(* The timers and the debouncer are those of Home Assistant's              *)
(* DataUpdateCoordinator, which is not in the repository.                  *)
(***************************************************************************)
EXTENDS Naturals

CONSTANTS
    poll,           \* the task that refreshes the telemetry
    Writers,        \* tasks that call async_write_field
    Raws,           \* tasks that call async_send_raw_command
    Values,         \* the values of the field
    None,           \* nothing to merge, to write or to report
    Reporting,      \* whether an error reporter is configured
    MaxFailures,    \* bound: failed polls that are counted
    MaxChanges      \* bound: writes, raw commands and changes on the device

Tasks == {poll} \cup Writers \cup Raws
Callers == Writers \cup Raws

Expected == {"JackeryBLEError", "OSError"}
Unexpected == {"BleakError", "TypeError"}
Samples == [value : Values, at : 0..MaxChanges]

ASSUME CoordinatorAssumption ==
    /\ poll \notin Callers
    /\ Writers \cap Raws = {}
    /\ Values # {}
    /\ None \notin Values \cup Unexpected \cup Samples
    /\ Reporting \in BOOLEAN
    /\ MaxFailures \in Nat
    /\ MaxChanges \in Nat

VARIABLES
    stage, ahead, got, verdict,     \* the sessions of the BLE client
    part,       \* what the session of each task would merge
    want,       \* the value each writer writes
    refresh,    \* where the refresh is: none, starting, in _async_update_data, reporting
    runner,     \* what started it
    due,        \* the refresh timer fired while a refresh was running
    scheduled,  \* the refresh timer is set
    cooling,    \* the timer of the debouncer is set
    atEnd,      \* the debouncer is to refresh when it ends
    reports,    \* the error each task is reporting
    reported,   \* the kinds of errors given to the reporter so far
    shown,      \* the field of self._telemetry
    connected,  \* self._telemetry.connected
    success,    \* last_update_success, which makes the entities available
    failures,   \* self._consecutive_failures
    dev,        \* the field on the device
    changes     \* how often it was, or was asked to be, changed

sessionVars == <<stage, ahead, got, verdict>>
timerVars == <<due, scheduled, cooling, atEnd>>
pollVars == <<refresh, runner>>
telemetryVars == <<shown, connected, success, failures>>
reportVars == <<reports, reported>>
deviceVars == <<dev, changes>>
vars == <<sessionVars, part, want, pollVars, timerVars, reportVars, telemetryVars, deviceVars>>

\* The number of frames does not matter here.
Client == INSTANCE SerialSessions WITH Need <- [t \in Tasks |-> 0]

TypeOK ==
    /\ Client!TypeOK
    /\ part \in [Tasks -> Samples \cup {None}]
    /\ want \in [Writers -> Values \cup {None}]
    /\ refresh \in {"none", "starting", "running", "reporting"}
    /\ runner \in {"timer", "request"}
    /\ {due, scheduled, cooling, atEnd, connected, success} \subseteq BOOLEAN
    /\ reports \in [Tasks -> Unexpected \cup {None}]
    /\ reported \subseteq Expected \cup Unexpected
    /\ shown \in Samples
    /\ failures \in 0..MaxFailures
    /\ dev \in Samples
    /\ changes \in 0..MaxChanges

\* The entry has been set up: the first refresh succeeded, its platforms listen.
Init ==
    /\ Client!Init
    /\ part = [t \in Tasks |-> None]
    /\ want = [w \in Writers |-> None]
    /\ refresh = "none"
    /\ runner = "timer"
    /\ due = FALSE
    /\ scheduled = TRUE
    /\ cooling = FALSE
    /\ atEnd = FALSE
    /\ reports = [t \in Tasks |-> None]
    /\ reported = {}
    /\ \E v \in Values : dev = [value |-> v, at |-> 0]
    /\ shown = dev
    /\ connected = TRUE
    /\ success = TRUE
    /\ failures = 0
    /\ changes = 0

Active(t) == stage[t] = "active"
Calling(t) == stage[t] # "idle" \/ reports[t] # None

-------------------------------------------------------------------------------
(* Sessions                                                                *)

\* Mutant: every call has a lock of its own.
AskUnlocked(t) ==
    /\ stage[t] = "idle"
    /\ stage' = [stage EXCEPT ![t] = "active"]
    /\ UNCHANGED <<ahead, got, verdict>>

Ask(t) == Client!AskServed(t) \/ Client!AskQueued(t)

Granted(t) ==
    /\ Client!Grant(t)
    /\ UNCHANGED <<part, want, pollVars, timerVars, reportVars, telemetryVars, deviceVars>>

\* A session of t ends in this step, and its result is taken or dropped.
Over(t) == Client!Finish(t) /\ part' = [part EXCEPT ![t] = None]

Succeeds(t) == Over(t) /\ part[t] # None /\ verdict'[t] = "ok"
Fails(t) == Over(t) /\ verdict'[t] = "failed"

\* _report: without a reporter it returns at once.
Report(t, error) ==
    /\ reports' = [reports EXCEPT ![t] = IF Reporting THEN error ELSE None]
    /\ reported' = IF Reporting THEN reported \cup {error} ELSE reported

\* The reporter is done, or raised, which is swallowed.
Reported(t) == reports[t] # None /\ reports' = [reports EXCEPT ![t] = None]

-------------------------------------------------------------------------------
(* DataUpdateCoordinator                                                   *)

\* async_set_updated_data.
SetUpdatedData ==
    /\ success' = TRUE
    /\ scheduled' = TRUE
    /\ cooling' = FALSE
    /\ atEnd' = FALSE

Begin(who) == refresh' = "starting" /\ runner' = who

\* The end of _async_refresh, on every way out: the listeners keep it scheduled.
RefreshEnds ==
    /\ refresh' = "none"
    /\ scheduled' = TRUE
    /\ cooling' = (runner = "request")
    /\ UNCHANGED <<runner, due, atEnd>>

\* The refresh timer fires.  A refresh that is running is waited for.
TimerFires ==
    /\ scheduled
    /\ scheduled' = FALSE
    /\ due' = TRUE
    /\ UNCHANGED <<sessionVars, part, want, pollVars, cooling, atEnd, reportVars,
                   telemetryVars, deviceVars>>

ScheduledRefresh ==
    /\ due
    /\ refresh = "none"
    /\ due' = FALSE
    /\ Begin("timer")
    /\ UNCHANGED <<sessionVars, part, want, scheduled, cooling, atEnd, reportVars,
                   telemetryVars, deviceVars>>

\* async_request_refresh, from the refresh service: at once, at the end of the
\* cooldown, or not at all when a refresh is running.
RequestRefresh ==
    /\ \/ cooling /\ atEnd' = TRUE /\ UNCHANGED pollVars
       \/ ~cooling /\ refresh = "none" /\ Begin("request") /\ UNCHANGED atEnd
    /\ UNCHANGED <<sessionVars, part, want, due, scheduled, cooling, reportVars,
                   telemetryVars, deviceVars>>

CooldownEnds ==
    /\ cooling
    /\ cooling' = FALSE
    /\ atEnd' = FALSE
    /\ IF atEnd /\ refresh = "none" THEN Begin("request") ELSE UNCHANGED pollVars
    /\ UNCHANGED <<sessionVars, part, want, due, scheduled, reportVars, telemetryVars, deviceVars>>

-------------------------------------------------------------------------------
(* _async_update_data                                                      *)

\* _async_refresh first cancels the timers.
PollStarts ==
    /\ refresh = "starting"
    /\ Ask(poll)
    /\ refresh' = "running"
    /\ scheduled' = FALSE
    /\ cooling' = FALSE
    /\ atEnd' = FALSE
    /\ UNCHANGED <<part, want, runner, due, reportVars, telemetryVars, deviceVars>>

\* The unit is not visible: UpdateFailed, and the failure is not counted.
PollSeesNothing ==
    /\ refresh = "starting"
    /\ connected' = FALSE
    /\ success' = FALSE
    /\ refresh' = "none"
    /\ scheduled' = TRUE
    /\ cooling' = (runner = "request")
    /\ atEnd' = FALSE
    /\ UNCHANGED <<sessionVars, part, want, runner, due, reportVars, shown, failures, deviceVars>>

\* Mutant: only fields that were not known are merged.
PollMergesNewFields ==
    /\ Succeeds(poll)
    /\ connected' = TRUE
    /\ success' = TRUE
    /\ failures' = 0
    /\ RefreshEnds
    /\ UNCHANGED <<want, reportVars, shown, deviceVars>>

PollSucceeds ==
    /\ Succeeds(poll)
    /\ shown' = part[poll]
    /\ connected' = TRUE
    /\ success' = TRUE
    /\ failures' = 0
    /\ RefreshEnds
    /\ UNCHANGED <<want, reportVars, deviceVars>>

\* Mutant: an expected failure only raises.
PollFailsQuietly ==
    /\ Fails(poll)
    /\ success' = FALSE
    /\ failures' = IF failures < MaxFailures THEN failures + 1 ELSE failures
    /\ RefreshEnds
    /\ UNCHANGED <<want, reportVars, shown, connected, deviceVars>>

PollFails ==
    /\ Fails(poll)
    /\ connected' = FALSE
    /\ success' = FALSE
    /\ failures' = IF failures < MaxFailures THEN failures + 1 ELSE failures
    /\ RefreshEnds
    /\ UNCHANGED <<want, reportVars, shown, deviceVars>>

\* An unexpected error is reported before UpdateFailed is raised.
PollBreaks ==
    /\ Fails(poll)
    /\ connected' = FALSE
    /\ \E error \in Unexpected : Report(poll, error)
    /\ IF Reporting
       THEN refresh' = "reporting" /\ UNCHANGED <<runner, timerVars, success>>
       ELSE success' = FALSE /\ RefreshEnds
    /\ UNCHANGED <<want, shown, failures, deviceVars>>

PollReported ==
    /\ Reported(poll)
    /\ success' = FALSE
    /\ RefreshEnds
    /\ UNCHANGED <<sessionVars, part, want, reported, shown, connected, failures, deviceVars>>

\* A refresh is cancelled during its session or its report.
Interrupted ==
    \/ Client!GiveUp(poll) /\ UNCHANGED <<part, reports>>
    \/ Fails(poll) /\ UNCHANGED reports
    \/ Reported(poll) /\ UNCHANGED <<sessionVars, part>>

\* Mutant: a cancelled refresh does not schedule the next one.
PollCancelledForGood ==
    /\ runner = "request"
    /\ Interrupted
    /\ refresh' = "none"
    /\ cooling' = TRUE
    /\ UNCHANGED <<runner, due, scheduled, atEnd, want, reported, telemetryVars, deviceVars>>

\* The task that requested the refresh, and runs it, is cancelled.
PollCancelled ==
    /\ runner = "request"
    /\ Interrupted
    /\ UNCHANGED <<want, reported, telemetryVars, deviceVars>>
    /\ RefreshEnds

-------------------------------------------------------------------------------
(* async_write_field and async_send_raw_command                            *)

\* A unit that is not visible makes the call fail at once, which changes nothing.
Call(t) ==
    /\ ~Calling(t)
    /\ changes < MaxChanges
    /\ Ask(t)
    /\ changes' = changes + 1
    /\ IF t \in Writers
       THEN \E v \in Values : want' = [want EXCEPT ![t] = v]
       ELSE UNCHANGED want
    /\ UNCHANGED <<part, pollVars, timerVars, reportVars, telemetryVars, dev>>

Forget(t) == want' = [w \in Writers |-> IF w = t THEN None ELSE want[w]]

\* The field is set to what was written, and a refresh is requested.  The
\* cooldown has just been cancelled: only a running refresh suppresses it.
WriteSucceeds(w) ==
    /\ Succeeds(w)
    /\ shown' = part[w]
    /\ SetUpdatedData
    /\ IF refresh = "none" THEN Begin("request") ELSE UNCHANGED pollVars
    /\ Forget(w)
    /\ UNCHANGED <<due, reportVars, connected, failures, deviceVars>>

\* The frames, which may name the field, are merged; no refresh is requested.
RawSucceeds(r) ==
    /\ Succeeds(r)
    /\ shown' \in {part[r], shown}
    /\ SetUpdatedData
    /\ UNCHANGED <<want, pollVars, due, reportVars, connected, failures, deviceVars>>

\* An expected error, or a cancellation, is only passed on.
CallFails(t) ==
    /\ Fails(t)
    /\ Forget(t)
    /\ UNCHANGED <<pollVars, timerVars, reportVars, telemetryVars, deviceVars>>

CallCancelled(t) ==
    /\ Client!GiveUp(t)
    /\ Forget(t)
    /\ UNCHANGED <<part, pollVars, timerVars, reportVars, telemetryVars, deviceVars>>

\* Mutant: every error is reported.
CallBreaksLoudly(t) ==
    /\ Fails(t)
    /\ \E error \in Expected \cup Unexpected : Report(t, error)
    /\ Forget(t)
    /\ UNCHANGED <<pollVars, timerVars, telemetryVars, deviceVars>>

CallBreaks(t) ==
    /\ Fails(t)
    /\ \E error \in Unexpected : Report(t, error)
    /\ Forget(t)
    /\ UNCHANGED <<pollVars, timerVars, telemetryVars, deviceVars>>

CallReported(t) ==
    /\ Reported(t)
    /\ UNCHANGED <<sessionVars, part, want, pollVars, timerVars, reported, telemetryVars, deviceVars>>

-------------------------------------------------------------------------------
(* The device                                                              *)

\* The frames of a poll and of a raw command carry the value of the moment.
DeviceAnswers(t) ==
    /\ t \notin Writers
    /\ Active(t)
    /\ part' = [part EXCEPT ![t] = dev]
    /\ UNCHANGED <<sessionVars, want, pollVars, timerVars, reportVars, telemetryVars, deviceVars>>

\* Device time: how many changes had been asked for.
DeviceSets(v, n) == dev' = [value |-> v, at |-> n]

\* The device obeys a write or rejects it, and acknowledges it either way.
DeviceHandles(w) ==
    /\ Active(w)
    /\ part[w] = None
    /\ DeviceSets(want[w], changes) \/ UNCHANGED dev
    /\ part' = [part EXCEPT ![w] = [value |-> want[w], at |-> dev'.at]]
    /\ UNCHANGED <<sessionVars, want, pollVars, timerVars, reportVars, telemetryVars, changes>>

\* A raw command or a button changes the device.
DeviceChanges ==
    /\ changes < MaxChanges
    /\ changes' = changes + 1
    /\ \E v \in Values : DeviceSets(v, changes + 1)
    /\ UNCHANGED <<sessionVars, part, want, pollVars, timerVars, reportVars, telemetryVars>>

-------------------------------------------------------------------------------

Next ==
    \/ TimerFires \/ ScheduledRefresh \/ RequestRefresh \/ CooldownEnds
    \/ PollStarts \/ PollSeesNothing \/ PollSucceeds \/ PollFails \/ PollBreaks
    \/ PollReported \/ PollCancelled
    \/ \E t \in Tasks : Granted(t) \/ DeviceAnswers(t)
    \/ \E t \in Callers :
          Call(t) \/ CallFails(t) \/ CallCancelled(t) \/ CallBreaks(t) \/ CallReported(t)
    \/ \E w \in Writers : WriteSucceeds(w) \/ DeviceHandles(w)
    \/ \E r \in Raws : RawSucceeds(r)
    \/ DeviceChanges

Spec == Init /\ [][Next]_vars

\* Timers fire, sessions are granted in turn and end (BleSession's
\* EveryCallReturns), the reporter returns (its requests have a timeout), and the
\* unit is often enough visible and answers often enough.
Fairness ==
    /\ WF_vars(TimerFires) /\ WF_vars(ScheduledRefresh) /\ WF_vars(CooldownEnds)
    /\ WF_vars(PollReported)
    /\ SF_vars(PollStarts) /\ SF_vars(DeviceAnswers(poll)) /\ SF_vars(PollSucceeds)
    /\ \A t \in Tasks : WF_vars(Granted(t))
    /\ \A t \in Callers : WF_vars(CallFails(t)) /\ WF_vars(CallReported(t))

FairSpec == Spec /\ Fairness

-------------------------------------------------------------------------------
(* Properties                                                              *)

\* Polling never stops: on every way out of a refresh, and whatever write or
\* raw command resets the timers meanwhile, another refresh is planned.
RefreshPlanned == refresh # "none" \/ due \/ scheduled

\* The telemetry never steps back in the time of the device: a poll that read
\* the field before a write does not overwrite what the write left.
NeverGoesBack == [][shown'.at >= shown.at]_vars

\* A unit that counts as connected is available and has no failure pending.
ConnectedIsConfirmed == connected => success /\ failures = 0

\* "the next poll cycle will correct it if the device rejected the command":
\* once nobody changes anything, the telemetry agrees with the device for good.
Corrected == <>[](shown.value = dev.value)

\* "routine BLE/Bluetooth failures must never reach the (opt-in) GitHub crash
\* reporter": bleak's own errors are such failures.
NoRoutineReports == "BleakError" \notin reported
===============================================================================
