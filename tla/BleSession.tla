------------------------------ MODULE BleSession ------------------------------
(***************************************************************************)
(* The BLE client of one Jackery unit                                      *)
(* (src/custom_components/jackery/ble_client.py).                          *)
(*                                                                         *)
(* Several asyncio tasks (the scheduled poll, entity writes, the raw       *)
(* command service) call async_run_session on one client.  A call takes    *)
(* the client's asyncio.Lock, connects, subscribes to the notify           *)
(* characteristic, writes its commands one after the other, waiting after  *)
(* each write until enough frames arrived, unsubscribes and disconnects.   *)
(* A step of the specification is what runs between two awaits.            *)
(*                                                                         *)
(* A frame is the number of the command that it answers, 0 for one the     *)
(* device sends by itself.  Since sessions are meant to exclude each other *)
(* the locals of _send_commands are one set of variables, reset when the   *)
(* call that owns them returns.                                            *)
(***************************************************************************)
EXTENDS Naturals, Sequences

CONSTANTS
    Tasks,                  \* the asyncio tasks that use the client
    NumCommands,            \* how many commands each task's call carries
    ResponsesPerCommand,    \* the argument of that name, 1 in every caller
    Foreign,                \* tasks whose commands come from a service call, which json may refuse
    MaxAnswers,             \* most frames the device sends in answer to a command
    MaxFrames,              \* bound: most frames the device sends in a session
    Chatty                  \* whether the device sends frames nobody asked for

ASSUME ClientAssumption ==
    /\ NumCommands \in [Tasks -> Nat]
    /\ ResponsesPerCommand \in Nat
    /\ Foreign \subseteq Tasks
    /\ MaxAnswers \in Nat
    /\ MaxFrames \in Nat
    /\ Chatty \in BOOLEAN

VARIABLES
    pc,         \* the await each task's call is suspended at
    locked,     \* asyncio.Lock._locked of self._lock
    ahead,      \* the waiters of self._lock that queued before each waiter
    link,       \* the GATT connection
    notifying,  \* whether notifications reach _on_notify
    air,        \* frames the device has sent and that are not delivered yet
    collected,  \* the local of that name
    target,     \* the local target_count
    index,      \* number of the command being sent, 0 before the first
    heard,      \* number of the last command the device received
    event,      \* whether frame_event is set
    outcome     \* how each task's last call ended

lockVars == <<locked, ahead>>
sendVars == <<collected, target, index, heard, event>>
radioVars == <<link, notifying, air>>
vars == <<pc, lockVars, radioVars, sendVars, outcome>>

\* start_notify and write_gatt_char raise bleak's own error or an OS error.
TransportErrors == {"BleakError", "OSError"}
Outcomes == TransportErrors \cup
    {"none", "ok", "JackeryConnectionError", "JackeryCommandTimeoutError",
     "TypeError", "CancelledError"}

Subscribed == {"writing", "waiting", "unsubscribing"}
Connected == Subscribed \cup {"subscribing", "disconnecting"}
Holding == Connected \cup {"connecting"}

Owners == {t \in Tasks : pc[t] \in Holding}
Waiters == {t \in Tasks : pc[t] = "queued"}
Room(n) == Len(collected) + Len(air) + n <= MaxFrames

TypeOK ==
    /\ pc \in [Tasks -> Holding \cup {"idle", "queued"}]
    /\ locked \in BOOLEAN
    /\ ahead \in [Tasks -> SUBSET Tasks]
    /\ link \in {"down", "up", "lost", "stuck"}
    /\ notifying \in BOOLEAN
    /\ air \in Seq(Nat)
    /\ collected \in Seq(Nat)
    /\ target \in Nat
    /\ index \in Nat
    /\ heard \in Nat
    /\ event \in BOOLEAN
    /\ outcome \in [Tasks -> Outcomes]

Init ==
    /\ pc = [t \in Tasks |-> "idle"]
    /\ locked = FALSE
    /\ ahead = [t \in Tasks |-> {}]
    /\ link = "down"
    /\ notifying = FALSE
    /\ air = <<>>
    /\ collected = <<>>
    /\ target = 0
    /\ index = 0
    /\ heard = 0
    /\ event = FALSE
    /\ outcome = [t \in Tasks |-> "none"]

Goto(t, where) == pc' = [pc EXCEPT ![t] = where]
Ends(t, how) == outcome' = [outcome EXCEPT ![t] = how]
LeaveQueue(t) == ahead' = [u \in Tasks |-> IF u = t THEN {} ELSE ahead[u] \ {t}]

-------------------------------------------------------------------------------
(* The lock                                                                *)

\* Mutant: the fast path overtakes those who wait.
RequestServedBarging(t) ==
    /\ pc[t] = "idle"
    /\ ~locked
    /\ locked' = TRUE
    /\ Goto(t, "connecting")
    /\ Ends(t, "none")
    /\ UNCHANGED <<ahead, radioVars, sendVars>>

\* asyncio.Lock.acquire takes a free lock nobody waits for without suspending.
RequestServed(t) ==
    /\ pc[t] = "idle"
    /\ ~locked
    /\ Waiters = {}
    /\ locked' = TRUE
    /\ Goto(t, "connecting")
    /\ Ends(t, "none")
    /\ UNCHANGED <<ahead, radioVars, sendVars>>

\* Otherwise the caller queues behind the present waiters.
RequestQueued(t) ==
    /\ pc[t] = "idle"
    /\ locked \/ Waiters # {}
    /\ ahead' = [ahead EXCEPT ![t] = Waiters]
    /\ Goto(t, "queued")
    /\ Ends(t, "none")
    /\ UNCHANGED <<locked, radioVars, sendVars>>

\* release wakes the first waiter, which then takes the lock.
Acquire(t) ==
    /\ pc[t] = "queued"
    /\ ~locked
    /\ ahead[t] = {}
    /\ locked' = TRUE
    /\ LeaveQueue(t)
    /\ Goto(t, "connecting")
    /\ UNCHANGED <<radioVars, sendVars, outcome>>

CancelQueued(t) ==
    /\ pc[t] = "queued"
    /\ LeaveQueue(t)
    /\ Goto(t, "idle")
    /\ Ends(t, "CancelledError")
    /\ UNCHANGED <<locked, radioVars, sendVars>>

\* Mutant: the list of frames outlives the session.
ReleaseKeepingFrames(t) ==
    /\ Goto(t, "idle")
    /\ locked' = FALSE
    /\ notifying' = FALSE
    /\ event' = FALSE
    /\ air' = <<>>
    /\ target' = 0
    /\ index' = 0
    /\ heard' = 0
    /\ UNCHANGED <<ahead, collected>>

\* The call returns or raises: the lock is released and the locals are gone.
Release(t) ==
    /\ Goto(t, "idle")
    /\ locked' = FALSE
    /\ notifying' = FALSE
    /\ air' = <<>>
    /\ collected' = <<>>
    /\ target' = 0
    /\ index' = 0
    /\ heard' = 0
    /\ event' = FALSE
    /\ UNCHANGED ahead

-------------------------------------------------------------------------------
(* Connecting and subscribing                                              *)

\* From the start_notify call on, notifications can reach _on_notify.
ConnectReturns(t) ==
    /\ pc[t] = "connecting"
    /\ link' = "up"
    /\ notifying' = TRUE
    /\ Goto(t, "subscribing")
    /\ UNCHANGED <<lockVars, air, sendVars, outcome>>

\* Mutant: an acquire and release by hand, without a finally.
ConnectFailsLocked(t) ==
    /\ pc[t] = "connecting"
    /\ Goto(t, "idle")
    /\ Ends(t, "JackeryConnectionError")
    /\ UNCHANGED <<lockVars, radioVars, sendVars>>

\* Mutant: a timeout of the connection is not wrapped.
ConnectFailsUnwrapped(t) ==
    /\ pc[t] = "connecting"
    /\ Release(t)
    /\ \E how \in {"TimeoutError", "JackeryConnectionError"} : Ends(t, how)
    /\ UNCHANGED link

\* A timeout and every other exception become a JackeryConnectionError.
ConnectFails(t) ==
    /\ pc[t] = "connecting"
    /\ Release(t)
    /\ Ends(t, "JackeryConnectionError")
    /\ UNCHANGED link

CancelConnecting(t) ==
    /\ pc[t] = "connecting"
    /\ Release(t)
    /\ Ends(t, "CancelledError")
    /\ UNCHANGED link

\* The command loop is left, for its end or an exception: stop_notify is next.
LeaveLoop(t, how) ==
    /\ Goto(t, "unsubscribing")
    /\ Ends(t, how)
    /\ UNCHANGED <<target, index>>

\* Mutant: the target does not count the frames already collected.
NextCommandFixedTarget(t) ==
    \/ /\ index = NumCommands[t]
       /\ LeaveLoop(t, "ok")
    \/ /\ index < NumCommands[t]
       /\ index' = index + 1
       /\ target' = ResponsesPerCommand
       /\ Goto(t, "writing")
       /\ UNCHANGED outcome

\* The head of the command loop.
NextCommand(t) ==
    \/ /\ index = NumCommands[t]
       /\ LeaveLoop(t, "ok")
    \/ /\ index < NumCommands[t]
       /\ t \in Foreign
       /\ LeaveLoop(t, "TypeError")
    \/ /\ index < NumCommands[t]
       /\ index' = index + 1
       /\ target' = Len(collected) + ResponsesPerCommand
       /\ Goto(t, "writing")
       /\ UNCHANGED outcome

SubscribeReturns(t) ==
    /\ pc[t] = "subscribing"
    /\ NextCommand(t)
    /\ UNCHANGED <<lockVars, radioVars, collected, heard, event>>

\* Mutant: start_notify is called before the try that disconnects.
SubscribeFailsLeaking(t) ==
    /\ pc[t] = "subscribing"
    /\ Release(t)
    /\ \E how \in TransportErrors : Ends(t, how)
    /\ UNCHANGED link

\* start_notify is called outside the inner try: there is no stop_notify.
SubscribeFails(t) ==
    /\ pc[t] = "subscribing"
    /\ Goto(t, "disconnecting")
    /\ \E how \in TransportErrors \cup {"CancelledError"} : Ends(t, how)
    /\ UNCHANGED <<lockVars, radioVars, sendVars>>

-------------------------------------------------------------------------------
(* Writing a command and waiting for its frames                            *)

\* Mutant: the loop waits before it looks.
CheckAnswersAfterWait(t) ==
    \/ /\ pc[t] = "waiting"
       /\ Len(collected) >= target
       /\ NextCommand(t)
    \/ /\ pc[t] = "writing" \/ Len(collected) < target
       /\ Goto(t, "waiting")
       /\ UNCHANGED <<target, index, outcome>>

\* The condition of the inner while loop.
CheckAnswers(t) ==
    \/ /\ Len(collected) >= target
       /\ NextCommand(t)
    \/ /\ Len(collected) < target
       /\ Goto(t, "waiting")
       /\ UNCHANGED <<target, index, outcome>>

\* The write is acknowledged only when the device has received the command.
WriteReturns(t) ==
    /\ pc[t] = "writing"
    /\ heard = index
    /\ event' = FALSE
    /\ CheckAnswers(t)
    /\ UNCHANGED <<lockVars, radioVars, collected, heard>>

\* The exception is not wrapped.  The device may have received the command.
WriteFails(t) ==
    /\ pc[t] = "writing"
    /\ \E how \in TransportErrors \cup {"CancelledError"} : LeaveLoop(t, how)
    /\ UNCHANGED <<lockVars, radioVars, collected, heard, event>>

Wake(t) ==
    /\ pc[t] = "waiting"
    /\ event
    /\ event' = FALSE
    /\ CheckAnswers(t)
    /\ UNCHANGED <<lockVars, radioVars, collected, heard>>

\* Mutant: a command that times out is skipped.
CommandTimeoutSkips(t) ==
    /\ pc[t] = "waiting"
    /\ NextCommand(t)
    /\ UNCHANGED <<lockVars, radioVars, collected, heard, event>>

\* asyncio.timeout cancels the wait, even one whose event was just set.
CommandTimeout(t) ==
    /\ pc[t] = "waiting"
    /\ LeaveLoop(t, "JackeryCommandTimeoutError")
    /\ UNCHANGED <<lockVars, radioVars, collected, heard, event>>

CancelWaiting(t) ==
    /\ pc[t] = "waiting"
    /\ LeaveLoop(t, "CancelledError")
    /\ UNCHANGED <<lockVars, radioVars, collected, heard, event>>

-------------------------------------------------------------------------------
(* Cleaning up                                                             *)

\* Mutant: the lock covers the exchange but not the disconnection.
StopNotifyReturnsUnlocked(t) ==
    /\ pc[t] = "unsubscribing"
    /\ notifying' = FALSE
    /\ locked' = FALSE
    /\ Goto(t, "disconnecting")
    /\ UNCHANGED <<ahead, link, air, sendVars, outcome>>

StopNotifyReturns(t) ==
    /\ pc[t] = "unsubscribing"
    /\ notifying' = FALSE
    /\ Goto(t, "disconnecting")
    /\ UNCHANGED <<lockVars, link, air, sendVars, outcome>>

\* An error is ignored; a cancellation is not, but still disconnects.
StopNotifyFails(t) ==
    /\ pc[t] = "unsubscribing"
    /\ Goto(t, "disconnecting")
    /\ UNCHANGED outcome \/ Ends(t, "CancelledError")
    /\ UNCHANGED <<lockVars, radioVars, sendVars>>

DisconnectReturns(t) ==
    /\ pc[t] = "disconnecting"
    /\ link' = "down"
    /\ Release(t)
    /\ UNCHANGED outcome

\* The same for disconnect, after which the connection may linger.
DisconnectFails(t) ==
    /\ pc[t] = "disconnecting"
    /\ link' = IF link = "up" THEN "stuck" ELSE "down"
    /\ Release(t)
    /\ UNCHANGED outcome \/ Ends(t, "CancelledError")

-------------------------------------------------------------------------------
(* The device and the radio                                                *)

\* The device receives the command being written and sends some answers.
DeviceReceives(t) ==
    /\ pc[t] = "writing"
    /\ link = "up"
    /\ heard < index
    /\ heard' = index
    /\ \E n \in 0..MaxAnswers :
          Room(n) /\ air' = air \o [i \in 1..n |-> index]
    /\ UNCHANGED <<pc, lockVars, link, notifying, collected, target, index, event, outcome>>

DevicePush ==
    /\ Chatty
    /\ link = "up"
    /\ notifying
    /\ Room(1)
    /\ air' = Append(air, 0)
    /\ UNCHANGED <<pc, lockVars, link, notifying, sendVars, outcome>>

\* _on_notify: a notification completes one frame or several.
Notify ==
    /\ notifying
    /\ \E n \in 1..Len(air) :
          /\ collected' = collected \o SubSeq(air, 1, n)
          /\ air' = SubSeq(air, n + 1, Len(air))
    /\ event' = TRUE
    /\ UNCHANGED <<pc, lockVars, link, notifying, target, index, heard, outcome>>

\* The connection drops; no await of the session is told.
LinkLost ==
    /\ link = "up"
    /\ link' = "lost"
    /\ air' = <<>>
    /\ UNCHANGED <<pc, lockVars, notifying, sendVars, outcome>>

-------------------------------------------------------------------------------

\* What a task does by itself once the lock is its own: every await completes.
Proceed(t) ==
    \/ ConnectReturns(t) \/ ConnectFails(t)
    \/ SubscribeReturns(t) \/ SubscribeFails(t)
    \/ WriteReturns(t) \/ WriteFails(t) \/ Wake(t) \/ CommandTimeout(t)
    \/ StopNotifyReturns(t) \/ StopNotifyFails(t)
    \/ DisconnectReturns(t) \/ DisconnectFails(t)

Next ==
    \/ \E t \in Tasks :
          \/ RequestServed(t) \/ RequestQueued(t) \/ Acquire(t)
          \/ Proceed(t)
          \/ CancelQueued(t) \/ CancelConnecting(t) \/ CancelWaiting(t)
          \/ DeviceReceives(t)
    \/ DevicePush \/ Notify \/ LinkLost

Spec == Init /\ [][Next]_vars

\* The event loop resumes a task whose await completed, and every await of bleak
\* returns or raises in the end.
Fairness == \A t \in Tasks : WF_vars(Acquire(t)) /\ WF_vars(Proceed(t))

FairSpec == Spec /\ Fairness

-------------------------------------------------------------------------------
(* Properties                                                              *)

\* Sessions never overlap, and self._lock is held exactly while one runs, on
\* every way out of async_run_session.
OneSession ==
    /\ \A s, t \in Owners : s = t
    /\ locked <=> Owners # {}

\* A task that waits for frame_event although its frames have all arrived has
\* its wake-up pending: clear() never swallows the set() it depends on.
NoLostWakeup ==
    \A t \in Tasks :
        pc[t] = "waiting" /\ Len(collected) >= target => event

\* A session that is about to return normally collected enough frames for all
\* of its commands, whichever frames arrived during which await.
OkMeansAnswered ==
    \A t \in Owners :
        outcome[t] = "ok" => Len(collected) >= NumCommands[t] * ResponsesPerCommand

\* Commands reach the device in order, none skipped or repeated, and none before
\* enough frames for those preceding it arrived.
CommandsInOrder ==
    [][heard' > heard =>
          /\ heard' = heard + 1
          /\ Len(collected) >= heard * ResponsesPerCommand]_vars

\* Where the command loop of the running session is: what makes the properties
\* above hold from one step to the next.
Started == {t \in Tasks : pc[t] \in {"writing", "waiting", "unsubscribing", "disconnecting"}}

AtCommand(t) ==
    /\ index \in 1..NumCommands[t]
    /\ target >= index * ResponsesPerCommand
    /\ target <= Len(collected) + ResponsesPerCommand
    /\ \/ heard = index
       \/ pc[t] = "writing" /\ heard + 1 = index

Position ==
    /\ Started = {} => index = 0 /\ heard = 0
    /\ \A t \in Tasks : pc[t] \in {"writing", "waiting"} => AtCommand(t)
    /\ \A t \in Tasks :
          outcome[t] = "ok" => pc[t] \in {"idle", "unsubscribing", "disconnecting"}
    /\ OkMeansAnswered

\* No way out of a session forgets a live connection: between sessions, and
\* until the next one has connected, the client has none it did not try to close.
LinkClosed == link = "up" => \E t \in Tasks : pc[t] \in Connected

\* A device that only answers, at most once each, makes a session that returns
\* normally collect the answer of each command, in order, and nothing else.
AnswersMatch ==
    \A t \in Owners :
        outcome[t] = "ok" => collected = [i \in 1..NumCommands[t] |-> i]

\* Every call of async_run_session returns or raises: no caller waits for ever
\* for the lock, for an answer, or for the cleanup.
EveryCallReturns == \A t \in Tasks : pc[t] # "idle" ~> pc[t] = "idle"

\* The client implements a service that hands out sessions one at a time, in the
\* order of the callers.
Stage(t) ==
    CASE pc[t] = "idle" -> "idle"
      [] pc[t] = "queued" -> "queued"
      [] OTHER -> "active"

Verdict(t) ==
    IF pc[t] # "idle" \/ outcome[t] = "none" THEN "none"
    ELSE IF outcome[t] = "ok" THEN "ok" ELSE "failed"

Sessions == INSTANCE SerialSessions WITH
    Need <- [t \in Tasks |-> NumCommands[t] * ResponsesPerCommand],
    stage <- [t \in Tasks |-> Stage(t)],
    got <- Len(collected),
    verdict <- [t \in Tasks |-> Verdict(t)]

ServesSessions == Sessions!Spec
===============================================================================
