--------------------------- MODULE BleSessionProofs ---------------------------
(***************************************************************************)
(* What holds of BleSession for every set of tasks, every number of        *)
(* commands and every device.                                              *)
(***************************************************************************)
EXTENDS BleSession, TLAPS

USE ClientAssumption

\* The Boolean variables and the others, which different provers handle.
Flags == locked \in BOOLEAN /\ notifying \in BOOLEAN /\ event \in BOOLEAN

Data ==
    /\ pc \in [Tasks -> Holding \cup {"idle", "queued"}]
    /\ ahead \in [Tasks -> SUBSET Tasks]
    /\ link \in {"down", "up", "lost", "stuck"}
    /\ air \in Seq(Nat)
    /\ collected \in Seq(Nat)
    /\ target \in Nat
    /\ index \in Nat
    /\ heard \in Nat
    /\ outcome \in [Tasks -> Outcomes]

LEMMA TypeParts == TypeOK <=> Flags /\ Data
BY Zenon DEF TypeOK, Flags, Data

LEMMA TypeInitial == Init => Flags /\ Data
<1>1. Init => Flags
  BY Zenon DEF Init, Flags
<1>2. Init => Data
  BY DEF Init, Data, Outcomes, TransportErrors, Holding, Connected, Subscribed
<1>. QED
  BY <1>1, <1>2

LEMMA FlagsStep == Flags /\ [Next]_vars => Flags'
<1>. SUFFICES ASSUME Flags, [Next]_vars PROVE Flags'
  OBVIOUS
<1>. USE DEF Flags, lockVars, sendVars, radioVars
<1>1. ASSUME NEW t \in Tasks,
             \/ RequestServed(t) \/ RequestQueued(t) \/ Acquire(t) \/ CancelQueued(t)
             \/ ConnectReturns(t) \/ ConnectFails(t) \/ CancelConnecting(t)
             \/ SubscribeReturns(t) \/ SubscribeFails(t)
      PROVE Flags'
  BY <1>1, Zenon DEF RequestServed, RequestQueued, Acquire, CancelQueued, Release,
     ConnectReturns, ConnectFails, CancelConnecting, SubscribeReturns, SubscribeFails
<1>2. ASSUME NEW t \in Tasks,
             \/ WriteReturns(t) \/ WriteFails(t) \/ Wake(t) \/ CommandTimeout(t)
             \/ CancelWaiting(t) \/ StopNotifyReturns(t) \/ StopNotifyFails(t)
             \/ DisconnectReturns(t) \/ DisconnectFails(t) \/ DeviceReceives(t)
      PROVE Flags'
  BY <1>2, Zenon DEF WriteReturns, WriteFails, Wake, CommandTimeout, CancelWaiting,
     StopNotifyReturns, StopNotifyFails, DisconnectReturns, DisconnectFails, Release,
     DeviceReceives
<1>3. CASE DevicePush \/ Notify \/ LinkLost
  BY <1>3, Zenon DEF DevicePush, Notify, LinkLost
<1>4. CASE UNCHANGED vars
  BY <1>4, Zenon DEF vars
<1>. QED
  BY <1>1, <1>2, <1>3, <1>4, Zenon DEF Next, Proceed

\* What the head of the command loop changes keeps its type.
LEMMA NextCommandType ==
    ASSUME Data, NEW t \in Tasks, NextCommand(t)
    PROVE  /\ pc' \in [Tasks -> Holding \cup {"idle", "queued"}]
           /\ outcome' \in [Tasks -> Outcomes]
           /\ index' \in Nat
           /\ target' \in Nat
<1>. USE DEF Data, Goto, Ends, LeaveLoop, Holding, Connected, Subscribed, Outcomes
<1>1. CASE index = NumCommands[t] /\ LeaveLoop(t, "ok")
  BY <1>1
<1>2. CASE LeaveLoop(t, "TypeError")
  BY <1>2
<1>3. CASE /\ index < NumCommands[t]
           /\ index' = index + 1
           /\ target' = Len(collected) + ResponsesPerCommand
           /\ Goto(t, "writing")
           /\ UNCHANGED outcome
  <2>1. Len(collected) \in Nat
    OBVIOUS
  <2>. QED
    BY <1>3, <2>1
<1>. QED
  BY <1>1, <1>2, <1>3 DEF NextCommand

LEMMA DataStep == Data /\ [Next]_vars => Data'
<1>. SUFFICES ASSUME Data, [Next]_vars PROVE Data'
  OBVIOUS
<1>. USE DEF Data, Goto, Ends, Release, LeaveQueue, LeaveLoop, lockVars, sendVars, radioVars,
         Holding, Connected, Subscribed, Outcomes, TransportErrors
<1>1. ASSUME NEW t \in Tasks, RequestServed(t) PROVE Data'
  BY <1>1 DEF RequestServed
<1>2. ASSUME NEW t \in Tasks, RequestQueued(t) PROVE Data'
  BY <1>2 DEF RequestQueued, Waiters
<1>3. ASSUME NEW t \in Tasks, Acquire(t) PROVE Data'
  BY <1>3 DEF Acquire
<1>4. ASSUME NEW t \in Tasks, CancelQueued(t) PROVE Data'
  BY <1>4 DEF CancelQueued
<1>5. ASSUME NEW t \in Tasks, ConnectReturns(t) PROVE Data'
  BY <1>5 DEF ConnectReturns
<1>6. ASSUME NEW t \in Tasks, ConnectFails(t) PROVE Data'
  BY <1>6 DEF ConnectFails
<1>7. ASSUME NEW t \in Tasks, CancelConnecting(t) PROVE Data'
  BY <1>7 DEF CancelConnecting
<1>8. ASSUME NEW t \in Tasks, SubscribeReturns(t) PROVE Data'
  BY <1>8, NextCommandType DEF SubscribeReturns
<1>9. ASSUME NEW t \in Tasks, SubscribeFails(t) PROVE Data'
  BY <1>9 DEF SubscribeFails
<1>10. ASSUME NEW t \in Tasks, WriteReturns(t) PROVE Data'
  <2>1. CASE NextCommand(t)
    BY <1>10, <2>1, NextCommandType DEF WriteReturns
  <2>2. CASE Goto(t, "waiting") /\ UNCHANGED <<target, index, outcome>>
    BY <1>10, <2>2 DEF WriteReturns
  <2>. QED
    BY <1>10, <2>1, <2>2, Zenon DEF WriteReturns, CheckAnswers
<1>11. ASSUME NEW t \in Tasks, WriteFails(t) PROVE Data'
  BY <1>11 DEF WriteFails
<1>12. ASSUME NEW t \in Tasks, Wake(t) PROVE Data'
  <2>1. CASE NextCommand(t)
    BY <1>12, <2>1, NextCommandType DEF Wake
  <2>2. CASE Goto(t, "waiting") /\ UNCHANGED <<target, index, outcome>>
    BY <1>12, <2>2 DEF Wake
  <2>. QED
    BY <1>12, <2>1, <2>2, Zenon DEF Wake, CheckAnswers
<1>13. ASSUME NEW t \in Tasks, CommandTimeout(t) PROVE Data'
  BY <1>13 DEF CommandTimeout
<1>14. ASSUME NEW t \in Tasks, CancelWaiting(t) PROVE Data'
  BY <1>14 DEF CancelWaiting
<1>15. ASSUME NEW t \in Tasks, StopNotifyReturns(t) PROVE Data'
  BY <1>15 DEF StopNotifyReturns
<1>16. ASSUME NEW t \in Tasks, StopNotifyFails(t) PROVE Data'
  BY <1>16 DEF StopNotifyFails
<1>17. ASSUME NEW t \in Tasks, DisconnectReturns(t) PROVE Data'
  BY <1>17 DEF DisconnectReturns
<1>18. ASSUME NEW t \in Tasks, DisconnectFails(t) PROVE Data'
  <2>1. link' \in {"down", "up", "lost", "stuck"}
    BY <1>18 DEF DisconnectFails
  <2>2. outcome' \in [Tasks -> Outcomes]
    BY <1>18 DEF DisconnectFails
  <2>3. Release(t)
    BY <1>18, Zenon DEF DisconnectFails
  <2>. QED
    BY <2>1, <2>2, <2>3
<1>19. ASSUME NEW t \in Tasks, DeviceReceives(t) PROVE Data'
  <2>1. PICK n \in 0..MaxAnswers : air' = air \o [i \in 1..n |-> index]
    BY <1>19 DEF DeviceReceives
  <2>2. air' \in Seq(Nat)
    BY <2>1
  <2>. QED
    BY <1>19, <2>2 DEF DeviceReceives
<1>20. CASE DevicePush
  BY <1>20 DEF DevicePush
<1>21. CASE Notify
  BY <1>21, SMTT(30) DEF Notify
<1>22. CASE LinkLost
  BY <1>22 DEF LinkLost
<1>23. CASE UNCHANGED vars
  BY <1>23 DEF vars
<1>. QED
  BY <1>1, <1>2, <1>3, <1>4, <1>5, <1>6, <1>7, <1>8, <1>9, <1>10, <1>11, <1>12, <1>13,
     <1>14, <1>15, <1>16, <1>17, <1>18, <1>19, <1>20, <1>21, <1>22, <1>23, Zenon
  DEF Next, Proceed

\* The variables keep their types, for every device and every set of tasks.
THEOREM TypeCorrect == Spec => []TypeOK
BY TypeInitial, TypeParts, FlagsStep, DataStep, PTL DEF Spec

-------------------------------------------------------------------------------
(* Sessions exclude each other                                             *)

\* The three ways in which a step moves the ownership of the lock.
Enters(t) == ~locked /\ locked' = TRUE /\ Owners' = Owners \cup {t}
Leaves(t) == t \in Owners /\ locked' = FALSE /\ Owners' = Owners \ {t}
Stays == locked' = locked /\ Owners' = Owners

\* A task that goes from one place to another changes Owners accordingly.
LEMMA GotoOwners ==
    ASSUME Data, NEW t \in Tasks, NEW where, Goto(t, where)
    PROVE  Owners' = IF where \in Holding THEN Owners \cup {t} ELSE Owners \ {t}
BY DEF Data, Goto, Owners

LEMMA EveryStepMovesOwnership ==
    ASSUME Data, [Next]_vars
    PROVE  Stays \/ \E t \in Tasks : Enters(t) \/ Leaves(t)
<1>. USE DEF lockVars, radioVars, sendVars
<1>. DEFINE Moves == Stays \/ \E t \in Tasks : Enters(t) \/ Leaves(t)
<1>1. ASSUME NEW t \in Tasks, RequestServed(t) \/ Acquire(t) PROVE Moves
  <2>1. Goto(t, "connecting") /\ ~locked /\ locked' = TRUE
    BY <1>1, Zenon DEF RequestServed, Acquire
  <2>2. Enters(t)
    BY <2>1, GotoOwners DEF Enters, Holding
  <2>. QED
    BY <2>2, Zenon
<1>2. ASSUME NEW t \in Tasks, RequestQueued(t) \/ CancelQueued(t) PROVE Moves
  <2>1. \/ Goto(t, "queued")
        \/ Goto(t, "idle")
    BY <1>2, Zenon DEF RequestQueued, CancelQueued
  <2>2. locked' = locked
    BY <1>2, Zenon DEF RequestQueued, CancelQueued
  <2>3. t \notin Owners
    BY <1>2 DEF RequestQueued, CancelQueued, Owners, Holding, Connected, Subscribed
  <2>4. Owners' = Owners
    BY <2>1, <2>3, GotoOwners DEF Holding, Connected, Subscribed
  <2>. QED
    BY <2>2, <2>4, Zenon DEF Stays
<1>3. ASSUME NEW t \in Tasks,
             \/ ConnectFails(t) \/ CancelConnecting(t)
             \/ DisconnectReturns(t) \/ DisconnectFails(t)
      PROVE Moves
  <2>1. Goto(t, "idle") /\ locked' = FALSE
    BY <1>3, Zenon DEF ConnectFails, CancelConnecting, DisconnectReturns, DisconnectFails, Release
  <2>2. pc[t] = "connecting" \/ pc[t] = "disconnecting"
    BY <1>3, Zenon DEF ConnectFails, CancelConnecting, DisconnectReturns, DisconnectFails
  <2>3. t \in Owners
    BY <2>2 DEF Owners, Holding, Connected
  <2>4. Owners' = Owners \ {t}
    BY <2>1, GotoOwners DEF Holding, Connected, Subscribed
  <2>. QED
    BY <2>1, <2>3, <2>4, Zenon DEF Leaves
<1>4. ASSUME NEW t \in Tasks,
             \/ ConnectReturns(t) \/ SubscribeReturns(t) \/ SubscribeFails(t)
             \/ WriteReturns(t) \/ WriteFails(t) \/ Wake(t) \/ CommandTimeout(t)
             \/ CancelWaiting(t) \/ StopNotifyReturns(t) \/ StopNotifyFails(t)
      PROVE Moves
  <2>1. \E where \in Holding : Goto(t, where)
    <3>1. \/ Goto(t, "subscribing") \/ Goto(t, "writing") \/ Goto(t, "waiting")
          \/ Goto(t, "unsubscribing") \/ Goto(t, "disconnecting")
      BY <1>4, Zenon DEF ConnectReturns, SubscribeReturns, SubscribeFails, WriteReturns,
         WriteFails, Wake, CommandTimeout, CancelWaiting, StopNotifyReturns, StopNotifyFails,
         CheckAnswers, NextCommand, LeaveLoop
    <3>. QED
      BY <3>1 DEF Holding, Connected, Subscribed
  <2>2. locked' = locked
    BY <1>4, Zenon DEF ConnectReturns, SubscribeReturns, SubscribeFails, WriteReturns,
       WriteFails, Wake, CommandTimeout, CancelWaiting, StopNotifyReturns, StopNotifyFails
  <2>3. pc[t] \in Connected \cup {"connecting"}
    BY <1>4 DEF ConnectReturns, SubscribeReturns, SubscribeFails, WriteReturns,
       WriteFails, Wake, CommandTimeout, CancelWaiting, StopNotifyReturns, StopNotifyFails,
       Connected, Subscribed
  <2>4. t \in Owners
    BY <2>3 DEF Owners, Holding
  <2>5. Owners' = Owners
    BY <2>1, <2>4, GotoOwners
  <2>. QED
    BY <2>2, <2>5, Zenon DEF Stays
<1>5. CASE \/ \E t \in Tasks : DeviceReceives(t)
           \/ DevicePush \/ Notify \/ LinkLost \/ UNCHANGED vars
  <2>1. pc' = pc /\ locked' = locked
    BY <1>5, Zenon DEF DeviceReceives, DevicePush, Notify, LinkLost, vars
  <2>2. Owners' = Owners
    BY <2>1 DEF Owners
  <2>. QED
    BY <2>1, <2>2, Zenon DEF Stays
<1>. QED
  BY <1>1, <1>2, <1>3, <1>4, <1>5, Zenon DEF Next, Proceed

LEMMA OneSessionStep ==
    ASSUME Data, OneSession, [Next]_vars
    PROVE  OneSession'
<1>1. ASSUME NEW t \in Tasks, Enters(t) PROVE OneSession'
  BY <1>1, Zenon DEF OneSession, Enters
<1>2. ASSUME NEW t \in Tasks, Leaves(t) PROVE OneSession'
  BY <1>2, Zenon DEF OneSession, Leaves
<1>3. CASE Stays
  BY <1>3, Zenon DEF OneSession, Stays
<1>. QED
  BY <1>1, <1>2, <1>3, EveryStepMovesOwnership, Zenon

\* Sessions of one client never overlap, whatever the number of tasks, the
\* order of the calls, the failures and the cancellations.
THEOREM SessionsExclude == Spec => []OneSession
<1>1. Init => OneSession
  BY DEF Init, OneSession, Owners, Holding, Connected, Subscribed
<1>. QED
  BY <1>1, TypeInitial, DataStep, OneSessionStep, PTL DEF Spec

-------------------------------------------------------------------------------
(* Answers                                                                 *)

\* Only the task t is in a session.
Alone(t) == \A u \in Tasks : u # t => pc[u] \in {"idle", "queued"}

LEMMA OwnerAlone ==
    ASSUME Data, OneSession, NEW t \in Owners
    PROVE  Alone(t)
BY DEF Data, OneSession, Owners, Alone

\* One more command needs ResponsesPerCommand more frames.
LEMMA Frames ==
    ASSUME NEW i \in Nat
    PROVE  /\ (i + 1) * ResponsesPerCommand = i * ResponsesPerCommand + ResponsesPerCommand
           /\ i * ResponsesPerCommand \in Nat
           /\ 0 * ResponsesPerCommand = 0
BY SMTT(30)

\* The head of the loop, reached with enough frames for the commands so far.
LEMMA NextCommandPosition ==
    ASSUME Data, Position, NEW t \in Tasks, Alone(t), outcome[t] # "ok",
           index \in 0..NumCommands[t], heard = index,
           Len(collected) >= index * ResponsesPerCommand,
           NextCommand(t), collected' = collected, heard' = heard
    PROVE  Position'
<1>. USE DEF Data, Goto, Ends
<1>1. ASSUME NEW how \in {"ok", "TypeError"}, LeaveLoop(t, how),
             how = "ok" => index = NumCommands[t]
      PROVE Position'
  <2>1. /\ pc' = [pc EXCEPT ![t] = "unsubscribing"]
        /\ outcome' = [outcome EXCEPT ![t] = how]
    BY <1>1 DEF LeaveLoop
  <2>2. t \in Started'
    BY <2>1 DEF Started
  <2>3. \A u \in Tasks : pc'[u] \notin {"writing", "waiting"}
    BY <2>1 DEF Alone
  <2>4. \A u \in Tasks :
            outcome'[u] = "ok" => pc'[u] \in {"idle", "unsubscribing", "disconnecting"}
    BY <2>1 DEF Position
  <2>5. OkMeansAnswered'
    <3>1. \A u \in Tasks : u # t => u \notin Owners'
      BY <2>1 DEF Alone, Owners, Holding, Connected, Subscribed
    <3>2. outcome'[t] = "ok" => Len(collected') >= NumCommands[t] * ResponsesPerCommand
      BY <1>1, <2>1
    <3>. QED
      BY <3>1, <3>2 DEF OkMeansAnswered, Owners
  <2>. QED
    BY <2>2, <2>3, <2>4, <2>5 DEF Position
<1>2. CASE /\ index < NumCommands[t]
           /\ index' = index + 1
           /\ target' = Len(collected) + ResponsesPerCommand
           /\ Goto(t, "writing")
           /\ UNCHANGED outcome
  <2>1. t \in Started'
    BY <1>2 DEF Started
  <2>2. AtCommand(t)'
    <3>1. index' \in 1..NumCommands[t]
      BY <1>2
    <3>2. target' >= index' * ResponsesPerCommand
      BY <1>2, Frames
    <3>3. heard' + 1 = index' /\ pc'[t] = "writing"
      BY <1>2
    <3>4. target' <= Len(collected') + ResponsesPerCommand
      BY <1>2
    <3>. QED
      BY <3>1, <3>2, <3>3, <3>4 DEF AtCommand
  <2>3. \A u \in Tasks : u # t => pc'[u] \in {"idle", "queued"}
    BY <1>2 DEF Alone
  <2>4. \A u \in Tasks :
            outcome'[u] = "ok" => pc'[u] \in {"idle", "unsubscribing", "disconnecting"}
    BY <1>2 DEF Position
  <2>5. OkMeansAnswered'
    BY <1>2, <2>3 DEF OkMeansAnswered, Owners, Holding, Connected, Subscribed
  <2>. QED
    BY <2>1, <2>2, <2>3, <2>4, <2>5 DEF Position
<1>. QED
  BY <1>1, <1>2 DEF NextCommand

\* A step of t that keeps the locals and is not at the head of the loop.
LEMMA MovePosition ==
    ASSUME Data, Position, NEW t \in Owners, Alone(t), NEW where, Goto(t, where),
           collected' = collected, target' = target, index' = index, heard' = heard,
           \A u \in Tasks : u # t => outcome'[u] = outcome[u],
           outcome'[t] = "ok" => outcome[t] = "ok",
           \/ where = "disconnecting"
           \/ where = "unsubscribing" /\ pc[t] \in {"writing", "waiting"}
           \/ where = "subscribing" /\ pc[t] = "connecting"
           \/ where = "waiting" /\ pc[t] \in {"writing", "waiting"} /\ heard = index
    PROVE  Position'
<1>. USE DEF Data, Goto
<1>. t \in Tasks
  BY DEF Owners
<1>1. \A u \in Tasks : u # t => pc'[u] \in {"idle", "queued"}
  BY DEF Alone
<1>2. pc'[t] = where
  OBVIOUS
<1>3. Started' = {} => index' = 0 /\ heard' = 0
  <2>1. CASE where = "subscribing"
    <3>1. Started = {}
      BY <2>1 DEF Started, Alone
    <3>. QED
      BY <3>1 DEF Position
  <2>2. CASE where # "subscribing"
    BY <2>2, <1>2 DEF Started
  <2>. QED
    BY <2>1, <2>2
<1>4. \A u \in Tasks : pc'[u] \in {"writing", "waiting"} => AtCommand(u)'
  <2>1. CASE where = "waiting"
    BY <2>1, <1>1, <1>2 DEF Position, AtCommand
  <2>2. CASE where # "waiting"
    BY <2>2, <1>1, <1>2
  <2>. QED
    BY <2>1, <2>2
<1>5. \A u \in Tasks :
          outcome'[u] = "ok" => pc'[u] \in {"idle", "unsubscribing", "disconnecting"}
  BY <1>2 DEF Position
<1>6. OkMeansAnswered'
  <2>1. outcome'[t] = "ok" => Len(collected) >= NumCommands[t] * ResponsesPerCommand
    BY DEF Position, OkMeansAnswered
  <2>. QED
    BY <2>1, <1>1 DEF OkMeansAnswered, Owners, Holding, Connected, Subscribed
<1>. QED
  BY <1>3, <1>4, <1>5, <1>6 DEF Position

\* A return of the call starts the next one afresh.
LEMMA ReleasePosition ==
    ASSUME Data, Position, NEW t \in Tasks, Alone(t), Release(t),
           \A u \in Tasks : u # t => outcome'[u] = outcome[u]
    PROVE  Position'
<1>. USE DEF Data, Goto, Release
<1>1. \A u \in Tasks : pc'[u] \in {"idle", "queued"}
  BY DEF Alone
<1>2. index' = 0 /\ heard' = 0
  OBVIOUS
<1>3. \A u \in Tasks : outcome'[u] = "ok" => pc'[u] = "idle"
  <2>1. pc'[t] = "idle"
    OBVIOUS
  <2>2. \A u \in Tasks : u # t => pc'[u] = pc[u]
    OBVIOUS
  <2>3. \A u \in Tasks : u # t /\ outcome'[u] = "ok" => pc[u] = "idle"
    BY DEF Alone, Position
  <2>. QED
    BY <2>1, <2>2, <2>3
<1>4. OkMeansAnswered'
  BY <1>1 DEF OkMeansAnswered, Owners, Holding, Connected, Subscribed
<1>. QED
  BY <1>1, <1>2, <1>3, <1>4 DEF Position

\* A step that touches no session: the queue, and the device but for its frames.
LEMMA OutsidePosition ==
    ASSUME Data, Position, NEW t \in Tasks, NEW where \in {"connecting", "queued", "idle"},
           Goto(t, where), pc[t] \in {"idle", "queued"}, UNCHANGED sendVars,
           \A u \in Tasks : u # t => outcome'[u] = outcome[u],
           outcome'[t] # "ok"
    PROVE  Position'
<1>. USE DEF Data, Goto, sendVars
<1>1. Started' = Started
  BY DEF Started
<1>2. \A u \in Tasks : pc'[u] \in {"writing", "waiting"} => AtCommand(u)'
  BY DEF Position, AtCommand
<1>3. \A u \in Tasks :
          outcome'[u] = "ok" => pc'[u] \in {"idle", "unsubscribing", "disconnecting"}
  BY DEF Position
<1>4. OkMeansAnswered'
  BY DEF Position, OkMeansAnswered, Owners, Holding, Connected, Subscribed
<1>. QED
  BY <1>1, <1>2, <1>3, <1>4 DEF Position

LEMMA PositionStep ==
    ASSUME Data, OneSession, Position, [Next]_vars
    PROVE  Position'
<1>. USE DEF lockVars, radioVars
<1>1. ASSUME NEW t \in Tasks,
             RequestServed(t) \/ RequestQueued(t) \/ Acquire(t) \/ CancelQueued(t)
      PROVE Position'
  <2>1. /\ pc[t] \in {"idle", "queued"}
        /\ Goto(t, "connecting") \/ Goto(t, "queued") \/ Goto(t, "idle")
        /\ UNCHANGED sendVars
    BY <1>1 DEF RequestServed, RequestQueued, Acquire, CancelQueued
  <2>2. /\ \A u \in Tasks : u # t => outcome'[u] = outcome[u]
        /\ outcome'[t] # "ok"
    <3>1. CASE Ends(t, "none") \/ Ends(t, "CancelledError")
      BY <3>1 DEF Ends, Data
    <3>2. CASE pc[t] = "queued" /\ UNCHANGED outcome
      BY <3>2 DEF Position
    <3>. QED
      BY <1>1, <3>1, <3>2, Zenon DEF RequestServed, RequestQueued, Acquire, CancelQueued
  <2>. QED
    BY <2>1, <2>2, OutsidePosition
<1>2. ASSUME NEW t \in Tasks,
             \/ ConnectFails(t) \/ CancelConnecting(t)
             \/ DisconnectReturns(t) \/ DisconnectFails(t)
      PROVE Position'
  <2>1. t \in Owners
    BY <1>2 DEF ConnectFails, CancelConnecting, DisconnectReturns, DisconnectFails,
       Owners, Holding, Connected
  <2>2. Alone(t)
    BY <2>1, OwnerAlone
  <2>3. Release(t)
    BY <1>2, Zenon DEF ConnectFails, CancelConnecting, DisconnectReturns, DisconnectFails
  <2>4. \A u \in Tasks : u # t => outcome'[u] = outcome[u]
    <3>1. \/ UNCHANGED outcome
          \/ Ends(t, "JackeryConnectionError") \/ Ends(t, "CancelledError")
      BY <1>2, Zenon DEF ConnectFails, CancelConnecting, DisconnectReturns, DisconnectFails
    <3>. QED
      BY <3>1 DEF Ends, Data
  <2>. QED
    BY <2>2, <2>3, <2>4, ReleasePosition
<1>3. ASSUME NEW t \in Tasks, SubscribeReturns(t) PROVE Position'
  <2>1. t \in Owners /\ pc[t] = "subscribing"
    BY <1>3 DEF SubscribeReturns, Owners, Holding, Connected
  <2>2. Alone(t)
    BY <2>1, OwnerAlone
  <2>3. index = 0 /\ heard = 0
    BY <2>1, <2>2 DEF Position, Started, Alone
  <2>4. outcome[t] # "ok"
    BY <2>1 DEF Position
  <2>. QED
    BY <1>3, <2>2, <2>3, <2>4, NextCommandPosition, Frames DEF SubscribeReturns, Data
<1>4. ASSUME NEW t \in Tasks, WriteReturns(t) \/ Wake(t) PROVE Position'
  <2>1. t \in Owners /\ pc[t] \in {"writing", "waiting"}
    BY <1>4 DEF WriteReturns, Wake, Owners, Holding, Connected, Subscribed
  <2>2. Alone(t) /\ AtCommand(t) /\ outcome[t] # "ok"
    BY <2>1, OwnerAlone DEF Position
  <2>3. /\ heard = index /\ heard' = heard /\ collected' = collected
        /\ CheckAnswers(t)
    BY <1>4, <2>2 DEF WriteReturns, Wake, AtCommand
  <2>4. CASE Len(collected) >= target /\ NextCommand(t)
    <3>1. /\ index \in 0..NumCommands[t]
          /\ Len(collected) >= index * ResponsesPerCommand
      BY <2>2, <2>4, Frames DEF AtCommand, Data
    <3>. QED
      BY <2>2, <2>3, <2>4, <3>1, NextCommandPosition
  <2>5. CASE Goto(t, "waiting") /\ UNCHANGED <<target, index, outcome>>
    BY <2>1, <2>2, <2>3, <2>5, MovePosition
  <2>. QED
    BY <2>3, <2>4, <2>5 DEF CheckAnswers
<1>5. ASSUME NEW t \in Tasks,
             \/ ConnectReturns(t) \/ SubscribeFails(t) \/ WriteFails(t) \/ CommandTimeout(t)
             \/ CancelWaiting(t) \/ StopNotifyReturns(t) \/ StopNotifyFails(t)
      PROVE Position'
  <2>1. t \in Owners /\ Alone(t)
    <3>1. pc[t] \in Holding
      BY <1>5 DEF ConnectReturns, SubscribeFails, WriteFails, CommandTimeout, CancelWaiting,
         StopNotifyReturns, StopNotifyFails, Holding, Connected, Subscribed
    <3>. QED
      BY <3>1, OwnerAlone DEF Owners
  <2>2. UNCHANGED <<collected, target, index, heard>>
    BY <1>5, Zenon DEF ConnectReturns, SubscribeFails, WriteFails, CommandTimeout,
       CancelWaiting, StopNotifyReturns, StopNotifyFails, LeaveLoop, sendVars
  <2>3. \/ UNCHANGED outcome
        \/ \E how \in Outcomes \ {"ok"} : Ends(t, how)
    BY <1>5 DEF ConnectReturns, SubscribeFails, WriteFails, CommandTimeout, CancelWaiting,
       StopNotifyReturns, StopNotifyFails, LeaveLoop, Outcomes, TransportErrors
  <2>4. /\ \A u \in Tasks : u # t => outcome'[u] = outcome[u]
        /\ outcome'[t] = "ok" => outcome[t] = "ok"
    BY <2>1, <2>3 DEF Ends, Data, Owners
  <2>5. \/ Goto(t, "disconnecting")
        \/ Goto(t, "unsubscribing") /\ pc[t] \in {"writing", "waiting"}
        \/ Goto(t, "subscribing") /\ pc[t] = "connecting"
    BY <1>5 DEF ConnectReturns, SubscribeFails, WriteFails, CommandTimeout, CancelWaiting,
       StopNotifyReturns, StopNotifyFails, LeaveLoop
  <2>. QED
    BY <2>1, <2>2, <2>4, <2>5, MovePosition
<1>6. ASSUME NEW t \in Tasks, DeviceReceives(t) PROVE Position'
  <2>1. t \in Owners /\ Alone(t)
    BY <1>6, OwnerAlone DEF DeviceReceives, Owners, Holding, Connected, Subscribed
  <2>2. /\ UNCHANGED <<pc, collected, target, index, outcome>>
        /\ heard' = index /\ pc[t] = "writing"
    BY <1>6, Zenon DEF DeviceReceives
  <2>3. t \in Started'
    BY <2>2 DEF Started
  <2>4. AtCommand(t)'
    BY <2>2 DEF Position, AtCommand
  <2>5. \A u \in Tasks : pc'[u] \in {"writing", "waiting"} => AtCommand(u)'
    BY <2>1, <2>2, <2>4 DEF Alone
  <2>6. OkMeansAnswered'
    BY <2>2 DEF Position, OkMeansAnswered, Owners
  <2>. QED
    BY <2>2, <2>3, <2>5, <2>6 DEF Position
<1>7. CASE Notify
  <2>1. UNCHANGED <<pc, target, index, heard, outcome>>
    BY <1>7, Zenon DEF Notify
  <2>2. collected' \in Seq(Nat) /\ Len(collected') >= Len(collected)
    BY <1>7 DEF Notify, Data
  <2>3. Started' = Started /\ Owners' = Owners
    BY <2>1 DEF Started, Owners
  <2>4. \A u \in Tasks : AtCommand(u) => AtCommand(u)'
    BY <2>1, <2>2 DEF AtCommand, Data
  <2>5. OkMeansAnswered'
    <3>1. ASSUME NEW u \in Owners, outcome[u] = "ok"
          PROVE Len(collected') >= NumCommands[u] * ResponsesPerCommand
      <4>1. u \in Tasks /\ NumCommands[u] * ResponsesPerCommand \in Nat
        BY Frames DEF Owners
      <4>2. Len(collected) >= NumCommands[u] * ResponsesPerCommand
        BY <3>1 DEF Position, OkMeansAnswered
      <4>3. Len(collected) \in Nat /\ Len(collected') \in Nat
        BY <2>2 DEF Data
      <4>. QED
        BY <2>2, <4>1, <4>2, <4>3
    <3>. QED
      BY <2>1, <2>3, <3>1 DEF OkMeansAnswered
  <2>. QED
    BY <2>1, <2>3, <2>4, <2>5 DEF Position
<1>8. CASE DevicePush \/ LinkLost \/ UNCHANGED vars
  <2>1. UNCHANGED <<pc, collected, target, index, heard, outcome>>
    BY <1>8, Zenon DEF DevicePush, LinkLost, vars, sendVars
  <2>. QED
    BY <2>1 DEF Position, AtCommand, OkMeansAnswered, Started, Owners
<1>. QED
  BY <1>1, <1>2, <1>3, <1>4, <1>5, <1>6, <1>7, <1>8, Zenon DEF Next, Proceed

LEMMA PositionInitial == Init => OneSession /\ Position
<1>. SUFFICES ASSUME Init PROVE OneSession /\ Position
  OBVIOUS
<1>1. \A t \in Tasks : pc[t] = "idle" /\ outcome[t] = "none"
  BY DEF Init
<1>2. index = 0 /\ heard = 0
  BY Zenon DEF Init
<1>3. Owners = {}
  BY <1>1 DEF Owners, Holding, Connected, Subscribed
<1>4. ~locked
  BY Zenon DEF Init
<1>5. OneSession
  BY <1>3, <1>4, Zenon DEF OneSession
<1>. QED
  BY <1>1, <1>2, <1>3, <1>5 DEF Position, OkMeansAnswered

\* A call that returns normally collected enough frames for all its commands,
\* for every number of commands and of responses per command.
THEOREM OkIsAnswered == Spec => []OkMeansAnswered
<1>1. Position => OkMeansAnswered
  BY DEF Position
<1>. QED
  BY <1>1, TypeInitial, PositionInitial, DataStep, OneSessionStep, PositionStep, PTL DEF Spec

\* Every command reaches the device in its turn, after the frames of those before.
THEOREM CommandsAreOrdered == Spec => CommandsInOrder
<1>1. ASSUME Data, OneSession, Position, [Next]_vars
      PROVE  heard' > heard =>
                 heard' = heard + 1 /\ Len(collected) >= heard * ResponsesPerCommand
  <2>1. ASSUME NEW t \in Tasks, DeviceReceives(t)
        PROVE heard' = heard + 1 /\ Len(collected) >= heard * ResponsesPerCommand
    <3>1. heard' = index /\ heard < index /\ AtCommand(t)
      BY <1>1, <2>1 DEF DeviceReceives, Position
    <3>2. index = heard + 1
      BY <1>1, <3>1 DEF AtCommand, Data
    <3>3. index * ResponsesPerCommand = heard * ResponsesPerCommand + ResponsesPerCommand
      BY <1>1, <3>2, Frames DEF Data
    <3>4. heard * ResponsesPerCommand \in Nat /\ Len(collected) \in Nat
      BY <1>1, Frames DEF Data
    <3>. QED
      BY <1>1, <3>1, <3>2, <3>3, <3>4 DEF AtCommand, Data
  <2>2. (\A t \in Tasks : ~DeviceReceives(t)) => heard' = heard \/ heard' = 0
    BY <1>1, Zenon DEF Next, Proceed, RequestServed, RequestQueued, Acquire, CancelQueued,
       ConnectReturns, ConnectFails, CancelConnecting, SubscribeReturns, SubscribeFails,
       WriteReturns, WriteFails, Wake, CommandTimeout, CancelWaiting, StopNotifyReturns,
       StopNotifyFails, DisconnectReturns, DisconnectFails, DevicePush, Notify, LinkLost,
       Release, sendVars, vars
  <2>. QED
    BY <1>1, <2>1, <2>2 DEF Data
<1>. QED
  BY <1>1, TypeInitial, PositionInitial, DataStep, OneSessionStep, PositionStep, PTL
  DEF Spec, CommandsInOrder

-------------------------------------------------------------------------------
(* Which answers                                                           *)

\* The unit answers each command at most once, and sends nothing by itself.
AnswersOnce == ResponsesPerCommand = 1 /\ MaxAnswers <= 1 /\ Chatty = FALSE

\* The frames collected and those on their way are the answers to the first
\* commands, in order, and a session that went well has sent no others.
Matching ==
    /\ Len(collected) + Len(air) <= heard
    /\ \A i \in 1..Len(collected) : collected[i] = i
    /\ \A i \in 1..Len(air) : air[i] = Len(collected) + i
    /\ \A t \in Owners : outcome[t] = "ok" => heard <= NumCommands[t]

\* The second command and every later one is sent only when nothing is missing.
LEMMA MatchingReceive ==
    ASSUME AnswersOnce, Data, Position, Matching, NEW t \in Tasks, DeviceReceives(t)
    PROVE  /\ Len(collected) + Len(air') <= heard'
           /\ \A i \in 1..Len(air') : air'[i] = Len(collected) + i
<1>1. /\ AtCommand(t) /\ heard < index /\ heard' = index
      /\ \E n \in 0..MaxAnswers : air' = air \o [i \in 1..n |-> index]
  BY DEF DeviceReceives, Position
<1>2. index * ResponsesPerCommand = index
  BY DEF AnswersOnce, Data
<1>3. Len(collected) + 1 = index /\ Len(air) = 0
  BY <1>1, <1>2 DEF AtCommand, Matching, AnswersOnce, Data
<1>4. air = <<>>
  BY <1>3 DEF Data
<1>5. PICK n \in 0..1 : air' = <<>> \o [i \in 1..n |-> index]
  BY <1>1, <1>4 DEF AnswersOnce
<1>6. Len(air') = n /\ \A i \in 1..n : air'[i] = index
  BY <1>5 DEF Data
<1>7. Len(collected) + Len(air') <= heard'
  BY <1>1, <1>3, <1>5, <1>6 DEF Data
<1>8. \A i \in 1..Len(air') : i = 1
  BY <1>5, <1>6
<1>. QED
  BY <1>3, <1>6, <1>7, <1>8

LEMMA MatchingNotify ==
    ASSUME Data, Matching, Notify
    PROVE  /\ Len(collected') + Len(air') <= heard'
           /\ \A i \in 1..Len(collected') : collected'[i] = i
           /\ \A i \in 1..Len(air') : air'[i] = Len(collected') + i
<1>1. PICK n \in 1..Len(air) :
          /\ collected' = collected \o SubSeq(air, 1, n)
          /\ air' = SubSeq(air, n + 1, Len(air))
  BY DEF Notify
<1>. DEFINE c == Len(collected)
            a == Len(air)
<1>2. c \in Nat /\ a \in Nat /\ n <= a /\ heard' = heard /\ heard \in Nat
  BY <1>1 DEF Data, Notify
<1>3. /\ SubSeq(air, 1, n) \in Seq(Nat)
      /\ Len(SubSeq(air, 1, n)) = n
      /\ \A i \in 1..n : SubSeq(air, 1, n)[i] = air[i]
  BY <1>2 DEF Data
<1>4. /\ Len(collected') = c + n
      /\ \A i \in 1..c : collected'[i] = collected[i]
      /\ \A i \in 1..n : collected'[c + i] = air[i]
  BY <1>1, <1>3 DEF Data
<1>5. /\ Len(air') = a - n
      /\ \A i \in 1..(a - n) : air'[i] = air[n + i]
  BY <1>1, <1>2 DEF Data
<1>6. ASSUME NEW i \in 1..Len(collected') PROVE collected'[i] = i
  <2>1. CASE i \in 1..c
    BY <1>4, <2>1 DEF Matching
  <2>2. CASE i \notin 1..c
    <3>1. i - c \in 1..n /\ i = c + (i - c)
      BY <1>2, <1>4, <1>6, <2>2
    <3>2. collected'[i] = air[i - c]
      BY <1>4, <3>1
    <3>. QED
      BY <1>2, <3>1, <3>2 DEF Matching
  <2>. QED
    BY <2>1, <2>2
<1>7. ASSUME NEW i \in 1..Len(air') PROVE air'[i] = Len(collected') + i
  <2>1. n + i \in 1..a /\ air'[i] = air[n + i]
    BY <1>2, <1>5, <1>7
  <2>. QED
    BY <1>2, <1>4, <2>1 DEF Matching
<1>. QED
  BY <1>2, <1>4, <1>5, <1>6, <1>7 DEF Matching

\* What becomes of the frames in a step that brings no new ones.
LEMMA MatchingFrames ==
    ASSUME AnswersOnce, Data, Matching, [Next]_vars, ~Notify,
           \A t \in Tasks : ~DeviceReceives(t)
    PROVE  \/ collected' = <<>> /\ air' = <<>> /\ heard' = 0
           \/ collected' = collected /\ heard' = heard /\ (air' = air \/ air' = <<>>)
<1>1. ~DevicePush
  BY Zenon DEF AnswersOnce, DevicePush
<1>. QED
  BY <1>1, Zenon DEF Next, Proceed, RequestServed, RequestQueued, Acquire, CancelQueued,
     ConnectReturns, ConnectFails, CancelConnecting, SubscribeReturns, SubscribeFails,
     WriteReturns, WriteFails, Wake, CommandTimeout, CancelWaiting, StopNotifyReturns,
     StopNotifyFails, DisconnectReturns, DisconnectFails, LinkLost, Release, sendVars,
     radioVars, vars

\* A step that makes a session go well has sent its last command.
LEMMA OkIsTheEnd ==
    ASSUME Data, OneSession, Position, Matching, [Next]_vars,
           NEW t \in Owners', outcome'[t] = "ok"
    PROVE  heard' <= NumCommands[t]
<1>1. t \in Tasks /\ pc'[t] \in Holding
  BY DEF Owners
<1>2. ASSUME NEW u \in Tasks, SubscribeReturns(u) \/ WriteReturns(u) \/ Wake(u)
      PROVE  heard' <= NumCommands[t]
  <2>1. u \in Owners /\ Alone(u) /\ heard' = heard /\ outcome[u] # "ok"
    <3>1. pc[u] \in {"subscribing", "writing", "waiting"} /\ heard' = heard
      BY <1>2 DEF SubscribeReturns, WriteReturns, Wake
    <3>2. u \in Owners
      BY <3>1 DEF Owners, Holding, Connected, Subscribed
    <3>. QED
      BY <3>1, <3>2, OwnerAlone DEF Position
  <2>2. pc' = [pc EXCEPT ![u] = pc'[u]]
    BY <1>2 DEF SubscribeReturns, WriteReturns, Wake, CheckAnswers, NextCommand, LeaveLoop,
       Goto, Data
  <2>3. t = u
    BY <1>1, <2>1, <2>2 DEF Alone, Holding, Connected, Subscribed, Data
  <2>4. NextCommand(u) \/ outcome' = outcome
    BY <1>2, Zenon DEF SubscribeReturns, WriteReturns, Wake, CheckAnswers
  <2>5. index = NumCommands[u]
    BY <2>1, <2>3, <2>4 DEF NextCommand, LeaveLoop, Ends, Data
  <2>6. heard <= index
    <3>1. CASE SubscribeReturns(u)
      BY <2>1, <3>1, SMTT(30) DEF SubscribeReturns, Position, Started, Alone, Data
    <3>2. CASE WriteReturns(u) \/ Wake(u)
      BY <3>2 DEF WriteReturns, Wake, Position, AtCommand, Data
    <3>. QED
      BY <1>2, <3>1, <3>2
  <2>. QED
    BY <2>1, <2>3, <2>5, <2>6
<1>3. ASSUME NEW u \in Tasks, DeviceReceives(u) PROVE FALSE
  <2>1. pc[u] = "writing" /\ pc' = pc /\ outcome' = outcome
    BY <1>3, Zenon DEF DeviceReceives
  <2>2. u \in Owners /\ t \in Owners
    BY <1>1, <2>1 DEF Owners, Holding, Connected, Subscribed
  <2>3. t = u
    BY <2>2 DEF OneSession
  <2>. QED
    BY <2>1, <2>2, <2>3 DEF Position, Owners
<1>4. ASSUME NEW u \in Tasks,
             \/ RequestServed(u) \/ RequestQueued(u) \/ Acquire(u) \/ CancelQueued(u)
             \/ ConnectFails(u) \/ CancelConnecting(u)
             \/ DisconnectReturns(u) \/ DisconnectFails(u)
      PROVE  heard' <= NumCommands[t]
  <2>1. CASE RequestServed(u) \/ RequestQueued(u) \/ Acquire(u) \/ CancelQueued(u)
    <3>1. /\ \A w \in Tasks : w # u => pc'[w] = pc[w] /\ outcome'[w] = outcome[w]
          /\ outcome'[u] = "ok" => pc[u] = "queued" /\ outcome[u] = "ok"
          /\ heard' = heard
      BY <2>1 DEF RequestServed, RequestQueued, Acquire, CancelQueued, Goto, Ends, Data, sendVars
    <3>2. t # u
      BY <3>1 DEF Position
    <3>3. t \in Owners /\ outcome[t] = "ok"
      BY <1>1, <3>1, <3>2 DEF Owners
    <3>. QED
      BY <3>1, <3>3 DEF Matching
  <2>2. CASE ConnectFails(u) \/ CancelConnecting(u) \/ DisconnectReturns(u) \/ DisconnectFails(u)
    <3>1. heard' = 0
      BY <2>2, Zenon DEF ConnectFails, CancelConnecting, DisconnectReturns, DisconnectFails,
         Release
    <3>. QED
      BY <1>1, <3>1
  <2>. QED
    BY <1>4, <2>1, <2>2
<1>5. ASSUME NEW u \in Tasks,
             \/ ConnectReturns(u) \/ SubscribeFails(u) \/ WriteFails(u) \/ CommandTimeout(u)
             \/ CancelWaiting(u) \/ StopNotifyReturns(u) \/ StopNotifyFails(u)
      PROVE  heard' <= NumCommands[t]
  <2>1. u \in Owners
    BY <1>5 DEF ConnectReturns, SubscribeFails, WriteFails, CommandTimeout, CancelWaiting,
       StopNotifyReturns, StopNotifyFails, Owners, Holding, Connected, Subscribed
  <2>2. heard' = heard
    BY <1>5, Zenon DEF ConnectReturns, SubscribeFails, WriteFails, CommandTimeout,
       CancelWaiting, StopNotifyReturns, StopNotifyFails, sendVars
  <2>3. \E where \in Holding : Goto(u, where)
    <3>1. \/ Goto(u, "subscribing") \/ Goto(u, "unsubscribing") \/ Goto(u, "disconnecting")
      BY <1>5, Zenon DEF ConnectReturns, SubscribeFails, WriteFails, CommandTimeout,
         CancelWaiting, StopNotifyReturns, StopNotifyFails, LeaveLoop
    <3>. QED
      BY <3>1 DEF Holding, Connected, Subscribed
  <2>4. t = u
    <3>1. t \in Owners
      BY <2>1, <2>3, GotoOwners DEF Owners
    <3>. QED
      BY <2>1, <3>1 DEF OneSession
  <2>5. UNCHANGED outcome \/ \E how \in Outcomes \ {"ok"} : Ends(u, how)
    BY <1>5 DEF ConnectReturns, SubscribeFails, WriteFails, CommandTimeout, CancelWaiting,
       StopNotifyReturns, StopNotifyFails, LeaveLoop, Outcomes, TransportErrors
  <2>6. outcome[t] = "ok"
    BY <2>4, <2>5 DEF Ends, Data
  <2>. QED
    BY <2>1, <2>2, <2>4, <2>6 DEF Matching
<1>6. CASE DevicePush \/ Notify \/ LinkLost \/ UNCHANGED vars
  <2>1. UNCHANGED <<pc, outcome, heard>>
    BY <1>6, Zenon DEF DevicePush, Notify, LinkLost, vars, sendVars
  <2>. QED
    BY <1>1, <2>1 DEF Matching, Owners
<1>. QED
  BY <1>2, <1>3, <1>4, <1>5, <1>6, Zenon DEF Next, Proceed

LEMMA MatchingStep ==
    ASSUME AnswersOnce, Data, OneSession, Position, Matching, [Next]_vars
    PROVE  Matching'
<1>1. \A t \in Owners' : outcome'[t] = "ok" => heard' <= NumCommands[t]
  BY OkIsTheEnd
<1>2. CASE Notify
  BY <1>1, <1>2, MatchingNotify DEF Matching
<1>3. ASSUME NEW t \in Tasks, DeviceReceives(t) PROVE Matching'
  <2>1. collected' = collected
    BY <1>3, Zenon DEF DeviceReceives
  <2>. QED
    BY <1>1, <1>3, <2>1, MatchingReceive DEF Matching
<1>4. CASE ~Notify /\ \A t \in Tasks : ~DeviceReceives(t)
  <2>1. CASE collected' = <<>> /\ air' = <<>> /\ heard' = 0
    BY <1>1, <2>1 DEF Matching
  <2>2. CASE collected' = collected /\ heard' = heard /\ (air' = air \/ air' = <<>>)
    BY <1>1, <2>2 DEF Matching, Data
  <2>. QED
    BY <1>4, <2>1, <2>2, MatchingFrames
<1>. QED
  BY <1>2, <1>3, <1>4

\* If the unit answers each command once at most and sends nothing by itself, a
\* call that returns normally has the answers to all its commands, in order.
THEOREM AnswersAreMatched ==
    ASSUME AnswersOnce
    PROVE  Spec => []AnswersMatch
<1>1. Init => Matching
  BY DEF Init, Matching, Owners, Holding, Connected, Subscribed
<1>2. ASSUME Data, Position, Matching PROVE AnswersMatch
  <2>. SUFFICES ASSUME NEW t \in Owners, outcome[t] = "ok"
                PROVE  collected = [i \in 1..NumCommands[t] |-> i]
    BY DEF AnswersMatch
  <2>1. NumCommands[t] \in Nat
    BY DEF Owners
  <2>2. NumCommands[t] * ResponsesPerCommand = NumCommands[t]
    BY <2>1 DEF AnswersOnce
  <2>3. Len(collected) = NumCommands[t]
    BY <1>2, <2>1, <2>2 DEF Position, OkMeansAnswered, Matching, Data
  <2>. QED
    BY <1>2, <2>1, <2>3 DEF Matching, Data
<1>. QED
  BY <1>1, <1>2, TypeInitial, PositionInitial, DataStep, OneSessionStep, PositionStep,
     MatchingStep, PTL DEF Spec

-------------------------------------------------------------------------------
(* Wake-ups and the connection                                             *)

\* Which actions are steps of a task's session.
SessionStep(t) ==
    \/ Proceed(t) \/ CancelConnecting(t) \/ CancelWaiting(t) \/ DeviceReceives(t)

QueueStep(t) ==
    RequestServed(t) \/ RequestQueued(t) \/ Acquire(t) \/ CancelQueued(t)

LEMMA SessionStepIsOwners ==
    ASSUME Data, OneSession, NEW t \in Tasks, SessionStep(t)
    PROVE  /\ t \in Owners
           /\ Alone(t)
           /\ \A u \in Tasks : u # t => pc'[u] = pc[u]
<1>1. pc[t] \in Holding
  BY DEF SessionStep, Proceed, ConnectReturns, ConnectFails, SubscribeReturns, SubscribeFails,
     WriteReturns, WriteFails, Wake, CommandTimeout, StopNotifyReturns, StopNotifyFails,
     DisconnectReturns, DisconnectFails, CancelConnecting, CancelWaiting, DeviceReceives,
     Holding, Connected, Subscribed
<1>2. UNCHANGED pc \/ \E where \in Holding \cup {"idle"} : Goto(t, where)
  <2>1. \/ UNCHANGED pc
        \/ Goto(t, "subscribing") \/ Goto(t, "writing") \/ Goto(t, "waiting")
        \/ Goto(t, "unsubscribing") \/ Goto(t, "disconnecting") \/ Goto(t, "idle")
    BY Zenon DEF SessionStep, Proceed, ConnectReturns, ConnectFails, SubscribeReturns,
       SubscribeFails, WriteReturns, WriteFails, Wake, CommandTimeout, StopNotifyReturns,
       StopNotifyFails, DisconnectReturns, DisconnectFails, CancelConnecting, CancelWaiting,
       DeviceReceives, CheckAnswers, NextCommand, LeaveLoop, Release
  <2>. QED
    BY <2>1 DEF Holding, Connected, Subscribed
<1>3. t \in Owners
  BY <1>1 DEF Owners
<1>4. \A u \in Tasks : u # t => pc'[u] = pc[u]
  BY <1>2 DEF Goto, Data
<1>. QED
  BY <1>3, <1>4, OwnerAlone

LEMMA QueueStepOutside ==
    ASSUME Data, NEW t \in Tasks, QueueStep(t)
    PROVE  /\ UNCHANGED <<link, notifying, air, collected, target, index, heard, event>>
           /\ \E where \in {"connecting", "queued", "idle"} : Goto(t, where)
           /\ pc[t] \in {"idle", "queued"}
<1>1. UNCHANGED <<link, notifying, air, collected, target, index, heard, event>>
  BY Zenon DEF QueueStep, RequestServed, RequestQueued, Acquire, CancelQueued, radioVars, sendVars
<1>2. /\ \E where \in {"connecting", "queued", "idle"} : Goto(t, where)
      /\ pc[t] \in {"idle", "queued"}
  BY DEF QueueStep, RequestServed, RequestQueued, Acquire, CancelQueued
<1>. QED
  BY <1>1, <1>2

LEMMA NoLostWakeupStep ==
    ASSUME Data, OneSession, NoLostWakeup, [Next]_vars
    PROVE  NoLostWakeup'
<1>. SUFFICES ASSUME NEW u \in Tasks, pc'[u] = "waiting", Len(collected') >= target'
              PROVE  event'
  BY Zenon DEF NoLostWakeup
<1>1. ASSUME NEW t \in Tasks, QueueStep(t) PROVE event'
  <2>1. UNCHANGED <<collected, target, event>> /\ pc[u] = "waiting"
    BY <1>1, QueueStepOutside DEF Goto, Data
  <2>. QED
    BY <2>1, Zenon DEF NoLostWakeup
<1>2. ASSUME NEW t \in Tasks, SessionStep(t) PROVE event'
  <2>1. t = u
    <3>1. pc'[u] = pc[u] => pc[u] \notin {"idle", "queued"}
      OBVIOUS
    <3>. QED
      BY <1>2, <3>1, SessionStepIsOwners DEF Alone
  <2>2. CASE DeviceReceives(t)
    <3>1. UNCHANGED pc /\ pc[t] = "writing"
      BY <2>2, Zenon DEF DeviceReceives
    <3>. QED
      BY <2>1, <3>1
  <2>3. CASE WriteReturns(t) \/ Wake(t)
    <3>1. CheckAnswers(t) /\ collected' = collected
      BY <2>3, Zenon DEF WriteReturns, Wake
    <3>2. CASE NextCommand(t)
      BY <2>1, <3>2 DEF NextCommand, LeaveLoop, Goto, Data
    <3>3. CASE Len(collected) < target /\ target' = target
      BY <3>1, <3>3 DEF Data
    <3>. QED
      BY <3>1, <3>2, <3>3 DEF CheckAnswers
  <2>4. CASE SubscribeReturns(t)
    BY <2>1, <2>4 DEF SubscribeReturns, NextCommand, LeaveLoop, Goto, Data
  <2>5. CASE \/ ConnectReturns(t) \/ ConnectFails(t) \/ SubscribeFails(t) \/ WriteFails(t)
             \/ CommandTimeout(t) \/ StopNotifyReturns(t) \/ StopNotifyFails(t)
             \/ DisconnectReturns(t) \/ DisconnectFails(t)
             \/ CancelConnecting(t) \/ CancelWaiting(t)
    <3>1. \/ Goto(t, "subscribing") \/ Goto(t, "unsubscribing")
          \/ Goto(t, "disconnecting") \/ Goto(t, "idle")
      BY <2>5, Zenon DEF ConnectReturns, ConnectFails, SubscribeFails, WriteFails,
         CommandTimeout, StopNotifyReturns, StopNotifyFails, DisconnectReturns,
         DisconnectFails, CancelConnecting, CancelWaiting, LeaveLoop, Release
    <3>. QED
      BY <2>1, <3>1 DEF Goto, Data
  <2>. QED
    BY <1>2, <2>2, <2>3, <2>4, <2>5, Zenon DEF SessionStep, Proceed
<1>3. CASE Notify
  BY <1>3, Zenon DEF Notify
<1>4. CASE DevicePush \/ LinkLost \/ UNCHANGED vars
  <2>1. UNCHANGED <<pc, collected, target, event>>
    BY <1>4, Zenon DEF DevicePush, LinkLost, vars, sendVars
  <2>2. pc[u] = "waiting" /\ Len(collected) >= target
    BY <2>1
  <2>. QED
    BY <2>1, <2>2, Zenon DEF NoLostWakeup
<1>. QED
  BY <1>1, <1>2, <1>3, <1>4, Zenon DEF Next, SessionStep, QueueStep

\* A task never sleeps on frame_event with its frames already there.
THEOREM WakeupsAreKept == Spec => []NoLostWakeup
<1>1. Init => NoLostWakeup
  BY DEF Init, NoLostWakeup
<1>2. Init => OneSession
  BY PositionInitial
<1>. QED
  BY <1>1, <1>2, TypeInitial, DataStep, OneSessionStep, NoLostWakeupStep, PTL DEF Spec

LEMMA LinkClosedStep ==
    ASSUME Data, OneSession, LinkClosed, [Next]_vars
    PROVE  LinkClosed'
<1>. SUFFICES ASSUME link' = "up" PROVE \E t \in Tasks : pc'[t] \in Connected
  BY Zenon DEF LinkClosed
<1>1. ASSUME NEW t \in Tasks, QueueStep(t) PROVE \E u \in Tasks : pc'[u] \in Connected
  <2>1. PICK u \in Tasks : pc[u] \in Connected
    BY <1>1, QueueStepOutside, Zenon DEF LinkClosed
  <2>2. u # t /\ pc'[u] = pc[u]
    BY <1>1, <2>1, QueueStepOutside DEF Goto, Data, Connected, Subscribed
  <2>. QED
    BY <2>1, <2>2
<1>2. ASSUME NEW t \in Tasks, ConnectFails(t) \/ CancelConnecting(t)
      PROVE \E u \in Tasks : pc'[u] \in Connected
  <2>1. link = "up" /\ pc[t] = "connecting" /\ SessionStep(t)
    BY <1>2, Zenon DEF ConnectFails, CancelConnecting, SessionStep, Proceed
  <2>2. PICK u \in Tasks : pc[u] \in Connected
    BY <2>1, Zenon DEF LinkClosed
  <2>. QED
    BY <2>1, <2>2, SessionStepIsOwners DEF Alone, Connected, Subscribed
<1>3. ASSUME NEW t \in Tasks, DisconnectReturns(t) \/ DisconnectFails(t)
      PROVE \E u \in Tasks : pc'[u] \in Connected
  BY <1>3 DEF DisconnectReturns, DisconnectFails
<1>4. ASSUME NEW t \in Tasks,
             \/ ConnectReturns(t) \/ SubscribeReturns(t) \/ SubscribeFails(t)
             \/ WriteReturns(t) \/ WriteFails(t) \/ Wake(t) \/ CommandTimeout(t)
             \/ CancelWaiting(t) \/ StopNotifyReturns(t) \/ StopNotifyFails(t)
      PROVE \E u \in Tasks : pc'[u] \in Connected
  <2>1. \/ Goto(t, "subscribing") \/ Goto(t, "writing") \/ Goto(t, "waiting")
        \/ Goto(t, "unsubscribing") \/ Goto(t, "disconnecting")
    BY <1>4, Zenon DEF ConnectReturns, SubscribeReturns, SubscribeFails, WriteReturns,
       WriteFails, Wake, CommandTimeout, CancelWaiting, StopNotifyReturns, StopNotifyFails,
       CheckAnswers, NextCommand, LeaveLoop
  <2>2. pc'[t] \in Connected
    BY <2>1 DEF Goto, Data, Connected, Subscribed
  <2>. QED
    BY <2>2
<1>5. CASE \/ \E t \in Tasks : DeviceReceives(t)
           \/ DevicePush \/ Notify \/ LinkLost \/ UNCHANGED vars
  <2>1. UNCHANGED pc /\ (UNCHANGED link \/ link' = "lost")
    BY <1>5, Zenon DEF DeviceReceives, DevicePush, Notify, LinkLost, vars, radioVars
  <2>2. link = "up"
    BY <2>1
  <2>. QED
    BY <2>1, <2>2, Zenon DEF LinkClosed
<1>. QED
  BY <1>1, <1>2, <1>3, <1>4, <1>5, Zenon DEF Next, Proceed, QueueStep

\* Whatever fails or is cancelled, a session never ends with its connection
\* open and no attempt made to close it.
THEOREM LinksAreClosed == Spec => []LinkClosed
<1>1. Init => LinkClosed
  BY DEF Init, LinkClosed
<1>2. Init => OneSession
  BY PositionInitial
<1>. QED
  BY <1>1, <1>2, TypeInitial, DataStep, OneSessionStep, LinkClosedStep, PTL DEF Spec

-------------------------------------------------------------------------------
(* BleSession implements SerialSessions                                    *)

\* The mapping, as what it says of one task.
stageBar == [t \in Tasks |-> Stage(t)]
verdictBar == [t \in Tasks |-> Verdict(t)]

\* A session that cleans up has decided how it ends, and frames only arrive
\* while a session runs.
Decided ==
    /\ \A t \in Tasks : pc[t] \in {"unsubscribing", "disconnecting"} => outcome[t] # "none"
    /\ notifying => Owners # {}

LEMMA StageValues ==
    ASSUME Data, NEW t \in Tasks
    PROVE  /\ Stage(t) = "idle" <=> pc[t] = "idle"
           /\ Stage(t) = "queued" <=> pc[t] = "queued"
           /\ Stage(t) = "active" <=> t \in Owners
           /\ Stage(t) \in {"idle", "queued", "active"}
BY DEF Data, Stage, Owners, Holding, Connected, Subscribed

\* A step that keeps every task where it is in the queue, and adds no verdict.
LEMMA Stutters ==
    ASSUME Data, Data', UNCHANGED <<ahead, collected>>,
           \A t \in Tasks : Stage(t)' = Stage(t) /\ Verdict(t)' = Verdict(t)
    PROVE  UNCHANGED Sessions!vars
<1>1. stageBar' = stageBar /\ verdictBar' = verdictBar
  BY DEF stageBar, verdictBar
<1>. QED
  BY <1>1 DEF Sessions!vars, stageBar, verdictBar

LEMMA QueueRefines ==
    ASSUME Data, Data', OneSession, NEW t \in Tasks
    PROVE  /\ RequestServed(t) => Sessions!AskServed(t)
           /\ RequestQueued(t) => Sessions!AskQueued(t)
           /\ Acquire(t) => Sessions!Grant(t)
           /\ CancelQueued(t) => Sessions!GiveUp(t)
<1>1. /\ Sessions!Queued = Waiters
      /\ (\E u \in Tasks : Sessions!Active(u)) <=> Owners # {}
  BY StageValues DEF Sessions!Queued, Sessions!Active, Waiters, Owners, Data
<1>2. locked <=> \E u \in Tasks : Sessions!Active(u)
  BY <1>1, Zenon DEF OneSession
<1>3. ASSUME RequestServed(t) PROVE Sessions!AskServed(t)
  <2>1. /\ pc[t] = "idle" /\ Waiters = {}
        /\ pc' = [pc EXCEPT ![t] = "connecting"]
        /\ outcome' = [outcome EXCEPT ![t] = "none"]
        /\ UNCHANGED <<ahead, collected>>
    BY <1>3, Zenon DEF RequestServed, Goto, Ends, sendVars
  <2>2. \A u \in Tasks : ~Sessions!Active(u)
    BY <1>2, <1>3, Zenon DEF RequestServed
  <2>3. stageBar' = [stageBar EXCEPT ![t] = "active"]
    BY <2>1 DEF stageBar, Stage, Data
  <2>4. verdictBar' = [verdictBar EXCEPT ![t] = "none"]
    BY <2>1 DEF verdictBar, Verdict, Data
  <2>5. stageBar[t] = "idle"
    BY <2>1 DEF stageBar, Stage
  <2>. QED
    BY <1>1, <2>1, <2>2, <2>3, <2>4, <2>5 DEF Sessions!AskServed, stageBar, verdictBar
<1>4. ASSUME RequestQueued(t) PROVE Sessions!AskQueued(t)
  <2>1. /\ pc[t] = "idle"
        /\ pc' = [pc EXCEPT ![t] = "queued"]
        /\ outcome' = [outcome EXCEPT ![t] = "none"]
        /\ ahead' = [ahead EXCEPT ![t] = Waiters]
        /\ UNCHANGED collected
    BY <1>4, Zenon DEF RequestQueued, Goto, Ends, sendVars
  <2>2. Sessions!Queued # {} \/ \E u \in Tasks : Sessions!Active(u)
    BY <1>1, <1>2, <1>4, Zenon DEF RequestQueued
  <2>3. stageBar' = [stageBar EXCEPT ![t] = "queued"]
    BY <2>1 DEF stageBar, Stage, Data
  <2>4. verdictBar' = [verdictBar EXCEPT ![t] = "none"]
    BY <2>1 DEF verdictBar, Verdict, Data
  <2>5. stageBar[t] = "idle"
    BY <2>1 DEF stageBar, Stage
  <2>. QED
    BY <1>1, <2>1, <2>2, <2>3, <2>4, <2>5 DEF Sessions!AskQueued, stageBar, verdictBar
<1>5. ASSUME Acquire(t) PROVE Sessions!Grant(t)
  <2>1. /\ pc[t] = "queued" /\ ahead[t] = {}
        /\ pc' = [pc EXCEPT ![t] = "connecting"]
        /\ LeaveQueue(t)
        /\ UNCHANGED <<collected, outcome>>
    BY <1>5, Zenon DEF Acquire, Goto, sendVars
  <2>2. \A u \in Tasks : ~Sessions!Active(u)
    BY <1>2, <1>5, Zenon DEF Acquire
  <2>3. stageBar' = [stageBar EXCEPT ![t] = "active"]
    BY <2>1 DEF stageBar, Stage, Data
  <2>4. verdictBar' = verdictBar
    BY <2>1 DEF verdictBar, Verdict, Data
  <2>5. stageBar[t] = "queued"
    BY <2>1 DEF stageBar, Stage
  <2>6. Sessions!LeaveQueue(t)
    BY <2>1 DEF Sessions!LeaveQueue, LeaveQueue
  <2>. QED
    BY <2>1, <2>2, <2>3, <2>4, <2>5, <2>6 DEF Sessions!Grant, stageBar, verdictBar
<1>6. ASSUME CancelQueued(t) PROVE Sessions!GiveUp(t)
  <2>1. /\ pc[t] = "queued"
        /\ pc' = [pc EXCEPT ![t] = "idle"]
        /\ LeaveQueue(t)
        /\ outcome' = [outcome EXCEPT ![t] = "CancelledError"]
        /\ UNCHANGED collected
    BY <1>6, Zenon DEF CancelQueued, Goto, Ends, sendVars
  <2>2. stageBar' = [stageBar EXCEPT ![t] = "idle"]
    BY <2>1 DEF stageBar, Stage, Data
  <2>3. verdictBar' = [verdictBar EXCEPT ![t] = "failed"]
    BY <2>1 DEF verdictBar, Verdict, Data
  <2>4. stageBar[t] = "queued"
    BY <2>1 DEF stageBar, Stage
  <2>5. Sessions!LeaveQueue(t)
    BY <2>1 DEF Sessions!LeaveQueue, LeaveQueue
  <2>. QED
    BY <2>1, <2>2, <2>3, <2>4, <2>5 DEF Sessions!GiveUp, stageBar, verdictBar
<1>. QED
  BY <1>3, <1>4, <1>5, <1>6

LEMMA ReleaseRefines ==
    ASSUME Data, Data', OneSession, Position, Decided, NEW t \in Tasks,
           \/ ConnectFails(t) \/ CancelConnecting(t)
           \/ DisconnectReturns(t) \/ DisconnectFails(t)
    PROVE  Sessions!Finish(t)
<1>1. /\ pc[t] \in {"connecting", "disconnecting"}
      /\ pc' = [pc EXCEPT ![t] = "idle"]
      /\ collected' = <<>>
      /\ UNCHANGED ahead
  BY DEF ConnectFails, CancelConnecting, DisconnectReturns, DisconnectFails, Release, Goto
<1>2. \/ \E how \in Outcomes \ {"ok", "none"} : outcome' = [outcome EXCEPT ![t] = how]
      \/ pc[t] = "disconnecting" /\ outcome' = outcome
  BY DEF ConnectFails, CancelConnecting, DisconnectReturns, DisconnectFails, Ends, Outcomes
<1>3. stageBar' = [stageBar EXCEPT ![t] = "idle"]
  BY <1>1 DEF stageBar, Stage, Data
<1>4. stageBar[t] = "active"
  BY <1>1 DEF stageBar, Stage
<1>5. \/ verdictBar' = [verdictBar EXCEPT ![t] = "failed"]
      \/ verdictBar' = [verdictBar EXCEPT ![t] = "ok"] /\ outcome[t] = "ok"
  <2>1. \A u \in Tasks : u # t => Verdict(u)' = Verdict(u)
    BY <1>1, <1>2 DEF Verdict, Data
  <2>2. \/ Verdict(t)' = "failed"
        \/ Verdict(t)' = "ok" /\ outcome[t] = "ok"
    BY <1>1, <1>2 DEF Verdict, Decided, Data
  <2>. QED
    BY <2>1, <2>2 DEF verdictBar
<1>6. outcome[t] = "ok" => Len(collected) >= NumCommands[t] * ResponsesPerCommand
  <2>1. t \in Owners
    BY <1>1 DEF Owners, Holding, Connected
  <2>. QED
    BY <2>1 DEF Position, OkMeansAnswered
<1>7. Len(collected') = 0
  BY <1>1
<1>. QED
  BY <1>1, <1>3, <1>4, <1>5, <1>6, <1>7
  DEF Sessions!Finish, Sessions!Active, stageBar, verdictBar

LEMMA SessionRefines ==
    ASSUME Data, Data', OneSession, NEW t \in Tasks,
           \/ ConnectReturns(t) \/ SubscribeReturns(t) \/ SubscribeFails(t)
           \/ WriteReturns(t) \/ WriteFails(t) \/ Wake(t) \/ CommandTimeout(t)
           \/ CancelWaiting(t) \/ StopNotifyReturns(t) \/ StopNotifyFails(t)
           \/ DeviceReceives(t)
    PROVE  UNCHANGED Sessions!vars
<1>1. UNCHANGED <<ahead, collected>>
  BY Zenon DEF ConnectReturns, SubscribeReturns, SubscribeFails, WriteReturns, WriteFails, Wake,
     CommandTimeout, CancelWaiting, StopNotifyReturns, StopNotifyFails, DeviceReceives,
     lockVars, sendVars
<1>2. UNCHANGED pc \/ \E where \in Holding : Goto(t, where)
  <2>1. \/ UNCHANGED pc
        \/ Goto(t, "subscribing") \/ Goto(t, "writing") \/ Goto(t, "waiting")
        \/ Goto(t, "unsubscribing") \/ Goto(t, "disconnecting")
    BY Zenon DEF ConnectReturns, SubscribeReturns, SubscribeFails, WriteReturns, WriteFails,
       Wake, CommandTimeout, CancelWaiting, StopNotifyReturns, StopNotifyFails,
       DeviceReceives, CheckAnswers, NextCommand, LeaveLoop
  <2>. QED
    BY <2>1 DEF Holding, Connected, Subscribed
<1>3. UNCHANGED outcome \/ \E how : Ends(t, how)
  BY Zenon DEF ConnectReturns, SubscribeReturns, SubscribeFails, WriteReturns, WriteFails, Wake,
     CommandTimeout, CancelWaiting, StopNotifyReturns, StopNotifyFails, DeviceReceives,
     CheckAnswers, NextCommand, LeaveLoop
<1>4. pc[t] \in Holding
  BY DEF ConnectReturns, SubscribeReturns, SubscribeFails, WriteReturns, WriteFails, Wake,
     CommandTimeout, CancelWaiting, StopNotifyReturns, StopNotifyFails, DeviceReceives,
     Holding, Connected, Subscribed
<1>5. pc'[t] \in Holding
  BY <1>2, <1>4 DEF Goto, Data
<1>6. \A u \in Tasks : u # t => pc'[u] = pc[u] /\ outcome'[u] = outcome[u]
  BY <1>2, <1>3 DEF Goto, Ends, Data
<1>7. ASSUME NEW u \in Tasks PROVE Stage(u)' = Stage(u) /\ Verdict(u)' = Verdict(u)
  <2>1. CASE u = t
    BY <1>4, <1>5, <2>1 DEF Stage, Verdict, Holding, Connected, Subscribed
  <2>2. CASE u # t
    BY <1>6, <2>2 DEF Stage, Verdict
  <2>. QED
    BY <2>1, <2>2
<1>. QED
  BY <1>1, <1>7, Stutters

LEMMA NotifyRefines ==
    ASSUME Data, Data', Decided, Notify
    PROVE  Sessions!Collect
<1>1. UNCHANGED <<pc, ahead, outcome>> /\ notifying
  BY Zenon DEF Notify, lockVars
<1>2. Len(collected') \in Nat /\ Len(collected') > Len(collected)
  BY DEF Notify, Data
<1>3. \E t \in Tasks : Sessions!Active(t)
  <2>1. Owners # {}
    BY <1>1, Zenon DEF Decided
  <2>. QED
    BY <2>1, StageValues DEF Sessions!Active, Owners
<1>4. stageBar' = stageBar /\ verdictBar' = verdictBar
  BY <1>1 DEF stageBar, verdictBar, Stage, Verdict
<1>. QED
  BY <1>1, <1>2, <1>3, <1>4 DEF Sessions!Collect, stageBar, verdictBar

LEMMA DecidedStep ==
    ASSUME Data, Data', OneSession, OneSession', Decided, [Next]_vars
    PROVE  Decided'
<1>1. ASSUME NEW t \in Tasks, pc'[t] \in {"unsubscribing", "disconnecting"}
      PROVE outcome'[t] # "none"
  <2>1. ASSUME NEW u \in Tasks, QueueStep(u) PROVE outcome'[t] # "none"
    <3>1. u # t /\ pc'[t] = pc[t]
      BY <1>1, <2>1, QueueStepOutside DEF Goto, Data
    <3>2. UNCHANGED outcome \/ \E how : Ends(u, how)
      BY <2>1, Zenon DEF QueueStep, RequestServed, RequestQueued, Acquire, CancelQueued
    <3>. QED
      BY <1>1, <3>1, <3>2 DEF Decided, Ends, Data
  <2>2. ASSUME NEW u \in Tasks, SessionStep(u) PROVE outcome'[t] # "none"
    <3>1. u = t
      <4>1. pc'[t] = pc[t] => pc[t] \notin {"idle", "queued"}
        BY <1>1
      <4>. QED
        BY <2>2, <4>1, SessionStepIsOwners DEF Alone
    <3>2. \/ \E how \in Outcomes \ {"none"} : Ends(t, how)
          \/ pc[t] \in {"unsubscribing", "disconnecting"} /\ UNCHANGED outcome
          \/ \E where \in {"subscribing", "writing", "waiting", "idle"} : Goto(t, where)
          \/ pc[t] = "writing" /\ UNCHANGED pc
      <4>1. CASE SubscribeReturns(t) \/ WriteReturns(t) \/ Wake(t)
        BY <4>1 DEF SubscribeReturns, WriteReturns, Wake, CheckAnswers, NextCommand, LeaveLoop,
           Outcomes
      <4>2. CASE SubscribeFails(t) \/ WriteFails(t)
        BY <4>2 DEF SubscribeFails, WriteFails, LeaveLoop, Outcomes, TransportErrors
      <4>3. CASE CommandTimeout(t) \/ CancelWaiting(t)
        BY <4>3 DEF CommandTimeout, CancelWaiting, LeaveLoop, Outcomes
      <4>4. CASE StopNotifyReturns(t) \/ StopNotifyFails(t)
        BY <4>4 DEF StopNotifyReturns, StopNotifyFails, Outcomes
      <4>5. CASE ConnectReturns(t) \/ ConnectFails(t) \/ CancelConnecting(t)
                 \/ DisconnectReturns(t) \/ DisconnectFails(t)
        BY <4>5 DEF ConnectReturns, ConnectFails, CancelConnecting, DisconnectReturns,
           DisconnectFails, Release
      <4>6. CASE DeviceReceives(t)
        BY <4>6 DEF DeviceReceives
      <4>. QED
        BY <2>2, <3>1, <4>1, <4>2, <4>3, <4>4, <4>5, <4>6, Zenon DEF SessionStep, Proceed
    <3>. QED
      BY <1>1, <3>2 DEF Decided, Ends, Goto, Data
  <2>3. CASE DevicePush \/ Notify \/ LinkLost \/ UNCHANGED vars
    <3>1. UNCHANGED <<pc, outcome>>
      BY <2>3, Zenon DEF DevicePush, Notify, LinkLost, vars
    <3>. QED
      BY <1>1, <3>1 DEF Decided
  <2>. QED
    BY <2>1, <2>2, <2>3, Zenon DEF Next, SessionStep, QueueStep
<1>2. ASSUME notifying' PROVE Owners' # {}
  <2>1. \/ notifying' = FALSE
        \/ locked' = TRUE
        \/ UNCHANGED <<locked, notifying>>
        \/ \E t \in Tasks : ConnectReturns(t)
    BY Zenon DEF Next, Proceed, RequestServed, RequestQueued, Acquire, CancelQueued,
       ConnectReturns, ConnectFails, CancelConnecting, SubscribeReturns, SubscribeFails,
       WriteReturns, WriteFails, Wake, CommandTimeout, CancelWaiting, StopNotifyReturns,
       StopNotifyFails, DisconnectReturns, DisconnectFails, DeviceReceives, DevicePush,
       Notify, LinkLost, Release, lockVars, radioVars, vars
  <2>2. ASSUME NEW t \in Tasks, ConnectReturns(t) PROVE locked'
    <3>1. t \in Owners /\ locked' = locked
      BY <2>2 DEF ConnectReturns, Owners, Holding, lockVars
    <3>. QED
      BY <3>1, Zenon DEF OneSession
  <2>3. locked'
    BY <1>2, <2>1, <2>2, Zenon DEF Decided, OneSession
  <2>. QED
    BY <2>3, Zenon DEF OneSession
<1>. QED
  BY <1>1, <1>2, Zenon DEF Decided

LEMMA StepRefines ==
    ASSUME Data, Data', OneSession, Position, Decided, [Next]_vars
    PROVE  [Sessions!Next]_Sessions!vars
<1>1. ASSUME NEW t \in Tasks, QueueStep(t) PROVE Sessions!Next
  BY <1>1, QueueRefines, Zenon DEF QueueStep, Sessions!Next
<1>2. ASSUME NEW t \in Tasks,
             \/ ConnectFails(t) \/ CancelConnecting(t)
             \/ DisconnectReturns(t) \/ DisconnectFails(t)
      PROVE Sessions!Next
  BY <1>2, ReleaseRefines, Zenon DEF Sessions!Next
<1>3. ASSUME NEW t \in Tasks,
             \/ ConnectReturns(t) \/ SubscribeReturns(t) \/ SubscribeFails(t)
             \/ WriteReturns(t) \/ WriteFails(t) \/ Wake(t) \/ CommandTimeout(t)
             \/ CancelWaiting(t) \/ StopNotifyReturns(t) \/ StopNotifyFails(t)
             \/ DeviceReceives(t)
      PROVE UNCHANGED Sessions!vars
  BY <1>3, SessionRefines, Zenon
<1>4. CASE Notify
  BY <1>4, NotifyRefines, Zenon DEF Sessions!Next
<1>5. CASE DevicePush \/ LinkLost \/ UNCHANGED vars
  <2>1. UNCHANGED <<pc, outcome, ahead, collected>>
    BY <1>5, Zenon DEF DevicePush, LinkLost, vars, lockVars, sendVars
  <2>2. \A u \in Tasks : Stage(u)' = Stage(u) /\ Verdict(u)' = Verdict(u)
    BY <2>1 DEF Stage, Verdict
  <2>. QED
    BY <2>1, <2>2, Stutters
<1>. QED
  BY <1>1, <1>2, <1>3, <1>4, <1>5, Zenon DEF Next, Proceed, QueueStep

\* The BLE client implements the session service its callers rely on: one
\* session at a time, first come first served, and no answer short of frames.
THEOREM ClientServesSessions == Spec => ServesSessions
<1>1. Init => Sessions!Init
  <2>. SUFFICES ASSUME Init PROVE Sessions!Init
    OBVIOUS
  <2>1. /\ stageBar = [t \in Tasks |-> "idle"]
        /\ verdictBar = [t \in Tasks |-> "none"]
        /\ ahead = [t \in Tasks |-> {}]
        /\ Len(collected) = 0
    BY DEF Init, stageBar, verdictBar, Stage, Verdict
  <2>. QED
    BY <2>1 DEF Sessions!Init, stageBar, verdictBar
<1>2. Init => OneSession /\ Position /\ Decided
  <2>1. Init => Decided
    BY DEF Init, Decided
  <2>. QED
    BY <2>1, PositionInitial
<1>. QED
  BY <1>1, <1>2, TypeInitial, DataStep, OneSessionStep, PositionStep, DecidedStep, StepRefines,
     PTL DEF Spec, ServesSessions, Sessions!Spec
===============================================================================
