---------------------------- MODULE SerialSessions ----------------------------
(***************************************************************************)
(* What the BLE client of the integration promises its callers             *)
(* (src/custom_components/jackery/ble_client.py:46-78): callers are served *)
(* one at a time, in the order in which they had to wait; a served caller  *)
(* is given the frames of its own session only; and a call returns normally*)
(* only when the device sent at least as many frames as the caller's       *)
(* commands require.                                                       *)
(*                                                                         *)
(* BleSession implements this specification.                               *)
(***************************************************************************)
EXTENDS Naturals

CONSTANTS
    Tasks,      \* the asyncio tasks that call async_run_session
    Need        \* how many frames the commands of each task require, a number

VARIABLES
    stage,      \* where each task's call is: not calling, waiting, being served
    ahead,      \* the callers that were already waiting when a caller queued
    got,        \* number of frames the session being served has collected
    verdict     \* how each task's last call ended

vars == <<stage, ahead, got, verdict>>

TypeOK ==
    /\ stage \in [Tasks -> {"idle", "queued", "active"}]
    /\ ahead \in [Tasks -> SUBSET Tasks]
    /\ got \in Nat
    /\ verdict \in [Tasks -> {"none", "ok", "failed"}]

Init ==
    /\ stage = [t \in Tasks |-> "idle"]
    /\ ahead = [t \in Tasks |-> {}]
    /\ got = 0
    /\ verdict = [t \in Tasks |-> "none"]

Active(t) == stage[t] = "active"
Queued == {t \in Tasks : stage[t] = "queued"}

\* t stops waiting: nobody has it ahead of them any more.
LeaveQueue(t) == ahead' = [u \in Tasks |-> IF u = t THEN {} ELSE ahead[u] \ {t}]

\* A call that finds the service free and nobody waiting is served at once.
AskServed(t) ==
    /\ stage[t] = "idle"
    /\ Queued = {}
    /\ \A u \in Tasks : ~Active(u)
    /\ stage' = [stage EXCEPT ![t] = "active"]
    /\ verdict' = [verdict EXCEPT ![t] = "none"]
    /\ UNCHANGED <<ahead, got>>

\* Any other call waits behind those already waiting.
AskQueued(t) ==
    /\ stage[t] = "idle"
    /\ Queued # {} \/ \E u \in Tasks : Active(u)
    /\ stage' = [stage EXCEPT ![t] = "queued"]
    /\ ahead' = [ahead EXCEPT ![t] = Queued]
    /\ verdict' = [verdict EXCEPT ![t] = "none"]
    /\ UNCHANGED got

\* The caller that has waited longest is served next.
Grant(t) ==
    /\ stage[t] = "queued"
    /\ ahead[t] = {}
    /\ \A u \in Tasks : ~Active(u)
    /\ stage' = [stage EXCEPT ![t] = "active"]
    /\ LeaveQueue(t)
    /\ UNCHANGED <<got, verdict>>

\* A waiting caller is cancelled.
GiveUp(t) ==
    /\ stage[t] = "queued"
    /\ stage' = [stage EXCEPT ![t] = "idle"]
    /\ verdict' = [verdict EXCEPT ![t] = "failed"]
    /\ LeaveQueue(t)
    /\ UNCHANGED got

\* Frames reach the session being served.
Collect ==
    /\ \E t \in Tasks : Active(t)
    /\ got' \in Nat
    /\ got' > got
    /\ UNCHANGED <<stage, ahead, verdict>>

\* A call ends: normally when its commands were answered, or with an error.
Finish(t) ==
    /\ Active(t)
    /\ stage' = [stage EXCEPT ![t] = "idle"]
    /\ got' = 0
    /\ \/ got >= Need[t] /\ verdict' = [verdict EXCEPT ![t] = "ok"]
       \/ verdict' = [verdict EXCEPT ![t] = "failed"]
    /\ UNCHANGED ahead

Next ==
    \/ Collect
    \/ \E t \in Tasks :
          AskServed(t) \/ AskQueued(t) \/ Grant(t) \/ GiveUp(t) \/ Finish(t)

Spec == Init /\ [][Next]_vars
===============================================================================
