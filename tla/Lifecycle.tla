------------------------------- MODULE Lifecycle -------------------------------
(***************************************************************************)
(* Set-up, unload, reload and removal of the config entries, and the       *)
(* services (src/custom_components/jackery/__init__.py).                   *)
(*                                                                         *)
(* Every set-up builds a coordinator, and with it a BLE client that has a  *)
(* lock of its own.  The coordinators of an entry are numbered; 0 is none. *)
(* The calls are those of the services and the entities: they belong to    *)
(* their callers, and an unload neither waits for them nor cancels them.   *)
(*                                                                         *)
(* That Home Assistant handles one set-up, unload or reload of an entry at *)
(* a time, and reloads it when a listener asks, is how the code uses it.   *)
(***************************************************************************)
EXTENDS Naturals

CONSTANTS
    Entries,        \* the config entries that come to exist, each once
    Calls,          \* the tasks that call a service or an entity
    MaxCoordinators,\* bound: coordinators built for an entry
    MaxOptions      \* bound: changes of the options of an entry

ASSUME LifecycleAssumption == MaxCoordinators \in Nat /\ MaxOptions \in Nat

VARIABLES
    state,          \* the state of each entry
    await,          \* what its set-up or unload is waiting for
    built,          \* the coordinator built last
    data,           \* hass.data[DOMAIN]: the coordinator stored
    services,       \* the services are registered
    options,        \* the version of the options of each entry
    used,           \* the version that the coordinator built last was given
    listening,      \* the update listener is added
    heard,          \* the version of which the update listener was last told
    reloads,        \* reloads that wait for their turn
    calls           \* the call of each task

entryVars == <<state, await>>
coordinatorVars == <<built, data, services>>
optionVars == <<options, used, listening, heard, reloads>>
vars == <<entryVars, coordinatorVars, optionVars, calls>>

States == {"absent", "not_loaded", "loaded", "setup_retry", "setup_error", "failed_unload",
           "removed"}
Coordinators == 0..MaxCoordinators
Idle == [stage |-> "idle"]

TypeOK ==
    /\ state \in [Entries -> States]
    /\ await \in [Entries -> {"nothing", "refresh", "platforms", "unload", "restart", "removal"}]
    /\ built \in [Entries -> Coordinators]
    /\ data \in [Entries -> Coordinators]
    /\ services \in BOOLEAN
    /\ options \in [Entries -> 0..MaxOptions]
    /\ used \in [Entries -> 0..MaxOptions]
    /\ listening \in [Entries -> BOOLEAN]
    /\ heard \in [Entries -> 0..MaxOptions]
    /\ reloads \in [Entries -> 0..MaxOptions]
    /\ calls \in [Calls -> {Idle} \cup
          [stage : {"waiting", "running"}, entry : Entries, by : Coordinators \ {0}]]

Init ==
    /\ state = [e \in Entries |-> "absent"]
    /\ await = [e \in Entries |-> "nothing"]
    /\ built = [e \in Entries |-> 0]
    /\ data = [e \in Entries |-> 0]
    /\ services = FALSE
    /\ options = [e \in Entries |-> 0]
    /\ used = [e \in Entries |-> 0]
    /\ listening = [e \in Entries |-> FALSE]
    /\ heard = [e \in Entries |-> 0]
    /\ reloads = [e \in Entries |-> 0]
    /\ calls = [t \in Calls |-> Idle]

Becomes(e, how) ==
    /\ state' = [state EXCEPT ![e] = how]
    /\ await' = [await EXCEPT ![e] = "nothing"]

Awaits(e, what) == await' = [await EXCEPT ![e] = what] /\ UNCHANGED state

Exists(e) == state[e] \notin {"absent", "removed"}

\* A flow has created the entry.
Create(e) ==
    /\ state[e] = "absent"
    /\ state' = [state EXCEPT ![e] = "not_loaded"]
    /\ UNCHANGED <<await, coordinatorVars, optionVars, calls>>

-------------------------------------------------------------------------------
(* async_setup_entry                                                       *)

\* Mutant: the options of the first set-up are kept.
BuildFromOldOptions(e) ==
    /\ built[e] < MaxCoordinators
    /\ built' = [built EXCEPT ![e] = @ + 1]
    /\ used' = [used EXCEPT ![e] = IF built[e] = 0 THEN options[e] ELSE @]
    /\ Awaits(e, "refresh")

\* The coordinator is built from the options of the moment, and polls.
Build(e) ==
    /\ built[e] < MaxCoordinators
    /\ built' = [built EXCEPT ![e] = @ + 1]
    /\ used' = [used EXCEPT ![e] = options[e]]
    /\ Awaits(e, "refresh")

\* Mutant: the coordinator is stored before it has polled.
SetupStores(e) ==
    /\ \/ await[e] = "nothing" /\ state[e] \in {"not_loaded", "setup_retry"}
       \/ await[e] = "restart"
    /\ Build(e)
    /\ data' = [data EXCEPT ![e] = built[e] + 1]
    /\ UNCHANGED <<services, options, listening, heard, reloads, calls>>

\* At start, when a set-up is tried again, or as the second half of a reload.
SetupStarts(e) ==
    /\ \/ await[e] = "nothing" /\ state[e] \in {"not_loaded", "setup_retry"}
       \/ await[e] = "restart"
    /\ Build(e)
    /\ UNCHANGED <<data, services, options, listening, heard, reloads, calls>>

\* ConfigEntryNotReady: nothing has been stored.
RefreshFails(e) ==
    /\ await[e] = "refresh"
    /\ Becomes(e, "setup_retry")
    /\ UNCHANGED <<coordinatorVars, optionVars, calls>>

\* Mutant: what is stored under the entry is not replaced.
StoreOnce(e) == data' = [data EXCEPT ![e] = IF @ = 0 THEN built[e] ELSE @]

\* hass.data is a dict of coordinators by entry.
Store(e) == data' = [data EXCEPT ![e] = built[e]]

RefreshSucceeds(e) ==
    /\ await[e] = "refresh"
    /\ Store(e)
    /\ Awaits(e, "platforms")
    /\ UNCHANGED <<built, services, optionVars, calls>>

\* Only now are changes of the options listened to.
PlatformsReady(e) ==
    /\ await[e] = "platforms"
    /\ listening' = [listening EXCEPT ![e] = TRUE]
    /\ services' = TRUE
    /\ Becomes(e, "loaded")
    /\ UNCHANGED <<built, data, options, used, heard, reloads, calls>>

\* The forwarding raises: the coordinator stays stored.
PlatformsFail(e) ==
    /\ await[e] = "platforms"
    /\ Becomes(e, "setup_error")
    /\ UNCHANGED <<coordinatorVars, optionVars, calls>>

-------------------------------------------------------------------------------
(* async_unload_entry and _async_update_listener                           *)

\* The options flow is finished, in whatever state the entry is by then.
OptionsChange(e) ==
    /\ Exists(e)
    /\ options[e] < MaxOptions
    /\ options' = [options EXCEPT ![e] = @ + 1]
    /\ IF listening[e]
       THEN /\ heard' = [heard EXCEPT ![e] = options[e] + 1]
            /\ reloads' = [reloads EXCEPT ![e] = @ + 1]
       ELSE UNCHANGED <<heard, reloads>>
    /\ UNCHANGED <<entryVars, coordinatorVars, used, listening, calls>>

\* async_reload, for the listener or for the user, has its turn.
ReloadStarts(e) ==
    /\ await[e] = "nothing"
    /\ \/ reloads[e] > 0 /\ reloads' = [reloads EXCEPT ![e] = @ - 1]
       \/ UNCHANGED reloads
    /\ \/ state[e] = "loaded" /\ Awaits(e, "unload") /\ UNCHANGED <<built, used>>
       \/ state[e] \in {"not_loaded", "setup_retry", "setup_error"} /\ Build(e)
       \/ state[e] = "failed_unload" /\ reloads'[e] < reloads[e]
          /\ UNCHANGED <<entryVars, built, used>>
    /\ UNCHANGED <<data, services, options, listening, heard, calls>>

\* The platforms are unloaded: the coordinator is dropped, the listener removed.
UnloadSucceeds(e) ==
    /\ await[e] = "unload"
    /\ data' = [data EXCEPT ![e] = 0]
    /\ listening' = [listening EXCEPT ![e] = FALSE]
    /\ state' = [state EXCEPT ![e] = "not_loaded"]
    /\ await' = [await EXCEPT ![e] = "restart"]
    /\ UNCHANGED <<built, services, options, used, heard, reloads, calls>>

UnloadFails(e) ==
    /\ await[e] = "unload"
    /\ Becomes(e, "failed_unload")
    /\ UNCHANGED <<coordinatorVars, optionVars, calls>>

\* The user removes the entry.  Only a loaded one is unloaded first; what another
\* has stored stays.
Remove(e) ==
    /\ Exists(e) /\ await[e] = "nothing"
    /\ IF state[e] = "loaded" THEN Awaits(e, "removal") ELSE Becomes(e, "removed")
    /\ UNCHANGED <<coordinatorVars, optionVars, calls>>

\* It is removed, whether or not the platforms could be unloaded.
Removed(e) ==
    /\ await[e] = "removal"
    /\ Becomes(e, "removed")
    /\ \/ /\ data' = [data EXCEPT ![e] = 0]
          /\ listening' = [listening EXCEPT ![e] = FALSE]
       \/ UNCHANGED <<data, listening>>
    /\ UNCHANGED <<built, services, options, used, heard, reloads, calls>>

-------------------------------------------------------------------------------
(* Calls                                                                   *)

\* Mutant: a unit of which nothing is stored is not refused.
CallUnchecked(t) ==
    /\ services
    /\ calls[t] = Idle
    /\ \E e \in Entries :
          calls' = [calls EXCEPT ![t] = [stage |-> "waiting", entry |-> e, by |-> data[e]]]
    /\ UNCHANGED <<entryVars, coordinatorVars, optionVars>>

\* _resolve_coordinator finds the coordinator stored for the unit.
Call(t) ==
    /\ services
    /\ calls[t] = Idle
    /\ \E e \in Entries :
          /\ data[e] # 0
          /\ calls' = [calls EXCEPT ![t] = [stage |-> "waiting", entry |-> e, by |-> data[e]]]
    /\ UNCHANGED <<entryVars, coordinatorVars, optionVars>>

\* The calls in a session with the unit of e.
Running(e) == {t \in Calls : calls[t].stage = "running" /\ calls[t].entry = e}

\* The client of the coordinator runs one session at a time.
CallRuns(t) ==
    /\ calls[t].stage = "waiting"
    /\ \A u \in Running(calls[t].entry) : calls[u].by # calls[t].by
    /\ calls' = [calls EXCEPT ![t].stage = "running"]
    /\ UNCHANGED <<entryVars, coordinatorVars, optionVars>>

CallEnds(t) ==
    /\ calls[t] # Idle
    /\ calls' = [calls EXCEPT ![t] = Idle]
    /\ UNCHANGED <<entryVars, coordinatorVars, optionVars>>

-------------------------------------------------------------------------------

\* What Home Assistant does with an entry that exists.
Manage(e) ==
    \/ SetupStarts(e) \/ RefreshFails(e) \/ RefreshSucceeds(e)
    \/ PlatformsReady(e) \/ PlatformsFail(e)
    \/ ReloadStarts(e) \/ UnloadSucceeds(e) \/ UnloadFails(e)
    \/ Remove(e) \/ Removed(e)

Next ==
    \/ \E e \in Entries : Create(e) \/ OptionsChange(e) \/ Manage(e)
    \/ \E t \in Calls : Call(t) \/ CallRuns(t) \/ CallEnds(t)

Spec == Init /\ [][Next]_vars

-------------------------------------------------------------------------------
(* Properties                                                              *)

\* What the services find for a loaded entry is the coordinator that its last
\* set-up built, whatever set-ups and unloads failed before.
LoadedIsStored == \A e \in Entries : state[e] = "loaded" => data[e] = built[e]

\* A unit whose first poll is pending or has failed is not reached through the new
\* coordinator: neither the services find it nor does a call have it, although they may
\* go on with one that an earlier set-up left behind.
Unpolled(e) == await[e] = "refresh" \/ (state[e] = "setup_retry" /\ await[e] = "nothing")
Reached(e) == {data[e]} \cup {calls[t].by : t \in {c \in Calls : calls[c] # Idle /\ calls[c].entry = e}}
PolledBeforeUse == \A e \in Entries : Unpolled(e) => built[e] \notin Reached(e)

\* A change of which the listener was told is in use when the entry is loaded and
\* no reload is under way.
Settled(e) == state[e] = "loaded" /\ await[e] = "nothing" /\ reloads[e] = 0
HeardIsUsed == \A e \in Entries : Settled(e) => used[e] >= heard[e]

\* "a scheduled poll and a user-triggered write never share overlapping GATT
\* sessions with the same device": the first poll of a new coordinator is none of
\* an old coordinator's business.
NoOverlap == \A e \in Entries : await[e] = "refresh" => Running(e) = {}
===============================================================================
