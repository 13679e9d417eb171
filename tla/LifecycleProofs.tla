---------------------------- MODULE LifecycleProofs ----------------------------
(***************************************************************************)
(* What holds of the entries for any number of units, reloads and changes. *)
(***************************************************************************)
EXTENDS Lifecycle, TLAPS

USE LifecycleAssumption

-------------------------------------------------------------------------------
(* Types                                                                   *)

\* Every reload that the listener asked for stands for a change of the options.
Typed == TypeOK /\ \A e \in Entries : reloads[e] <= options[e]

LEMMA TypedStep == Typed /\ [Next]_vars => Typed'
<1>. SUFFICES ASSUME Typed, [Next]_vars PROVE Typed'
  OBVIOUS
<1>. USE DEF Typed, TypeOK, States, Coordinators, entryVars, coordinatorVars, optionVars
<1>1. ASSUME NEW e \in Entries, Create(e) PROVE Typed'
  BY <1>1 DEF Create
<1>2. ASSUME NEW e \in Entries, OptionsChange(e) PROVE Typed'
  BY <1>2 DEF OptionsChange
<1>3. ASSUME NEW e \in Entries, SetupStarts(e) PROVE Typed'
  BY <1>3 DEF SetupStarts, Build, Awaits
<1>4. ASSUME NEW e \in Entries, RefreshFails(e) \/ PlatformsFail(e) \/ UnloadFails(e) PROVE Typed'
  BY <1>4 DEF RefreshFails, PlatformsFail, UnloadFails, Becomes
<1>5. ASSUME NEW e \in Entries, RefreshSucceeds(e) PROVE Typed'
  BY <1>5 DEF RefreshSucceeds, Store, Awaits
<1>6. ASSUME NEW e \in Entries, PlatformsReady(e) PROVE Typed'
  BY <1>6 DEF PlatformsReady, Becomes
<1>7. ASSUME NEW e \in Entries, ReloadStarts(e) PROVE Typed'
  <2>1. reloads' \in [Entries -> 0..MaxOptions] /\ \A f \in Entries : reloads'[f] <= options'[f]
    BY <1>7 DEF ReloadStarts
  <2>2. CASE state[e] = "loaded" /\ Awaits(e, "unload") /\ UNCHANGED <<built, used>>
    BY <1>7, <2>1, <2>2 DEF ReloadStarts, Awaits
  <2>3. CASE Build(e)
    BY <1>7, <2>1, <2>3 DEF ReloadStarts, Build, Awaits
  <2>4. CASE UNCHANGED <<entryVars, built, used>>
    BY <1>7, <2>1, <2>4 DEF ReloadStarts
  <2>. QED
    BY <1>7, <2>2, <2>3, <2>4 DEF ReloadStarts
<1>8. ASSUME NEW e \in Entries, UnloadSucceeds(e) PROVE Typed'
  BY <1>8 DEF UnloadSucceeds
<1>9. ASSUME NEW e \in Entries, Remove(e) PROVE Typed'
  BY <1>9 DEF Remove, Becomes, Awaits
<1>10. ASSUME NEW e \in Entries, Removed(e) PROVE Typed'
  <2>1. data' \in [Entries -> 0..MaxCoordinators]
    BY <1>10 DEF Removed
  <2>2. listening' = listening \/ listening' = [listening EXCEPT ![e] = FALSE]
    BY <1>10, Zenon DEF Removed
  <2>3. listening' \in [Entries -> BOOLEAN]
    BY <2>2
  <2>. QED
    BY <1>10, <2>1, <2>3 DEF Removed, Becomes
<1>11. ASSUME NEW t \in Calls, Call(t) \/ CallRuns(t) \/ CallEnds(t) PROVE Typed'
  BY <1>11 DEF Call, CallRuns, CallEnds, Idle
<1>12. ASSUME UNCHANGED vars PROVE Typed'
  BY <1>12 DEF vars
<1>. QED
  BY <1>1, <1>2, <1>3, <1>4, <1>5, <1>6, <1>7, <1>8, <1>9, <1>10, <1>11, <1>12,
     Zenon DEF Next, Manage

LEMMA TypedInit == Init => Typed
<1>. SUFFICES ASSUME Init PROVE Typed
  OBVIOUS
<1>1. listening \in [Entries -> BOOLEAN] /\ services \in BOOLEAN
  BY Zenon DEF Init
<1>2. /\ state \in [Entries -> States]
      /\ built \in [Entries -> Coordinators] /\ data \in [Entries -> Coordinators]
      /\ options \in [Entries -> 0..MaxOptions] /\ used \in [Entries -> 0..MaxOptions]
      /\ heard \in [Entries -> 0..MaxOptions] /\ reloads \in [Entries -> 0..MaxOptions]
      /\ \A e \in Entries : reloads[e] <= options[e]
  BY DEF Init, States, Coordinators
<1>. QED
  BY <1>1, <1>2 DEF Init, Typed, TypeOK

\* Whatever the order of set-ups, reloads and removals, no more reloads wait than
\* the options were changed, and a call has the coordinator that was stored.
THEOREM TypeCorrect == Spec => []TypeOK
<1>1. Typed => TypeOK
  BY DEF Typed
<1>. QED
  BY <1>1, TypedInit, TypedStep, PTL DEF Spec

-------------------------------------------------------------------------------
(* A loaded entry is found by the services                                 *)

\* An entry that is set up is not loaded, and stores its coordinator before it
\* waits for the platforms.
Found(e) ==
    /\ state[e] = "loaded" => data[e] = built[e]
    /\ await[e] = "platforms" => data[e] = built[e]
    /\ await[e] \in {"refresh", "platforms", "restart"} => state[e] # "loaded"

LEMMA FoundStep ==
    Typed /\ (\A e \in Entries : Found(e)) /\ [Next]_vars => (\A e \in Entries : Found(e))'
<1>. SUFFICES ASSUME Typed, \A e \in Entries : Found(e), [Next]_vars, NEW f \in Entries
              PROVE  Found(f)'
  BY Zenon
<1>. USE DEF Typed, TypeOK, Found, entryVars, coordinatorVars
<1>1. ASSUME NEW e \in Entries, SetupStarts(e) PROVE Found(f)'
  BY <1>1 DEF SetupStarts, Build, Awaits
<1>2. ASSUME NEW e \in Entries, RefreshFails(e) \/ PlatformsFail(e) \/ UnloadFails(e)
      PROVE  Found(f)'
  BY <1>2 DEF RefreshFails, PlatformsFail, UnloadFails, Becomes
<1>3. ASSUME NEW e \in Entries, RefreshSucceeds(e) PROVE Found(f)'
  BY <1>3 DEF RefreshSucceeds, Store, Awaits
<1>4. ASSUME NEW e \in Entries, PlatformsReady(e) PROVE Found(f)'
  BY <1>4 DEF PlatformsReady, Becomes
<1>5. ASSUME NEW e \in Entries, ReloadStarts(e) PROVE Found(f)'
  BY <1>5 DEF ReloadStarts, Build, Awaits
<1>6. ASSUME NEW e \in Entries, UnloadSucceeds(e) PROVE Found(f)'
  BY <1>6 DEF UnloadSucceeds
<1>7. ASSUME NEW e \in Entries, Create(e) \/ Remove(e) \/ Removed(e) PROVE Found(f)'
  BY <1>7 DEF Create, Remove, Removed, Becomes, Awaits
<1>8. ASSUME \/ \E e \in Entries : OptionsChange(e)
             \/ \E t \in Calls : Call(t) \/ CallRuns(t) \/ CallEnds(t)
             \/ UNCHANGED vars
      PROVE  Found(f)'
  BY <1>8 DEF OptionsChange, Call, CallRuns, CallEnds, vars
<1>. QED
  BY <1>1, <1>2, <1>3, <1>4, <1>5, <1>6, <1>7, <1>8, Zenon DEF Next, Manage

\* However set-ups and unloads failed before, the coordinator that the services
\* find for a loaded entry is the one its platforms use.
THEOREM LoadedEntriesAreStored == Spec => []LoadedIsStored
<1>1. Init => \A e \in Entries : Found(e)
  BY DEF Init, Found
<1>2. (\A e \in Entries : Found(e)) => LoadedIsStored
  BY DEF Found, LoadedIsStored
<1>. QED
  BY <1>1, <1>2, TypedInit, TypedStep, FoundStep, PTL DEF Spec

-------------------------------------------------------------------------------
(* No coordinator is used before it has polled                             *)

\* What is stored and what the calls have was built before, and is not the coordinator
\* whose first poll is pending or has failed.
Behind(e) ==
    /\ data[e] <= built[e]
    /\ Unpolled(e) => data[e] # built[e]
    /\ \A t \in Calls : calls[t] # Idle /\ calls[t].entry = e =>
          /\ calls[t].by <= built[e]
          /\ Unpolled(e) => calls[t].by # built[e]

LEMMA BehindStep ==
    Typed /\ (\A e \in Entries : Behind(e)) /\ [Next]_vars => (\A e \in Entries : Behind(e))'
<1>. SUFFICES ASSUME Typed, \A e \in Entries : Behind(e), [Next]_vars, NEW f \in Entries
              PROVE  Behind(f)'
  BY Zenon
<1>. USE DEF Typed, TypeOK, Behind, Unpolled, entryVars, coordinatorVars, Coordinators
<1>1. ASSUME NEW e \in Entries, Build(e), UNCHANGED <<data, calls>> PROVE Behind(f)'
  BY <1>1 DEF Build, Awaits
<1>2. ASSUME NEW e \in Entries, SetupStarts(e) PROVE Behind(f)'
  BY <1>1, <1>2 DEF SetupStarts
<1>3. ASSUME NEW e \in Entries, RefreshFails(e) \/ PlatformsFail(e) \/ UnloadFails(e)
      PROVE  Behind(f)'
  BY <1>3 DEF RefreshFails, PlatformsFail, UnloadFails, Becomes
<1>4. ASSUME NEW e \in Entries, RefreshSucceeds(e) PROVE Behind(f)'
  BY <1>4 DEF RefreshSucceeds, Store, Awaits
<1>5. ASSUME NEW e \in Entries, PlatformsReady(e) PROVE Behind(f)'
  BY <1>5 DEF PlatformsReady, Becomes
<1>6. ASSUME NEW e \in Entries, ReloadStarts(e) PROVE Behind(f)'
  <2>1. CASE state[e] = "loaded" /\ Awaits(e, "unload") /\ UNCHANGED <<built, used>>
    BY <1>6, <2>1 DEF ReloadStarts, Awaits
  <2>2. CASE Build(e)
    BY <1>1, <1>6, <2>2 DEF ReloadStarts
  <2>3. CASE UNCHANGED <<entryVars, built, used>>
    BY <1>6, <2>3 DEF ReloadStarts
  <2>. QED
    BY <1>6, <2>1, <2>2, <2>3 DEF ReloadStarts
<1>7. ASSUME NEW e \in Entries, UnloadSucceeds(e) PROVE Behind(f)'
  BY <1>7 DEF UnloadSucceeds
<1>8. ASSUME NEW e \in Entries, Create(e) \/ Remove(e) \/ Removed(e) PROVE Behind(f)'
  <2>1. CASE Create(e) \/ Remove(e)
    BY <2>1 DEF Create, Remove, Becomes, Awaits
  <2>2. CASE Removed(e)
    BY <2>2 DEF Removed, Becomes
  <2>. QED
    BY <1>8, <2>1, <2>2
<1>9. ASSUME NEW t \in Calls, Call(t) PROVE Behind(f)'
  BY <1>9 DEF Call, Idle
<1>10. ASSUME NEW t \in Calls, CallRuns(t) \/ CallEnds(t) PROVE Behind(f)'
  BY <1>10 DEF CallRuns, CallEnds, Idle
<1>11. ASSUME (\E e \in Entries : OptionsChange(e)) \/ UNCHANGED vars PROVE Behind(f)'
  BY <1>11 DEF OptionsChange, vars
<1>. QED
  BY <1>2, <1>3, <1>4, <1>5, <1>6, <1>7, <1>8, <1>9, <1>10, <1>11, Zenon DEF Next, Manage

\* However set-ups fail and are tried again, and whatever earlier ones left behind, no
\* service reaches a unit through a coordinator that has not polled it.
THEOREM UnitsArePolledFirst == Spec => []PolledBeforeUse
<1>1. Init => \A e \in Entries : Behind(e)
  <2>. SUFFICES ASSUME Init, NEW e \in Entries PROVE Behind(e)
    OBVIOUS
  <2>1. data[e] = 0 /\ built[e] = 0 /\ ~ Unpolled(e)
    BY DEF Init, Unpolled
  <2>2. \A t \in Calls : calls[t] = Idle
    BY Zenon DEF Init
  <2>. QED
    BY <2>1, <2>2 DEF Behind
<1>2. (\A e \in Entries : Behind(e)) => PolledBeforeUse
  BY DEF Behind, PolledBeforeUse, Reached
<1>. QED
  BY <1>1, <1>2, TypedInit, TypedStep, BehindStep, PTL DEF Spec

-------------------------------------------------------------------------------
(* A change that the listener was told of is applied                       *)

\* The listener is there only once the entry is loaded, so that nothing is heard
\* while a set-up uses the options it has read.
Told(e) ==
    /\ heard[e] <= options[e]
    /\ listening[e] => state[e] \in {"loaded", "failed_unload", "removed"}
    /\ await[e] \in {"refresh", "platforms"} =>
          state[e] \notin {"loaded", "failed_unload", "removed"} /\ used[e] >= heard[e]
    /\ await[e] = "restart" => state[e] = "not_loaded"
    /\ Settled(e) => used[e] >= heard[e]

LEMMA ToldStep ==
    Typed /\ (\A e \in Entries : Told(e)) /\ [Next]_vars => (\A e \in Entries : Told(e))'
<1>. SUFFICES ASSUME Typed, \A e \in Entries : Told(e), [Next]_vars, NEW f \in Entries
              PROVE  Told(f)'
  BY Zenon
<1>. USE DEF Typed, TypeOK, Told, Settled, entryVars, optionVars
<1>1. ASSUME NEW e \in Entries, SetupStarts(e) PROVE Told(f)'
  BY <1>1 DEF SetupStarts, Build, Awaits
<1>2. ASSUME NEW e \in Entries, RefreshFails(e) \/ PlatformsFail(e) \/ UnloadFails(e)
      PROVE  Told(f)'
  BY <1>2 DEF RefreshFails, PlatformsFail, UnloadFails, Becomes
<1>3. ASSUME NEW e \in Entries, RefreshSucceeds(e) PROVE Told(f)'
  BY <1>3 DEF RefreshSucceeds, Awaits
<1>4. ASSUME NEW e \in Entries, PlatformsReady(e) PROVE Told(f)'
  BY <1>4 DEF PlatformsReady, Becomes
<1>5. ASSUME NEW e \in Entries, OptionsChange(e) PROVE Told(f)'
  BY <1>5 DEF OptionsChange, Exists
<1>6. ASSUME NEW e \in Entries, ReloadStarts(e) PROVE Told(f)'
  BY <1>6 DEF ReloadStarts, Build, Awaits
<1>7. ASSUME NEW e \in Entries, UnloadSucceeds(e) PROVE Told(f)'
  BY <1>7 DEF UnloadSucceeds
<1>8. ASSUME NEW e \in Entries, Create(e) \/ Remove(e) \/ Removed(e) PROVE Told(f)'
  BY <1>8 DEF Create, Remove, Removed, Becomes, Awaits
<1>9. ASSUME \/ \E t \in Calls : Call(t) \/ CallRuns(t) \/ CallEnds(t)
             \/ UNCHANGED vars
      PROVE  Told(f)'
  BY <1>9 DEF Call, CallRuns, CallEnds, vars
<1>. QED
  BY <1>1, <1>2, <1>3, <1>4, <1>5, <1>6, <1>7, <1>8, <1>9, Zenon DEF Next, Manage

\* No change that the listener was told of is lost, however many changes and
\* reloads overlap.
THEOREM HeardChangesAreUsed == Spec => []HeardIsUsed
<1>1. Init => \A e \in Entries : Told(e)
  <2>. SUFFICES ASSUME Init, NEW e \in Entries PROVE Told(e)
    OBVIOUS
  <2>1. heard[e] = 0 /\ options[e] = 0 /\ state[e] = "absent" /\ await[e] = "nothing"
    BY DEF Init
  <2>2. ~listening[e]
    BY Zenon DEF Init
  <2>. QED
    BY <2>1, <2>2 DEF Told, Settled
<1>2. (\A e \in Entries : Told(e)) => HeardIsUsed
  BY DEF Told, HeardIsUsed
<1>. QED
  BY <1>1, <1>2, TypedInit, TypedStep, ToldStep, PTL DEF Spec
===============================================================================
