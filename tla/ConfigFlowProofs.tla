---------------------------- MODULE ConfigFlowProofs ----------------------------
(***************************************************************************)
(* What holds of the flows for any number of forms, units and entries: a   *)
(* flow never takes the place of an entry, so that to the entries it is    *)
(* the creation that Lifecycle has.                                        *)
(***************************************************************************)
EXTENDS ConfigFlow, LifecycleProofs

USE LifecycleAssumption, FlowAssumption

-------------------------------------------------------------------------------
(* The entries of a step                                                   *)

\* Only an entry that exists is set up, unloaded or removed.
Busy == \A e \in Entries : await[e] # "nothing" => Exists(e)

LEMMA BusyStep == Typed /\ Busy /\ [Next]_vars => Busy'
<1>. SUFFICES ASSUME Typed, Busy, [Next]_vars PROVE Busy'
  OBVIOUS
<1>. USE DEF Typed, TypeOK, Busy, Exists, entryVars
<1>1. ASSUME NEW e \in Entries, Create(e) \/ OptionsChange(e) PROVE Busy'
  BY <1>1 DEF Create, OptionsChange
<1>2. ASSUME NEW e \in Entries, SetupStarts(e) \/ ReloadStarts(e) PROVE Busy'
  BY <1>2 DEF SetupStarts, ReloadStarts, Build, Awaits
<1>3. ASSUME NEW e \in Entries, \/ RefreshFails(e) \/ PlatformsFail(e) \/ UnloadFails(e)
                                \/ RefreshSucceeds(e) \/ PlatformsReady(e) \/ UnloadSucceeds(e)
      PROVE  Busy'
  BY <1>3 DEF RefreshFails, PlatformsFail, UnloadFails, RefreshSucceeds, PlatformsReady,
     UnloadSucceeds, Becomes, Awaits
<1>4. ASSUME NEW e \in Entries, Remove(e) \/ Removed(e) PROVE Busy'
  BY <1>4 DEF Remove, Removed, Becomes, Awaits
<1>5. ASSUME UNCHANGED entryVars PROVE Busy'
  BY <1>5
<1>. QED
  BY <1>1, <1>2, <1>3, <1>4, <1>5, Zenon DEF Next, Manage, Call, CallRuns, CallEnds, vars

\* What Home Assistant does with an entry brings none into being.
LEMMA ManageCreatesNone ==
    ASSUME Typed, Busy, NEW e \in Entries, Manage(e), NEW f \in Entries, Exists(f)'
    PROVE  Exists(f)
<1>. USE DEF Typed, TypeOK, Busy, Exists, entryVars
<1>1. CASE SetupStarts(e) \/ ReloadStarts(e)
  BY <1>1 DEF SetupStarts, ReloadStarts, Build, Awaits
<1>2. CASE \/ RefreshFails(e) \/ PlatformsFail(e) \/ UnloadFails(e)
           \/ RefreshSucceeds(e) \/ PlatformsReady(e) \/ UnloadSucceeds(e)
  BY <1>2 DEF RefreshFails, PlatformsFail, UnloadFails, RefreshSucceeds, PlatformsReady,
     UnloadSucceeds, Becomes, Awaits
<1>3. CASE Remove(e) \/ Removed(e)
  BY <1>3 DEF Remove, Removed, Becomes, Awaits
<1>. QED
  BY <1>1, <1>2, <1>3, Zenon DEF Manage

\* A coordinator is built from the options of the moment or not at all.
LEMMA ManageBuilds ==
    ASSUME Typed, NEW e \in Entries, Manage(e)
    PROVE  /\ options' = options
           /\ \/ built' = built /\ used' = used
              \/ built' = [built EXCEPT ![e] = @ + 1] /\ used' = [used EXCEPT ![e] = options[e]]
<1>. USE DEF coordinatorVars, optionVars
<1>1. CASE SetupStarts(e) \/ ReloadStarts(e)
  BY <1>1 DEF SetupStarts, ReloadStarts, Build
<1>2. CASE \/ RefreshFails(e) \/ PlatformsFail(e) \/ UnloadFails(e)
           \/ RefreshSucceeds(e) \/ PlatformsReady(e) \/ UnloadSucceeds(e)
           \/ Remove(e) \/ Removed(e)
  BY <1>2 DEF RefreshFails, PlatformsFail, UnloadFails, RefreshSucceeds, PlatformsReady,
     UnloadSucceeds, Remove, Removed
<1>. QED
  BY <1>1, <1>2, Zenon DEF Manage

-------------------------------------------------------------------------------
(* The forms                                                               *)

LEMMA Forms ==
    ASSUME FlowTypeOK, NEW k \in Flows
    PROVE  /\ flows[k].form = "confirm" <=> \E u \in Named : flows[k] = Confirm(u)
           /\ \A u, v : Confirm(u) = Confirm(v) => u = v
<1>1. \/ flows[k] = Closed
      \/ \E u \in Named : flows[k] = Confirm(u)
      \/ \E offered \in SUBSET Units : flows[k] = User(offered)
  BY DEF FlowTypeOK
<1>2. \A u : Confirm(u).form = "confirm" /\ Confirm(u).unit = u
  BY DEF Confirm
<1>3. Closed.form = "none" /\ \A offered : User(offered).form = "user"
  BY DEF Closed, User
<1>. QED
  BY <1>1, <1>2, <1>3

\* A flow that ends finds no entry of its unit: it creates one as Lifecycle has it.
LEMMA FinishCreates ==
    ASSUME Typed, FlowTypeOK, NEW k \in Flows, NEW u \in Units, Finish(k, u), EntriesOf(u) = {}
    PROVE  \E e \in Entries : Create(e) /\ unit' = [unit EXCEPT ![e] = u]
<1>1. PICK e \in Entries :
          /\ state[e] = "absent"
          /\ unit' = [unit EXCEPT ![e] = u]
          /\ state' = [f \in Entries |-> IF f = e THEN "not_loaded" ELSE state[f]]
  BY DEF Finish
<1>2. state' = [state EXCEPT ![e] = "not_loaded"]
  BY <1>1 DEF Typed, TypeOK
<1>. QED
  BY <1>1, <1>2 DEF Finish, Create

LEMMA ConfirmedIsNew ==
    ASSUME OnePrompt, NEW k \in Flows, NEW u \in Named, flows[k] = Confirm(u)
    PROVE  u \notin CurrentIds /\ EntriesOf(u) = {}
  BY DEF OnePrompt, FlowsOf, CurrentIds, Configured

FlowInv == Typed /\ Busy /\ FlowTypeOK /\ OnePrompt

\* The steps of the flows, as the entries see them.
LEMMA FlowStepIsLifecycleStep == FlowInv /\ [FlowNext]_<<vars, flowVars>> => [Next]_vars
<1>. SUFFICES ASSUME FlowInv, [FlowNext]_<<vars, flowVars>> PROVE [Next]_vars
  OBVIOUS
<1>1. ASSUME NEW k \in Flows, NEW u \in Units, Finish(k, u), EntriesOf(u) = {} PROVE Next
  BY <1>1, FinishCreates, Zenon DEF FlowInv, Next
<1>2. ASSUME NEW k \in Flows, SendConfirm(k) PROVE Next
  BY <1>1, <1>2, ConfirmedIsNew DEF SendConfirm, FlowInv
<1>3. ASSUME NEW k \in Flows, NEW u \in Units, SendUser(k, u) PROVE [Next]_vars
  BY <1>1, <1>3 DEF SendUser, Configured
<1>4. ASSUME NEW k \in Flows, NEW u \in Units, Discover(k, u) PROVE UNCHANGED vars
  BY <1>4 DEF Discover
<1>5. ASSUME NEW k \in Flows, OpenUser(k) \/ Ignore(k) \/ Dismiss(k) PROVE UNCHANGED vars
  BY <1>5, Zenon DEF OpenUser, Ignore, Dismiss
<1>6. ASSUME NEW u \in Units, Unignore(u) PROVE UNCHANGED vars
  BY <1>6 DEF Unignore
<1>7. ASSUME NEW e \in Entries, SendOptions(e) \/ ManageEntry(e) PROVE Next
  BY <1>7, Zenon DEF SendOptions, ManageEntry, Next
<1>8. ASSUME NEW t \in Calls, Call(t) \/ CallRuns(t) \/ CallEnds(t) PROVE Next
  BY <1>8, Zenon DEF Next
<1>. QED
  BY <1>2, <1>3, <1>4, <1>5, <1>6, <1>7, <1>8, Zenon DEF FlowNext

-------------------------------------------------------------------------------
(* Types                                                                   *)

LEMMA FinishTypes ==
    ASSUME FlowTypeOK, NEW k \in Flows, NEW u \in Units, Finish(k, u)
    PROVE  FlowTypeOK'
<1>1. flows' \in [Flows -> {Closed} \cup {Confirm(v) : v \in Named}
                    \cup {User(offered) : offered \in SUBSET Units}]
  BY DEF FlowTypeOK, Finish
<1>2. unit' \in [Entries -> Units \cup {"none"}] /\ ignored' \subseteq Units
  BY DEF FlowTypeOK, Finish
<1>. QED
  BY <1>1, <1>2 DEF FlowTypeOK, Finish

LEMMA FlowTypeStep == FlowTypeOK /\ [FlowNext]_<<vars, flowVars>> => FlowTypeOK'
<1>. SUFFICES ASSUME FlowTypeOK, [FlowNext]_<<vars, flowVars>> PROVE FlowTypeOK'
  OBVIOUS
<1>1. ASSUME NEW k \in Flows, NEW u \in Units, Discover(k, u) PROVE FlowTypeOK'
  BY <1>1 DEF Discover, Shows, FlowTypeOK
<1>2. ASSUME NEW k \in Flows, NEW u \in Units, SendUser(k, u) PROVE FlowTypeOK'
  <2>1. CASE Shows(k, Closed) /\ UNCHANGED <<vars, unit, ignored, stored, reporting>>
    BY <2>1 DEF Shows, FlowTypeOK
  <2>. QED
    BY <1>2, <2>1, FinishTypes DEF SendUser
<1>3. ASSUME NEW k \in Flows, SendConfirm(k) PROVE FlowTypeOK'
  BY <1>3, FinishTypes DEF SendConfirm
<1>4. ASSUME NEW k \in Flows, OpenUser(k) PROVE FlowTypeOK'
  <2>1. PICK visible \in SUBSET Units : Shows(k, User(visible \ CurrentIds))
    BY <1>4 DEF OpenUser, list_visible_devices
  <2>2. visible \ CurrentIds \in SUBSET Units
    OBVIOUS
  <2>. QED
    BY <1>4, <2>1, <2>2 DEF OpenUser, Shows, FlowTypeOK
<1>5. ASSUME NEW k \in Flows, Ignore(k) PROVE FlowTypeOK'
  BY <1>5 DEF Ignore, FlowTypeOK
<1>6. ASSUME NEW k \in Flows, Dismiss(k) PROVE FlowTypeOK'
  BY <1>6 DEF Dismiss, Shows, FlowTypeOK
<1>7. ASSUME NEW u \in Units, Unignore(u) PROVE FlowTypeOK'
  BY <1>7 DEF Unignore, FlowTypeOK
<1>8. ASSUME NEW e \in Entries, SendOptions(e) PROVE FlowTypeOK'
  BY <1>8 DEF SendOptions, Stored, FlowTypeOK
<1>9. ASSUME NEW e \in Entries, ManageEntry(e) PROVE FlowTypeOK'
  <2>1. \E b \in BOOLEAN : reporting' = [reporting EXCEPT ![e] = b]
    <3>1. (stored[e] = "named") \in BOOLEAN /\ reporting[e] \in BOOLEAN
      BY Zenon DEF FlowTypeOK
    <3>2. CASE built' = built
      BY <1>9, <3>1, <3>2, Zenon DEF ManageEntry
    <3>3. CASE built' # built
      BY <1>9, <3>1, <3>3, Zenon DEF ManageEntry
    <3>. QED
      BY <3>2, <3>3
  <2>2. reporting' \in [Entries -> BOOLEAN]
    BY <2>1 DEF FlowTypeOK
  <2>. QED
    BY <1>9, <2>2 DEF ManageEntry, FlowTypeOK
<1>10. ASSUME UNCHANGED flowVars PROVE FlowTypeOK'
  BY <1>10 DEF flowVars, FlowTypeOK
<1>. QED
  BY <1>1, <1>2, <1>3, <1>4, <1>5, <1>6, <1>7, <1>8, <1>9, <1>10, Zenon DEF FlowNext

-------------------------------------------------------------------------------
(* A unit is offered once                                                  *)

\* OnePrompt of the forms that a step leaves open: none is new, and only a unit
\* whose prompts are closed gets an entry or is ignored.
LEMMA FewerPrompts ==
    ASSUME FlowTypeOK, FlowTypeOK', OnePrompt, NEW u,
           \A k \in Flows : flows'[k].form = "confirm" => flows'[k] = flows[k] /\ flows[k] # Confirm(u),
           \A v \in CurrentIds' : v \in CurrentIds \/ v = u
    PROVE  OnePrompt'
  BY DEF OnePrompt, FlowsOf, Confirm

\* The same, when no unit gets an entry or is ignored.
LEMMA SamePrompts ==
    ASSUME FlowTypeOK, FlowTypeOK', OnePrompt, CurrentIds' \subseteq CurrentIds,
           \A k \in Flows : flows'[k].form = "confirm" => flows'[k] = flows[k]
    PROVE  OnePrompt'
  BY DEF OnePrompt, FlowsOf, Confirm

LEMMA SameIds ==
    ASSUME state' = state, unit' = unit, ignored' \subseteq ignored
    PROVE  CurrentIds' \subseteq CurrentIds
  BY DEF CurrentIds, Configured, EntriesOf, Exists

LEMMA FinishPrompts ==
    ASSUME FlowInv, FlowTypeOK', NEW k \in Flows, NEW u \in Units, Finish(k, u),
           EntriesOf(u) = {}
    PROVE  OnePrompt'
<1>1. ASSUME NEW j \in Flows, flows'[j].form = "confirm"
      PROVE  flows'[j] = flows[j] /\ flows[j] # Confirm(u)
  BY <1>1 DEF Finish, FlowsOf, Closed
<1>2. ASSUME NEW v \in CurrentIds' PROVE v \in CurrentIds \/ v = u
  <2>1. PICK e \in Entries : Create(e) /\ unit' = [unit EXCEPT ![e] = u]
    BY FinishCreates DEF FlowInv
  <2>2. ignored' \subseteq ignored
    BY DEF Finish
  <2>3. ASSUME v # u PROVE EntriesOf(v)' \subseteq EntriesOf(v)
    BY <2>1, <2>3 DEF EntriesOf, Exists, Create, FlowInv, Typed, TypeOK, FlowTypeOK
  <2>. QED
    BY <2>2, <2>3 DEF CurrentIds, Configured
<1>. QED
  BY <1>1, <1>2, FewerPrompts DEF FlowInv

LEMMA OnePromptStep == FlowInv /\ FlowTypeOK' /\ [FlowNext]_<<vars, flowVars>> => OnePrompt'
<1>. SUFFICES ASSUME FlowInv, FlowTypeOK', [FlowNext]_<<vars, flowVars>> PROVE OnePrompt'
  OBVIOUS
<1>. USE DEF FlowInv
<1>1. ASSUME NEW k \in Flows, NEW u \in Units, Discover(k, u) PROVE OnePrompt'
  <2>1. CurrentIds' = CurrentIds
    BY <1>1 DEF Discover, CurrentIds, Configured, EntriesOf, Exists, vars, entryVars
  <2>2. flows' = [flows EXCEPT ![k] = Confirm(u)] /\ u \notin CurrentIds
    BY <1>1 DEF Discover, Shows
  <2>3. \A j \in Flows : flows[j] # Confirm(u)
    BY <1>1 DEF Discover, FlowsOf
  <2>. QED
    BY <2>1, <2>2, <2>3 DEF OnePrompt, FlowsOf, Confirm, FlowTypeOK
<1>2. ASSUME NEW k \in Flows, NEW u \in Units, SendUser(k, u) PROVE OnePrompt'
  <2>1. CASE Shows(k, Closed) /\ UNCHANGED <<vars, unit, ignored, stored, reporting>>
    <3>1. CurrentIds' \subseteq CurrentIds
      BY <2>1, SameIds DEF vars, entryVars
    <3>. QED
      BY <2>1, <3>1, SamePrompts DEF Shows, Closed, FlowTypeOK
  <2>2. CASE u \notin Configured /\ Finish(k, u)
    BY <2>2, FinishPrompts DEF Configured
  <2>. QED
    BY <1>2, <2>1, <2>2 DEF SendUser
<1>3. ASSUME NEW k \in Flows, SendConfirm(k) PROVE OnePrompt'
  BY <1>3, ConfirmedIsNew, FinishPrompts DEF SendConfirm
<1>4. ASSUME NEW k \in Flows, OpenUser(k) \/ Dismiss(k) PROVE OnePrompt'
  <2>1. CurrentIds' \subseteq CurrentIds
    BY <1>4, SameIds DEF OpenUser, Dismiss, vars, entryVars
  <2>2. \E form : flows' = [flows EXCEPT ![k] = form] /\ form.form # "confirm"
    BY <1>4 DEF OpenUser, Dismiss, Shows, Closed, User
  <2>. QED
    BY <2>1, <2>2, SamePrompts DEF FlowTypeOK
<1>5. ASSUME NEW k \in Flows, Ignore(k) PROVE OnePrompt'
  <2>1. PICK u \in Named :
           /\ ignored' = ignored \cup {u}
           /\ flows' = [j \in Flows |-> IF j \in FlowsOf(u) THEN Closed ELSE flows[j]]
    BY <1>5 DEF Ignore
  <2>2. \A v \in CurrentIds' : v \in CurrentIds \/ v = u
    BY <1>5, <2>1 DEF Ignore, CurrentIds, Configured, EntriesOf, Exists, vars, entryVars
  <2>3. \A j \in Flows : flows'[j].form = "confirm" => flows'[j] = flows[j] /\ flows[j] # Confirm(u)
    BY <2>1 DEF FlowsOf, Closed
  <2>. QED
    BY <2>2, <2>3, FewerPrompts
<1>6. ASSUME UNCHANGED flows, CurrentIds' \subseteq CurrentIds PROVE OnePrompt'
  BY <1>6, SamePrompts
<1>7. ASSUME NEW u \in Units, Unignore(u) PROVE OnePrompt'
  BY <1>6, <1>7, SameIds DEF Unignore, vars, entryVars
<1>8. ASSUME NEW e \in Entries, SendOptions(e) PROVE OnePrompt'
  BY <1>6, <1>8, SameIds DEF SendOptions, OptionsChange, entryVars
<1>9. ASSUME NEW e \in Entries, ManageEntry(e) PROVE OnePrompt'
  <2>1. \A f \in Entries : Exists(f)' => Exists(f)
    BY <1>9, ManageCreatesNone DEF ManageEntry
  <2>2. CurrentIds' \subseteq CurrentIds
    BY <1>9, <2>1 DEF ManageEntry, CurrentIds, Configured, EntriesOf
  <2>. QED
    BY <1>6, <1>9, <2>2 DEF ManageEntry
<1>10. ASSUME NEW t \in Calls, Call(t) \/ CallRuns(t) \/ CallEnds(t), UNCHANGED flowVars
       PROVE  OnePrompt'
  BY <1>6, <1>10, SameIds DEF Call, CallRuns, CallEnds, flowVars, entryVars
<1>11. ASSUME UNCHANGED <<vars, flowVars>> PROVE OnePrompt'
  BY <1>6, <1>11, SameIds DEF vars, flowVars, entryVars
<1>. QED
  BY <1>1, <1>2, <1>3, <1>4, <1>5, <1>7, <1>8, <1>9, <1>10, <1>11, Zenon DEF FlowNext

LEMMA FlowInvStep == FlowInv /\ [FlowNext]_<<vars, flowVars>> => FlowInv'
  BY TypedStep, BusyStep, FlowTypeStep, OnePromptStep, FlowStepIsLifecycleStep DEF FlowInv

LEMMA FlowInvInit == FlowInit => FlowInv
<1>. SUFFICES ASSUME FlowInit PROVE FlowInv
  OBVIOUS
<1>1. Typed /\ Busy
  BY TypedInit DEF FlowInit, Init, Busy
<1>2. FlowTypeOK
  <2>1. reporting \in [Entries -> BOOLEAN]
    BY Zenon DEF FlowInit
  <2>. QED
    BY <2>1 DEF FlowInit, FlowTypeOK
<1>3. OnePrompt
  <2>1. \A k \in Flows : flows[k].form # "confirm"
    BY DEF FlowInit, Closed
  <2>2. CurrentIds = {}
    BY DEF FlowInit, Init, CurrentIds, Configured, EntriesOf, Exists
  <2>. QED
    BY <2>1, <2>2 DEF OnePrompt
<1>. QED
  BY <1>1, <1>2, <1>3 DEF FlowInv

\* No form is for a device that is not a Jackery unit, however many are open.
THEOREM FlowTypeCorrect == FlowSpec => []FlowTypeOK
<1>1. FlowInv => FlowTypeOK
  BY DEF FlowInv
<1>. QED
  BY <1>1, FlowInvInit, FlowInvStep, PTL DEF FlowSpec

\* Whatever advertisements arrive while forms are open, a unit has one prompt at
\* most, and none when it has an entry or is ignored.
THEOREM UnitsArePromptedOnce == FlowSpec => []OnePrompt
<1>1. FlowInv => OnePrompt
  BY DEF FlowInv
<1>. QED
  BY <1>1, FlowInvInit, FlowInvStep, PTL DEF FlowSpec

-------------------------------------------------------------------------------
(* The flows implement the creation of entries                             *)

\* Every step of the flows is one of Lifecycle or changes nothing of it.
THEOREM FlowsImplementLifecycle == FlowSpec => Spec
<1>1. FlowInit => Init
  BY DEF FlowInit
<1>. QED
  BY <1>1, FlowInvInit, FlowInvStep, FlowStepIsLifecycleStep, PTL DEF FlowSpec, Spec

\* What holds of the entries holds of those that the flows create.
THEOREM ManagedEntriesAreStored ==
    FlowSpec => []LoadedIsStored /\ []PolledBeforeUse /\ []HeardIsUsed
  BY FlowsImplementLifecycle, LoadedEntriesAreStored, UnitsArePolledFirst, HeardChangesAreUsed, PTL

\* No entry ends where another begins: the forms that were open when a unit was
\* added do not replace its entry.
THEOREM EntriesAreKept == FlowSpec => EntriesKept
<1>. DEFINE Keeps == \/ \A e \in Entries : Exists(e) => Exists(e)'
                     \/ \A e \in Entries : Exists(e)' => Exists(e)
<1>1. FlowInv /\ [FlowNext]_<<vars, flowVars>> => [Keeps]_<<vars, flowVars>>
  <2>. SUFFICES ASSUME FlowInv, [Next]_vars PROVE Keeps
    BY FlowStepIsLifecycleStep, Zenon
  <2>1. ASSUME NEW e \in Entries, Create(e) PROVE Keeps
    BY <2>1 DEF Create, Exists, FlowInv, Typed, TypeOK
  <2>2. ASSUME NEW e \in Entries, Manage(e) PROVE Keeps
    BY <2>2, ManageCreatesNone DEF FlowInv
  <2>3. ASSUME UNCHANGED entryVars PROVE Keeps
    BY <2>3 DEF Exists, entryVars
  <2>. QED
    BY <2>1, <2>2, <2>3, Zenon DEF Next, OptionsChange, Call, CallRuns, CallEnds, vars
<1>. QED
  BY <1>1, FlowInvInit, FlowInvStep, PTL DEF FlowSpec, EntriesKept

-------------------------------------------------------------------------------
(* A report is sent if it was asked for                                    *)

\* The options that pass the form name a repository and a token when they enable
\* reports, so that the set-up that uses them builds a reporter.
Asked(e) ==
    /\ stored[e] \in {"off", "named"}
    /\ used[e] <= options[e]
    /\ used[e] = options[e] => (reporting[e] <=> stored[e] = "named")

LEMMA AcceptedOptions ==
    ASSUME NEW input \in Inputs, Accepts(input)
    PROVE  Stored(input) \in {"off", "named"}
  BY DEF Inputs, Texts, Accepts, Stored, strip

LEMMA AskedStep ==
    FlowInv /\ (\A e \in Entries : Asked(e)) /\ [FlowNext]_<<vars, flowVars>>
        => (\A e \in Entries : Asked(e))'
<1>. SUFFICES ASSUME FlowInv, \A e \in Entries : Asked(e), [FlowNext]_<<vars, flowVars>>,
                     NEW f \in Entries
              PROVE  Asked(f)'
  BY Zenon
<1>. USE DEF FlowInv
<1>1. ASSUME NEW e \in Entries, SendOptions(e) PROVE Asked(f)'
  <2>1. PICK input \in Inputs : Accepts(input) /\ stored' = [stored EXCEPT ![e] = Stored(input)]
    BY <1>1, Zenon DEF SendOptions
  <2>2. Stored(input) \in {"off", "named"}
    BY <2>1, AcceptedOptions
  <2>3. options' = [options EXCEPT ![e] = @ + 1] /\ used' = used
    BY <1>1 DEF SendOptions, OptionsChange
  <2>4. reporting' = reporting
    BY <1>1 DEF SendOptions
  <2>5. /\ stored'[f] \in {"off", "named"}
        /\ used'[f] <= options'[f]
        /\ used'[f] = options'[f] => f # e
    BY <2>1, <2>2, <2>3 DEF Asked, FlowTypeOK, Typed, TypeOK
  <2>6. f # e => options'[f] = options[f] /\ stored'[f] = stored[f]
    BY <2>1, <2>3 DEF FlowTypeOK, Typed, TypeOK
  <2>. QED
    BY <2>3, <2>4, <2>5, <2>6, Zenon DEF Asked
<1>2. ASSUME NEW e \in Entries, ManageEntry(e) PROVE Asked(f)'
  <2>1. stored' = stored /\ Manage(e)
    BY <1>2 DEF ManageEntry
  <2>2. CASE built' = built /\ used' = used
    <3>1. reporting'[f] = reporting[f]
      BY <1>2, <2>2, Zenon DEF ManageEntry, FlowTypeOK
    <3>2. options' = options
      BY <2>1, ManageBuilds
    <3>. QED
      BY <2>1, <2>2, <3>1, <3>2, Zenon DEF Asked
  <2>3. CASE built' = [built EXCEPT ![e] = @ + 1] /\ used' = [used EXCEPT ![e] = options[e]]
    <3>1. built' # built
      BY <2>3 DEF Typed, TypeOK, Coordinators
    <3>2. /\ f = e => (reporting'[f] <=> stored[f] = "named")
          /\ f # e => reporting'[f] = reporting[f]
      BY <1>2, <3>1, Zenon DEF ManageEntry, FlowTypeOK
    <3>3. /\ f = e => used'[f] = options[f]
          /\ f # e => used'[f] = used[f]
      BY <2>3 DEF Typed, TypeOK
    <3>4. options' = options /\ options[f] <= options[f]
      BY <2>1, ManageBuilds DEF Typed, TypeOK
    <3>. QED
      BY <2>1, <3>2, <3>3, <3>4, Zenon DEF Asked
  <2>. QED
    BY <2>1, <2>2, <2>3, ManageBuilds
<1>3. ASSUME UNCHANGED <<stored, reporting, options, used>> PROVE Asked(f)'
  BY <1>3, Zenon DEF Asked
<1>4. ASSUME NEW k \in Flows, NEW u \in Units, Discover(k, u) \/ SendUser(k, u)
      PROVE  UNCHANGED <<stored, reporting, options, used>>
  BY <1>4 DEF Discover, SendUser, Finish, vars, optionVars
<1>5. ASSUME NEW k \in Flows, SendConfirm(k) \/ OpenUser(k) \/ Ignore(k) \/ Dismiss(k)
      PROVE  UNCHANGED <<stored, reporting, options, used>>
  BY <1>5 DEF SendConfirm, OpenUser, Ignore, Dismiss, Finish, vars, optionVars
<1>6. ASSUME NEW u \in Units, Unignore(u) PROVE UNCHANGED <<stored, reporting, options, used>>
  BY <1>6 DEF Unignore, vars, optionVars
<1>7. ASSUME NEW t \in Calls, Call(t) \/ CallRuns(t) \/ CallEnds(t), UNCHANGED flowVars
      PROVE  UNCHANGED <<stored, reporting, options, used>>
  BY <1>7 DEF Call, CallRuns, CallEnds, flowVars, optionVars
<1>8. ASSUME UNCHANGED <<vars, flowVars>> PROVE UNCHANGED <<stored, reporting, options, used>>
  BY <1>8 DEF vars, flowVars, optionVars
<1>. QED
  BY <1>1, <1>2, <1>3, <1>4, <1>5, <1>6, <1>7, <1>8, Zenon DEF FlowNext

\* Whatever is typed into the options form, and however set-ups and changes of the
\* options overlap, an entry that is up to date reports if and only if its user
\* asked for it.
THEOREM ReportsAreSentAsAsked == FlowSpec => []ReporterAsAsked
<1>1. FlowInit => \A e \in Entries : Asked(e)
  <2>. SUFFICES ASSUME FlowInit, NEW e \in Entries PROVE Asked(e)
    OBVIOUS
  <2>1. stored[e] = "off" /\ used[e] = 0 /\ options[e] = 0
    BY DEF FlowInit, Init
  <2>2. ~reporting[e]
    BY Zenon DEF FlowInit
  <2>. QED
    BY <2>1, <2>2 DEF Asked
<1>2. (\A e \in Entries : Asked(e)) => ReporterAsAsked
  BY DEF Asked, ReporterAsAsked
<1>. QED
  BY <1>1, <1>2, FlowInvInit, FlowInvStep, AskedStep, PTL DEF FlowSpec
=================================================================================
