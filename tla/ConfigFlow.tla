------------------------------- MODULE ConfigFlow -------------------------------
(***************************************************************************)
(* The flows that create entries and change their options                  *)
(* (src/custom_components/jackery/config_flow.py), over Lifecycle.         *)
(*                                                                         *)
(* A form stays open while advertisements arrive, other forms are sent and *)
(* entries are removed: what a flow has looked at when it showed its form  *)
(* may have changed when the form comes back.  The flow manager of Home    *)
(* Assistant, which ends the other flows for a unit once one has created   *)
(* its entry and replaces an entry with the same unique id, is modelled as *)
(* the code uses it.                                                       *)
(***************************************************************************)
EXTENDS Lifecycle, Folds

CONSTANTS
    Units,          \* the Bluetooth devices nearby, by their addresses
    Named,          \* those whose name looks_like_jackery_name
    Flows,          \* the forms that may be open at once
    MaxSetUps,      \* bound: coordinators built for all entries
    MaxChanges      \* bound: changes of the options of all entries

ASSUME FlowAssumption == Named \subseteq Units

VARIABLES
    flows,          \* the form that each flow shows
    unit,           \* the address of each entry, which is its unique id
    ignored,        \* the units that the user ignored
    stored,         \* what the options of each entry say of the GitHub reporter
    reporting       \* the coordinator built last was given a reporter

flowVars == <<flows, unit, ignored, stored, reporting>>

Closed == [form |-> "none"]
Confirm(u) == [form |-> "confirm", unit |-> u]
User(offered) == [form |-> "user", offered |-> offered]

FlowTypeOK ==
    /\ flows \in [Flows -> {Closed} \cup {Confirm(u) : u \in Named}
                    \cup {User(offered) : offered \in SUBSET Units}]
    /\ unit \in [Entries -> Units \cup {"none"}]
    /\ ignored \subseteq Units
    /\ stored \in [Entries -> {"off", "named", "missing"}]
    /\ reporting \in [Entries -> BOOLEAN]

FlowInit ==
    /\ Init
    /\ flows = [k \in Flows |-> Closed]
    /\ unit = [e \in Entries |-> "none"]
    /\ ignored = {}
    /\ stored = [e \in Entries |-> "off"]
    /\ reporting = [e \in Entries |-> FALSE]

EntriesOf(u) == {e \in Entries : Exists(e) /\ unit[e] = u}
Configured == {u \in Units : EntriesOf(u) # {}}

\* _async_current_ids, and the entries that _abort_if_unique_id_configured finds.
CurrentIds == Configured \cup ignored

\* The flows whose unique id is u.  A user's flow sets its own when it ends.
FlowsOf(u) == {k \in Flows : flows[k] = Confirm(u)}

Total(counts) ==
    MapThenFoldSet(+, 0, LAMBDA e : counts[e], LAMBDA S : CHOOSE e \in S : TRUE, Entries)

Shows(k, form) == flows' = [flows EXCEPT ![k] = form]

-------------------------------------------------------------------------------
(* JackeryConfigFlow                                                       *)

\* Mutant: the unique id is not set before the prompt is shown.
DiscoverUnidentified(k, u) ==
    /\ flows[k] = Closed
    /\ u \in Named \ CurrentIds
    /\ Shows(k, Confirm(u))
    /\ UNCHANGED <<vars, unit, ignored, stored, reporting>>

\* Mutant: any device may be a Jackery unit.
DiscoverUnnamed(k, u) ==
    /\ flows[k] = Closed
    /\ u \in Units \ CurrentIds
    /\ FlowsOf(u) = {}
    /\ Shows(k, Confirm(u))
    /\ UNCHANGED <<vars, unit, ignored, stored, reporting>>

\* Mutant: that the unit has an entry is logged, no more.
DiscoverConfigured(k, u) ==
    /\ flows[k] = Closed
    /\ u \in Named
    /\ FlowsOf(u) = {}
    /\ Shows(k, Confirm(u))
    /\ UNCHANGED <<vars, unit, ignored, stored, reporting>>

\* async_step_bluetooth; in all other cases the flow is aborted at once.
Discover(k, u) ==
    /\ flows[k] = Closed
    /\ u \in Named \ CurrentIds
    /\ FlowsOf(u) = {}
    /\ Shows(k, Confirm(u))
    /\ UNCHANGED <<vars, unit, ignored, stored, reporting>>

\* The flow k ends, and with it the others for the same unit; an entry that the
\* unit may have is replaced.
Finish(k, u) ==
    /\ flows' = [j \in Flows |-> IF j = k \/ j \in FlowsOf(u) THEN Closed ELSE flows[j]]
    /\ ignored' = ignored \ {u}
    /\ \E e \in Entries :
          /\ state[e] = "absent"
          /\ unit' = [unit EXCEPT ![e] = u]
          /\ state' = [f \in Entries |-> IF f = e THEN "not_loaded"
                                         ELSE IF f \in EntriesOf(u) THEN "removed"
                                         ELSE state[f]]
    /\ UNCHANGED <<await, coordinatorVars, optionVars, calls, stored, reporting>>

\* async_step_confirm does not look again whether the unit has an entry by now.
SendConfirm(k) == \E u \in Named : flows[k] = Confirm(u) /\ Finish(k, u)

\* The devices that are visible at the moment, of any name.
list_visible_devices(visible, exclude_addresses) == visible \ exclude_addresses

\* async_step_user shows those that have no entry.
OpenUser(k) ==
    /\ flows[k] = Closed
    /\ \E visible \in SUBSET Units : Shows(k, User(list_visible_devices(visible, CurrentIds)))
    /\ UNCHANGED <<vars, unit, ignored, stored, reporting>>

\* An address of the list that was shown or, if there was none to show, any.  A unit
\* that was ignored may be added.
SendUser(k, u) ==
    /\ \E offered \in SUBSET Units :
          flows[k] = User(offered) /\ (offered = {} \/ u \in offered)
    /\ IF u \in Configured
       THEN Shows(k, Closed) /\ UNCHANGED <<vars, unit, ignored, stored, reporting>>
       ELSE Finish(k, u)

\* The user ignores a prompt, or no longer ignores a unit.
Ignore(k) ==
    /\ \E u \in Named :
          /\ flows[k] = Confirm(u)
          /\ ignored' = ignored \cup {u}
          /\ flows' = [j \in Flows |-> IF j \in FlowsOf(u) THEN Closed ELSE flows[j]]
    /\ UNCHANGED <<vars, unit, stored, reporting>>
Unignore(u) ==
    /\ u \in ignored
    /\ ignored' = ignored \ {u}
    /\ UNCHANGED <<vars, flows, unit, stored, reporting>>

Dismiss(k) ==
    /\ flows[k] # Closed
    /\ Shows(k, Closed)
    /\ UNCHANGED <<vars, unit, ignored, stored, reporting>>

-------------------------------------------------------------------------------
(* JackeryOptionsFlow                                                      *)

\* The repository and the token that the user types, before strip.
Texts == {"", "blank", "word", "owner/name"}
Inputs == [enabled : BOOLEAN, repo : Texts, token : Texts]
strip(text) == IF text = "blank" THEN "" ELSE text

\* Mutant: any token will do.
AcceptsAnyToken(input) == input.enabled => strip(input.repo) = "owner/name"

\* No errors: without reporting, nothing is checked.
Accepts(input) ==
    input.enabled => strip(input.repo) = "owner/name" /\ strip(input.token) # ""

\* What async_setup_entry will see in the options, stored as they were typed.
Stored(input) ==
    IF ~input.enabled THEN "off"
    ELSE IF input.repo # "" /\ input.token # "" THEN "named" ELSE "missing"

\* async_step_init, for an entry that exists when its form comes back.  Only options
\* that differ from the stored ones are a change.
SendOptions(e) ==
    /\ \E input \in Inputs :
          /\ Accepts(input)
          /\ stored' = [stored EXCEPT ![e] = Stored(input)]
    /\ OptionsChange(e)
    /\ Total(options') <= MaxChanges
    /\ UNCHANGED <<flows, unit, ignored, reporting>>

-------------------------------------------------------------------------------

\* A set-up gives the new coordinator a reporter if the options name one.
ManageEntry(e) ==
    /\ Manage(e)
    /\ Total(built') <= MaxSetUps
    /\ reporting' = [reporting EXCEPT ![e] = IF built' = built THEN @ ELSE stored[e] = "named"]
    /\ UNCHANGED <<flows, unit, ignored, stored>>

FlowNext ==
    \/ \E k \in Flows :
          \/ \E u \in Units : Discover(k, u) \/ SendUser(k, u)
          \/ SendConfirm(k) \/ OpenUser(k) \/ Ignore(k) \/ Dismiss(k)
    \/ \E u \in Units : Unignore(u)
    \/ \E e \in Entries : SendOptions(e) \/ ManageEntry(e)
    \/ (\E t \in Calls : Call(t) \/ CallRuns(t) \/ CallEnds(t)) /\ UNCHANGED flowVars

FlowSpec == FlowInit /\ [][FlowNext]_<<vars, flowVars>>

-------------------------------------------------------------------------------
(* Properties                                                              *)

\* "This Jackery unit is already configured": whatever forms were open when it was
\* added, no flow ends by taking the place of an entry.
EntriesKept ==
    [][(\A e \in Entries : Exists(e) => Exists(e)') \/ (\A e \in Entries : Exists(e)' => Exists(e))
      ]_<<vars, flowVars>>

\* A unit is offered once, and not when it has an entry or is ignored.
OnePrompt ==
    /\ \A j, k \in Flows : flows[j] = flows[k] /\ flows[j].form = "confirm" => j = k
    /\ \A u \in CurrentIds : FlowsOf(u) = {}

\* An entry that is up to date reports if and only if its user asked for it.
ReporterAsAsked ==
    \A e \in Entries :
        Settled(e) /\ used[e] = options[e] => (reporting[e] <=> stored[e] # "off")
=================================================================================
