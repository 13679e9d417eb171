---------------------------- MODULE EntityDiscovery ----------------------------
(***************************************************************************)
(* How the fields of the telemetry become entities (sensor.py,             *)
(* binary_sensor.py, switch.py and models.py of                            *)
(* src/custom_components/jackery).                                         *)
(*                                                                         *)
(* Each platform is set up after the first poll, listens to the            *)
(* coordinator, and adds an entity for each field that it has not seen     *)
(* before and that is of its kind.  The kind depends on the key and on the *)
(* type of the value of the moment, which the unit may change.             *)
(*                                                                         *)
(* The coordinator calls its listeners in the order in which they came.  A *)
(* sensor made for a number raises in its listener when its value is a     *)
(* text, and the listeners after it are not called.                        *)
(***************************************************************************)
EXTENDS Naturals

CONSTANTS
    Fields,         \* the flattened keys that the unit may report
    Ignored,        \* those whose last segment is one of the ignored names
    Hinted,         \* those whose last segment contains a hint, once its
                    \* underscores and hyphens are removed
    MaxAdded        \* bound: how often an entity is counted

ASSUME FieldsAssumption ==
    /\ Ignored \subseteq Fields
    /\ Hinted \subseteq Fields
    /\ MaxAdded \in Nat \ {0, 1}

VARIABLES
    fields,         \* the type of the value of each field, or absent
    ready,          \* the platforms that are set up
    known,          \* known_keys of each platform
    added,          \* how often each platform added an entity for each field
    numeric,        \* the sensors that were made for a number
    behind          \* those whose listener comes before that of each platform

vars == <<fields, ready, known, added, numeric, behind>>

Platforms == {"sensor", "binary_sensor", "switch"}

\* "null" stands for the texts that read as a number, too.
Types == {"bool", "number", "text", "null"}

TypeOK ==
    /\ fields \in [Fields -> Types \cup {"absent"}]
    /\ ready \subseteq Platforms
    /\ known \in [Platforms -> SUBSET Fields]
    /\ added \in [Platforms -> [Fields -> 0..MaxAdded]]
    /\ numeric \subseteq known["sensor"]
    /\ behind \in [Platforms -> SUBSET numeric]

-------------------------------------------------------------------------------
(* classify_field                                                          *)

\* Mutant: the binary sensors call it without the hints, as the sensors do.
KindWithoutHints(f, type) ==
    IF type = "absent" \/ f \in Ignored THEN {}
    ELSE IF type # "bool" THEN {"sensor"}
    ELSE IF f \in Hinted THEN {"switch", "binary_sensor"}
    ELSE {"binary_sensor"}

\* The platforms that take a field with a value of that type: one, or none.
Kind(f, type) ==
    IF type = "absent" \/ f \in Ignored THEN {}
    ELSE IF type # "bool" THEN {"sensor"}
    ELSE IF f \in Hinted THEN {"switch"}
    ELSE {"binary_sensor"}

-------------------------------------------------------------------------------
(* The platforms                                                           *)

Fresh(p, now) == {f \in Fields \ known[p] : p \in Kind(f, now[f])}

\* Mutant: a key counts as known before its kind is looked at.
KnowsSeen(p, now) == known[p] \cup {f \in Fields : now[f] # "absent"}

\* Mutant: the new keys are not remembered.
KnowsNothing(p, now) == known[p]

Knows(p, now) == known[p] \cup Fresh(p, now)

\* The platforms whose callback runs: not after a sensor that raises.
Raising(now) == {f \in numeric : now[f] = "text"}
Reached(now) == {p \in ready : behind[p] \cap Raising(now) = {}}

\* The callbacks of the platforms look through all fields.
Look(platforms, now) ==
    /\ known' = [p \in Platforms |-> IF p \in platforms THEN Knows(p, now) ELSE known[p]]
    /\ added' = [p \in Platforms |-> [f \in Fields |->
          IF p \in platforms /\ f \in Fresh(p, now) /\ added[p][f] < MaxAdded
          THEN added[p][f] + 1
          ELSE added[p][f]]]
    /\ numeric' = numeric \cup {f \in Fresh("sensor", now) :
                                   "sensor" \in platforms /\ now[f] = "number"}

\* The first refresh has been merged; no platform listens yet.
Init ==
    /\ fields \in [Fields -> Types \cup {"absent"}]
    /\ ready = {}
    /\ known = [p \in Platforms |-> {}]
    /\ added = [p \in Platforms |-> [f \in Fields |-> 0]]
    /\ numeric = {}
    /\ behind = [p \in Platforms |-> {}]

\* async_setup_entry of a platform, after that of some sensors.  The callback of
\* the sensors comes before all of them.
SetUp(p) ==
    /\ p \notin ready
    /\ ready' = ready \cup {p}
    /\ Look({p}, fields)
    /\ \E before \in SUBSET numeric :
          /\ p = "sensor" => before = {}
          /\ behind' = [behind EXCEPT ![p] = before]
    /\ UNCHANGED fields

\* merge, for the frames of a poll or of a raw command, then the listeners.
\* A field that is not in the frames keeps its value.
Merge ==
    /\ fields' \in [Fields -> Types \cup {"absent"}]
    /\ \A f \in Fields : fields'[f] = "absent" => fields[f] = "absent"
    /\ Look(Reached(fields'), fields')
    /\ UNCHANGED <<ready, behind>>

\* Mutant: the field is set to the command that was sent.
TurnStoresCommand(f) ==
    /\ added["switch"][f] > 0
    /\ fields' = [fields EXCEPT ![f] = "object"]
    /\ Look(Reached(fields'), fields')
    /\ UNCHANGED <<ready, behind>>

\* A switch is turned on or off: the field is set to a Boolean.
Turn(f) ==
    /\ added["switch"][f] > 0
    /\ fields' = [fields EXCEPT ![f] = "bool"]
    /\ Look(Reached(fields'), fields')
    /\ UNCHANGED <<ready, behind>>

\* The entry is reloaded: a new coordinator polls, and new platforms start.
Reload ==
    /\ ready = Platforms
    /\ ready' = {}
    /\ fields' \in [Fields -> Types \cup {"absent"}]
    /\ known' = [p \in Platforms |-> {}]
    /\ added' = [p \in Platforms |-> [f \in Fields |-> 0]]
    /\ numeric' = {}
    /\ behind' = [p \in Platforms |-> {}]

Next ==
    \/ \E p \in Platforms : SetUp(p)
    \/ Merge
    \/ \E f \in Fields : Turn(f)
    \/ Reload

Spec == Init /\ [][Next]_vars

-------------------------------------------------------------------------------
(* Properties                                                              *)

Shows(p) == \A f \in Fields : p \in Kind(f, fields[f]) => added[p][f] > 0

\* Whatever the order in which platforms are set up, fields appear and change
\* their type, a platform that is set up and behind no sensor that raises has an
\* entity for every field that is of its kind now.
EveryFieldShown == \A p \in Reached(fields) : Shows(p)

\* "New fields discovered on a later poll are added automatically, no restart
\* required."
FieldsAdded == \A p \in ready : Shows(p)

\* No platform adds an entity twice, which Home Assistant would refuse for its
\* unique id.
AddedOnce == \A p \in Platforms, f \in Fields : added[p][f] <= 1

\* A field that became a switch has no read-only twin.
NoTwin == \A f \in Fields : added["switch"][f] = 0 \/ added["binary_sensor"][f] = 0
===============================================================================
