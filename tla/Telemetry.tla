------------------------------- MODULE Telemetry -------------------------------
(***************************************************************************)
(* What the fields of a unit are after its frames are merged               *)
(* (src/custom_components/jackery/models.py), and the entities they become *)
(* (EntityDiscovery).                                                      *)
(*                                                                         *)
(* A payload is a JSON object: members in their order, whose values are    *)
(* objects, lists or leaves.  A key is a sequence of pieces of text: parts *)
(* of names, "dot" and indexes.                                            *)
(***************************************************************************)
EXTENDS EntityDiscovery, Sequences, SequencesExt

CONSTANTS
    Payloads,       \* the payloads of the frames that the unit sends
    Data,           \* what they are made of: the payloads, and what nests in them
    Height,         \* how deep each of the data nests
    Pieces,         \* the pieces of text of the keys: names, dots and indexes
    Indexes,        \* the text of each index of a list: [0], [1], ...
    ModelKeys,      \* the keys of model, of serial or of firmware, the first preferred
    MaxFrames,      \* bound: frames of one poll
    MaxMembers,     \* the largest number of members in a payload
    MaxDepth        \* the largest depth of a payload

VARIABLES
    values,         \* telemetry.fields: the leaf of each field, or Absent
    model,          \* telemetry.model, serial or firmware_version, or Absent
    frames          \* history: the payloads merged last, none if something else happened

telemetryVars == <<values, model, frames>>

Nests == {"object", "list"}
Leaves == {"bool", "number", "text", "digits", "null"}

Absent == [type |-> "absent"]

\* A text of digits is a text, but reads as a number for a sensor.
Type(leaf) == IF leaf.type = "digits" THEN "null" ELSE leaf.type
Texts == {"text", "digits"}

-------------------------------------------------------------------------------
(* flatten and merge                                                       *)

\* Mutant: the prefix is not looked at.
JoinedAlways(prefix, key) == prefix \o <<"dot">> \o key

\* An empty name leaves no dot behind at the top.
Joined(prefix, key) == IF prefix = <<>> THEN key ELSE prefix \o <<"dot">> \o key

\* A member of an object or a list, and its prefix.
Child(data, i) == IF data.type = "object" THEN data.members[i].value ELSE data.members[i]

ChildPrefix(data, prefix, i) ==
    IF data.type = "object" THEN Joined(prefix, data.members[i].key) ELSE Append(prefix, Indexes[i])

\* A payload is finite, and its names are texts.
ASSUME DataAssumption ==
    /\ Payloads \subseteq Data
    /\ MaxFrames \in Nat /\ MaxDepth \in Nat /\ Height \in [Data -> 0..MaxDepth]
    /\ "dot" \in Pieces
    /\ MaxMembers \in Nat /\ Indexes \in [1..MaxMembers -> Pieces]
    /\ \A data \in Data :
          \/ data.type \in Leaves
          \/ /\ \/ data.type = "object" /\ data.members \in Seq([key : Seq(Pieces), value : Data])
                \/ data.type = "list" /\ data.members \in Seq(Data)
             /\ Len(data.members) <= MaxMembers
             /\ \A i \in DOMAIN data.members : Height[Child(data, i)] < Height[data]

\* The keys of the model, of the serial and of the firmware hold no hint of a switch.
ASSUME KeysAssumption ==
    /\ Fields \subseteq Seq(Pieces) \ {<<>>}
    /\ ModelKeys \in Seq(Fields \ Hinted)

\* A dict that was updated with each of the parts: the last one that has a key wins.
Updated(parts) ==
    [key \in UNION {DOMAIN parts[i] : i \in DOMAIN parts} |->
        parts[Max({i \in DOMAIN parts : key \in DOMAIN parts[i]})][key]]

\* A leaf without a prefix is left out.
flatten(payload) ==
    LET flat[data \in Data] == [prefix \in Seq(Pieces) |->
            IF data.type \in Nests
            THEN Updated([i \in DOMAIN data.members |->
                             flat[Child(data, i)][ChildPrefix(data, prefix, i)]])
            ELSE [key \in {prefix} \ {<<>>} |-> data]]
    IN  flat[payload][<<>>]

FirstText(now, keys) ==
    LET texts == {i \in DOMAIN keys : now[keys[i]].type \in Texts}
    IN  IF texts = {} THEN Absent ELSE now[keys[Min(texts)]]

new_fields == [payload \in Payloads |-> flatten(payload)]

\* Mutant: the telemetry is that of the last frame alone.
MergedAlone(now, payload) ==
    [f \in Fields |-> IF f \in DOMAIN new_fields[payload] THEN new_fields[payload][f] ELSE Absent]

\* self.fields after one payload.
Merged(now, payload) ==
    [f \in Fields |-> IF f \in DOMAIN new_fields[payload] THEN new_fields[payload][f] ELSE now[f]]

\* The payloads are merged one by one.
MergedAll(now, received) ==
    LET after[n \in 0..Len(received)] ==
            IF n = 0 THEN now ELSE Merged(after[n - 1], received[n])
    IN  after[Len(received)]

\* Mutant: the model is looked for in what the frames bring.
IdentityOfFrames(received) ==
    FirstText(MergedAll([f \in Fields |-> Absent], received), ModelKeys)

\* _first_string_field, after the last of the payloads.
Identity(received) == FirstText(MergedAll(values, received), ModelKeys)

-------------------------------------------------------------------------------
(* Actions                                                                 *)

TelemetryInit ==
    /\ values = [f \in Fields |-> Absent]
    /\ model = Absent
    /\ frames = <<>>
    /\ fields = [f \in Fields |-> "absent"]
    /\ Init

FieldsFollow == fields' = [f \in Fields |-> Type(values'[f])]

Start(p) ==
    /\ SetUp(p)
    /\ UNCHANGED telemetryVars

\* The frames of a poll or of a raw command are merged, one by one, and then the
\* listeners are called.
Receive ==
    /\ \E received \in BoundedSeq(Payloads, MaxFrames) \ {<<>>} :
          /\ values' = MergedAll(values, received)
          /\ model' = Identity(received)
          /\ frames' = received
    /\ FieldsFollow
    /\ Look(Reached(fields'), fields')
    /\ UNCHANGED <<ready, behind>>

\* A switch is turned on or off; the identity is not looked for again.
Switch(f) ==
    /\ \E on \in BOOLEAN : values' = [values EXCEPT ![f] = [type |-> "bool", is |-> ToString(on)]]
    /\ frames' = <<>>
    /\ Turn(f)
    /\ UNCHANGED model

\* The telemetry of a new coordinator is empty until its first poll.
StartOver ==
    /\ values' = [f \in Fields |-> Absent]
    /\ model' = Absent
    /\ frames' = <<>>
    /\ FieldsFollow
    /\ Reload

TelemetryNext ==
    \/ \E p \in Platforms : Start(p)
    \/ Receive
    \/ \E f \in Fields : Switch(f)
    \/ StartOver

TelemetrySpec == TelemetryInit /\ [][TelemetryNext]_<<vars, telemetryVars>>

-------------------------------------------------------------------------------
(* Properties                                                              *)

Paths == BoundedSeq(1..MaxMembers, MaxDepth)

\* What stands at a path of a payload, and under which key.  A dot stands before the
\* name of a member if anything stands before it.
Place(payload, path) ==
    LET place[p \in Paths] ==
            IF p = <<>> THEN [data |-> payload, key |-> <<>>]
            ELSE LET from == place[Front(p)]
                     i == Last(p)
                     dot == IF from.key = <<>> THEN <<>> ELSE <<"dot">>
                 IN  IF from.data.type = "object" /\ i <= Len(from.data.members)
                     THEN [data |-> from.data.members[i].value,
                           key |-> from.key \o dot \o from.data.members[i].key]
                     ELSE IF from.data.type = "list" /\ i <= Len(from.data.members)
                     THEN [data |-> from.data.members[i], key |-> from.key \o <<Indexes[i]>>]
                     ELSE [data |-> Absent, key |-> <<>>]
    IN  place[path]

Before(p, q) ==
    \E n \in DOMAIN p \cap DOMAIN q :
        p[n] < q[n] /\ \A k \in 1..(n - 1) : p[k] = q[k]

\* The leaf of a payload that comes last among those with the key f, or Absent.
LastOf(payload, f) ==
    LET paths == {path \in Paths : /\ Place(payload, path).data.type \in Leaves
                                  /\ Place(payload, path).key = f}
        last == {p \in paths : \A q \in paths : q = p \/ Before(q, p)}
    IN  IF last = {} THEN Absent ELSE Place(payload, CHOOSE p \in last : TRUE).data

LeafIn == [payload \in Payloads |-> [f \in Fields |-> LastOf(payload, f)]]

\* "Latest known state of one Jackery unit, as flattened key/value pairs": each field
\* has the value that comes last in the frames, whatever path has its key, and a
\* field that the frames do not have keeps its value.
LatestShown ==
    [][frames' # <<>> =>
          \A f \in Fields :
             LET bringing == {i \in DOMAIN frames' : LeafIn[frames'[i]][f] # Absent}
             IN  values'[f] = IF bringing = {} THEN values[f]
                              ELSE LeafIn[frames'[Max(bringing)]][f]]_<<vars, telemetryVars>>

\* Frames that say nothing of the identity of the unit, or give it a text, do not
\* make it unknown.
IdentityKept ==
    [][/\ model # Absent
       /\ ready' = {} => ready = {}
       /\ \A i \in DOMAIN ModelKeys : values'[ModelKeys[i]] # values[ModelKeys[i]] =>
             values'[ModelKeys[i]].type \in Texts
       => model' # Absent]_<<vars, telemetryVars>>

\* However payloads nest, the fields appear and change as EntityDiscovery says.
FieldsDiscovered == Spec
===============================================================================
