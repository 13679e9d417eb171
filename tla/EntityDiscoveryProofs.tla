------------------------- MODULE EntityDiscoveryProofs -------------------------
(***************************************************************************)
(* What holds of the entities for any set of fields.                       *)
(***************************************************************************)
EXTENDS EntityDiscovery, TLAPS

USE FieldsAssumption

Shape ==
    /\ fields \in [Fields -> Types \cup {"absent"}]
    /\ ready \subseteq Platforms
    /\ known \in [Platforms -> SUBSET Fields]
    /\ added \in [Platforms -> [Fields -> Nat]]
    /\ numeric \subseteq known["sensor"]
    /\ behind \in [Platforms -> SUBSET numeric]

\* What a platform knows is what it added, once; it has looked at every field, and
\* added none that is not its own, unless a sensor that raises comes before it.
Counted == \A p \in Platforms, f \in Fields : added[p][f] = IF f \in known[p] THEN 1 ELSE 0
Looked == \A p \in Reached(fields), f \in Fields : p \in Kind(f, fields[f]) => f \in known[p]
Own ==
    /\ known["switch"] \subseteq Hinted
    /\ known["binary_sensor"] \cap Hinted = {}

Inv == Shape /\ Counted /\ Looked /\ Own

LEMMA Initially == Init => Inv
BY DEF Init, Inv, Shape, Counted, Looked, Own, Platforms, Reached

\* A new sensor does not raise: it was made for a number.
LEMMA NewSensors ==
    ASSUME Inv, NEW S, NEW now, Look(S, now)
    PROVE  Raising(now)' = Raising(now)
BY DEF Look, Raising

\* The callbacks keep what they have to, if those that do not run have nothing
\* to find.
LEMMA Looks ==
    ASSUME Inv, NEW S \in SUBSET Platforms, NEW now \in [Fields -> Types \cup {"absent"}],
           fields' = now, ready' \subseteq Platforms, Look(S, now),
           behind' \in [Platforms -> SUBSET numeric],
           \A q \in Reached(now)' \ S, f \in Fields : q \in Kind(f, now[f]) => f \in known[q]
    PROVE  Inv'
<1>1. \A p \in Platforms : known'[p] = IF p \in S THEN known[p] \cup Fresh(p, now) ELSE known[p]
  BY DEF Look, Knows
<1>2. \A p \in Platforms : Fresh(p, now) \subseteq Fields \ known[p]
  BY DEF Fresh
<1>3. known' \in [Platforms -> SUBSET Fields]
  <2>1. known' = [p \in Platforms |-> IF p \in S THEN known[p] \cup Fresh(p, now) ELSE known[p]]
    BY DEF Look, Knows
  <2>. QED
    BY <1>2, <2>1 DEF Inv, Shape
<1>4. added' = [p \in Platforms |-> [f \in Fields |->
                  IF p \in S /\ f \in Fresh(p, now) /\ added[p][f] < MaxAdded
                  THEN added[p][f] + 1
                  ELSE added[p][f]]]
  BY DEF Look
<1>5. added' \in [Platforms -> [Fields -> Nat]]
  <2>1. \A p \in Platforms, f \in Fields : added[p][f] \in Nat
    BY DEF Inv, Shape
  <2>. QED
    BY <1>4, <2>1
<1>6. Shape'
  <2>1. numeric' = numeric \cup {f \in Fresh("sensor", now) :
                                    "sensor" \in S /\ now[f] = "number"}
    BY DEF Look
  <2>2. "sensor" \in Platforms /\ numeric \subseteq known["sensor"]
    BY DEF Inv, Shape, Platforms
  <2>3. numeric' \subseteq known'["sensor"]
    BY <1>1, <2>1, <2>2
  <2>4. behind' \in [Platforms -> SUBSET numeric']
    BY <2>1
  <2>. QED
    BY <1>3, <1>5, <2>3, <2>4 DEF Inv, Shape
<1>7. Counted'
  <2>. SUFFICES ASSUME NEW p \in Platforms, NEW f \in Fields
                PROVE  added'[p][f] = IF f \in known'[p] THEN 1 ELSE 0
    BY Zenon DEF Counted
  <2>1. added[p][f] = IF f \in known[p] THEN 1 ELSE 0
    BY DEF Inv, Counted
  <2>2. added'[p][f] = IF p \in S /\ f \in Fresh(p, now) /\ added[p][f] < MaxAdded
                       THEN added[p][f] + 1 ELSE added[p][f]
    BY <1>4
  <2>3. CASE p \in S /\ f \in Fresh(p, now)
    <3>1. f \notin known[p] /\ f \in known'[p]
      BY <1>1, <1>2, <2>3
    <3>. QED
      BY <2>1, <2>2, <2>3, <3>1
  <2>4. CASE ~ (p \in S /\ f \in Fresh(p, now))
    <3>1. f \in known'[p] <=> f \in known[p]
      BY <1>1, <2>4
    <3>2. added'[p][f] = added[p][f]
      BY <2>2, <2>4
    <3>. QED
      BY <2>1, <3>1, <3>2
  <2>. QED
    BY <2>3, <2>4
<1>8. Looked'
  <2>. SUFFICES ASSUME NEW p \in Reached(now)', NEW f \in Fields, p \in Kind(f, now[f])
                PROVE  f \in known'[p]
    BY DEF Looked, Reached, Raising
  <2>0. p \in Platforms
    BY DEF Reached
  <2>1. CASE p \in S
    BY <1>1, <2>0, <2>1 DEF Fresh
  <2>2. CASE p \notin S
    BY <1>1, <2>0, <2>2
  <2>. QED
    BY <2>1, <2>2
<1>9. Own'
  <2>1. \A f \in Fields : /\ "switch" \in Kind(f, now[f]) => f \in Hinted
                          /\ "binary_sensor" \in Kind(f, now[f]) => f \notin Hinted
    BY DEF Kind
  <2>2. "switch" \in Platforms /\ "binary_sensor" \in Platforms
    BY DEF Platforms
  <2>3. known'["switch"] \subseteq known["switch"] \cup Fresh("switch", now)
    BY <1>1, <2>2
  <2>4. known'["binary_sensor"] \subseteq known["binary_sensor"] \cup Fresh("binary_sensor", now)
    BY <1>1, <2>2
  <2>. QED
    BY <2>1, <2>3, <2>4 DEF Inv, Own, Fresh
<1>. QED
  BY <1>6, <1>7, <1>8, <1>9 DEF Inv

LEMMA Step == Inv /\ [Next]_vars => Inv'
<1>. SUFFICES ASSUME Inv, [Next]_vars PROVE Inv'
  OBVIOUS
<1>0. Shape /\ Looked
  BY DEF Inv
<1>1. ASSUME NEW p \in Platforms, SetUp(p) PROVE Inv'
  \* Only p looks: the others see what they have seen before.
  <2>1. /\ fields \in [Fields -> Types \cup {"absent"}]
        /\ fields' = fields
        /\ Look({p}, fields)
        /\ ready' \subseteq Platforms
        /\ ready' \ {p} \subseteq ready
    BY <1>0, <1>1 DEF SetUp, Shape
  <2>2. PICK before \in SUBSET numeric : behind' = [behind EXCEPT ![p] = before]
    BY <1>1 DEF SetUp
  <2>3. behind' \in [Platforms -> SUBSET numeric]
    BY <1>0, <2>2 DEF Shape
  <2>4. Reached(fields)' \ {p} \subseteq Reached(fields)
    <3>1. Raising(fields)' = Raising(fields)
      BY <2>1, NewSensors
    <3>. QED
      BY <1>0, <2>1, <2>2, <3>1 DEF Reached, Shape
  <2>5. \A q \in Reached(fields)' \ {p}, f \in Fields : q \in Kind(f, fields[f]) => f \in known[q]
    BY <1>0, <2>4 DEF Looked
  <2>. QED
    BY <2>1, <2>3, <2>5, Looks
<1>2. ASSUME NEW now \in [Fields -> Types \cup {"absent"}], fields' = now,
             Look(Reached(now), now), UNCHANGED <<ready, behind>>
      PROVE  Inv'
  \* Every callback that can be reached runs.
  <2>1. Reached(now)' = Reached(now) /\ Reached(now) \subseteq Platforms
    <3>1. Raising(now)' = Raising(now)
      BY <1>2, NewSensors
    <3>. QED
      BY <1>0, <1>2, <3>1 DEF Reached, Shape
  <2>2. ready' \subseteq Platforms /\ behind' \in [Platforms -> SUBSET numeric]
    BY <1>0, <1>2 DEF Shape
  <2>. QED
    BY <1>2, <2>1, <2>2, Looks
<1>3. CASE Merge
  BY <1>2, <1>3 DEF Merge
<1>6. ASSUME NEW f \in Fields, Turn(f) PROVE Inv'
  <2>1. fields' \in [Fields -> Types \cup {"absent"}]
    BY <1>0, <1>6 DEF Turn, Shape, Types
  <2>. QED
    BY <1>2, <1>6, <2>1 DEF Turn
<1>4. CASE Reload
  BY <1>4 DEF Reload, Inv, Shape, Counted, Looked, Own, Platforms, Reached
<1>5. CASE UNCHANGED vars
  BY <1>5 DEF vars, Inv, Shape, Counted, Looked, Own, Reached, Raising
<1>. QED
  BY <1>1, <1>3, <1>4, <1>5, <1>6, Zenon DEF Next

LEMMA Invariance == Spec => []Inv
<1>. QED
  BY Initially, Step, PTL DEF Spec

\* TypeOK for any fields: in particular, the sensors that come before a platform
\* are among those that the sensor platform knows.
THEOREM TypeCorrect == Spec => []TypeOK
<1>1. Inv => TypeOK
  <2>. SUFFICES ASSUME Inv PROVE TypeOK
    OBVIOUS
  <2>1. \A p \in Platforms, f \in Fields : added[p][f] \in 0..MaxAdded
    BY DEF Inv, Counted
  <2>2. added \in [Platforms -> [Fields -> 0..MaxAdded]]
    BY <2>1 DEF Inv, Shape
  <2>. QED
    BY <2>2 DEF Inv, Shape, TypeOK
<1>. QED
  BY <1>1, Invariance, PTL

\* EveryFieldShown for any fields: in whatever order platforms are set up and
\* fields appear or change their type, a platform that is behind no sensor that
\* raises has an entity for every field of its kind.
THEOREM FieldsAreShown == Spec => []EveryFieldShown
<1>1. Inv => EveryFieldShown
  <2>. SUFFICES ASSUME Inv, NEW p \in Reached(fields), NEW f \in Fields,
                       p \in Kind(f, fields[f])
                PROVE  added[p][f] > 0
    BY DEF EveryFieldShown, Shows
  <2>1. f \in known[p] /\ p \in Platforms
    BY DEF Inv, Looked, Shape, Reached
  <2>. QED
    BY <2>1 DEF Inv, Counted
<1>. QED
  BY <1>1, Invariance, PTL

\* AddedOnce for any fields: no platform adds an entity with the unique id of
\* another of its own.
THEOREM AddedAtMostOnce == Spec => []AddedOnce
<1>1. Inv => AddedOnce
  BY DEF Inv, Counted, AddedOnce
<1>. QED
  BY <1>1, Invariance, PTL

\* NoTwin for any fields: no field has a switch and a binary sensor.
THEOREM NoReadOnlyTwin == Spec => []NoTwin
<1>1. Inv => NoTwin
  <2>. SUFFICES ASSUME Inv, NEW f \in Fields
                PROVE  added["switch"][f] = 0 \/ added["binary_sensor"][f] = 0
    BY DEF NoTwin
  <2>1. f \notin known["switch"] \/ f \notin known["binary_sensor"]
    BY DEF Inv, Own
  <2>. QED
    BY <2>1 DEF Inv, Counted, Platforms
<1>. QED
  BY <1>1, Invariance, PTL
===============================================================================
