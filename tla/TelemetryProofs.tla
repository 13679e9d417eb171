---------------------------- MODULE TelemetryProofs ----------------------------
(***************************************************************************)
(* What holds of the fields of a unit for every set of payloads, however   *)
(* they nest.                                                              *)
(***************************************************************************)
EXTENDS Telemetry, EntityDiscoveryProofs, SequenceTheorems, WellFoundedInduction

\* A non-empty set of natural numbers has a least one.
LEMMA LeastNumber ==
    ASSUME NEW T \in SUBSET Nat, T # {}
    PROVE  /\ Min(T) \in T
           /\ \A n \in T : Min(T) <= n
<1>1. IsWellFoundedOn(OpToRel(<, Nat), Nat)
    BY NatLessThanWellFounded
<1>2. PICK m \in T : \A n \in T : ~ (<<n, m>> \in OpToRel(<, Nat))
    BY <1>1, WFMin
<1>3. \A m1, m2 \in Nat : m1 < m2 => <<m1, m2>> \in OpToRel(<, Nat)
    BY DEF OpToRel
<1>4. \A n \in T : ~ (n < m)
    BY <1>2, <1>3
<1>5. \A n \in T : m <= n
    BY <1>4
<1> QED
    BY <1>5 DEF Min

\* A non-empty set of natural numbers below a bound has a greatest one.
LEMMA GreatestNumber ==
    ASSUME NEW b \in Nat, NEW T \in SUBSET (0..b), T # {}
    PROVE  /\ Max(T) \in T
           /\ \A n \in T : n <= Max(T)
<1> DEFINE Above == {m \in Nat : \A n \in T : n <= m}
<1>1. b \in Above
    OBVIOUS
<1>2. Min(Above) \in Above /\ \A m \in Above : Min(Above) <= m
    BY <1>1, LeastNumber
<1>3. PICK m \in Nat : m = Min(Above)
    BY <1>2
<1>4. \A n \in T : n <= m
    BY <1>2, <1>3
<1>5. m \in T
    <2>1. ASSUME m \notin T
          PROVE  FALSE
        <3>1. \A n \in T : n <= m - 1
            BY <1>4, <2>1
        <3>2. m - 1 \in Nat
            <4>1. PICK n : n \in T
                OBVIOUS
            <4> QED
                BY <3>1, <4>1
        <3>3. m - 1 \in Above
            BY <3>1, <3>2
        <3>4. \A a \in Above : m <= a
            BY <1>2, <1>3
        <3> QED
            BY <3>2, <3>3, <3>4
    <2> QED
        BY <2>1
<1> QED
    BY <1>4, <1>5 DEF Max

-------------------------------------------------------------------------------
(* flatten                                                                 *)

\* What flatten makes of data with a prefix, given what it makes of the members.
Flattened(flat, data, prefix) ==
    IF data.type \in Nests
    THEN Updated([i \in DOMAIN data.members |->
                     flat[Child(data, i)][ChildPrefix(data, prefix, i)]])
    ELSE [key \in {prefix} \ {<<>>} |-> data]

\* A function that does so for all data and prefixes.
Flattens(flat) ==
    \A data \in Data : \A prefix \in Seq(Pieces) : flat[data][prefix] = Flattened(flat, data, prefix)

\* An object or a list has a number of members.
LEMMA MemberCount ==
    ASSUME NEW data \in Data, data.type \in Nests
    PROVE  \E n \in 0..MaxMembers : n = Len(data.members) /\ DOMAIN data.members = 1..n
<1>1. Len(data.members) \in Nat /\ DOMAIN data.members = 1..Len(data.members)
    <2>1. \/ data.members \in Seq([key : Seq(Pieces), value : Data])
          \/ data.members \in Seq(Data)
        BY DataAssumption DEF Nests, Leaves
    <2> QED
        BY <2>1
<1>2. Len(data.members) <= MaxMembers
    BY DataAssumption DEF Nests, Leaves
<1> QED
    BY <1>1, <1>2, DataAssumption

\* The members of data are data that nest less deep, and their prefixes are texts.
LEMMA Members ==
    ASSUME NEW data \in Data, data.type \in Nests, NEW i \in DOMAIN data.members
    PROVE  /\ Child(data, i) \in Data
           /\ Height[Child(data, i)] < Height[data]
           /\ i \in 1..MaxMembers
           /\ data.type = "object" => data.members[i].key \in Seq(Pieces)
           /\ \A prefix \in Seq(Pieces) : ChildPrefix(data, prefix, i) \in Seq(Pieces)
<1>1. /\ \/ data.type = "object" /\ data.members \in Seq([key : Seq(Pieces), value : Data])
         \/ data.type = "list" /\ data.members \in Seq(Data)
      /\ Len(data.members) <= MaxMembers
      /\ Height[Child(data, i)] < Height[data]
    BY DataAssumption DEF Nests, Leaves
<1>2. i \in 1..MaxMembers
    BY <1>1, DataAssumption
<1>3. CASE data.type = "object" /\ data.members \in Seq([key : Seq(Pieces), value : Data])
    <2>1. data.members[i] \in [key : Seq(Pieces), value : Data]
        <3>1. i \in 1..Len(data.members)
            BY <1>3
        <3> QED
            BY <1>3, <3>1, ElementOfSeq
    <2>2. \A prefix \in Seq(Pieces) : ChildPrefix(data, prefix, i) \in Seq(Pieces)
        <3>1. <<"dot">> \in Seq(Pieces)
            BY DataAssumption
        <3> QED
            BY <1>3, <2>1, <3>1 DEF ChildPrefix, Joined
    <2> QED
        BY <1>1, <1>2, <1>3, <2>1, <2>2 DEF Child
<1>4. CASE data.type = "list" /\ data.members \in Seq(Data)
    <2>1. Indexes[i] \in Pieces
        BY <1>2, DataAssumption
    <2> QED
        BY <1>1, <1>2, <1>4, <2>1 DEF Child, ChildPrefix
<1> QED
    BY <1>1, <1>3, <1>4

\* It depends on what it makes of data that nest less deep only.
LEMMA FlattenedAgrees ==
    ASSUME NEW data \in Data, NEW g, NEW h,
           \A d \in Data : Height[d] < Height[data] => g[d] = h[d]
    PROVE  [prefix \in Seq(Pieces) |-> Flattened(g, data, prefix)]
              = [prefix \in Seq(Pieces) |-> Flattened(h, data, prefix)]
<1> SUFFICES ASSUME NEW prefix \in Seq(Pieces)
             PROVE  Flattened(g, data, prefix) = Flattened(h, data, prefix)
    OBVIOUS
<1>1. CASE data.type \in Nests
    <2>1. \A i \in DOMAIN data.members : g[Child(data, i)] = h[Child(data, i)]
        BY <1>1, Members
    <2>2. [i \in DOMAIN data.members |-> g[Child(data, i)][ChildPrefix(data, prefix, i)]]
             = [i \in DOMAIN data.members |-> h[Child(data, i)][ChildPrefix(data, prefix, i)]]
        BY <2>1
    <2> QED
        BY <1>1, <2>2 DEF Flattened
<1>2. CASE data.type \notin Nests
    BY <1>2 DEF Flattened
<1> QED
    BY <1>1, <1>2

\* The recursion of flatten is well-founded: there is a function that satisfies its
\* equation.
LEMMA FlatEquation ==
    \E flat : Flattens(flat) /\ \A payload : flatten(payload) = flat[payload][<<>>]
<1> DEFINE Below(k) == {data \in Data : Height[data] < k}
           Solves(k, g) ==
              g = [data \in Below(k) |-> [prefix \in Seq(Pieces) |-> Flattened(g, data, prefix)]]
           Bad == {k \in Nat : ~ \E g : Solves(k, g)}
<1>1. \A data \in Data : Height[data] \in Nat /\ Height[data] < MaxDepth + 1
    BY DataAssumption
<1>2. ASSUME Bad # {}
      PROVE  FALSE
    <2>1. PICK k \in Bad : \A j \in Bad : k <= j
        <3>1. Bad \in SUBSET Nat
            OBVIOUS
        <3> HIDE DEF Bad
        <3> QED
            BY <1>2, <3>1, LeastNumber
    <2>2. k \in Nat /\ ~ \E g : Solves(k, g)
        BY <2>1
    <2>3. k # 0
        <3>1. ASSUME k = 0
              PROVE  FALSE
            <4>1. Below(0) = {}
                BY <1>1
            <4> DEFINE none == [data \in {} |-> <<>>]
            <4>2. none = [data \in Below(0) |-> [prefix \in Seq(Pieces) |-> Flattened(none, data, prefix)]]
                BY <4>1
            <4> HIDE DEF none
            <4> QED
                BY <2>2, <3>1, <4>2
        <3> QED
            BY <3>1
    <2>4. k - 1 \in Nat /\ k - 1 \notin Bad
        <3>1. k - 1 \in Nat /\ ~ (k <= k - 1)
            BY <2>2, <2>3
        <3> HIDE DEF Bad
        <3> QED
            BY <2>1, <3>1
    <2>5. PICK g : Solves(k - 1, g)
        BY <2>4
    <2> DEFINE h == [data \in Below(k) |-> [prefix \in Seq(Pieces) |-> Flattened(g, data, prefix)]]
    <2>6. \A data \in Below(k - 1) : h[data] = g[data]
        <3> SUFFICES ASSUME NEW data \in Below(k - 1)
                     PROVE  h[data] = g[data]
            OBVIOUS
        <3>1. data \in Below(k)
            BY <1>1, <2>2, <2>4
        <3>2. g[data] = [prefix \in Seq(Pieces) |-> Flattened(g, data, prefix)]
            BY <2>5
        <3> QED
            BY <3>1, <3>2
    <2>7. \A data \in Below(k) :
             h[data] = [prefix \in Seq(Pieces) |-> Flattened(h, data, prefix)]
        <3> SUFFICES ASSUME NEW data \in Below(k)
                     PROVE  h[data] = [prefix \in Seq(Pieces) |-> Flattened(h, data, prefix)]
            OBVIOUS
        <3>1. h[data] = [prefix \in Seq(Pieces) |-> Flattened(g, data, prefix)]
            OBVIOUS
        <3> HIDE DEF h
        <3>2. \A d \in Data : Height[d] < Height[data] => g[d] = h[d]
            BY <1>1, <2>2, <2>6
        <3> QED
            BY <3>1, <3>2, FlattenedAgrees
    <2>8. h = [data \in Below(k) |-> h[data]]
        OBVIOUS
    <2> HIDE DEF h
    <2>9. Solves(k, h)
        BY <2>7, <2>8
    <2> QED
        BY <2>2, <2>9
<1>3. PICK g : Solves(MaxDepth + 1, g)
    <2>1. MaxDepth + 1 \in Nat
        BY DataAssumption
    <2> QED
        BY <1>2, <2>1
<1>4. Below(MaxDepth + 1) = Data
    BY <1>1
<1> DEFINE flat == CHOOSE f : f = [data \in Data |-> [prefix \in Seq(Pieces) |-> Flattened(f, data, prefix)]]
<1>5. flat = [data \in Data |-> [prefix \in Seq(Pieces) |-> Flattened(flat, data, prefix)]]
    BY <1>3, <1>4
<1>6. \A payload : flatten(payload) = flat[payload][<<>>]
    BY DEF flatten, Flattened
<1>7. Flattens(flat)
    <2> HIDE DEF flat
    <2> SUFFICES ASSUME NEW data \in Data, NEW prefix \in Seq(Pieces)
                 PROVE  flat[data][prefix] = Flattened(flat, data, prefix)
        BY DEF Flattens
    <2>1. flat[data] = [p \in Seq(Pieces) |-> Flattened(flat, data, p)]
        BY <1>5
    <2> QED
        BY <2>1
<1> QED
    BY <1>6, <1>7

\* A dict updated with parts has a key of one of them, and what the last one that has
\* it says.
LEMMA UpdatedFacts ==
    ASSUME NEW n \in Nat, NEW parts, DOMAIN parts = 1..n
    PROVE  /\ \A key : key \in DOMAIN Updated(parts) <=> \E i \in 1..n : key \in DOMAIN parts[i]
           /\ \A key \in DOMAIN Updated(parts) : \E i \in 1..n :
                 /\ key \in DOMAIN parts[i]
                 /\ Updated(parts)[key] = parts[i][key]
                 /\ \A j \in 1..n : key \in DOMAIN parts[j] => j <= i
<1>1. \A key : key \in DOMAIN Updated(parts) <=> \E i \in 1..n : key \in DOMAIN parts[i]
    BY DEF Updated
<1>2. ASSUME NEW key \in DOMAIN Updated(parts)
      PROVE  \E i \in 1..n :
                /\ key \in DOMAIN parts[i]
                /\ Updated(parts)[key] = parts[i][key]
                /\ \A j \in 1..n : key \in DOMAIN parts[j] => j <= i
    <2> DEFINE having == {i \in DOMAIN parts : key \in DOMAIN parts[i]}
    <2>1. having # {} /\ having \in SUBSET (0..n)
        BY <1>1
    <2>2. Max(having) \in having /\ \A j \in having : j <= Max(having)
        <3> HIDE DEF having
        <3> QED
            BY <2>1, GreatestNumber
    <2>3. Updated(parts)[key] = parts[Max(having)][key]
        BY DEF Updated
    <2> QED
        BY <2>2, <2>3
<1> QED
    BY <1>1, <1>2

\* Whatever nests in the data, the values are leaves, and the keys are texts.
LEMMA FlattenedToLeaves ==
    ASSUME NEW flat, Flattens(flat),
           NEW data \in Data, NEW prefix \in Seq(Pieces)
    PROVE  \A key \in DOMAIN flat[data][prefix] :
              flat[data][prefix][key] \in Data /\ flat[data][prefix][key].type \in Leaves
<1> DEFINE Fine(d) == \A p \in Seq(Pieces) : \A key \in DOMAIN flat[d][p] :
                         flat[d][p][key] \in Data /\ flat[d][p][key].type \in Leaves
           Bad == {h \in Nat : \E d \in Data : Height[d] = h /\ ~ Fine(d)}
<1>1. \A d \in Data : Height[d] \in Nat
    BY DataAssumption
<1>2. ASSUME Bad # {}
      PROVE  FALSE
    <2>1. PICK h \in Bad : \A j \in Bad : h <= j
        <3>1. Bad \in SUBSET Nat
            OBVIOUS
        <3> HIDE DEF Bad
        <3> QED
            BY <1>2, <3>1, LeastNumber
    <2>2. PICK d \in Data : Height[d] = h /\ ~ Fine(d)
        BY <2>1
    <2>3. \A c \in Data : Height[c] < Height[d] => Fine(c)
        <3> SUFFICES ASSUME NEW c \in Data, Height[c] < Height[d]
                     PROVE  Fine(c)
            OBVIOUS
        <3>1. Height[c] \notin Bad
            <4>1. Height[c] \in Nat /\ h \in Nat /\ ~ (h <= Height[c])
                BY <1>1, <2>2
            <4> HIDE DEF Bad
            <4> QED
                BY <2>1, <4>1
        <3> HIDE DEF Fine
        <3> QED
            BY <1>1, <3>1
    <2>4. PICK p \in Seq(Pieces) : \E key \in DOMAIN flat[d][p] :
             ~ (flat[d][p][key] \in Data /\ flat[d][p][key].type \in Leaves)
        BY <2>2
    <2>5. PICK key \in DOMAIN flat[d][p] :
             ~ (flat[d][p][key] \in Data /\ flat[d][p][key].type \in Leaves)
        BY <2>4
    <2>6. flat[d][p] = Flattened(flat, d, p)
        BY DEF Flattens
    <2>7. CASE d.type \in Nests
        <3> DEFINE parts == [i \in DOMAIN d.members |-> flat[Child(d, i)][ChildPrefix(d, p, i)]]
        <3>1. PICK n \in Nat : DOMAIN d.members = 1..n
            BY <2>7, MemberCount
        <3>2. flat[d][p] = Updated(parts)
            BY <2>6, <2>7 DEF Flattened
        <3>3. PICK i \in 1..n : key \in DOMAIN parts[i] /\ Updated(parts)[key] = parts[i][key]
            <4>1. DOMAIN parts = 1..n
                BY <3>1
            <4> HIDE DEF parts
            <4> QED
                BY <2>5, <3>2, <4>1, UpdatedFacts
        <3>4. parts[i] = flat[Child(d, i)][ChildPrefix(d, p, i)]
            BY <3>1
        <3>5. /\ Child(d, i) \in Data /\ Height[Child(d, i)] < Height[d]
              /\ ChildPrefix(d, p, i) \in Seq(Pieces)
            BY <2>7, <3>1, Members
        <3>6. Fine(Child(d, i))
            BY <2>3, <3>5
        <3> HIDE DEF parts
        <3> QED
            BY <2>5, <3>2, <3>3, <3>4, <3>5, <3>6
    <2>8. CASE d.type \notin Nests
        <3>1. flat[d][p] = [k \in {p} \ {<<>>} |-> d]
            BY <2>6, <2>8 DEF Flattened
        <3>2. d.type \in Leaves
            BY <2>8, DataAssumption DEF Nests
        <3> QED
            BY <2>5, <3>1, <3>2
    <2> QED
        BY <2>7, <2>8
<1>3. Height[data] \notin Bad
    BY <1>2
<1>4. Fine(data)
    BY <1>1, <1>3
<1> QED
    BY <1>4

\* So the fields that a payload brings have leaves for values.
LEMMA FieldsAreLeaves ==
    ASSUME NEW payload \in Payloads, NEW f \in DOMAIN new_fields[payload]
    PROVE  new_fields[payload][f].type \in Leaves
<1>1. PICK flat : Flattens(flat) /\ \A p : flatten(p) = flat[p][<<>>]
    BY FlatEquation
<1>2. payload \in Data /\ <<>> \in Seq(Pieces)
    BY DataAssumption
<1>3. new_fields[payload] = flat[payload][<<>>]
    BY <1>1 DEF new_fields
<1> QED
    BY <1>1, <1>2, <1>3, FlattenedToLeaves

-------------------------------------------------------------------------------
(* merge                                                                   *)

\* The payloads before the n-th, and it, that bring a field.
Bringing(received, n, f) == {i \in 1..n : f \in DOMAIN new_fields[received[i]]}

\* The payloads are merged one by one: there is a function that satisfies the equation.
LEMMA MergeEquation ==
    ASSUME NEW now, NEW received \in Seq(Payloads)
    PROVE  \E after : /\ MergedAll(now, received) = after[Len(received)]
                      /\ after[0] = now
                      /\ \A n \in 1..Len(received) : after[n] = Merged(after[n - 1], received[n])
<1> DEFINE Solves(k, g) ==
              g = [n \in 0..k |-> IF n = 0 THEN now ELSE Merged(g[n - 1], received[n])]
           Bad == {k \in Nat : ~ \E g : Solves(k, g)}
<1>1. ASSUME Bad # {}
      PROVE  FALSE
    <2>1. PICK k \in Bad : \A j \in Bad : k <= j
        <3>1. Bad \in SUBSET Nat
            OBVIOUS
        <3> HIDE DEF Bad
        <3> QED
            BY <1>1, <3>1, LeastNumber
    <2>2. k \in Nat /\ ~ \E g : Solves(k, g)
        BY <2>1
    <2>3. CASE k = 0
        <3> DEFINE none == [n \in 0..0 |-> now]
        <3>1. none = [n \in 0..0 |-> IF n = 0 THEN now ELSE Merged(none[n - 1], received[n])]
            OBVIOUS
        <3> HIDE DEF none
        <3> QED
            BY <2>2, <2>3, <3>1
    <2>4. CASE k # 0
        <3>1. k - 1 \in Nat /\ ~ (k <= k - 1)
            BY <2>2, <2>4
        <3>2. k - 1 \notin Bad
            <4> HIDE DEF Bad
            <4> QED
                BY <2>1, <3>1
        <3>3. PICK g : Solves(k - 1, g)
            BY <3>1, <3>2
        <3> DEFINE h == [n \in 0..k |-> IF n = k THEN Merged(g[n - 1], received[n]) ELSE g[n]]
        <3>4. \A n \in 0..(k - 1) : h[n] = g[n]
            BY <2>2, <2>4
        <3>5. \A n \in 0..k : h[n] = IF n = 0 THEN now ELSE Merged(h[n - 1], received[n])
            <4> SUFFICES ASSUME NEW n \in 0..k
                         PROVE  h[n] = IF n = 0 THEN now ELSE Merged(h[n - 1], received[n])
                OBVIOUS
            <4>1. n = 0 \/ n - 1 \in 0..(k - 1)
                BY <2>2
            <4>2. n # k => n \in 0..(k - 1)
                BY <2>2
            <4>3. n # k => g[n] = IF n = 0 THEN now ELSE Merged(g[n - 1], received[n])
                BY <3>3, <4>2
            <4>4. h[n] = IF n = k THEN Merged(g[n - 1], received[n]) ELSE g[n]
                OBVIOUS
            <4> HIDE DEF h
            <4> QED
                BY <2>4, <3>4, <4>1, <4>3, <4>4
        <3>6. h = [n \in 0..k |-> h[n]]
            OBVIOUS
        <3> HIDE DEF h
        <3>7. Solves(k, h)
            BY <3>5, <3>6
        <3> QED
            BY <2>2, <3>7
    <2> QED
        BY <2>3, <2>4
<1>2. Len(received) \in Nat
    OBVIOUS
<1>3. PICK g : Solves(Len(received), g)
    BY <1>1, <1>2
<1> DEFINE after == CHOOSE h : Solves(Len(received), h)
<1>4. Solves(Len(received), after)
    BY <1>3
<1>5. MergedAll(now, received) = after[Len(received)]
    BY DEF MergedAll
<1> HIDE DEF after
<1>6. \A n \in 0..Len(received) :
         after[n] = IF n = 0 THEN now ELSE Merged(after[n - 1], received[n])
    BY <1>4
<1>7. after[0] = now /\ \A n \in 1..Len(received) : after[n] = Merged(after[n - 1], received[n])
    <2>1. 0 \in 0..Len(received) /\ \A n \in 1..Len(received) : n \in 0..Len(received) /\ n # 0
        BY <1>2
    <2> QED
        BY <1>6, <2>1
<1> QED
    BY <1>5, <1>7

\* However many payloads are merged, each field has the value that the last one brought
\* which brought one, or the value of before.
LEMMA MergeKeepsLatest ==
    ASSUME NEW now, NEW received \in Seq(Payloads), received # <<>>
    PROVE  /\ MergedAll(now, received) = [f \in Fields |-> MergedAll(now, received)[f]]
           /\ \A f \in Fields : LET bringing == Bringing(received, Len(received), f) IN
                 MergedAll(now, received)[f] =
                    IF bringing = {} THEN now[f] ELSE new_fields[received[Max(bringing)]][f]
<1>1. PICK after : /\ MergedAll(now, received) = after[Len(received)]
                   /\ after[0] = now
                   /\ \A n \in 1..Len(received) : after[n] = Merged(after[n - 1], received[n])
    BY MergeEquation
<1> DEFINE L == Len(received)
           Right(n) == \A f \in Fields :
              after[n][f] = IF Bringing(received, n, f) = {} THEN now[f]
                            ELSE new_fields[received[Max(Bringing(received, n, f))]][f]
           Bad == {n \in 0..L : ~ Right(n)}
<1>2. L \in Nat /\ L >= 1
    OBVIOUS
<1>3. ASSUME Bad # {}
      PROVE  FALSE
    <2>1. PICK n \in Bad : \A j \in Bad : n <= j
        <3>1. Bad \in SUBSET Nat
            OBVIOUS
        <3> HIDE DEF Bad
        <3> QED
            BY <1>3, <3>1, LeastNumber
    <2>2. n \in 0..L /\ ~ Right(n)
        BY <2>1
    <2>3. PICK f \in Fields :
             after[n][f] # IF Bringing(received, n, f) = {} THEN now[f]
                           ELSE new_fields[received[Max(Bringing(received, n, f))]][f]
        BY <2>2
    <2>4. n # 0
        <3>1. Bringing(received, 0, f) = {}
            BY DEF Bringing
        <3> QED
            BY <1>1, <2>3, <3>1
    <2>5. PICK m \in 0..L : m = n - 1
        BY <1>2, <2>2, <2>4
    <2>6. Right(m)
        <3>1. ~ (n <= m)
            BY <2>2, <2>5
        <3>2. m \notin Bad
            <4> HIDE DEF Bad
            <4> QED
                BY <2>1, <3>1
        <3> QED
            BY <3>2
    <2>7. n \in 1..L /\ after[n] = Merged(after[m], received[n])
        BY <1>1, <2>2, <2>4, <2>5
    <2>8. CASE f \in DOMAIN new_fields[received[n]]
        <3>1. n \in Bringing(received, n, f) /\ Bringing(received, n, f) \in SUBSET (0..n)
            BY <2>7, <2>8 DEF Bringing
        <3>2. Max(Bringing(received, n, f)) = n
            <4>1. n \in Nat /\ Bringing(received, n, f) # {}
                BY <2>7, <3>1
            <4>2. /\ Max(Bringing(received, n, f)) \in Bringing(received, n, f)
                  /\ n <= Max(Bringing(received, n, f))
                BY <3>1, <4>1, GreatestNumber
            <4>3. PICK b \in 0..n : b = Max(Bringing(received, n, f))
                BY <3>1, <4>2
            <4> QED
                BY <4>1, <4>2, <4>3
        <3>3. after[n][f] = new_fields[received[n]][f]
            BY <2>7, <2>8 DEF Merged
        <3> QED
            BY <2>3, <3>1, <3>2, <3>3
    <2>9. CASE f \notin DOMAIN new_fields[received[n]]
        <3>1. Bringing(received, n, f) = Bringing(received, m, f)
            BY <2>5, <2>7, <2>9 DEF Bringing
        <3>2. after[n][f] = after[m][f]
            BY <2>7, <2>9 DEF Merged
        <3> QED
            BY <2>3, <2>6, <3>1, <3>2
    <2> QED
        BY <2>8, <2>9
<1>4. Right(L)
    BY <1>2, <1>3
<1>5. after[L] = Merged(after[L - 1], received[L])
    BY <1>1, <1>2
<1>6. after[L] = [f \in Fields |-> after[L][f]]
    BY <1>5 DEF Merged
<1> QED
    BY <1>1, <1>4, <1>6

-------------------------------------------------------------------------------
(* Telemetry implements EntityDiscovery                                    *)

\* The fields that the entities see are the types of the values, which are leaves.
\* A unit is known only by a text among the values: a switch, whose key holds a hint,
\* never overwrites it.
Held ==
    /\ values = [f \in Fields |-> values[f]]
    /\ \A f \in Fields : values[f].type \in Leaves \cup {"absent"}
    /\ fields = [f \in Fields |-> Type(values[f])]
Identified == model # Absent => \E i \in DOMAIN ModelKeys : values[ModelKeys[i]].type \in Texts

TelemetryInv == Inv /\ Held /\ Identified

\* The identity is unknown only if no key of it has a text.
LEMMA FirstTextFacts ==
    ASSUME NEW now
    PROVE  FirstText(now, ModelKeys) # Absent
              <=> \E i \in DOMAIN ModelKeys : now[ModelKeys[i]].type \in Texts
<1> DEFINE texts == {i \in DOMAIN ModelKeys : now[ModelKeys[i]].type \in Texts}
<1>1. texts \in SUBSET Nat
    BY KeysAssumption
<1>2. CASE texts = {}
    BY <1>2 DEF FirstText
<1>3. CASE texts # {}
    <2>1. Min(texts) \in texts
        <3> HIDE DEF texts
        <3> QED
            BY <1>1, <1>3, LeastNumber
    <2>2. FirstText(now, ModelKeys) = now[ModelKeys[Min(texts)]]
        BY <1>3 DEF FirstText
    <2>3. FirstText(now, ModelKeys).type \in Texts
        BY <2>1, <2>2
    <2>4. FirstText(now, ModelKeys) # Absent
        BY <2>3 DEF Texts, Absent
    <2> QED
        BY <1>3, <2>4
<1> QED
    BY <1>2, <1>3

\* What the frames of a poll make of the values.
LEMMA ReceivedValues ==
    ASSUME Held, NEW received \in Seq(Payloads), received # <<>>,
           values' = MergedAll(values, received), FieldsFollow
    PROVE  /\ Held'
           /\ fields' \in [Fields -> Types \cup {"absent"}]
           /\ \A f \in Fields : fields'[f] = "absent" => fields[f] = "absent"
<1>1. /\ values' = [f \in Fields |-> values'[f]]
      /\ \A f \in Fields : LET bringing == Bringing(received, Len(received), f) IN
            values'[f] = IF bringing = {} THEN values[f] ELSE new_fields[received[Max(bringing)]][f]
    BY MergeKeepsLatest
<1>2. ASSUME NEW f \in Fields
      PROVE  values'[f] = values[f] \/ values'[f].type \in Leaves
    <2> DEFINE bringing == Bringing(received, Len(received), f)
    <2>1. CASE bringing = {}
        BY <1>1, <2>1
    <2>2. CASE bringing # {}
        <3>1. Len(received) \in Nat /\ bringing \in SUBSET (0..Len(received))
            BY DEF Bringing
        <3>2. Max(bringing) \in bringing
            <4> HIDE DEF bringing
            <4> QED
                BY <2>2, <3>1, GreatestNumber
        <3>3. PICK i \in 1..Len(received) :
                 i = Max(bringing) /\ f \in DOMAIN new_fields[received[i]]
            BY <3>2 DEF Bringing
        <3>4. received[i] \in Payloads /\ values'[f] = new_fields[received[i]][f]
            BY <1>1, <2>2, <3>3, ElementOfSeq
        <3> QED
            BY <3>3, <3>4, FieldsAreLeaves
    <2> QED
        BY <2>1, <2>2
<1>3. fields' = [f \in Fields |-> Type(values'[f])]
    BY DEF FieldsFollow
<1>4. Held'
    BY <1>1, <1>2, <1>3 DEF Held
<1>5. \A f \in Fields : fields'[f] \in Types \cup {"absent"}
    BY <1>3, <1>4 DEF Held, Type, Types, Leaves
<1>6. ASSUME NEW f \in Fields, fields'[f] = "absent"
      PROVE  fields[f] = "absent"
    <2>1. values'[f].type = "absent"
        BY <1>3, <1>6 DEF Type
    <2>2. values'[f] = values[f]
        BY <1>2, <2>1 DEF Leaves
    <2> QED
        BY <1>3, <1>6, <2>2 DEF Held
<1> QED
    BY <1>3, <1>4, <1>5, <1>6

\* The frames of a poll are a sequence of payloads.
LEMMA ReceivedFrames ==
    ASSUME NEW received \in BoundedSeq(Payloads, MaxFrames) \ {<<>>}
    PROVE  received \in Seq(Payloads) /\ received # <<>>
<1>1. PICK m \in 0..MaxFrames : received \in [1..m -> Payloads]
    BY DEF BoundedSeq, SeqOf
<1>2. m \in Nat
    BY <1>1, DataAssumption
<1> QED
    BY <1>1, <1>2

\* Every step is one of EntityDiscovery, or none there, and keeps the values in step
\* with the fields.
LEMMA TelemetryRefines ==
    ASSUME TelemetryInv, [TelemetryNext]_<<vars, telemetryVars>>
    PROVE  [Next]_vars /\ Held'
<1>1. Held /\ Inv
    BY DEF TelemetryInv
<1>2. ASSUME NEW p \in Platforms, Start(p)
      PROVE  [Next]_vars /\ Held'
    <2>1. SetUp(p) /\ UNCHANGED <<values, fields>>
        BY <1>2 DEF Start, SetUp, telemetryVars
    <2> QED
        BY <1>1, <2>1 DEF Next, Held
<1>3. CASE Receive
    <2>1. PICK received \in BoundedSeq(Payloads, MaxFrames) \ {<<>>} :
             values' = MergedAll(values, received)
        BY <1>3 DEF Receive
    <2>2. FieldsFollow /\ Look(Reached(fields'), fields') /\ UNCHANGED <<ready, behind>>
        BY <1>3 DEF Receive
    <2>3. /\ Held' /\ fields' \in [Fields -> Types \cup {"absent"}]
          /\ \A f \in Fields : fields'[f] = "absent" => fields[f] = "absent"
        BY <1>1, <2>1, <2>2, ReceivedFrames, ReceivedValues
    <2>4. Merge
        BY <2>2, <2>3 DEF Merge
    <2> QED
        BY <2>3, <2>4 DEF Next
<1>4. ASSUME NEW f \in Fields, Switch(f)
      PROVE  [Next]_vars /\ Held'
    <2>1. Turn(f)
        BY <1>4 DEF Switch
    <2>2. PICK on : values' = [values EXCEPT ![f] = [type |-> "bool", is |-> on]]
        BY <1>4 DEF Switch
    <2>3. fields' = [fields EXCEPT ![f] = "bool"]
        BY <2>1 DEF Turn
    <2>4. \A g \in Fields : values'[g] = IF g = f THEN [type |-> "bool", is |-> on] ELSE values[g]
        BY <1>1, <2>2 DEF Held
    <2>5. values' = [g \in Fields |-> values'[g]]
        BY <1>1, <2>2 DEF Held
    <2>6. \A g \in Fields : values'[g].type \in Leaves \cup {"absent"}
        BY <1>1, <2>4 DEF Held, Leaves
    <2>7. fields' = [g \in Fields |-> Type(values'[g])]
        BY <1>1, <2>3, <2>4 DEF Held, Type
    <2>8. Held'
        BY <2>5, <2>6, <2>7 DEF Held
    <2> QED
        BY <2>1, <2>8 DEF Next
<1>5. CASE StartOver
    <2>1. Reload /\ values' = [f \in Fields |-> Absent] /\ FieldsFollow
        BY <1>5 DEF StartOver
    <2>2. Held'
        BY <2>1 DEF Held, FieldsFollow, Absent
    <2> QED
        BY <2>1, <2>2 DEF Next
<1>6. CASE UNCHANGED <<vars, telemetryVars>>
    BY <1>1, <1>6 DEF vars, telemetryVars, Held
<1> QED
    BY <1>2, <1>3, <1>4, <1>5, <1>6 DEF TelemetryNext

\* A switch has a key that is none of the identity's.
LEMMA SwitchKeepsIdentity ==
    ASSUME Inv, Held, NEW f \in Fields, Switch(f), NEW i \in DOMAIN ModelKeys
    PROVE  values'[ModelKeys[i]] = values[ModelKeys[i]]
<1>1. added["switch"][f] > 0
    BY DEF Switch, Turn
<1>2. f \in Hinted
    <2>1. "switch" \in Platforms
        BY DEF Platforms
    <2>2. f \in known["switch"]
        BY <1>1, <2>1 DEF Inv, Counted
    <2> QED
        BY <2>2 DEF Inv, Own
<1>3. ModelKeys[i] \in Fields \ Hinted
    <2>1. i \in 1..Len(ModelKeys)
        BY KeysAssumption
    <2> QED
        BY <2>1, KeysAssumption, ElementOfSeq
<1>4. PICK on : values' = [values EXCEPT ![f] = [type |-> "bool", is |-> on]]
    BY DEF Switch
<1> QED
    BY <1>2, <1>3, <1>4 DEF Held

\* Frames and switches leave a known unit known, and a reload makes it unknown.
LEMMA IdentifiedStep ==
    ASSUME TelemetryInv, [TelemetryNext]_<<vars, telemetryVars>>
    PROVE  Identified'
<1>1. Inv /\ Held /\ Identified
    BY DEF TelemetryInv
<1>2. ASSUME UNCHANGED <<values, model>>
      PROVE  Identified'
    BY <1>1, <1>2 DEF Identified
<1>3. CASE \E p \in Platforms : Start(p)
    BY <1>2, <1>3 DEF Start, telemetryVars
<1>4. CASE Receive
    <2>1. model' = FirstText(values', ModelKeys)
        BY <1>4 DEF Receive, Identity
    <2> QED
        BY <2>1, FirstTextFacts DEF Identified
<1>5. ASSUME NEW f \in Fields, Switch(f)
      PROVE  Identified'
    <2>1. \A i \in DOMAIN ModelKeys : values'[ModelKeys[i]] = values[ModelKeys[i]]
        BY <1>1, <1>5, SwitchKeepsIdentity
    <2>2. model' = model
        BY <1>5 DEF Switch
    <2> QED
        BY <1>1, <2>1, <2>2 DEF Identified
<1>6. CASE StartOver
    BY <1>6 DEF StartOver, Identified
<1>7. CASE UNCHANGED <<vars, telemetryVars>>
    BY <1>2, <1>7 DEF telemetryVars
<1> QED
    BY <1>3, <1>4, <1>5, <1>6, <1>7 DEF TelemetryNext

\* The telemetry of a new coordinator is empty.
LEMMA TelemetryInitially == TelemetryInit => Init /\ TelemetryInv
<1> SUFFICES ASSUME TelemetryInit
             PROVE  Init /\ TelemetryInv
    OBVIOUS
<1>1. Init /\ Inv
    BY Initially DEF TelemetryInit
<1>2. Held /\ Identified
    BY DEF TelemetryInit, Held, Identified, Type, Absent
<1> QED
    BY <1>1, <1>2 DEF TelemetryInv

\* The inductive invariant.
LEMMA TelemetryInvariance ==
    TelemetrySpec => []TelemetryInv /\ [][Next]_vars /\ Init
<1>1. TelemetryInv /\ [TelemetryNext]_<<vars, telemetryVars>> => TelemetryInv' /\ [Next]_vars
    <2> SUFFICES ASSUME TelemetryInv, [TelemetryNext]_<<vars, telemetryVars>>
                 PROVE  TelemetryInv' /\ [Next]_vars
        OBVIOUS
    <2>1. [Next]_vars /\ Held' /\ Identified'
        BY TelemetryRefines, IdentifiedStep
    <2>2. Inv'
        BY <2>1, Step DEF TelemetryInv
    <2> QED
        BY <2>1, <2>2 DEF TelemetryInv
<1> QED
    BY <1>1, TelemetryInitially, PTL DEF TelemetrySpec

\* FieldsDiscovered for any payloads, however they nest: merging them and turning
\* switches is, for the entities, what EntityDiscovery says of fields.
THEOREM PayloadsAreDiscovered == TelemetrySpec => FieldsDiscovered
BY TelemetryInvariance, PTL DEF FieldsDiscovered, Spec

\* So its invariants hold of the entities made from payloads.
THEOREM EntitiesOfPayloads ==
    TelemetrySpec => [](TypeOK /\ EveryFieldShown /\ AddedOnce /\ NoTwin)
BY PayloadsAreDiscovered, TypeCorrect, FieldsAreShown, AddedAtMostOnce, NoReadOnlyTwin, PTL
   DEF FieldsDiscovered

\* IdentityKept for any payloads: a known unit stays known until its entry is reloaded,
\* unless a frame takes the text of its identity away.
THEOREM IdentitiesAreKept == TelemetrySpec => IdentityKept
<1> DEFINE Kept ==
       (/\ model # Absent
        /\ ready' = {} => ready = {}
        /\ \A i \in DOMAIN ModelKeys : values'[ModelKeys[i]] # values[ModelKeys[i]] =>
              values'[ModelKeys[i]].type \in Texts
        => model' # Absent)
<1>1. TelemetryInv /\ [TelemetryNext]_<<vars, telemetryVars>> => [Kept]_<<vars, telemetryVars>>
    <2> SUFFICES ASSUME TelemetryInv, [TelemetryNext]_<<vars, telemetryVars>>,
                        model # Absent,
                        ready' = {} => ready = {},
                        \A i \in DOMAIN ModelKeys : values'[ModelKeys[i]] # values[ModelKeys[i]] =>
                           values'[ModelKeys[i]].type \in Texts
                 PROVE  model' # Absent
        OBVIOUS
    <2>1. CASE Receive
        <3>1. model' = FirstText(values', ModelKeys)
            BY <2>1 DEF Receive, Identity
        <3>2. PICK i \in DOMAIN ModelKeys : values[ModelKeys[i]].type \in Texts
            BY DEF TelemetryInv, Identified
        <3>3. values'[ModelKeys[i]].type \in Texts
            BY <3>2
        <3> QED
            BY <3>1, <3>3, FirstTextFacts
    <2>2. CASE StartOver
        BY <2>2 DEF StartOver, Reload, Platforms
    <2>3. CASE \/ \E p \in Platforms : Start(p)
               \/ \E f \in Fields : Switch(f)
               \/ UNCHANGED <<vars, telemetryVars>>
        BY <2>3 DEF Start, Switch, telemetryVars
    <2> QED
        BY <2>1, <2>2, <2>3 DEF TelemetryNext
<1> QED
    BY <1>1, TelemetryInvariance, PTL DEF TelemetrySpec, IdentityKept

-------------------------------------------------------------------------------
(* The places of a payload                                                 *)

\* A path is a sequence of numbers of members, not longer than a payload is deep.
LEMMA PathFacts ==
    ASSUME NEW p \in Paths
    PROVE  /\ p \in Seq(1..MaxMembers) /\ Len(p) \in 0..MaxDepth
           /\ p # <<>> =>
                 /\ Front(p) \in Paths /\ Len(p) \in Nat \ {0} /\ Len(Front(p)) = Len(p) - 1
                 /\ Last(p) = p[Len(p)] /\ Last(p) \in 1..MaxMembers
                 /\ \A k \in 1..(Len(p) - 1) : Front(p)[k] = p[k]
<1>1. PICK m \in 0..MaxDepth : p \in [1..m -> 1..MaxMembers]
    BY DEF Paths, BoundedSeq, SeqOf
<1>2. m \in Nat /\ MaxDepth \in Nat /\ MaxMembers \in Nat
    BY <1>1, DataAssumption
<1>3. p \in Seq(1..MaxMembers) /\ Len(p) = m
    BY <1>1, <1>2
<1>4. ASSUME p # <<>>
      PROVE  /\ Front(p) \in Paths /\ Len(p) \in Nat \ {0} /\ Len(Front(p)) = Len(p) - 1
             /\ Last(p) = p[Len(p)] /\ Last(p) \in 1..MaxMembers
             /\ \A k \in 1..(Len(p) - 1) : Front(p)[k] = p[k]
    <2>1. m # 0
        BY <1>3, <1>4
    <2>2. PICK l \in 0..MaxDepth : l = m - 1
        BY <1>1, <1>2, <2>1
    <2>3. /\ Front(p) \in Seq(1..MaxMembers) /\ Len(Front(p)) = l
          /\ \A k \in 1..l : Front(p)[k] = p[k]
        BY <1>2, <1>3, <2>1, <2>2 DEF Front
    <2>4. Front(p) \in [1..l -> 1..MaxMembers]
        BY <2>3, LenProperties
    <2>5. Front(p) \in Paths
        BY <2>2, <2>4 DEF Paths, BoundedSeq, SeqOf
    <2>6. Last(p) = p[m] /\ m \in 1..m
        BY <1>2, <1>3, <2>1 DEF Last
    <2> QED
        BY <1>1, <1>2, <1>3, <2>1, <2>2, <2>3, <2>5, <2>6
<1> QED
    BY <1>1, <1>3, <1>4

\* A path goes on to any member, unless it is as long as a payload is deep.
LEMMA LongerPath ==
    ASSUME NEW p \in Paths, Len(p) < MaxDepth, NEW i \in 1..MaxMembers
    PROVE  /\ Append(p, i) \in Paths /\ Append(p, i) # <<>>
           /\ Front(Append(p, i)) = p /\ Last(Append(p, i)) = i
           /\ Len(Append(p, i)) = Len(p) + 1
<1>1. p \in Seq(1..MaxMembers) /\ Len(p) \in Nat /\ MaxDepth \in Nat
    BY PathFacts, DataAssumption
<1>2. PICK q \in Seq(1..MaxMembers) : q = Append(p, i)
    BY <1>1, AppendProperties
<1>3. /\ Len(q) = Len(p) + 1 /\ q[Len(p) + 1] = i
      /\ \A k \in 1..Len(p) : q[k] = p[k]
    BY <1>1, <1>2
<1>4. q \in [1..(Len(p) + 1) -> 1..MaxMembers] /\ Len(p) + 1 \in 0..MaxDepth
    <2>1. q \in [1..Len(q) -> 1..MaxMembers]
        BY LenProperties
    <2> QED
        BY <1>1, <1>3, <2>1
<1>5. q \in Paths
    BY <1>4 DEF Paths, BoundedSeq, SeqOf
<1>6. Front(q) = p
    BY <1>1, <1>2 DEF Front
<1>7. Last(q) = i
    BY <1>3 DEF Last
<1> QED
    BY <1>1, <1>2, <1>3, <1>5, <1>6, <1>7

\* What stands behind a member of what stands at a place, and under which key.
Under(from, i) ==
    LET dot == IF from.key = <<>> THEN <<>> ELSE <<"dot">>
    IN  IF from.data.type = "object" /\ i <= Len(from.data.members)
        THEN [data |-> from.data.members[i].value,
              key |-> from.key \o dot \o from.data.members[i].key]
        ELSE IF from.data.type = "list" /\ i <= Len(from.data.members)
        THEN [data |-> from.data.members[i], key |-> from.key \o <<Indexes[i]>>]
        ELSE [data |-> Absent, key |-> <<>>]

\* The recursion of Place is well-founded.
LEMMA PlaceEquation ==
    ASSUME NEW payload
    PROVE  /\ Place(payload, <<>>) = [data |-> payload, key |-> <<>>]
           /\ \A p \in Paths : p # <<>> =>
                 Place(payload, p) = Under(Place(payload, Front(p)), Last(p))
<1> DEFINE Stands(g, p) == IF p = <<>> THEN [data |-> payload, key |-> <<>>]
                           ELSE Under(g[Front(p)], Last(p))
           Below(k) == {p \in Paths : Len(p) < k}
           Solves(k, g) == g = [p \in Below(k) |-> Stands(g, p)]
           Bad == {k \in Nat : ~ \E g : Solves(k, g)}
<1>1. \A p \in Paths : Len(p) \in Nat /\ Len(p) < MaxDepth + 1 /\ MaxDepth \in Nat
    BY PathFacts, DataAssumption
<1>2. \A p \in Paths : p # <<>> => Front(p) \in Paths /\ Len(Front(p)) = Len(p) - 1
    BY PathFacts
<1>3. ASSUME Bad # {}
      PROVE  FALSE
    <2>1. PICK k \in Bad : \A j \in Bad : k <= j
        <3>1. Bad \in SUBSET Nat
            OBVIOUS
        <3> HIDE DEF Bad
        <3> QED
            BY <1>3, <3>1, LeastNumber
    <2>2. k \in Nat /\ ~ \E g : Solves(k, g)
        BY <2>1
    <2>3. k # 0
        <3>1. ASSUME k = 0
              PROVE  FALSE
            <4>1. Below(0) = {}
                BY <1>1
            <4> DEFINE none == [p \in {} |-> <<>>]
            <4>2. none = [p \in Below(0) |-> Stands(none, p)]
                BY <4>1
            <4> HIDE DEF none
            <4> QED
                BY <2>2, <3>1, <4>2
        <3> QED
            BY <3>1
    <2>4. k - 1 \in Nat /\ k - 1 \notin Bad
        <3>1. k - 1 \in Nat /\ ~ (k <= k - 1)
            BY <2>2, <2>3
        <3> HIDE DEF Bad
        <3> QED
            BY <2>1, <3>1
    <2>5. PICK g : Solves(k - 1, g)
        BY <2>4
    <2> DEFINE h == [p \in Below(k) |-> Stands(g, p)]
    <2>6. \A p \in Below(k - 1) : h[p] = g[p]
        <3> SUFFICES ASSUME NEW p \in Below(k - 1)
                     PROVE  h[p] = g[p]
            OBVIOUS
        <3>1. p \in Below(k)
            BY <1>1, <2>2, <2>4
        <3>2. g[p] = Stands(g, p)
            BY <2>5
        <3> QED
            BY <3>1, <3>2
    <2>7. \A p \in Below(k) : h[p] = Stands(h, p)
        <3> SUFFICES ASSUME NEW p \in Below(k)
                     PROVE  h[p] = Stands(h, p)
            OBVIOUS
        <3>1. h[p] = Stands(g, p)
            OBVIOUS
        <3> HIDE DEF h
        <3>2. p # <<>> => Front(p) \in Below(k - 1)
            BY <1>1, <1>2, <2>2, <2>4
        <3>3. p # <<>> => h[Front(p)] = g[Front(p)]
            BY <2>6, <3>2
        <3> QED
            BY <3>1, <3>3
    <2>8. h = [p \in Below(k) |-> h[p]]
        OBVIOUS
    <2> HIDE DEF h
    <2>9. Solves(k, h)
        BY <2>7, <2>8
    <2> QED
        BY <2>2, <2>9
<1>4. PICK g : Solves(MaxDepth + 1, g)
    <2>1. MaxDepth + 1 \in Nat
        BY DataAssumption
    <2> QED
        BY <1>3, <2>1
<1>5. Below(MaxDepth + 1) = Paths
    BY <1>1
<1> DEFINE place == CHOOSE h : h = [p \in Paths |-> Stands(h, p)]
<1>6. place = [p \in Paths |-> Stands(place, p)]
    BY <1>4, <1>5
<1>7. \A path : Place(payload, path) = place[path]
    BY DEF Place, Under
<1> HIDE DEF place
<1>8. \A p \in Paths : place[p] = Stands(place, p)
    BY <1>6
<1>9. <<>> \in Paths
    <2>1. 0 \in 0..MaxDepth /\ <<>> \in [1..0 -> 1..MaxMembers]
        BY DataAssumption
    <2> QED
        BY <2>1 DEF Paths, BoundedSeq, SeqOf
<1> QED
    BY <1>7, <1>8, <1>9

\* What stands behind data and a key is a member and its prefix, or nothing.
LEMMA UnderFacts ==
    ASSUME NEW from, from.data \in Data, from.key \in Seq(Pieces), NEW i \in 1..MaxMembers
    PROVE  /\ from.data.type \in Nests /\ i \in DOMAIN from.data.members =>
                 Under(from, i) = [data |-> Child(from.data, i), key |-> ChildPrefix(from.data, from.key, i)]
           /\ ~ (from.data.type \in Nests /\ i \in DOMAIN from.data.members) =>
                 Under(from, i) = [data |-> Absent, key |-> <<>>]
<1> DEFINE d == from.data
           k == from.key
<1>1. i \in Nat /\ i >= 1
    BY DataAssumption
<1>2. CASE d.type \in Nests
    <2>1. PICK n \in 0..MaxMembers : n = Len(d.members) /\ DOMAIN d.members = 1..n
        BY <1>2, MemberCount
    <2>2. i <= Len(d.members) <=> i \in DOMAIN d.members
        BY <1>1, <2>1, DataAssumption
    <2>3. CASE i \in DOMAIN d.members
        <3>1. CASE d.type = "object"
            <4>1. d.members[i].key \in Seq(Pieces)
                BY <1>2, <2>3, <3>1, Members
            <4>2. Under(from, i) =
                     [data |-> d.members[i].value,
                      key |-> k \o (IF k = <<>> THEN <<>> ELSE <<"dot">>) \o d.members[i].key]
                BY <2>2, <2>3, <3>1, Zenon DEF Under
            <4>3. <<>> \o <<>> \o d.members[i].key = d.members[i].key
                BY <4>1, ConcatEmptySeq
            <4>4. k \o (IF k = <<>> THEN <<>> ELSE <<"dot">>) \o d.members[i].key
                     = Joined(k, d.members[i].key)
                <5>1. CASE k = <<>>
                    BY <4>3, <5>1, Zenon DEF Joined
                <5>2. CASE k # <<>>
                    BY <5>2, Zenon DEF Joined
                <5> QED
                    BY <5>1, <5>2
            <4>5. Child(d, i) = d.members[i].value /\ ChildPrefix(d, k, i) = Joined(k, d.members[i].key)
                BY <3>1 DEF Child, ChildPrefix
            <4>6. Under(from, i) = [data |-> Child(d, i), key |-> ChildPrefix(d, k, i)]
                BY <4>2, <4>4, <4>5, Zenon
            <4> QED
                BY <1>2, <2>3, <4>6, Zenon
        <3>2. CASE d.type = "list"
            <4>1. Indexes[i] \in Pieces
                BY DataAssumption
            <4>2. k \o <<Indexes[i]>> = Append(k, Indexes[i])
                BY <4>1, AppendIsConcat
            <4>3. Under(from, i) = [data |-> d.members[i], key |-> k \o <<Indexes[i]>>]
                <5>1. d.type # "object"
                    BY <3>2
                <5> QED
                    BY <2>2, <2>3, <3>2, <5>1, Zenon DEF Under
            <4>4. Child(d, i) = d.members[i] /\ ChildPrefix(d, k, i) = Append(k, Indexes[i])
                BY <3>2 DEF Child, ChildPrefix
            <4>5. Under(from, i) = [data |-> Child(d, i), key |-> ChildPrefix(d, k, i)]
                BY <4>2, <4>3, <4>4, Zenon
            <4> QED
                BY <1>2, <2>3, <4>5, Zenon
        <3> QED
            BY <1>2, <2>3, <3>1, <3>2 DEF Nests
    <2>4. CASE i \notin DOMAIN d.members
        BY <2>2, <2>4 DEF Under
    <2> QED
        BY <2>3, <2>4
<1>3. CASE d.type \notin Nests
    BY <1>3 DEF Under, Nests
<1> QED
    BY <1>2, <1>3

\* Nothing stands behind nothing.
LEMMA UnderNothing ==
    ASSUME NEW from, from.data = Absent, NEW i
    PROVE  Under(from, i) = [data |-> Absent, key |-> <<>>]
BY DEF Under, Absent

\* At a path of a payload stands something of it that nests no deeper than is left, or
\* nothing.
LEMMA Standing ==
    ASSUME NEW payload \in Payloads, NEW p \in Paths
    PROVE  /\ Place(payload, p).data \in Data \cup {Absent}
           /\ Place(payload, p).key \in Seq(Pieces)
           /\ Place(payload, p).data \in Data => Len(p) + Height[Place(payload, p).data] <= MaxDepth
<1> DEFINE Fine(q) == /\ Place(payload, q).data \in Data \cup {Absent}
                      /\ Place(payload, q).key \in Seq(Pieces)
                      /\ Place(payload, q).data \in Data =>
                            Len(q) + Height[Place(payload, q).data] <= MaxDepth
           Bad == {h \in Nat : \E q \in Paths : Len(q) = h /\ ~ Fine(q)}
<1>1. \A q \in Paths : Len(q) \in Nat
    BY PathFacts, DataAssumption
<1>2. ASSUME Bad # {}
      PROVE  FALSE
    <2>1. PICK h \in Bad : \A j \in Bad : h <= j
        <3>1. Bad \in SUBSET Nat
            OBVIOUS
        <3> HIDE DEF Bad
        <3> QED
            BY <1>2, <3>1, LeastNumber
    <2>2. PICK q \in Paths : Len(q) = h /\ ~ Fine(q)
        BY <2>1
    <2>3. CASE q = <<>>
        <3>1. Place(payload, q) = [data |-> payload, key |-> <<>>]
            BY <2>3, PlaceEquation
        <3>2. payload \in Data /\ Height[payload] \in 0..MaxDepth /\ MaxDepth \in Nat
            BY DataAssumption
        <3>3. PICK h0 \in Nat : h0 = Height[payload] /\ h0 <= MaxDepth
            BY <3>2
        <3>4. Len(q) + Height[payload] <= MaxDepth /\ <<>> \in Seq(Pieces)
            BY <2>3, <3>3
        <3> QED
            BY <2>2, <3>1, <3>2, <3>4
    <2>4. CASE q # <<>>
        <3>1. /\ Front(q) \in Paths /\ Len(Front(q)) = Len(q) - 1 /\ Last(q) \in 1..MaxMembers
              /\ Len(q) \in Nat
            BY <2>4, PathFacts, <1>1
        <3>2. PICK from : from = Place(payload, Front(q))
            OBVIOUS
        <3>3. Fine(Front(q))
            <4>1. Len(Front(q)) \in Nat /\ ~ (h <= Len(Front(q)))
                BY <1>1, <2>2, <3>1
            <4>2. Len(Front(q)) \notin Bad
                <5> HIDE DEF Bad
                <5> QED
                    BY <2>1, <4>1
            <4> HIDE DEF Fine
            <4> QED
                BY <3>1, <4>1, <4>2
        <3>4. Place(payload, q) = Under(from, Last(q))
            BY <2>4, <3>2, PlaceEquation
        <3>5. <<>> \in Seq(Pieces)
            OBVIOUS
        <3>6. Absent \notin Data
            BY DataAssumption DEF Absent, Leaves
        <3>7. CASE from.data = Absent
            <4>1. Place(payload, q) = [data |-> Absent, key |-> <<>>]
                BY <3>4, <3>7, UnderNothing
            <4> QED
                BY <2>2, <3>5, <3>6, <4>1
        <3>8. CASE from.data \in Data
            <4>1. from.key \in Seq(Pieces) /\ Len(Front(q)) + Height[from.data] <= MaxDepth
                BY <3>2, <3>3, <3>8
            <4>2. CASE from.data.type \in Nests /\ Last(q) \in DOMAIN from.data.members
                <5>1. Place(payload, q) = [data |-> Child(from.data, Last(q)),
                                           key |-> ChildPrefix(from.data, from.key, Last(q))]
                    BY <3>1, <3>4, <3>8, <4>1, <4>2, UnderFacts
                <5>2. PICK c \in Data : c = Child(from.data, Last(q)) /\ Height[c] < Height[from.data]
                    BY <3>8, <4>2, Members
                <5>3. ChildPrefix(from.data, from.key, Last(q)) \in Seq(Pieces)
                    BY <3>8, <4>1, <4>2, Members
                <5>4. Height[c] \in Nat /\ Height[from.data] \in Nat /\ MaxDepth \in Nat
                    BY <3>8, DataAssumption
                <5>5. Len(q) + Height[c] <= MaxDepth
                    BY <3>1, <4>1, <5>2, <5>4
                <5> QED
                    BY <2>2, <5>1, <5>2, <5>3, <5>5
            <4>3. CASE ~ (from.data.type \in Nests /\ Last(q) \in DOMAIN from.data.members)
                <5>1. Place(payload, q) = [data |-> Absent, key |-> <<>>]
                    BY <3>1, <3>4, <3>8, <4>1, <4>3, UnderFacts
                <5> QED
                    BY <2>2, <3>5, <3>6, <5>1
            <4> QED
                BY <4>2, <4>3
        <3> QED
            BY <3>2, <3>3, <3>7, <3>8
    <2> QED
        BY <2>3, <2>4
<1>3. Len(p) \notin Bad
    BY <1>2
<1> HIDE DEF Fine
<1>4. Fine(p)
    BY <1>1, <1>3
<1> QED
    BY <1>4 DEF Fine

\* A path that goes on from another, or is it.
GoesOn(q, p) == Len(p) <= Len(q) /\ \A k \in 1..Len(p) : q[k] = p[k]

\* What goes on from a path is the path, or what comes before its last number goes on
\* from it.
LEMMA GoingOn ==
    ASSUME NEW p \in Paths, NEW q \in Paths, GoesOn(q, p), q # p
    PROVE  /\ Len(p) < Len(q) /\ q # <<>>
           /\ GoesOn(Front(q), p)
<1>1. /\ p \in Seq(1..MaxMembers) /\ q \in Seq(1..MaxMembers)
      /\ Len(p) \in Nat /\ Len(q) \in Nat
    BY PathFacts, DataAssumption
<1>2. Len(p) # Len(q)
    <2>1. ASSUME Len(p) = Len(q)
          PROVE  FALSE
        <3>1. \A k \in 1..Len(p) : q[k] = p[k]
            BY DEF GoesOn
        <3>2. p = q
            BY <1>1, <2>1, <3>1, SeqEqual
        <3> QED
            BY <3>2
    <2> QED
        BY <2>1
<1>3. Len(p) < Len(q)
    BY <1>1, <1>2 DEF GoesOn
<1>4. q # <<>>
    BY <1>1, <1>3
<1>5. Len(Front(q)) = Len(q) - 1 /\ \A k \in 1..(Len(q) - 1) : Front(q)[k] = q[k]
    BY <1>4, PathFacts
<1>6. Len(p) <= Len(Front(q)) /\ \A k \in 1..Len(p) : Front(q)[k] = p[k]
    BY <1>1, <1>3, <1>5 DEF GoesOn
<1> QED
    BY <1>3, <1>4, <1>6 DEF GoesOn

\* Nothing stands on a path that goes on from something that does not nest.
LEMMA NothingBeyond ==
    ASSUME NEW payload \in Payloads, NEW p \in Paths, Place(payload, p).data.type \notin Nests,
           NEW q \in Paths, GoesOn(q, p), q # p
    PROVE  Place(payload, q).data = Absent
<1> DEFINE Fine(r) == GoesOn(r, p) /\ r # p => Place(payload, r).data = Absent
           Bad == {h \in Nat : \E r \in Paths : Len(r) = h /\ ~ Fine(r)}
<1>1. \A r \in Paths : Len(r) \in Nat
    BY PathFacts, DataAssumption
<1>2. ASSUME Bad # {}
      PROVE  FALSE
    <2>1. PICK h \in Bad : \A j \in Bad : h <= j
        <3>1. Bad \in SUBSET Nat
            OBVIOUS
        <3> HIDE DEF Bad
        <3> QED
            BY <1>2, <3>1, LeastNumber
    <2>2. PICK r \in Paths : Len(r) = h /\ ~ Fine(r)
        BY <2>1
    <2>3. r # <<>> /\ GoesOn(Front(r), p)
        BY <2>2, GoingOn
    <2>4. /\ Front(r) \in Paths /\ Len(Front(r)) = Len(r) - 1 /\ Last(r) \in 1..MaxMembers
          /\ Len(r) \in Nat
        BY <1>1, <2>3, PathFacts
    <2>5. Fine(Front(r))
        <3>1. Len(Front(r)) \in Nat /\ ~ (h <= Len(Front(r)))
            BY <1>1, <2>2, <2>4
        <3>2. Len(Front(r)) \notin Bad
            <4> HIDE DEF Bad
            <4> QED
                BY <2>1, <3>1
        <3> HIDE DEF Fine
        <3> QED
            BY <2>4, <3>1, <3>2
    <2>6. PICK from : from = Place(payload, Front(r))
        OBVIOUS
    <2>7. Place(payload, r) = Under(from, Last(r))
        BY <2>3, <2>6, PlaceEquation
    <2>8. from.data.type \notin Nests
        BY <2>3, <2>5, <2>6 DEF Absent, Nests
    <2>9. from.data \in Data \cup {Absent} /\ from.key \in Seq(Pieces)
        BY <2>4, <2>6, Standing
    <2>10. Place(payload, r) = [data |-> Absent, key |-> <<>>]
        BY <2>4, <2>7, <2>8, <2>9, UnderFacts, UnderNothing
    <2> QED
        BY <2>2, <2>10
<1>3. Len(q) \notin Bad
    BY <1>2
<1> HIDE DEF Fine
<1>4. Fine(q)
    BY <1>1, <1>3
<1> QED
    BY <1>4 DEF Fine

\* The paths that go on from a path to a leaf with the key f.
LeavesUnder(payload, p, f) ==
    {q \in Paths : /\ GoesOn(q, p)
                   /\ Place(payload, q).data.type \in Leaves
                   /\ Place(payload, q).key = f}

\* A leaf has no other leaf under it.
LEMMA LeafAlone ==
    ASSUME NEW payload \in Payloads, NEW p \in Paths, Place(payload, p).data.type \in Leaves, NEW f
    PROVE  LeavesUnder(payload, p, f) = IF Place(payload, p).key = f THEN {p} ELSE {}
<1>1. GoesOn(p, p)
    <2>1. Len(p) \in Nat
        BY PathFacts, DataAssumption
    <2> QED
        BY <2>1 DEF GoesOn
<1>2. ASSUME NEW q \in LeavesUnder(payload, p, f)
      PROVE  q = p
    <2>1. q \in Paths /\ GoesOn(q, p) /\ Place(payload, q).data.type \in Leaves
        BY DEF LeavesUnder
    <2>2. Place(payload, q).data # Absent
        BY <2>1 DEF Absent, Leaves
    <2>3. Place(payload, p).data.type \notin Nests
        BY DEF Leaves, Nests
    <2> QED
        BY <2>1, <2>2, <2>3, NothingBeyond
<1>3. Place(payload, p).key = f <=> p \in LeavesUnder(payload, p, f)
    BY <1>1 DEF LeavesUnder
<1> QED
    BY <1>2, <1>3

\* The leaves under an object or a list are those under its members.
LEMMA LeavesOfMembers ==
    ASSUME NEW payload \in Payloads, NEW p \in Paths,
           Place(payload, p).data \in Data, Place(payload, p).data.type \in Nests, NEW f
    PROVE  LET d == Place(payload, p).data IN
           /\ \A i \in DOMAIN d.members :
                 /\ Append(p, i) \in Paths
                 /\ Place(payload, Append(p, i)).data = Child(d, i)
                 /\ Place(payload, Append(p, i)).key = ChildPrefix(d, Place(payload, p).key, i)
                 /\ \A q \in LeavesUnder(payload, Append(p, i), f) :
                       /\ q \in LeavesUnder(payload, p, f)
                       /\ q[Len(p) + 1] = i /\ Len(p) + 1 \in DOMAIN q
           /\ \A q \in LeavesUnder(payload, p, f) :
                 \E i \in DOMAIN d.members : q \in LeavesUnder(payload, Append(p, i), f)
<1> DEFINE from == Place(payload, p)
           d == from.data
<1>1. Len(p) \in Nat /\ MaxDepth \in Nat /\ MaxMembers \in Nat /\ p \in Seq(1..MaxMembers)
    BY PathFacts, DataAssumption
<1>2. PICK n \in 0..MaxMembers : n = Len(d.members) /\ DOMAIN d.members = 1..n
    BY MemberCount
<1>3. from.key \in Seq(Pieces) /\ Len(p) + Height[d] <= MaxDepth /\ Height[d] \in Nat
    BY Standing, DataAssumption
<1>4. ASSUME NEW i \in 1..MaxMembers, Len(p) < MaxDepth
      PROVE  /\ Append(p, i) \in Paths /\ Len(Append(p, i)) = Len(p) + 1
             /\ Append(p, i)[Len(p) + 1] = i
             /\ \A k \in 1..Len(p) : Append(p, i)[k] = p[k]
             /\ Place(payload, Append(p, i)) = Under(from, i)
    <2>1. /\ Append(p, i) \in Paths /\ Append(p, i) # <<>>
          /\ Front(Append(p, i)) = p /\ Last(Append(p, i)) = i
          /\ Len(Append(p, i)) = Len(p) + 1
        BY <1>4, LongerPath
    <2>2. Place(payload, Append(p, i)) = Under(from, i)
        BY <2>1, PlaceEquation
    <2>3. /\ Append(p, i)[Len(p) + 1] = i
          /\ \A k \in 1..Len(p) : Append(p, i)[k] = p[k]
        BY <1>1, AppendProperties
    <2> QED
        BY <2>1, <2>2, <2>3
<1>5. ASSUME NEW i \in DOMAIN d.members
      PROVE  /\ i \in 1..MaxMembers /\ Len(p) < MaxDepth
             /\ Place(payload, Append(p, i)).data = Child(d, i)
             /\ Place(payload, Append(p, i)).key = ChildPrefix(d, from.key, i)
    <2>1. i \in 1..MaxMembers
        BY Members
    <2>2. Len(p) < MaxDepth
        <3>1. Height[Child(d, i)] \in Nat /\ Height[Child(d, i)] < Height[d]
            BY Members, DataAssumption
        <3> QED
            BY <1>1, <1>3, <3>1
    <2>3. Under(from, i) = [data |-> Child(d, i), key |-> ChildPrefix(d, from.key, i)]
        BY <1>3, <2>1, UnderFacts
    <2> QED
        BY <1>4, <2>1, <2>2, <2>3
<1>6. ASSUME NEW i \in DOMAIN d.members, NEW q \in LeavesUnder(payload, Append(p, i), f)
      PROVE  q \in LeavesUnder(payload, p, f) /\ q[Len(p) + 1] = i /\ Len(p) + 1 \in DOMAIN q
    <2>1. i \in 1..MaxMembers /\ Len(p) < MaxDepth
        BY <1>5
    <2>2. /\ Len(Append(p, i)) = Len(p) + 1
          /\ Append(p, i)[Len(p) + 1] = i
          /\ \A k \in 1..Len(p) : Append(p, i)[k] = p[k]
        BY <1>4, <2>1
    <2>3. q \in Paths /\ GoesOn(q, Append(p, i))
        BY DEF LeavesUnder
    <2>4. q \in Seq(1..MaxMembers) /\ Len(q) \in Nat
        BY <2>3, PathFacts, DataAssumption
    <2>5. Len(p) + 1 <= Len(q) /\ \A k \in 1..(Len(p) + 1) : q[k] = Append(p, i)[k]
        BY <2>2, <2>3 DEF GoesOn
    <2>6. Len(p) + 1 \in 1..(Len(p) + 1) /\ \A k \in 1..Len(p) : k \in 1..(Len(p) + 1)
        BY <1>1
    <2>7. q[Len(p) + 1] = i /\ \A k \in 1..Len(p) : q[k] = p[k]
        BY <2>2, <2>5, <2>6
    <2>8. GoesOn(q, p)
        BY <1>1, <2>4, <2>5, <2>7 DEF GoesOn
    <2>9. Len(p) + 1 \in DOMAIN q
        BY <1>1, <2>4, <2>5
    <2> QED
        BY <2>7, <2>8, <2>9 DEF LeavesUnder
<1>7. ASSUME NEW q \in LeavesUnder(payload, p, f)
      PROVE  \E i \in DOMAIN d.members : q \in LeavesUnder(payload, Append(p, i), f)
    <2>1. q \in Paths /\ GoesOn(q, p) /\ Place(payload, q).data.type \in Leaves
        BY DEF LeavesUnder
    <2>2. q # p
        BY <2>1 DEF Nests, Leaves
    <2>3. Len(p) < Len(q)
        BY <2>1, <2>2, GoingOn
    <2>4. q \in Seq(1..MaxMembers) /\ Len(q) \in 0..MaxDepth
        BY <2>1, PathFacts
    <2>5. PICK i \in 1..MaxMembers : i = q[Len(p) + 1]
        <3>1. Len(p) + 1 \in 1..Len(q)
            BY <1>1, <2>3, <2>4
        <3> QED
            BY <2>4, <3>1, ElementOfSeq
    <2>6. Len(p) < MaxDepth
        BY <1>1, <2>3, <2>4
    <2>7. /\ Append(p, i) \in Paths /\ Len(Append(p, i)) = Len(p) + 1
          /\ Append(p, i)[Len(p) + 1] = i
          /\ \A k \in 1..Len(p) : Append(p, i)[k] = p[k]
          /\ Place(payload, Append(p, i)) = Under(from, i)
        BY <1>4, <2>6
    <2>8. GoesOn(q, Append(p, i))
        <3>1. \A k \in 1..(Len(p) + 1) : q[k] = Append(p, i)[k]
            <4> SUFFICES ASSUME NEW k \in 1..(Len(p) + 1)
                         PROVE  q[k] = Append(p, i)[k]
                OBVIOUS
            <4>1. k = Len(p) + 1 \/ k \in 1..Len(p)
                BY <1>1
            <4> QED
                BY <2>1, <2>5, <2>7, <4>1 DEF GoesOn
        <3>2. Len(p) + 1 <= Len(q)
            BY <1>1, <2>3, <2>4
        <3> QED
            BY <2>7, <3>1, <3>2 DEF GoesOn
    <2>9. i \in DOMAIN d.members
        <3>1. ASSUME i \notin DOMAIN d.members
              PROVE  FALSE
            <4>1. Place(payload, Append(p, i)).data = Absent
                BY <1>3, <2>7, <3>1, UnderFacts
            <4>2. Place(payload, q).data = Absent
                BY <2>1, <2>7, <2>8, <4>1, NothingBeyond DEF Absent, Nests
            <4> QED
                BY <2>1, <4>2 DEF Absent, Leaves
        <3> QED
            BY <3>1
    <2> QED
        BY <2>1, <2>8, <2>9 DEF LeavesUnder
<1> QED
    BY <1>4, <1>5, <1>6, <1>7

-------------------------------------------------------------------------------
(* flatten agrees with the places                                         *)

\* What flatten shows for a key is the last of the leaves that have it.
ShowsLast(payload, p, f, flat) ==
    /\ f \in DOMAIN flat <=> LeavesUnder(payload, p, f) # {}
    /\ f \in DOMAIN flat =>
          \E q \in LeavesUnder(payload, p, f) :
             /\ flat[f] = Place(payload, q).data
             /\ \A r \in LeavesUnder(payload, p, f) : r = q \/ Before(r, q)

\* So it is for an object or a list if it is so for each of the members.
LEMMA MembersShowLast ==
    ASSUME NEW flat, Flattens(flat),
           NEW payload \in Payloads, NEW p \in Paths,
           Place(payload, p).data \in Data, Place(payload, p).data.type \in Nests, NEW f,
           \A i \in DOMAIN Place(payload, p).data.members :
              ShowsLast(payload, Append(p, i), f,
                        flat[Child(Place(payload, p).data, i)]
                            [ChildPrefix(Place(payload, p).data, Place(payload, p).key, i)])
    PROVE  ShowsLast(payload, p, f, flat[Place(payload, p).data][Place(payload, p).key])
<1>1. PICK d \in Data : d = Place(payload, p).data /\ d.type \in Nests
    OBVIOUS
<1>2. PICK k \in Seq(Pieces) : k = Place(payload, p).key
    BY Standing
<1>3. PICK n \in Nat : DOMAIN d.members = 1..n
    BY <1>1, MemberCount
<1> DEFINE parts == [i \in DOMAIN d.members |-> flat[Child(d, i)][ChildPrefix(d, k, i)]]
<1>4. DOMAIN parts = 1..n
    BY <1>3
<1>5. flat[d][k] = Updated(parts)
    BY <1>1 DEF Flattens, Flattened
<1>6. \A i \in 1..n : ShowsLast(payload, Append(p, i), f, parts[i])
    BY <1>1, <1>2, <1>3
<1>7. \A i \in 1..n : \A q \in LeavesUnder(payload, Append(p, i), f) :
         /\ q \in LeavesUnder(payload, p, f)
         /\ q[Len(p) + 1] = i /\ Len(p) + 1 \in DOMAIN q
    BY <1>1, <1>3, LeavesOfMembers
<1>8. \A q \in LeavesUnder(payload, p, f) :
         \E i \in 1..n : q \in LeavesUnder(payload, Append(p, i), f)
    BY <1>1, <1>3, LeavesOfMembers
<1> HIDE DEF parts
<1>9. \A key : key \in DOMAIN Updated(parts) <=> \E i \in 1..n : key \in DOMAIN parts[i]
    BY <1>4, UpdatedFacts
<1>10. f \in DOMAIN Updated(parts) <=> LeavesUnder(payload, p, f) # {}
    <2>1. ASSUME f \in DOMAIN Updated(parts)
          PROVE  LeavesUnder(payload, p, f) # {}
        <3>1. PICK i \in 1..n : f \in DOMAIN parts[i]
            BY <1>9, <2>1
        <3>2. PICK q : q \in LeavesUnder(payload, Append(p, i), f)
            BY <1>6, <3>1 DEF ShowsLast
        <3> QED
            BY <1>7, <3>2
    <2>2. ASSUME NEW q \in LeavesUnder(payload, p, f)
          PROVE  f \in DOMAIN Updated(parts)
        <3>1. PICK i \in 1..n : q \in LeavesUnder(payload, Append(p, i), f)
            BY <1>8
        <3>2. f \in DOMAIN parts[i]
            BY <1>6, <3>1 DEF ShowsLast
        <3> QED
            BY <1>9, <3>2
    <2> QED
        BY <2>1, <2>2
<1>11. ASSUME f \in DOMAIN Updated(parts)
       PROVE  \E q \in LeavesUnder(payload, p, f) :
                 /\ Updated(parts)[f] = Place(payload, q).data
                 /\ \A r \in LeavesUnder(payload, p, f) : r = q \/ Before(r, q)
    <2>1. PICK i \in 1..n :
             /\ f \in DOMAIN parts[i]
             /\ Updated(parts)[f] = parts[i][f]
             /\ \A j \in 1..n : f \in DOMAIN parts[j] => j <= i
        BY <1>4, <1>11, UpdatedFacts
    <2>2. PICK q \in LeavesUnder(payload, Append(p, i), f) :
             /\ parts[i][f] = Place(payload, q).data
             /\ \A r \in LeavesUnder(payload, Append(p, i), f) : r = q \/ Before(r, q)
        BY <1>6, <2>1 DEF ShowsLast
    <2>3. q \in LeavesUnder(payload, p, f)
        BY <1>7, <2>2
    <2>4. ASSUME NEW r \in LeavesUnder(payload, p, f)
          PROVE  r = q \/ Before(r, q)
        <3>1. PICK j \in 1..n : r \in LeavesUnder(payload, Append(p, j), f)
            BY <1>8
        <3>2. f \in DOMAIN parts[j]
            BY <1>6, <3>1 DEF ShowsLast
        <3>3. j <= i
            BY <2>1, <3>2
        <3>4. CASE j = i
            BY <2>2, <3>1, <3>4
        <3>5. CASE j < i
            <4>1. PICK l \in Nat : l = Len(p) + 1
                BY PathFacts, DataAssumption
            <4>2. /\ r[l] = j /\ l \in DOMAIN r
                  /\ q[l] = i /\ l \in DOMAIN q
                BY <1>7, <2>2, <3>1, <4>1
            <4>3. GoesOn(r, p) /\ GoesOn(q, p)
                BY <2>3 DEF LeavesUnder
            <4>4. \A m \in 1..(l - 1) : r[m] = q[m]
                <5>1. \A m \in 1..(l - 1) : m \in 1..Len(p)
                    BY <4>1, PathFacts, DataAssumption
                <5> QED
                    BY <4>3, <5>1 DEF GoesOn
            <4> QED
                BY <3>5, <4>2, <4>4 DEF Before
        <3> QED
            BY <3>3, <3>4, <3>5
    <2> QED
        BY <2>1, <2>2, <2>3, <2>4
<1> QED
    BY <1>1, <1>2, <1>5, <1>10, <1>11 DEF ShowsLast

\* So it is for a leaf.
LEMMA LeafShowsLast ==
    ASSUME NEW flat, Flattens(flat),
           NEW payload \in Payloads, NEW p \in Paths,
           Place(payload, p).data \in Data, Place(payload, p).data.type \in Leaves, NEW f, f # <<>>
    PROVE  ShowsLast(payload, p, f, flat[Place(payload, p).data][Place(payload, p).key])
<1>1. PICK d \in Data : d = Place(payload, p).data /\ d.type \in Leaves
    OBVIOUS
<1>2. PICK k \in Seq(Pieces) : k = Place(payload, p).key
    BY Standing
<1>3. flat[d][k] = [key \in {k} \ {<<>>} |-> d]
    BY <1>1 DEF Flattens, Flattened, Leaves, Nests
<1>4. LeavesUnder(payload, p, f) = IF k = f THEN {p} ELSE {}
    BY <1>1, <1>2, LeafAlone
<1>5. f \in DOMAIN flat[d][k] <=> k = f
    BY <1>3
<1>6. k = f => flat[d][k][f] = d
    BY <1>3
<1> QED
    BY <1>1, <1>2, <1>4, <1>5, <1>6 DEF ShowsLast

\* However deep the data nest.
LEMMA FlattenShowsLast ==
    ASSUME NEW flat, Flattens(flat),
           NEW payload \in Payloads, NEW p \in Paths, Place(payload, p).data \in Data,
           NEW f, f # <<>>
    PROVE  ShowsLast(payload, p, f, flat[Place(payload, p).data][Place(payload, p).key])
<1> DEFINE Fine(q) == ShowsLast(payload, q, f, flat[Place(payload, q).data][Place(payload, q).key])
           Bad == {h \in Nat : \E q \in Paths : /\ Place(payload, q).data \in Data
                                                /\ Height[Place(payload, q).data] = h
                                                /\ ~ Fine(q)}
<1>1. \A d \in Data : Height[d] \in Nat
    BY DataAssumption
<1>2. ASSUME Bad # {}
      PROVE  FALSE
    <2>1. PICK h \in Bad : \A j \in Bad : h <= j
        <3>1. Bad \in SUBSET Nat
            OBVIOUS
        <3> HIDE DEF Bad
        <3> QED
            BY <1>2, <3>1, LeastNumber
    <2>2. PICK q \in Paths : /\ Place(payload, q).data \in Data
                             /\ Height[Place(payload, q).data] = h
                             /\ ~ Fine(q)
        BY <2>1
    <2>3. PICK d \in Data : d = Place(payload, q).data
        BY <2>2
    <2>4. d.type \notin Leaves
        BY <2>2, <2>3, LeafShowsLast
    <2>5. d.type \in Nests
        BY <2>4, DataAssumption DEF Nests
    <2>6. ASSUME NEW i \in DOMAIN d.members
          PROVE  ShowsLast(payload, Append(q, i), f,
                           flat[Child(d, i)][ChildPrefix(d, Place(payload, q).key, i)])
        <3>1. /\ Append(q, i) \in Paths
              /\ Place(payload, Append(q, i)).data = Child(d, i)
              /\ Place(payload, Append(q, i)).key = ChildPrefix(d, Place(payload, q).key, i)
            BY <2>2, <2>3, <2>5, LeavesOfMembers
        <3>2. Child(d, i) \in Data /\ Height[Child(d, i)] < Height[d]
            BY <2>5, Members
        <3>3. Height[Child(d, i)] \notin Bad
            <4>1. Height[Child(d, i)] \in Nat /\ ~ (h <= Height[Child(d, i)])
                BY <1>1, <2>2, <2>3, <3>2
            <4> HIDE DEF Bad
            <4> QED
                BY <2>1, <4>1
        <3>4. Fine(Append(q, i))
            <4> HIDE DEF Fine
            <4> QED
                BY <1>1, <3>1, <3>2, <3>3
        <3> QED
            BY <3>1, <3>4
    <2>7. Fine(q)
        BY <2>2, <2>3, <2>5, <2>6, MembersShowLast
    <2> QED
        BY <2>2, <2>7
<1>3. Height[Place(payload, p).data] \notin Bad
    BY <1>2
<1> HIDE DEF Fine
<1>4. Fine(p)
    BY <1>1, <1>3
<1> QED
    BY <1>4 DEF Fine

\* Of two paths, one at most is before the other.
LEMMA BeforeOneWay ==
    ASSUME NEW p \in Paths, NEW q \in Paths, Before(p, q), Before(q, p)
    PROVE  FALSE
<1>1. p \in Seq(1..MaxMembers) /\ q \in Seq(1..MaxMembers) /\ MaxMembers \in Nat
    BY PathFacts, DataAssumption
<1>2. PICK n \in DOMAIN p \cap DOMAIN q : p[n] < q[n] /\ \A k \in 1..(n - 1) : p[k] = q[k]
    BY DEF Before
<1>3. PICK m \in DOMAIN p \cap DOMAIN q : q[m] < p[m] /\ \A k \in 1..(m - 1) : q[k] = p[k]
    BY DEF Before
<1>4. n \in Nat \ {0} /\ m \in Nat \ {0}
    BY <1>1, <1>2, <1>3
<1>5. /\ p[n] \in Nat /\ q[n] \in Nat /\ p[m] \in Nat /\ q[m] \in Nat
    BY <1>1, <1>2, <1>3, ElementOfSeq
<1>6. CASE n = m
    BY <1>2, <1>3, <1>5, <1>6
<1>7. CASE n < m
    <2>1. n \in 1..(m - 1)
        BY <1>4, <1>7
    <2> QED
        BY <1>2, <1>3, <1>5, <2>1
<1>8. CASE m < n
    <2>1. m \in 1..(n - 1)
        BY <1>4, <1>8
    <2> QED
        BY <1>2, <1>3, <1>5, <2>1
<1> QED
    BY <1>4, <1>6, <1>7, <1>8

\* flatten agrees with the reference: the value of a field is that of the leaf that comes
\* last among all with its key.
LEMMA FieldsAreLast ==
    ASSUME NEW payload \in Payloads, NEW f \in Fields
    PROVE  LeafIn[payload][f] = IF f \in DOMAIN new_fields[payload] THEN new_fields[payload][f] ELSE Absent
<1>1. PICK flat : Flattens(flat) /\ \A d : flatten(d) = flat[d][<<>>]
    BY FlatEquation
<1>2. <<>> \in Paths /\ Len(<<>>) = 0
    <2>1. 0 \in 0..MaxDepth /\ <<>> \in [1..0 -> 1..MaxMembers]
        BY DataAssumption
    <2> QED
        BY <2>1 DEF Paths, BoundedSeq, SeqOf
<1>3. Place(payload, <<>>) = [data |-> payload, key |-> <<>>]
    BY PlaceEquation
<1>4. f # <<>> /\ payload \in Data
    BY KeysAssumption, DataAssumption
<1>5. new_fields[payload] = flat[payload][<<>>]
    BY <1>1 DEF new_fields
<1> DEFINE paths == {path \in Paths : /\ Place(payload, path).data.type \in Leaves
                                      /\ Place(payload, path).key = f}
           last == {p \in paths : \A q \in paths : q = p \/ Before(q, p)}
<1>6. LeavesUnder(payload, <<>>, f) = paths
    <2>1. \A q \in Paths : GoesOn(q, <<>>)
        <3>1. \A q \in Paths : Len(q) \in Nat
            BY PathFacts, DataAssumption
        <3> QED
            BY <1>2, <3>1 DEF GoesOn
    <2> QED
        BY <2>1 DEF LeavesUnder
<1>7. LeafIn[payload][f] = IF last = {} THEN Absent ELSE Place(payload, CHOOSE p \in last : TRUE).data
    BY DEF LeafIn, LastOf
<1>8. ShowsLast(payload, <<>>, f, new_fields[payload])
    <2>1. PICK root \in Paths : root = <<>>
        BY <1>2
    <2>2. Place(payload, root).data = payload /\ Place(payload, root).key = <<>>
        BY <1>3, <2>1
    <2>3. ShowsLast(payload, root, f, flat[Place(payload, root).data][Place(payload, root).key])
        BY <1>1, <1>4, <2>2, FlattenShowsLast
    <2> QED
        BY <1>5, <2>1, <2>2, <2>3
<1>9. CASE f \in DOMAIN new_fields[payload]
    <2>1. PICK q \in paths :
             /\ new_fields[payload][f] = Place(payload, q).data
             /\ \A r \in paths : r = q \/ Before(r, q)
        BY <1>6, <1>8, <1>9 DEF ShowsLast
    <2>2. q \in last
        BY <2>1
    <2>3. \A p \in last : p = q
        <3> SUFFICES ASSUME NEW p \in last, p # q
                     PROVE  FALSE
            OBVIOUS
        <3>1. p \in Paths /\ q \in Paths /\ Before(p, q) /\ Before(q, p)
            BY <2>1
        <3> QED
            BY <3>1, BeforeOneWay
    <2>4. (CHOOSE p \in last : TRUE) = q
        BY <2>2, <2>3
    <2> HIDE DEF last
    <2> QED
        BY <1>7, <1>9, <2>1, <2>2, <2>4
<1>10. CASE f \notin DOMAIN new_fields[payload]
    <2>1. paths = {}
        BY <1>6, <1>8, <1>10 DEF ShowsLast
    <2>2. last = {}
        BY <2>1
    <2> HIDE DEF last
    <2> QED
        BY <1>7, <1>10, <2>2
<1> QED
    BY <1>9, <1>10

-------------------------------------------------------------------------------
(* The latest values                                                       *)

\* The payloads that bring a field are those with a leaf for it.
LEMMA LeavesAreBrought ==
    ASSUME NEW received \in Seq(Payloads), NEW f \in Fields
    PROVE  /\ {i \in DOMAIN received : LeafIn[received[i]][f] # Absent}
                 = Bringing(received, Len(received), f)
           /\ \A i \in Bringing(received, Len(received), f) :
                 LeafIn[received[i]][f] = new_fields[received[i]][f]
           /\ Bringing(received, Len(received), f) # {} =>
                 Max(Bringing(received, Len(received), f)) \in Bringing(received, Len(received), f)
<1>1. DOMAIN received = 1..Len(received) /\ Len(received) \in Nat
    OBVIOUS
<1>2. \A i \in 1..Len(received) : received[i] \in Payloads
    BY ElementOfSeq
<1>3. ASSUME NEW payload \in Payloads
      PROVE  /\ f \in DOMAIN new_fields[payload] <=> LeafIn[payload][f] # Absent
             /\ f \in DOMAIN new_fields[payload] => LeafIn[payload][f] = new_fields[payload][f]
    <2>1. f \in DOMAIN new_fields[payload] => new_fields[payload][f] # Absent
        BY FieldsAreLeaves DEF Leaves, Absent
    <2> QED
        BY <2>1, FieldsAreLast
<1>4. \A i \in 1..Len(received) :
         /\ f \in DOMAIN new_fields[received[i]] <=> LeafIn[received[i]][f] # Absent
         /\ f \in DOMAIN new_fields[received[i]] =>
               LeafIn[received[i]][f] = new_fields[received[i]][f]
    BY <1>2, <1>3
<1>5. Bringing(received, Len(received), f) \in SUBSET (0..Len(received))
    BY <1>1 DEF Bringing
<1> QED
    BY <1>1, <1>4, <1>5, GreatestNumber DEF Bringing

\* Until something else happens, the values are what the payloads merged last made them.
Latest ==
    frames # <<>> =>
       /\ frames \in Seq(Payloads)
       /\ \A f \in Fields : LET bringing == Bringing(frames, Len(frames), f) IN
             bringing # {} => values[f] = new_fields[frames[Max(bringing)]][f]

\* What Receive makes of the values.
LEMMA ReceiveMerges ==
    ASSUME Receive
    PROVE  /\ frames' \in Seq(Payloads) /\ frames' # <<>>
           /\ \A f \in Fields : LET bringing == Bringing(frames', Len(frames'), f) IN
                 values'[f] = IF bringing = {} THEN values[f]
                              ELSE new_fields[frames'[Max(bringing)]][f]
<1>1. PICK received \in BoundedSeq(Payloads, MaxFrames) \ {<<>>} :
         values' = MergedAll(values, received) /\ frames' = received
    BY DEF Receive
<1>2. received \in Seq(Payloads) /\ received # <<>>
    BY ReceivedFrames
<1> QED
    BY <1>1, <1>2, MergeKeepsLatest

\* Nothing but frames, switches and reloads changes the values.
LEMMA LatestInvariance == TelemetrySpec => []Latest
<1>1. TelemetryInit => Latest
    BY DEF TelemetryInit, Latest
<1>2. Latest /\ [TelemetryNext]_<<vars, telemetryVars>> => Latest'
    <2> SUFFICES ASSUME Latest, [TelemetryNext]_<<vars, telemetryVars>>
                 PROVE  Latest'
        OBVIOUS
    <2>1. CASE Receive
        BY <2>1, ReceiveMerges DEF Latest
    <2>2. CASE StartOver \/ \E f \in Fields : Switch(f)
        BY <2>2 DEF StartOver, Switch, Latest
    <2>3. CASE UNCHANGED <<vars, telemetryVars>> \/ \E p \in Platforms : Start(p)
        BY <2>3 DEF Start, telemetryVars, Latest
    <2> QED
        BY <2>1, <2>2, <2>3 DEF TelemetryNext
<1> QED
    BY <1>1, <1>2, PTL DEF TelemetrySpec

\* LatestShown for any payloads, however deep they nest and whichever of their paths
\* have one key: after a poll each field has the value that stands last in its frames.
THEOREM LatestIsShown == TelemetrySpec => LatestShown
<1> DEFINE Shown ==
       (frames' # <<>> =>
          \A f \in Fields :
             LET bringing == {i \in DOMAIN frames' : LeafIn[frames'[i]][f] # Absent}
             IN  values'[f] = IF bringing = {} THEN values[f]
                              ELSE LeafIn[frames'[Max(bringing)]][f])
<1>1. Latest /\ [TelemetryNext]_<<vars, telemetryVars>> => [Shown]_<<vars, telemetryVars>>
    <2> SUFFICES ASSUME Latest, [TelemetryNext]_<<vars, telemetryVars>>, frames' # <<>>,
                        NEW f \in Fields
                 PROVE  LET bringing == {i \in DOMAIN frames' : LeafIn[frames'[i]][f] # Absent}
                        IN  values'[f] = IF bringing = {} THEN values[f]
                                         ELSE LeafIn[frames'[Max(bringing)]][f]
        OBVIOUS
    <2>1. /\ frames' \in Seq(Payloads)
          /\ LET bringing == Bringing(frames', Len(frames'), f) IN
                values'[f] = IF bringing = {} THEN values[f]
                             ELSE new_fields[frames'[Max(bringing)]][f]
        <3>1. CASE Receive
            BY <3>1, ReceiveMerges
        <3>2. CASE StartOver \/ \E g \in Fields : Switch(g)
            BY <3>2 DEF StartOver, Switch
        <3>3. CASE UNCHANGED <<vars, telemetryVars>> \/ \E p \in Platforms : Start(p)
            BY <3>3 DEF Start, telemetryVars, Latest
        <3> QED
            BY <3>1, <3>2, <3>3 DEF TelemetryNext
    <2>2. PICK received \in Seq(Payloads) : received = frames'
        BY <2>1
    <2>3. PICK b : b = Bringing(received, Len(received), f)
        OBVIOUS
    <2>4. values'[f] = IF b = {} THEN values[f] ELSE new_fields[received[Max(b)]][f]
        BY <2>1, <2>2, <2>3
    <2>5. {i \in DOMAIN received : LeafIn[received[i]][f] # Absent} = b
        BY <2>3, LeavesAreBrought
    <2>6. b # {} => LeafIn[received[Max(b)]][f] = new_fields[received[Max(b)]][f]
        BY <2>3, LeavesAreBrought
    <2> QED
        BY <2>2, <2>4, <2>5, <2>6
<1> QED
    BY <1>1, LatestInvariance, PTL DEF TelemetrySpec, LatestShown
===============================================================================
