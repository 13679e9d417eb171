------------------------- MODULE FrameAssemblerProofs -------------------------
(***************************************************************************)
(* The reassembly is correct for every set of JSON objects, however their  *)
(* bytes are cut.                                                          *)
(*                                                                         *)
(* The frames alone say nothing of what comes next, so FrameInv adds where *)
(* each message stands in the bytes of the buffer and the air (Stream).    *)
(* An extraction that finds a brace which opens an object of a message     *)
(* closes it within that message (ClosesWithin), and the whole message     *)
(* when it finds its first (ObjectCloses).  One that finds a brace in a    *)
(* string may return anything, but it finds none there before bytes are    *)
(* dropped.  What is left is a stream again (ExtractionKeeps).             *)
(* Facts about every n are proved from the least n at which one fails      *)
(* (NatMin), the loop of feed from the shortest bytes it would get wrong.  *)
(***************************************************************************)
EXTENDS FrameAssembler, FiniteSetTheorems, SequenceTheorems, WellFoundedInduction, TLAPS

\* A non-empty set of natural numbers has a least one.
LEMMA NatMin ==
    ASSUME NEW T \in SUBSET Nat, T # {}
    PROVE  \E m \in T : \A n \in T : m <= n
<1>1. IsWellFoundedOn(OpToRel(<, Nat), Nat)
    BY NatLessThanWellFounded
<1>2. PICK m \in T : \A n \in T : ~ (<<n, m>> \in OpToRel(<, Nat))
    BY <1>1, WFMin
<1>3. \A m1, m2 \in Nat : m1 < m2 => <<m1, m2>> \in OpToRel(<, Nat)
    BY DEF OpToRel
<1>4. \A n \in T : ~ (n < m)
    BY <1>2, <1>3
<1> QED
    BY <1>4

\* Min is that least number.
LEMMA MinIsLeast ==
    ASSUME NEW T \in SUBSET Nat, T # {}
    PROVE  Min(T) \in T /\ \A n \in T : Min(T) <= n
<1>1. \E m \in T : \A n \in T : m <= n
    BY NatMin
<1> QED
    BY <1>1 DEF Min

-------------------------------------------------------------------------------
(* Depth                                                                   *)

\* How often a byte occurs in the first n.
Count(text, b, n) == Cardinality({i \in 1..n : text[i] = b})

\* One byte more counts for one if it is that byte.
LEMMA CountStep ==
    ASSUME NEW text, NEW b, NEW n \in Nat
    PROVE  /\ Count(text, b, 0) = 0
           /\ Count(text, b, n) \in Nat
           /\ text[n + 1] = b => Count(text, b, n + 1) = Count(text, b, n) + 1
           /\ text[n + 1] # b => Count(text, b, n + 1) = Count(text, b, n)
<1> DEFINE At(k) == {i \in 1..k : text[i] = b}
<1>1. At(0) = {}
    OBVIOUS
<1>2. IsFiniteSet(At(n)) /\ Cardinality(At(n)) \in Nat
    <2>1. IsFiniteSet(1..n) /\ At(n) \in SUBSET (1..n)
        BY FS_Interval
    <2>2. IsFiniteSet(At(n))
        BY <2>1, FS_Subset
    <2> QED
        BY <2>2, FS_CardinalityType
<1>3. CASE text[n + 1] = b
    <2>1. At(n + 1) = At(n) \cup {n + 1} /\ n + 1 \notin At(n)
        BY <1>3
    <2>2. Cardinality(At(n) \cup {n + 1}) = Cardinality(At(n)) + 1
        BY <1>2, <2>1, FS_AddElement
    <2> QED
        BY <1>1, <1>2, <1>3, <2>1, <2>2, FS_EmptySet DEF Count
<1>4. CASE text[n + 1] # b
    <2>1. At(n + 1) = At(n)
        BY <1>4
    <2> QED
        BY <1>1, <1>2, <1>4, <2>1, FS_EmptySet DEF Count
<1> QED
    BY <1>3, <1>4

\* No byte, no depth; a byte more changes it by one at most.
LEMMA DepthStep ==
    ASSUME NEW text, NEW n \in Nat
    PROVE  /\ Depth(text, 0) = 0
           /\ Depth(text, n) \in Int
           /\ text[n + 1] = "open" => Depth(text, n + 1) = Depth(text, n) + 1
           /\ text[n + 1] = "close" => Depth(text, n + 1) = Depth(text, n) - 1
           /\ text[n + 1] \notin {"open", "close"} => Depth(text, n + 1) = Depth(text, n)
<1>1. /\ Depth(text, 0) = Count(text, "open", 0) - Count(text, "close", 0)
      /\ Depth(text, n) = Count(text, "open", n) - Count(text, "close", n)
      /\ Depth(text, n + 1) = Count(text, "open", n + 1) - Count(text, "close", n + 1)
    BY DEF Depth, Count
<1>2. /\ Count(text, "open", 0) = 0
      /\ Count(text, "open", n) \in Nat
      /\ text[n + 1] = "open" => Count(text, "open", n + 1) = Count(text, "open", n) + 1
      /\ text[n + 1] # "open" => Count(text, "open", n + 1) = Count(text, "open", n)
    BY CountStep
<1>3. /\ Count(text, "close", 0) = 0
      /\ Count(text, "close", n) \in Nat
      /\ text[n + 1] = "close" => Count(text, "close", n + 1) = Count(text, "close", n) + 1
      /\ text[n + 1] # "close" => Count(text, "close", n + 1) = Count(text, "close", n)
    BY CountStep
<1> QED
    BY <1>1, <1>2, <1>3

\* The first N bytes of text are those of m from behind its j-th.
Along(text, N, m, j) == \A i \in 1..N : text[i] = m[j + i]

\* Such a text has the depth m gains there.
LEMMA DepthAlong ==
    ASSUME NEW text, NEW m, NEW j \in Nat, NEW N \in Nat, Along(text, N, m, j),
           NEW e, e = j + N
    PROVE  Depth(text, N) = Depth(m, e) - Depth(m, j)
<1> DEFINE Bad == {n \in 0..N : Depth(text, n) # Depth(m, j + n) - Depth(m, j)}
<1>1. Depth(m, j) \in Int /\ Depth(text, 0) = 0
    BY DepthStep
<1>2. ASSUME Bad # {}
      PROVE  FALSE
    <2>1. PICK n \in Bad : \A k \in Bad : n <= k
        <3>1. Bad \in SUBSET Nat
            OBVIOUS
        <3> HIDE DEF Bad
        <3> QED
            BY <1>2, <3>1, NatMin
    <2>2. n # 0
        BY <1>1, <2>1
    <2>3. n - 1 \in Nat /\ n - 1 \in 0..N /\ n - 1 \notin Bad /\ (n - 1) + 1 = n
        BY <2>1, <2>2
    <2>4. Depth(text, n - 1) = Depth(m, j + (n - 1)) - Depth(m, j)
        BY <2>3
    <2>5. text[n] = m[j + n] /\ j + (n - 1) \in Nat /\ (j + (n - 1)) + 1 = j + n
        BY <2>1, <2>2, <2>3 DEF Along
    <2>6. /\ Depth(text, n - 1) \in Int
          /\ text[n] = "open" => Depth(text, n) = Depth(text, n - 1) + 1
          /\ text[n] = "close" => Depth(text, n) = Depth(text, n - 1) - 1
          /\ text[n] \notin {"open", "close"} => Depth(text, n) = Depth(text, n - 1)
        BY <2>3, DepthStep
    <2>7. /\ Depth(m, j + (n - 1)) \in Int
          /\ m[j + n] = "open" => Depth(m, j + n) = Depth(m, j + (n - 1)) + 1
          /\ m[j + n] = "close" => Depth(m, j + n) = Depth(m, j + (n - 1)) - 1
          /\ m[j + n] \notin {"open", "close"} => Depth(m, j + n) = Depth(m, j + (n - 1))
        BY <2>5, DepthStep
    <2>8. Depth(text, n) = Depth(m, j + n) - Depth(m, j)
        BY <1>1, <2>4, <2>5, <2>6, <2>7
    <2> QED
        BY <2>1, <2>8
<1>3. N \in 0..N
    OBVIOUS
<1> QED
    BY <1>2, <1>3

\* A text that begins with an opening brace, and is no deeper at N than before it,
\* closes on the way: the depth moves by one at a time.
LEMMA DepthCrosses ==
    ASSUME NEW text, NEW N \in Nat, N >= 1, text[1] = "open", Depth(text, N) <= 0
    PROVE  \E n \in 1..N : Depth(text, n) = 0
<1> DEFINE Low == {n \in 1..N : Depth(text, n) <= 0}
<1>1. PICK n \in Low : \A k \in Low : n <= k
    <2>1. N \in Low /\ Low \in SUBSET Nat
        OBVIOUS
    <2> QED
        BY <2>1, NatMin
<1>2. n # 1
    <2>1. Depth(text, 0 + 1) = Depth(text, 0) + 1 /\ Depth(text, 0) = 0
        BY DepthStep
    <2> QED
        BY <1>1, <2>1
<1>3. n - 1 \in Nat /\ n - 1 \in 1..N /\ n - 1 \notin Low /\ (n - 1) + 1 = n
    BY <1>1, <1>2
<1>4. /\ Depth(text, n - 1) \in Int /\ Depth(text, n) \in Int
      /\ Depth(text, n) >= Depth(text, n - 1) - 1
    <2>1. /\ Depth(text, n - 1) \in Int
          /\ text[n] = "open" => Depth(text, n) = Depth(text, n - 1) + 1
          /\ text[n] = "close" => Depth(text, n) = Depth(text, n - 1) - 1
          /\ text[n] \notin {"open", "close"} => Depth(text, n) = Depth(text, n - 1)
        BY <1>3, DepthStep
    <2> QED
        BY <2>1
<1>5. Depth(text, n - 1) > 0
    BY <1>3, <1>4
<1> QED
    BY <1>1, <1>4, <1>5

\* raw_decode finds an end in the text, or nothing.
LEMMA ClosingTyped ==
    ASSUME NEW text \in Seq(Bytes)
    PROVE  Closing(text) \in SUBSET (1..Len(text))
<1>1. CASE Head(text) = "q"
    BY <1>1 DEF Closing
<1>2. CASE Head(text) # "q"
    BY <1>2 DEF Closing
<1> QED
    BY <1>1, <1>2

\* What raw_decode finds from a brace that opens an object of m ends within m,
\* and from the first byte of m it is m.
LEMMA ClosesWithin ==
    ASSUME NEW m, IsObject(m), NEW j \in 1..Len(m),
           NEW text \in Seq(Bytes), Len(text) >= 1, text[1] = "open",
           \A i \in 1..Len(text) : j + i - 1 <= Len(m) => text[i] = m[j + i - 1],
           Closing(text) # {}
    PROVE  /\ Min(Closing(text)) \in 1..Len(text)
           /\ Min(Closing(text)) <= Len(m) - j + 1
           /\ j = 1 => Min(Closing(text)) = Len(m)
<1> DEFINE c == Min(Closing(text))
<1>1. Closing(text) = {n \in 1..Len(text) : Depth(text, n) = 0}
    BY DEF Closing
<1>2. c \in 1..Len(text) /\ Depth(text, c) = 0
           /\ \A n \in 1..Len(text) : Depth(text, n) = 0 => c <= n
    <2>1. Closing(text) \in SUBSET Nat
        BY <1>1
    <2>2. c \in Closing(text) /\ \A n \in Closing(text) : c <= n
        BY <2>1, MinIsLeast
    <2> QED
        BY <1>1, <2>2
<1>3. Len(m) \in Nat /\ Len(m) >= 1 /\ Depth(m, Len(m)) = 0
           /\ \A n \in 1..(Len(m) - 1) : Depth(m, n) > 0
    BY DEF IsObject
<1> HIDE DEF c
<1>4. c <= Len(m) - j + 1
    <2>1. ASSUME ~ (c <= Len(m) - j + 1)
          PROVE  FALSE
        <3> DEFINE N == Len(m) - j + 1
        <3>1. N \in Nat /\ N >= 1 /\ N <= Len(text) /\ N < c
            BY <1>2, <1>3, <2>1
        <3>2. j - 1 \in Nat /\ (j - 1) + N = Len(m)
            BY <1>3
        <3>3. Along(text, N, m, j - 1)
            BY <1>3, <3>1 DEF Along
        <3> HIDE DEF N
        <3>4. Depth(text, N) = Depth(m, Len(m)) - Depth(m, j - 1)
            BY <1>3, <3>1, <3>2, <3>3, DepthAlong, SMTT(30)
        <3>5. Depth(m, j - 1) >= 0 /\ Depth(m, j - 1) \in Int
            <4>1. CASE j - 1 = 0
                BY <4>1, DepthStep
            <4>2. CASE j - 1 # 0
                <5>1. j - 1 \in 1..(Len(m) - 1)
                    BY <1>3, <4>2
                <5> QED
                    BY <1>3, <3>2, <5>1, DepthStep
            <4> QED
                BY <4>1, <4>2
        <3>6. Depth(text, N) <= 0
            BY <1>3, <3>2, <3>4, <3>5
        <3>7. PICK n \in 1..N : Depth(text, n) = 0
            BY <3>1, <3>6, DepthCrosses
        <3> QED
            BY <1>2, <3>1, <3>7
    <2> QED
        BY <2>1
<1>5. ASSUME j = 1
      PROVE  c = Len(m)
    <2>1. c \in Nat /\ Along(text, c, m, 0)
        BY <1>2, <1>3, <1>4, <1>5 DEF Along
    <2>2. Depth(text, c) = Depth(m, c) - Depth(m, 0)
        BY <2>1, DepthAlong
    <2>3. Depth(m, 0) = 0 /\ Depth(m, c) \in Int
        BY <1>2, DepthStep
    <2>4. Depth(m, c) = 0
        BY <1>2, <2>2, <2>3
    <2> QED
        BY <1>2, <1>3, <1>4, <1>5, <2>4
<1> QED
    BY <1>2, <1>4, <1>5 DEF c

\* Where a whole message stands, raw_decode finds an object.
LEMMA ObjectCloses ==
    ASSUME NEW m, IsObject(m), NEW text \in Seq(Bytes), Len(m) <= Len(text),
           \A i \in 1..Len(m) : text[i] = m[i]
    PROVE  Closing(text) # {}
<1>1. Len(m) \in Nat /\ Len(m) >= 1 /\ Depth(m, Len(m)) = 0 /\ m[1] = "open"
    BY DEF IsObject
<1>2. Along(text, Len(m), m, 0)
    BY <1>1 DEF Along
<1>3. Depth(text, Len(m)) = Depth(m, Len(m)) - Depth(m, 0)
    BY <1>1, <1>2, DepthAlong
<1>4. Depth(m, 0) = 0
    BY DepthStep
<1>5. Depth(text, Len(m)) = 0
    BY <1>1, <1>3, <1>4
<1>6. Head(text) # "q" /\ Len(m) \in DOMAIN text
    BY <1>1
<1> QED
    BY <1>5, <1>6 DEF Closing

-------------------------------------------------------------------------------
(* One extraction                                                          *)

\* To drop the first n bytes of a part is to drop them of the whole.
LEMMA CutConcat ==
    ASSUME NEW part \in Seq(Bytes), NEW tail \in Seq(Bytes), NEW n \in 0..Len(part)
    PROVE  /\ SubSeq(part, n + 1, Len(part)) \in Seq(Bytes)
           /\ Len(SubSeq(part, n + 1, Len(part))) = Len(part) - n
           /\ SubSeq(part, n + 1, Len(part)) \o tail
                 = SubSeq(part \o tail, n + 1, Len(part \o tail))
<1> DEFINE w == part \o tail
           left == SubSeq(part, n + 1, Len(part))
           cut == SubSeq(w, n + 1, Len(w))
<1>1. /\ w \in Seq(Bytes) /\ Len(w) = Len(part) + Len(tail)
      /\ \A i \in 1..Len(w) : w[i] = IF i <= Len(part) THEN part[i] ELSE tail[i - Len(part)]
    BY ConcatProperties
<1>2. /\ left \in Seq(Bytes) /\ Len(left) = Len(part) - n
      /\ \A i \in 1..(Len(part) - n) : left[i] = part[n + i]
    OBVIOUS
<1>3. /\ left \o tail \in Seq(Bytes) /\ Len(left \o tail) = Len(left) + Len(tail)
      /\ \A i \in 1..(Len(left) + Len(tail)) :
            (left \o tail)[i] = IF i <= Len(left) THEN left[i] ELSE tail[i - Len(left)]
    BY <1>2, ConcatProperties
<1>4. /\ cut \in Seq(Bytes) /\ Len(cut) = Len(w) - n
      /\ \A i \in 1..(Len(w) - n) : cut[i] = w[n + i]
    BY <1>1
<1> HIDE DEF w, left, cut
<1>5. Len(left \o tail) = Len(cut)
    BY <1>1, <1>2, <1>3, <1>4
<1>6. \A i \in 1..Len(cut) : (left \o tail)[i] = cut[i]
    BY <1>1, <1>2, <1>3, <1>4, SMTT(30)
<1>7. left \o tail = cut
    BY <1>3, <1>4, <1>5, <1>6, SeqEqual
<1> QED
    BY <1>2, <1>7 DEF w, left, cut

\* Where the search for a brace stops, and what the text from there is.
LEMMA TextFacts ==
    ASSUME NEW bytes \in Seq(Bytes), Opening(bytes) # {}
    PROVE  /\ Min(Opening(bytes)) \in 1..Len(bytes)
           /\ bytes[Min(Opening(bytes))] \in {"open", "q"}
           /\ \A i \in 1..Len(bytes) : bytes[i] \in {"open", "q"} => Min(Opening(bytes)) <= i
           /\ Text(bytes) \in Seq(Bytes)
           /\ Len(Text(bytes)) = Len(bytes) - Min(Opening(bytes)) + 1
           /\ \A i \in 1..Len(Text(bytes)) :
                 Text(bytes)[i] = bytes[Min(Opening(bytes)) + i - 1]
<1> DEFINE o == Min(Opening(bytes))
<1>1. Opening(bytes) = {i \in 1..Len(bytes) : bytes[i] \in {"open", "q"}}
    BY DEF Opening
<1>2. o \in Opening(bytes) /\ \A i \in Opening(bytes) : o <= i
    BY <1>1, MinIsLeast, SMTT(30)
<1>3. o \in 1..Len(bytes) /\ bytes[o] \in {"open", "q"}
      /\ \A i \in 1..Len(bytes) : bytes[i] \in {"open", "q"} => o <= i
    BY <1>1, <1>2
<1>4. Text(bytes) = SubSeq(bytes, o, Len(bytes))
    BY DEF Text
<1> HIDE DEF o
<1>5. /\ Text(bytes) \in Seq(Bytes)
      /\ Len(Text(bytes)) = Len(bytes) - o + 1
      /\ \A i \in 1..Len(Text(bytes)) : Text(bytes)[i] = bytes[o + i - 1]
    BY <1>3, <1>4
<1> QED
    BY <1>3, <1>5 DEF o

\* What an extraction takes from the buffer: the bytes up to the brace, and the frame.
LEMMA ExtractionFacts ==
    ASSUME NEW bytes \in Seq(Bytes), Extractable(bytes)
    PROVE  /\ Min(Closing(Text(bytes))) \in 1..Len(Text(bytes))
           /\ First(bytes) \in Seq(Bytes)
           /\ Len(First(bytes)) = Min(Closing(Text(bytes)))
           /\ \A i \in 1..Len(First(bytes)) : First(bytes)[i] = Text(bytes)[i]
           /\ Consumed(bytes) = Min(Opening(bytes)) - 1 + Min(Closing(Text(bytes)))
           /\ Consumed(bytes) \in 1..Len(bytes)
           /\ After(bytes) \in Seq(Bytes)
           /\ Len(After(bytes)) = Len(bytes) - Consumed(bytes)
<1> DEFINE o == Min(Opening(bytes))
           t == Text(bytes)
           c == Min(Closing(t))
<1>1. /\ o \in 1..Len(bytes) /\ bytes[o] \in {"open", "q"}
      /\ t \in Seq(Bytes) /\ Len(t) = Len(bytes) - o + 1
      /\ \A i \in 1..Len(t) : t[i] = bytes[o + i - 1]
    BY TextFacts DEF Extractable
<1>2. Closing(t) # {} /\ First(bytes) = SubSeq(t, 1, c)
      /\ Consumed(bytes) = o - 1 + Len(First(bytes))
      /\ After(bytes) = SubSeq(bytes, Consumed(bytes) + 1, Len(bytes))
    BY DEF Extractable, First, Consumed, After
<1> HIDE DEF o, t
<1>3. Closing(t) \in SUBSET (1..Len(t))
    BY <1>1, ClosingTyped
<1>4. c \in 1..Len(t)
    <2>1. Closing(t) \in SUBSET Nat
        BY <1>1, <1>3
    <2>2. c \in Closing(t)
        BY <1>2, <2>1, MinIsLeast
    <2> QED
        BY <1>3, <2>2
<1> HIDE DEF c
<1>5. /\ First(bytes) \in Seq(Bytes) /\ Len(First(bytes)) = c
      /\ \A i \in 1..Len(First(bytes)) : First(bytes)[i] = t[i]
    BY <1>1, <1>2, <1>4
<1>6. Consumed(bytes) = o - 1 + c /\ Consumed(bytes) \in 1..Len(bytes)
    BY <1>1, <1>2, <1>4, <1>5
<1>7. After(bytes) \in Seq(Bytes) /\ Len(After(bytes)) = Len(bytes) - Consumed(bytes)
    <2>1. PICK n \in 0..Len(bytes) : n = Consumed(bytes)
        BY <1>6
    <2> QED
        BY <1>2, <2>1, CutConcat
<1> QED
    BY <1>4, <1>5, <1>6, <1>7 DEF o, t, c

-------------------------------------------------------------------------------
(* The stream: where the messages of s stand in the bytes w, when after[k] *)
(* bytes follow the k-th.                                                  *)

\* The byte of w at i is one of the k-th message, which begins at start[k]; a
\* message that begins at 0 or before is partly or wholly gone.
Covers(start, s, k, i) == start[k] <= i /\ i < start[k] + Len(s[k])

Stream(w, start, s, after) ==
    /\ start \in [1..Len(s) -> Int]
    /\ after \in [1..Len(s) -> Nat]
    /\ \A k \in 1..Len(s) : start[k] + Len(s[k]) + after[k] = Len(w) + 1
    /\ \A j, k \in 1..Len(s) : j < k => start[j] + Len(s[j]) <= start[k]
    /\ \A i \in 1..Len(w), k \in 1..Len(s) :
          Covers(start, s, k, i) => w[i] = s[k][i - start[k] + 1]
    /\ \A i \in 1..Len(w) :
          w[i] \in {"open", "q"} => \E k \in 1..Len(s) : Covers(start, s, k, i)
    /\ \A i \in 1..Len(w) :
          /\ w[i] = "m1" => i < Len(w) /\ w[i + 1] = "m2"
          /\ w[i] = "m2" /\ i > 1 => w[i - 1] = "m1"

\* The frames are the first messages, these are gone, and the others are whole.
Progress(start, fr, s) ==
    /\ Len(fr) <= Len(s)
    /\ \A k \in 1..Len(s) :
          IF k <= Len(fr) THEN fr[k] = s[k] /\ start[k] + Len(s[k]) <= 1
                          ELSE start[k] >= 1

\* A frame that begins with a brace which opens an object is a piece of one message.
Within(f, s) == Head(f) = "open" =>
    \E m \in 1..Len(s) : \E i \in 1..(Len(s[m]) - Len(f) + 1) :
        f = SubSeq(s[m], i, i + Len(f) - 1)

\* Every message of s is an object.
LEMMA SentObjects ==
    ASSUME NEW s \in Seq(Messages), NEW k \in 1..Len(s)
    PROVE  /\ s[k] \in Messages /\ IsObject(s[k]) /\ s[k] \in Seq(Bytes)
           /\ Len(s[k]) \in Nat /\ Len(s[k]) >= 1 /\ s[k][1] = "open"
<1>1. s[k] \in Messages
    BY ElementOfSeq
<1>2. IsObject(s[k])
    BY <1>1, MessageAssumption
<1>3. s[k] \in Seq(Bytes) /\ s[k] # <<>> /\ Head(s[k]) = "open"
    BY <1>2 DEF IsObject
<1> QED
    BY <1>1, <1>2, <1>3

\* Every message ends within the bytes, and those sent later end later.
LEMMA StreamEnds ==
    ASSUME NEW s \in Seq(Messages), NEW w \in Seq(Bytes), NEW start, NEW after,
           Stream(w, start, s, after)
    PROVE  /\ \A k \in 1..Len(s) : start[k] + Len(s[k]) <= Len(w) + 1
           /\ \A j, k \in 1..Len(s) : j < k => after[k] <= after[j]
<1>1. \A k \in 1..Len(s) : /\ start[k] \in Int /\ Len(s[k]) \in Nat /\ after[k] \in Nat
                            /\ start[k] + Len(s[k]) + after[k] = Len(w) + 1
    BY SentObjects DEF Stream
<1>2. \A j, k \in 1..Len(s) : j < k => start[j] + Len(s[j]) <= start[k]
    BY DEF Stream
<1>3. ASSUME NEW k \in 1..Len(s)
      PROVE  start[k] + Len(s[k]) <= Len(w) + 1
    <2>1. PICK b \in Int, l \in Nat, r \in Nat : b = start[k] /\ l = Len(s[k]) /\ r = after[k]
        BY <1>1
    <2>2. b + l + r = Len(w) + 1
        BY <1>1, <2>1
    <2> QED
        BY <2>1, <2>2
<1>4. ASSUME NEW j \in 1..Len(s), NEW k \in 1..Len(s), j < k
      PROVE  after[k] <= after[j]
    <2>1. PICK b \in Int, l \in Nat, r \in Nat : b = start[k] /\ l = Len(s[k]) /\ r = after[k]
        BY <1>1
    <2>2. PICK c \in Int, h \in Nat, q \in Nat : c = start[j] /\ h = Len(s[j]) /\ q = after[j]
        BY <1>1
    <2>3. b + l + r = Len(w) + 1
        BY <1>1, <2>1
    <2>4. c + h + q = Len(w) + 1
        BY <1>1, <2>2
    <2>5. c + h <= b
        BY <1>2, <1>4, <2>1, <2>2
    <2>6. r <= q
        BY <2>3, <2>4, <2>5
    <2> QED
        BY <2>1, <2>2, <2>6
<1> QED
    BY <1>3, <1>4

\* The first n bytes may go: everything moves by n.
LEMMA StreamShift ==
    ASSUME NEW s \in Seq(Messages), NEW w \in Seq(Bytes), NEW start, NEW after,
           Stream(w, start, s, after), NEW n \in 0..Len(w)
    PROVE  Stream(SubSeq(w, n + 1, Len(w)), [k \in 1..Len(s) |-> start[k] - n], s, after)
<1> DEFINE cut == SubSeq(w, n + 1, Len(w))
           moved == [k \in 1..Len(s) |-> start[k] - n]
<1>1. /\ Len(cut) = Len(w) - n
      /\ \A i \in 1..Len(cut) : n + i \in 1..Len(w) /\ cut[i] = w[n + i]
    OBVIOUS
<1>2. /\ moved \in [1..Len(s) -> Int]
      /\ \A k \in 1..Len(s) : start[k] \in Int /\ moved[k] = start[k] - n
    <2>1. start \in [1..Len(s) -> Int]
        BY DEF Stream
    <2>2. \A k \in 1..Len(s) : start[k] - n \in Int
        BY <2>1
    <2> QED
        BY <2>1, <2>2
<1>3. \A k \in 1..Len(s) : Len(s[k]) \in Nat
    BY SentObjects
<1> HIDE DEF cut, moved
<1>4. \A i \in 1..Len(cut), k \in 1..Len(s) :
         Covers(moved, s, k, i) <=> Covers(start, s, k, n + i)
    BY <1>1, <1>2, <1>3 DEF Covers
<1>5. /\ after \in [1..Len(s) -> Nat]
      /\ \A k \in 1..Len(s) : moved[k] + Len(s[k]) + after[k] = Len(cut) + 1
    <2>1. /\ after \in [1..Len(s) -> Nat]
          /\ \A k \in 1..Len(s) : start[k] + Len(s[k]) + after[k] = Len(w) + 1
        BY DEF Stream
    <2> SUFFICES ASSUME NEW k \in 1..Len(s)
                 PROVE  moved[k] + Len(s[k]) + after[k] = Len(cut) + 1
        BY <2>1
    <2>2. after[k] \in Nat /\ start[k] \in Int /\ Len(s[k]) \in Nat
        BY <1>2, <1>3, <2>1
    <2> QED
        BY <1>1, <1>2, <2>1, <2>2, SMTT(30)
<1>6. \A j, k \in 1..Len(s) : j < k => moved[j] + Len(s[j]) <= moved[k]
    BY <1>2, <1>3 DEF Stream
<1>7. ASSUME NEW i \in 1..Len(cut), NEW k \in 1..Len(s), Covers(moved, s, k, i)
      PROVE  cut[i] = s[k][i - moved[k] + 1]
    <2>1. w[n + i] = s[k][(n + i) - start[k] + 1]
        BY <1>1, <1>4, <1>7 DEF Stream
    <2>2. (n + i) - start[k] + 1 = i - moved[k] + 1
        BY <1>2
    <2> QED
        BY <1>1, <2>1, <2>2
<1>8. ASSUME NEW i \in 1..Len(cut), cut[i] \in {"open", "q"}
      PROVE  \E k \in 1..Len(s) : Covers(moved, s, k, i)
    <2>1. PICK k \in 1..Len(s) : Covers(start, s, k, n + i)
        BY <1>1, <1>8 DEF Stream
    <2> QED
        BY <1>4, <2>1
<1>9. ASSUME NEW i \in 1..Len(cut)
      PROVE  /\ cut[i] = "m1" => i < Len(cut) /\ cut[i + 1] = "m2"
             /\ cut[i] = "m2" /\ i > 1 => cut[i - 1] = "m1"
    <2>1. /\ w[n + i] = "m1" => n + i < Len(w) /\ w[(n + i) + 1] = "m2"
          /\ w[n + i] = "m2" /\ n + i > 1 => w[(n + i) - 1] = "m1"
        BY <1>1 DEF Stream
    <2>2. ASSUME cut[i] = "m1"
          PROVE  i < Len(cut) /\ cut[i + 1] = "m2"
        <3>1. n + i < Len(w) /\ w[(n + i) + 1] = "m2"
            BY <1>1, <2>1, <2>2
        <3>2. i + 1 \in 1..Len(cut) /\ n + (i + 1) = (n + i) + 1
            BY <1>1, <3>1
        <3> QED
            BY <1>1, <3>1, <3>2
    <2>3. ASSUME cut[i] = "m2", i > 1
          PROVE  cut[i - 1] = "m1"
        <3>1. w[(n + i) - 1] = "m1"
            BY <1>1, <2>1, <2>3
        <3>2. i - 1 \in 1..Len(cut) /\ n + (i - 1) = (n + i) - 1
            BY <1>1, <2>3
        <3> QED
            BY <1>1, <3>1, <3>2
    <2> QED
        BY <2>2, <2>3
<1>10. Stream(cut, moved, s, after)
    BY <1>2, <1>5, <1>6, <1>7, <1>8, <1>9 DEF Stream
<1> QED
    BY <1>10 DEF cut, moved

\* A frame taken from a stream is a piece of one message; and while the frames are
\* the first messages, it is the next one.
LEMMA ExtractionKeeps ==
    ASSUME NEW s \in Seq(Messages), NEW bytes \in Seq(Bytes), NEW tail \in Seq(Bytes),
           NEW start, NEW after, Stream(bytes \o tail, start, s, after), Extractable(bytes)
    PROVE  /\ Within(First(bytes), s)
           /\ \E moved :
                 /\ Stream(After(bytes) \o tail, moved, s, after)
                 /\ \A fr \in Seq(Seq(Bytes)) :
                       Progress(start, fr, s) => Progress(moved, Append(fr, First(bytes)), s)
<1> DEFINE w == bytes \o tail
           o == Min(Opening(bytes))
           t == Text(bytes)
           c == Min(Closing(t))
           n == Consumed(bytes)
           f == First(bytes)
<1>1. /\ w \in Seq(Bytes) /\ Len(w) >= Len(bytes) /\ Len(w) \in Nat
      /\ \A i \in 1..Len(bytes) : w[i] = bytes[i]
    BY ConcatProperties
<1>2. /\ o \in 1..Len(bytes)
      /\ \A i \in 1..Len(bytes) : bytes[i] \in {"open", "q"} => o <= i
      /\ t \in Seq(Bytes) /\ Len(t) = Len(bytes) - o + 1
      /\ \A i \in 1..Len(t) : t[i] = bytes[o + i - 1]
      /\ Closing(t) # {}
    BY TextFacts DEF Extractable
<1>3. /\ bytes[o] \in {"open", "q"}
      /\ c \in 1..Len(t)
      /\ f \in Seq(Bytes) /\ Len(f) = c
      /\ \A i \in 1..Len(f) : f[i] = t[i]
      /\ n = o - 1 + c /\ n \in 1..Len(bytes)
    BY ExtractionFacts, TextFacts DEF Extractable
<1>4. After(bytes) \o tail = SubSeq(w, n + 1, Len(w))
    <2>1. PICK m \in 0..Len(bytes) : m = n
        BY <1>3
    <2> QED
        BY <2>1, CutConcat DEF After
<1> HIDE DEF w, o, t, c, n, f
<1>5. \A k \in 1..Len(s) : /\ start[k] \in Int /\ s[k] \in Seq(Bytes) /\ IsObject(s[k])
                            /\ Len(s[k]) \in Nat /\ Len(s[k]) >= 1 /\ s[k][1] = "open"
    BY SentObjects DEF Stream, w
\* the message the brace belongs to, and the place of the brace in it
<1>6. PICK k \in 1..Len(s) : start[k] <= o /\ o < start[k] + Len(s[k])
    <2>1. o \in 1..Len(w) /\ w[o] \in {"open", "q"}
        BY <1>1, <1>2, <1>3
    <2> QED
        BY <2>1 DEF Stream, Covers, w
<1>7. PICK j \in 1..Len(s[k]) : j = o - start[k] + 1
    BY <1>2, <1>5, <1>6
<1>8. \A i \in 1..Len(t) : j + i - 1 <= Len(s[k]) => t[i] = s[k][j + i - 1]
    <2> SUFFICES ASSUME NEW i \in 1..Len(t), j + i - 1 <= Len(s[k])
                 PROVE  t[i] = s[k][j + i - 1]
        OBVIOUS
    <2>1. PICK p \in 1..Len(bytes) : p = o + i - 1
        BY <1>2
    <2>2. PICK q \in 1..Len(s[k]) : q = j + i - 1
        BY <1>5
    <2>3. p \in 1..Len(w) /\ Covers(start, s, k, p) /\ p - start[k] + 1 = q
        <3>1. p \in 1..Len(w)
            BY <1>1, <2>1
        <3>2. start[k] \in Int /\ Len(s[k]) \in Nat /\ o \in Int
            BY <1>2, <1>5
        <3>3. p - start[k] + 1 = q
            <4>1. PICK b \in Int : b = start[k]
                BY <3>2
            <4>2. j = o - b + 1 /\ p = o + i - 1 /\ q = j + i - 1
                BY <1>7, <2>1, <2>2, <4>1
            <4>3. i \in Int /\ j \in Int /\ p \in Int /\ q \in Int
                BY <1>2, <3>2
            <4>4. p - b + 1 = q
                BY <3>2, <4>2, <4>3
            <4> QED
                BY <4>1, <4>4
        <3>4. start[k] <= p /\ p < start[k] + Len(s[k])
            BY <2>1, <2>2, <3>2, <3>3, SMTT(30)
        <3> QED
            BY <3>1, <3>3, <3>4 DEF Covers
    <2>4. w[p] = s[k][p - start[k] + 1]
        BY <2>3 DEF Stream, w
    <2>5. w[p] = s[k][q]
        BY <2>3, <2>4
    <2>6. t[i] = bytes[p]
        BY <1>2, <2>1
    <2> QED
        BY <1>1, <2>1, <2>2, <2>5, <2>6
<1>9. t[1] = bytes[o] /\ f[1] = bytes[o] /\ Head(f) = f[1]
    <2>1. 1 \in 1..Len(t) /\ o + 1 - 1 = o
        BY <1>2
    <2>2. t[1] = bytes[o + 1 - 1]
        BY <1>2, <2>1
    <2>3. f[1] = t[1] /\ Head(f) = f[1]
        BY <1>3
    <2> QED
        BY <2>1, <2>2, <2>3
<1>10. ASSUME bytes[o] = "open"
       PROVE  c <= Len(s[k]) - j + 1 /\ (j = 1 => c = Len(s[k]))
    <2>1. Len(t) >= 1 /\ t[1] = "open"
        BY <1>2, <1>9, <1>10
    <2> QED
        BY <1>2, <1>5, <1>8, <2>1, ClosesWithin DEF c
<1>11. Within(f, s)
    <2> SUFFICES ASSUME bytes[o] = "open"
                 PROVE  \E m \in 1..Len(s) : \E i \in 1..(Len(s[m]) - Len(f) + 1) :
                            f = SubSeq(s[m], i, i + Len(f) - 1)
        BY <1>9 DEF Within
    <2>1. SubSeq(s[k], j, j + c - 1) \in Seq(Bytes)
          /\ Len(SubSeq(s[k], j, j + c - 1)) = c
          /\ \A i \in 1..c : SubSeq(s[k], j, j + c - 1)[i] = s[k][j + i - 1]
        BY <1>3, <1>5, <1>10, SMTT(60)
    <2>2. \A i \in 1..c : f[i] = s[k][j + i - 1]
        <3> SUFFICES ASSUME NEW i \in 1..c
                     PROVE  f[i] = s[k][j + i - 1]
            OBVIOUS
        <3>1. i \in 1..Len(t) /\ i \in 1..Len(f) /\ j + i - 1 <= Len(s[k])
            BY <1>2, <1>3, <1>5, <1>10, SMTT(30)
        <3> QED
            BY <1>3, <1>8, <3>1
    <2>3. f = SubSeq(s[k], j, j + c - 1)
        BY <1>3, <2>1, <2>2, SeqEqual
    <2>4. j \in 1..(Len(s[k]) - Len(f) + 1) /\ j + Len(f) - 1 = j + c - 1
        BY <1>2, <1>3, <1>5, <1>10
    <2> QED
        BY <2>3, <2>4
<1> DEFINE moved == [m \in 1..Len(s) |-> start[m] - n]
<1>12. Stream(After(bytes) \o tail, moved, s, after)
    <2>1. PICK m \in 0..Len(w) : m = n
        BY <1>1, <1>3
    <2> QED
        BY <1>1, <1>4, <2>1, StreamShift DEF w
<1>13. ASSUME NEW fr \in Seq(Seq(Bytes)), Progress(start, fr, s)
       PROVE  Progress(moved, Append(fr, f), s)
    <2>1. /\ Len(fr) \in Nat /\ Len(fr) <= Len(s)
          /\ \A m \in 1..Len(fr) : fr[m] = s[m] /\ start[m] + Len(s[m]) <= 1
          /\ \A m \in (Len(fr) + 1)..Len(s) : start[m] >= 1
        BY <1>13 DEF Progress
    <2>2. k \in (Len(fr) + 1)..Len(s)
        <3>1. ~ (start[k] + Len(s[k]) <= 1)
            BY <1>2, <1>5, <1>6
        <3>2. k \notin 1..Len(fr)
            BY <2>1, <3>1
        <3> QED
            BY <2>1, <3>2
    \* no message that is whole begins before the brace
    <2>3. \A m \in (Len(fr) + 1)..Len(s) : start[m] >= o
        <3> SUFFICES ASSUME NEW m \in (Len(fr) + 1)..Len(s), start[m] < o
                     PROVE  FALSE
            BY <1>2, <1>5
        <3>1. start[m] \in 1..Len(bytes) /\ start[m] \in 1..Len(w) /\ m \in 1..Len(s)
            BY <1>1, <1>2, <1>5, <2>1, SMTT(30)
        <3>2. Covers(start, s, m, start[m])
            BY <1>5, <3>1 DEF Covers
        <3>3. w[start[m]] = s[m][start[m] - start[m] + 1]
            BY <3>1, <3>2 DEF Stream, w
        <3>4. start[m] - start[m] + 1 = 1
            BY <1>5, <3>1
        <3>5. w[start[m]] = "open"
            BY <1>5, <3>1, <3>3, <3>4
        <3>6. bytes[start[m]] = "open"
            BY <1>1, <3>1, <3>5
        <3> QED
            BY <1>2, <3>1, <3>6
    <2>4. start[k] = o /\ j = 1 /\ c = Len(s[k])
        <3>1. PICK a \in Int : a = start[k]
            BY <1>5
        <3>2. PICK b \in Int : b = o
            BY <1>2
        <3>3. b <= a
            BY <2>2, <2>3, <3>1, <3>2
        <3>4. a <= b
            BY <1>6, <3>1, <3>2
        <3>5. j = b - a + 1
            BY <1>7, <3>1, <3>2
        <3>6. a = b /\ j = 1
            BY <3>3, <3>4, <3>5
        <3>7. t[1] = s[k][1]
            <4>1. 1 \in 1..Len(t) /\ j + 1 - 1 = 1 /\ j + 1 - 1 <= Len(s[k])
                BY <1>2, <1>5, <3>6
            <4> QED
                BY <1>8, <4>1
        <3>8. bytes[o] = "open"
            BY <1>5, <1>9, <3>7
        <3> QED
            BY <1>10, <3>1, <3>2, <3>6, <3>8
    <2>5. \A m1, m2 \in 1..Len(s) : m1 < m2 => start[m1] + Len(s[m1]) <= start[m2]
        BY DEF Stream
    <2>6. k = Len(fr) + 1
        <3>1. ASSUME k # Len(fr) + 1
              PROVE  FALSE
            <4>1. Len(fr) + 1 \in 1..Len(s) /\ Len(fr) + 1 < k
                BY <2>1, <2>2, <3>1
            <4>2. start[Len(fr) + 1] + Len(s[Len(fr) + 1]) <= o
                BY <2>4, <2>5, <4>1
            <4>3. start[Len(fr) + 1] >= o
                BY <2>3, <4>1
            <4> QED
                BY <1>2, <1>5, <4>1, <4>2, <4>3, SMTT(30)
        <3> QED
            BY <3>1
    <2>7. f = s[k]
        <3>1. \A i \in 1..Len(f) : f[i] = s[k][i]
            BY <1>2, <1>3, <1>5, <1>8, <2>4
        <3> QED
            BY <1>3, <1>5, <2>4, <3>1, SeqEqual
    <2>8. /\ Len(Append(fr, f)) = k
          /\ Append(fr, f)[k] = s[k]
          /\ \A m \in 1..(k - 1) : Append(fr, f)[m] = fr[m]
        BY <1>3, <2>1, <2>6, <2>7
    <2>9. \A m \in 1..Len(s) : moved[m] = start[m] - n
        OBVIOUS
    <2>10. n = start[k] + Len(s[k]) - 1
        BY <1>2, <1>3, <1>5, <2>4
    <2> HIDE DEF moved
    <2>11. ASSUME NEW m \in 1..Len(s), m <= k
           PROVE  Append(fr, f)[m] = s[m] /\ moved[m] + Len(s[m]) <= 1
        <3>1. CASE m = k
            BY <1>5, <2>8, <2>9, <2>10, <3>1
        <3>2. CASE m < k
            <4>1. m \in 1..Len(fr) /\ m \in 1..(k - 1)
                BY <2>6, <3>2
            <4>2. fr[m] = s[m] /\ start[m] + Len(s[m]) <= 1
                BY <2>1, <4>1
            <4>3. moved[m] + Len(s[m]) <= 1
                BY <1>3, <1>5, <2>9, <4>2, SMTT(30)
            <4>4. Append(fr, f)[m] = fr[m]
                BY <2>8, <4>1
            <4> QED
                BY <4>2, <4>3, <4>4
        <3>3. m = k \/ m < k
            BY <2>11
        <3> QED
            BY <3>1, <3>2, <3>3
    <2>12. ASSUME NEW m \in 1..Len(s), m > k
           PROVE  moved[m] >= 1
        <3>1. start[k] + Len(s[k]) <= start[m]
            BY <2>5, <2>12
        <3>2. moved[m] = start[m] - n
            BY <2>9
        <3>3. PICK a \in Int : a = start[m]
            BY <1>5
        <3>4. PICK b \in Int, l \in Int : b = start[k] /\ l = Len(s[k])
            <4>1. start[k] \in Int /\ Len(s[k]) \in Int
                BY <1>5
            <4> QED
                BY <4>1, Zenon
        <3>5. b + l <= a
            BY <3>1, <3>3, <3>4
        <3>6. n = b + l - 1
            BY <2>10, <3>4
        <3>7. moved[m] = a - n
            BY <3>2, <3>3
        <3> QED
            BY <3>3, <3>4, <3>5, <3>6, <3>7, SMTT(30)
    <2>13. k <= Len(s)
        OBVIOUS
    <2> QED
        BY <2>8, <2>11, <2>12, <2>13 DEF Progress
<1> QED
    BY <1>11, <1>12, <1>13 DEF f

\* A message that is whole in the buffer, and next in turn, can be extracted unless the
\* buffer ends inside a character.
LEMMA WholeIsExtractable ==
    ASSUME NEW s \in Seq(Messages), NEW bytes \in Seq(Bytes), NEW tail \in Seq(Bytes),
           NEW start, NEW after, NEW fr \in Seq(Seq(Bytes)),
           Stream(bytes \o tail, start, s, after), Progress(start, fr, s),
           NEW k \in 1..Len(s), k = Len(fr) + 1, Len(tail) <= after[k],
           bytes # <<>> => bytes[Len(bytes)] # "m1"
    PROVE  Extractable(bytes)
<1>1. PICK w \in Seq(Bytes) :
         /\ w = bytes \o tail /\ Len(w) = Len(bytes) + Len(tail)
         /\ \A i \in 1..Len(bytes) : w[i] = bytes[i]
    <2>1. /\ bytes \o tail \in Seq(Bytes) /\ Len(bytes \o tail) = Len(bytes) + Len(tail)
          /\ \A i \in 1..Len(bytes) : (bytes \o tail)[i] = bytes[i]
        BY ConcatProperties
    <2> QED
        BY <2>1
<1>2. /\ s[k] \in Seq(Bytes) /\ IsObject(s[k])
      /\ Len(s[k]) \in Nat /\ Len(s[k]) >= 1 /\ s[k][1] = "open"
    BY SentObjects
<1>3. \A m \in 1..Len(s) : start[m] \in Int /\ Len(s[m]) \in Nat
    BY SentObjects DEF Stream
<1> DEFINE ends == start[k] + Len(s[k]) <= Len(bytes) + 1
<1>4. ends /\ start[k] >= 1
    <2>1. start[k] + Len(s[k]) + after[k] = Len(w) + 1 /\ after[k] \in Nat
        BY <1>1 DEF Stream
    <2>2. start[k] >= 1
        BY DEF Progress
    <2>3. Len(bytes) \in Nat /\ Len(tail) \in Nat
        OBVIOUS
    <2> QED
        BY <1>1, <1>2, <1>3, <2>1, <2>2, <2>3
<1>5. PICK b \in 1..Len(bytes) : b = start[k]
    BY <1>2, <1>3, <1>4
<1>6. \A i \in 1..Len(s[k]) : b + i - 1 \in 1..Len(bytes) /\ bytes[b + i - 1] = s[k][i]
    <2> SUFFICES ASSUME NEW i \in 1..Len(s[k])
                 PROVE  b + i - 1 \in 1..Len(bytes) /\ bytes[b + i - 1] = s[k][i]
        OBVIOUS
    <2>2. PICK p \in 1..Len(bytes) : p = b + i - 1
        BY <1>2, <1>3, <1>4, <1>5
    <2>3. Covers(start, s, k, p) /\ p - start[k] + 1 = i
        BY <1>2, <1>5, <2>2, SMTT(30) DEF Covers
    <2>4. p \in 1..Len(w)
        BY <1>1
    <2>5. w[p] = s[k][p - start[k] + 1]
        BY <1>1, <2>3, <2>4 DEF Stream
    <2> QED
        BY <1>1, <2>2, <2>3, <2>5
<1>7. bytes[b] = "open"
    <2>1. 1 \in 1..Len(s[k]) /\ b + 1 - 1 = b
        BY <1>2
    <2>2. bytes[b + 1 - 1] = s[k][1]
        BY <1>6, <2>1
    <2> QED
        BY <1>2, <2>1, <2>2
<1> DEFINE o == Min(Opening(bytes))
           t == Text(bytes)
<1>8. Opening(bytes) # {}
    BY <1>7 DEF Opening
<1>9. /\ o \in 1..Len(bytes) /\ bytes[o] \in {"open", "q"}
      /\ \A i \in 1..Len(bytes) : bytes[i] \in {"open", "q"} => o <= i
      /\ t \in Seq(Bytes) /\ Len(t) = Len(bytes) - o + 1
      /\ \A i \in 1..Len(t) : t[i] = bytes[o + i - 1]
    BY <1>8, TextFacts
<1> HIDE DEF o, t
\* the search stops at the first byte of this message
<1>10. o = b
    <2>1. o <= b
        BY <1>7, <1>9
    <2>2. PICK m \in 1..Len(s) : start[m] <= o /\ o < start[m] + Len(s[m])
        <3>1. o \in 1..Len(w) /\ w[o] \in {"open", "q"}
            BY <1>1, <1>9
        <3> QED
            BY <1>1, <3>1 DEF Stream, Covers
    <2>3. ~ (m <= Len(fr))
        <3>1. m <= Len(fr) => start[m] + Len(s[m]) <= 1
            BY DEF Progress
        <3> QED
            BY <1>3, <1>9, <2>2, <3>1, SMTT(30)
    <2>4. ~ (k < m)
        <3>1. k < m => start[k] + Len(s[k]) <= start[m]
            BY DEF Stream
        <3> QED
            BY <1>2, <1>3, <1>5, <1>9, <2>1, <2>2, <3>1, SMTT(30)
    <2>5. m = k
        <3>1. Len(fr) \in Nat /\ m \in Nat /\ k \in Nat
            OBVIOUS
        <3> QED
            BY <2>3, <2>4, <3>1
    <2> QED
        BY <1>5, <1>9, <2>1, <2>2, <2>5
<1>11. Decodes(t)
    <2>1. \A i \in 1..Len(bytes) :
             /\ bytes[i] = "m1" => i < Len(bytes) /\ bytes[i + 1] = "m2"
             /\ bytes[i] = "m2" /\ i > 1 => bytes[i - 1] = "m1"
        <3> SUFFICES ASSUME NEW i \in 1..Len(bytes)
                     PROVE  /\ bytes[i] = "m1" => i < Len(bytes) /\ bytes[i + 1] = "m2"
                            /\ bytes[i] = "m2" /\ i > 1 => bytes[i - 1] = "m1"
            OBVIOUS
        <3>1. i \in 1..Len(w) /\ w[i] = bytes[i]
            BY <1>1
        <3>2. /\ w[i] = "m1" => w[i + 1] = "m2"
              /\ w[i] = "m2" /\ i > 1 => w[i - 1] = "m1"
            BY <1>1, <3>1, Zenon DEF Stream
        <3>3. i < Len(bytes) => i + 1 \in 1..Len(bytes) /\ w[i + 1] = bytes[i + 1]
            BY <1>1
        <3>4. i > 1 => i - 1 \in 1..Len(bytes) /\ w[i - 1] = bytes[i - 1]
            BY <1>1
        <3>5. bytes[i] = "m1" => i < Len(bytes)
            <4>1. bytes # <<>>
                OBVIOUS
            <4> QED
                BY <4>1
        <3> QED
            BY <3>1, <3>2, <3>3, <3>4, <3>5
    <2>2. ASSUME NEW i \in 1..Len(t), t[i] = "m1"
          PROVE  i < Len(t) /\ t[i + 1] = "m2"
        <3>1. PICK p \in 1..Len(bytes) : p = o + i - 1
            BY <1>9
        <3>2. p < Len(bytes) /\ bytes[p + 1] = "m2"
            <4>1. bytes[p] = "m1"
                BY <1>9, <2>2, <3>1
            <4> QED
                BY <2>1, <4>1, Zenon
        <3>3. i + 1 \in 1..Len(t) /\ o + (i + 1) - 1 = p + 1
            BY <1>9, <3>1, <3>2
        <3>4. t[i + 1] = bytes[o + (i + 1) - 1]
            BY <1>9, <3>3
        <3> QED
            BY <3>2, <3>3, <3>4
    <2>3. ASSUME NEW i \in 1..Len(t), t[i] = "m2"
          PROVE  i > 1 /\ t[i - 1] = "m1"
        <3>1. PICK p \in 1..Len(bytes) : p = o + i - 1
            BY <1>9
        <3>2. bytes[p] = "m2"
            BY <1>9, <2>3, <3>1
        <3>3. p # o /\ p > 1
            BY <1>7, <1>9, <1>10, <3>1, <3>2
        <3>4. bytes[p - 1] = "m1"
            BY <2>1, <3>2, <3>3, Zenon
        <3>5. i - 1 \in 1..Len(t) /\ o + (i - 1) - 1 = p - 1
            BY <1>9, <3>1, <3>3
        <3>6. t[i - 1] = bytes[o + (i - 1) - 1]
            BY <1>9, <3>5
        <3> QED
            BY <3>4, <3>5, <3>6
    <2> QED
        BY <1>9, <2>2, <2>3, SMTT(30) DEF Decodes
<1>12. Closing(t) # {}
    <2>1. Len(s[k]) <= Len(t)
        BY <1>2, <1>3, <1>4, <1>5, <1>9, <1>10
    <2>2. ASSUME NEW i \in 1..Len(s[k])
          PROVE  t[i] = s[k][i]
        <3>1. i \in 1..Len(t)
            BY <1>2, <1>9, <2>1
        <3>2. t[i] = bytes[o + i - 1]
            BY <1>9, <3>1
        <3> QED
            BY <1>6, <1>10, <3>2
    <2> QED
        BY <1>2, <1>9, <2>1, <2>2, ObjectCloses
<1> QED
    BY <1>8, <1>11, <1>12 DEF Extractable, t

-------------------------------------------------------------------------------
(* The loop of feed                                                        *)

\* The last n bytes, and what the loop does with them, given what it does with fewer.
Ending(bytes, n) == SubSeq(bytes, Len(bytes) - n + 1, Len(bytes))

Loop(bytes, ofLast, n) ==
    IF Extractable(Ending(bytes, n))
    THEN [frames |-> <<First(Ending(bytes, n))>> \o ofLast[n - Consumed(Ending(bytes, n))].frames,
          rest |-> ofLast[n - Consumed(Ending(bytes, n))].rest]
    ELSE [frames |-> <<>>, rest |-> Ending(bytes, n)]

\* An extraction leaves fewer bytes, and these are the last ones.
LEMMA EndingFacts ==
    ASSUME NEW bytes \in Seq(Bytes), NEW n \in 0..Len(bytes)
    PROVE  /\ Ending(bytes, n) \in Seq(Bytes) /\ Len(Ending(bytes, n)) = n
           /\ Extractable(Ending(bytes, n)) =>
                 /\ n - Consumed(Ending(bytes, n)) \in 0..(n - 1)
                 /\ After(Ending(bytes, n)) = Ending(bytes, n - Consumed(Ending(bytes, n)))
<1> DEFINE left == Ending(bytes, n)
<1>1. /\ left \in Seq(Bytes) /\ Len(left) = n
      /\ \A i \in 1..n : left[i] = bytes[Len(bytes) - n + i]
    BY DEF Ending
<1> HIDE DEF left
<1>2. ASSUME Extractable(left)
      PROVE  /\ n - Consumed(left) \in 0..(n - 1)
             /\ After(left) = Ending(bytes, n - Consumed(left))
    <2>1. PICK c \in 1..n : c = Consumed(left)
        BY <1>1, <1>2, ExtractionFacts
    <2>2. After(left) = SubSeq(left, c + 1, n)
        BY <1>1, <2>1 DEF After
    <2>3. /\ After(left) \in Seq(Bytes) /\ Len(After(left)) = n - c
          /\ \A i \in 1..(n - c) : After(left)[i] = bytes[Len(bytes) - (n - c) + i]
        <3>1. /\ SubSeq(left, c + 1, n) \in Seq(Bytes) /\ Len(SubSeq(left, c + 1, n)) = n - c
              /\ \A i \in 1..(n - c) : SubSeq(left, c + 1, n)[i] = left[c + i]
            BY <1>1, <2>1, SMTT(30)
        <3>2. \A i \in 1..(n - c) : left[c + i] = bytes[Len(bytes) - (n - c) + i]
            <4> SUFFICES ASSUME NEW i \in 1..(n - c)
                         PROVE  left[c + i] = bytes[Len(bytes) - (n - c) + i]
                OBVIOUS
            <4>1. PICK p \in 1..n : p = c + i
                OBVIOUS
            <4>2. left[p] = bytes[Len(bytes) - n + p]
                BY <1>1, <4>1
            <4>3. Len(bytes) - n + p = Len(bytes) - (n - c) + i
                BY <4>1
            <4> QED
                BY <4>1, <4>2, <4>3
        <3> QED
            BY <2>2, <3>1, <3>2
    <2>4. PICK r \in 0..(n - 1) : r = n - c
        OBVIOUS
    <2>5. /\ Ending(bytes, r) \in Seq(Bytes) /\ Len(Ending(bytes, r)) = r
          /\ \A i \in 1..r : Ending(bytes, r)[i] = bytes[Len(bytes) - r + i]
        BY DEF Ending
    <2>6. After(left) = Ending(bytes, r)
        BY <2>3, <2>4, <2>5, SeqEqual
    <2> QED
        BY <2>1, <2>4, <2>6
<1> QED
    BY <1>1, <1>2 DEF left

\* The recursion of Extracted is well-founded: what the loop returns is the value of a
\* function that satisfies its equation.
LEMMA ExtractedEquation ==
    ASSUME NEW bytes \in Seq(Bytes)
    PROVE  \E ofLast : /\ Extracted(bytes) = ofLast[Len(bytes)]
                       /\ ofLast = [n \in 0..Len(bytes) |-> Loop(bytes, ofLast, n)]
<1> DEFINE Solves(k, g) == g = [n \in 0..k |-> Loop(bytes, g, n)]
           Bad == {k \in 0..Len(bytes) : ~ \E g : Solves(k, g)}
<1>1. \A n \in 0..Len(bytes) : \A g, h :
         (\A i \in 0..(n - 1) : g[i] = h[i]) => Loop(bytes, g, n) = Loop(bytes, h, n)
    BY EndingFacts DEF Loop
<1>2. ASSUME Bad # {}
      PROVE  FALSE
    <2>1. PICK k \in Bad : \A j \in Bad : k <= j
        <3>1. Bad \in SUBSET Nat
            OBVIOUS
        <3> HIDE DEF Bad
        <3> QED
            BY <1>2, <3>1, NatMin
    <2>2. k \in 0..Len(bytes) /\ k \in Nat
        BY <2>1
    <2>3. \E g : \A n \in 0..(k - 1) : g[n] = Loop(bytes, g, n)
        <3>1. CASE k = 0
            BY <3>1
        <3>2. CASE k # 0
            <4>1. k - 1 \in 0..Len(bytes) /\ k - 1 \notin Bad
                BY <2>1, <2>2, <3>2
            <4>2. PICK g : Solves(k - 1, g)
                BY <4>1
            <4> QED
                BY <4>2
        <3> QED
            BY <3>1, <3>2
    <2>4. PICK g : \A n \in 0..(k - 1) : g[n] = Loop(bytes, g, n)
        BY <2>3
    <2> DEFINE h == [n \in 0..k |-> IF n = k THEN Loop(bytes, g, k) ELSE g[n]]
    <2>5. \A n \in 0..(k - 1) : h[n] = g[n]
        BY <2>2
    <2>6. h[k] = Loop(bytes, g, k)
        BY <2>2
    <2>7. \A n \in 0..k : Loop(bytes, g, n) = Loop(bytes, h, n)
        <3> HIDE DEF h
        <3> SUFFICES ASSUME NEW n \in 0..k
                     PROVE  Loop(bytes, g, n) = Loop(bytes, h, n)
            OBVIOUS
        <3>1. n \in 0..Len(bytes) /\ \A i \in 0..(n - 1) : g[i] = h[i]
            BY <2>2, <2>5
        <3> QED
            BY <1>1, <3>1
    <2>8. \A n \in 0..k : h[n] = Loop(bytes, h, n)
        <3> HIDE DEF h
        <3> SUFFICES ASSUME NEW n \in 0..k
                     PROVE  h[n] = Loop(bytes, h, n)
            OBVIOUS
        <3>1. CASE n = k
            BY <2>6, <2>7, <3>1
        <3>2. CASE n # k
            <4>1. n \in 0..(k - 1)
                BY <2>2, <3>2
            <4> QED
                BY <2>4, <2>5, <2>7, <4>1
        <3> QED
            BY <3>1, <3>2
    <2>9. h = [n \in 0..k |-> Loop(bytes, h, n)]
        BY <2>8
    <2> HIDE DEF h
    <2>10. Solves(k, h)
        BY <2>9
    <2> QED
        BY <2>1, <2>10
<1>3. PICK g : Solves(Len(bytes), g)
    <2>1. Len(bytes) \in 0..Len(bytes)
        OBVIOUS
    <2> QED
        BY <1>2, <2>1
<1> DEFINE ofLast == CHOOSE f : Solves(Len(bytes), f)
<1>4. Solves(Len(bytes), ofLast)
    BY <1>3
<1>5. Extracted(bytes) = ofLast[Len(bytes)]
    BY DEF Extracted, Loop, Ending
<1> QED
    BY <1>4, <1>5

\* What feed has to make of the bytes left, with those of tail still to come: it stops
\* where nothing can be extracted, and what it returns are pieces of messages, and
\* the next messages in turn as long as the frames before were the first ones.
Handles(left, x, tail, s, after) ==
    /\ x.rest \in Seq(Bytes) /\ Len(x.rest) <= Len(left)
    /\ x.frames \in Seq(Seq(Bytes))
    /\ ~ Extractable(x.rest)
    /\ \A start : Stream(left \o tail, start, s, after) =>
          /\ \A i \in 1..Len(x.frames) : Within(x.frames[i], s)
          /\ \E moved :
                /\ Stream(x.rest \o tail, moved, s, after)
                /\ \A fr \in Seq(Seq(Bytes)) :
                      Progress(start, fr, s) => Progress(moved, fr \o x.frames, s)

\* Where nothing can be extracted, the loop ends.
LEMMA HandlesEnd ==
    ASSUME NEW s \in Seq(Messages), NEW left \in Seq(Bytes), NEW tail \in Seq(Bytes),
           NEW after, ~ Extractable(left)
    PROVE  Handles(left, [frames |-> <<>>, rest |-> left], tail, s, after)
<1> DEFINE x == [frames |-> <<>>, rest |-> left]
<1>1. x.frames = <<>> /\ x.rest = left
    OBVIOUS
<1>2. x.frames \in Seq(Seq(Bytes)) /\ Len(x.frames) = 0
    BY <1>1
<1>3. \A fr \in Seq(Seq(Bytes)) : fr \o x.frames = fr
    BY <1>1, ConcatEmptySeq
<1> HIDE DEF x
<1>4. ASSUME NEW start, Stream(left \o tail, start, s, after)
      PROVE  /\ \A i \in 1..Len(x.frames) : Within(x.frames[i], s)
             /\ \E moved :
                   /\ Stream(x.rest \o tail, moved, s, after)
                   /\ \A fr \in Seq(Seq(Bytes)) :
                         Progress(start, fr, s) => Progress(moved, fr \o x.frames, s)
    <2>1. Stream(x.rest \o tail, start, s, after)
        BY <1>1, <1>4
    <2>2. \A fr \in Seq(Seq(Bytes)) :
             Progress(start, fr, s) => Progress(start, fr \o x.frames, s)
        BY <1>3
    <2>3. \A i \in 1..Len(x.frames) : Within(x.frames[i], s)
        BY <1>2
    <2> QED
        BY <2>1, <2>2, <2>3
<1>5. Len(x.rest) <= Len(left) /\ x.rest \in Seq(Bytes) /\ ~ Extractable(x.rest)
    BY <1>1
<1> QED
    BY <1>2, <1>4, <1>5 DEF Handles, x

\* One round of the loop, and what the loop makes of the bytes behind the frame.
LEMMA HandlesRound ==
    ASSUME NEW s \in Seq(Messages), NEW left \in Seq(Bytes), NEW tail \in Seq(Bytes),
           NEW after, Extractable(left), NEW more, Handles(After(left), more, tail, s, after)
    PROVE  Handles(left, [frames |-> <<First(left)>> \o more.frames, rest |-> more.rest],
                   tail, s, after)
<1> DEFINE x == [frames |-> <<First(left)>> \o more.frames, rest |-> more.rest]
<1>1. x.frames = <<First(left)>> \o more.frames /\ x.rest = more.rest
    OBVIOUS
<1>2. /\ First(left) \in Seq(Bytes) /\ After(left) \in Seq(Bytes)
      /\ Len(After(left)) <= Len(left)
    BY ExtractionFacts
<1>3. /\ more.rest \in Seq(Bytes) /\ Len(more.rest) <= Len(After(left))
      /\ more.frames \in Seq(Seq(Bytes)) /\ ~ Extractable(more.rest)
    BY DEF Handles
<1>4. /\ <<First(left)>> \in Seq(Seq(Bytes)) /\ Len(<<First(left)>>) = 1
      /\ <<First(left)>>[1] = First(left)
    BY <1>2
<1>5. /\ x.frames \in Seq(Seq(Bytes)) /\ Len(x.frames) = 1 + Len(more.frames)
      /\ \A i \in 1..Len(x.frames) :
            x.frames[i] = IF i <= 1 THEN First(left) ELSE more.frames[i - 1]
    BY <1>1, <1>3, <1>4, ConcatProperties
<1>6. \A fr \in Seq(Seq(Bytes)) :
         /\ Append(fr, First(left)) \in Seq(Seq(Bytes))
         /\ Append(fr, First(left)) \o more.frames = fr \o x.frames
    <2> SUFFICES ASSUME NEW fr \in Seq(Seq(Bytes))
                 PROVE  /\ Append(fr, First(left)) \in Seq(Seq(Bytes))
                        /\ Append(fr, First(left)) \o more.frames = fr \o x.frames
        OBVIOUS
    <2>1. Append(fr, First(left)) = fr \o <<First(left)>>
        BY <1>2, AppendIsConcat
    <2>2. PICK one \in Seq(Seq(Bytes)) : one = <<First(left)>>
        BY <1>4
    <2>3. PICK others \in Seq(Seq(Bytes)) : others = more.frames
        BY <1>3
    <2>4. (fr \o one) \o others = fr \o (one \o others)
        BY ConcatAssociative, SMTT(30)
    <2>5. x.frames = one \o others /\ Append(fr, First(left)) = fr \o one
        BY <1>1, <2>1, <2>2, <2>3
    <2>6. Append(fr, First(left)) \in Seq(Seq(Bytes))
        BY <1>2
    <2> HIDE DEF x
    <2> QED
        BY <2>3, <2>4, <2>5, <2>6
<1> HIDE DEF x
<1>7. ASSUME NEW start, Stream(left \o tail, start, s, after)
      PROVE  /\ \A i \in 1..Len(x.frames) : Within(x.frames[i], s)
             /\ \E moved :
                   /\ Stream(x.rest \o tail, moved, s, after)
                   /\ \A fr \in Seq(Seq(Bytes)) :
                         Progress(start, fr, s) => Progress(moved, fr \o x.frames, s)
    <2>1. Within(First(left), s)
        BY <1>7, ExtractionKeeps
    <2>2. PICK next :
             /\ Stream(After(left) \o tail, next, s, after)
             /\ \A fr \in Seq(Seq(Bytes)) :
                   Progress(start, fr, s) => Progress(next, Append(fr, First(left)), s)
        BY <1>7, ExtractionKeeps
    <2>3. \A i \in 1..Len(more.frames) : Within(more.frames[i], s)
        BY <2>2 DEF Handles
    <2>4. PICK moved :
             /\ Stream(more.rest \o tail, moved, s, after)
             /\ \A fr \in Seq(Seq(Bytes)) :
                   Progress(next, fr, s) => Progress(moved, fr \o more.frames, s)
        BY <2>2 DEF Handles
    <2>5. ASSUME NEW i \in 1..Len(x.frames)
          PROVE  Within(x.frames[i], s)
        <3>1. CASE i = 1
            BY <1>5, <2>1, <3>1
        <3>2. CASE i # 1
            <4>1. PICK j \in 1..Len(more.frames) : j = i - 1
                BY <1>3, <1>5, <3>2
            <4>2. x.frames[i] = more.frames[j]
                BY <1>5, <3>2, <4>1, SMTT(30)
            <4> QED
                BY <2>3, <4>2
        <3> QED
            BY <3>1, <3>2
    <2>6. ASSUME NEW fr \in Seq(Seq(Bytes)), Progress(start, fr, s)
          PROVE  Progress(moved, fr \o x.frames, s)
        <3>1. Progress(next, Append(fr, First(left)), s)
            BY <2>2, <2>6
        <3>2. Progress(moved, Append(fr, First(left)) \o more.frames, s)
            BY <1>6, <2>4, <3>1
        <3> QED
            BY <1>6, <3>2
    <2>7. Stream(x.rest \o tail, moved, s, after)
        BY <1>1, <2>4
    <2> QED
        BY <2>5, <2>6, <2>7
<1>8. x.rest \in Seq(Bytes) /\ Len(x.rest) <= Len(left) /\ ~ Extractable(x.rest)
    BY <1>1, <1>2, <1>3
<1> QED
    BY <1>5, <1>7, <1>8 DEF Handles, x

\* The whole loop.
LEMMA ExtractedHandles ==
    ASSUME NEW s \in Seq(Messages), NEW bytes \in Seq(Bytes), NEW tail \in Seq(Bytes), NEW after
    PROVE  Handles(bytes, Extracted(bytes), tail, s, after)
<1>1. PICK ofLast : /\ Extracted(bytes) = ofLast[Len(bytes)]
                    /\ ofLast = [n \in 0..Len(bytes) |-> Loop(bytes, ofLast, n)]
    BY ExtractedEquation
<1>2. \A n \in 0..Len(bytes) : ofLast[n] = Loop(bytes, ofLast, n)
    BY <1>1
<1> DEFINE Bad == {n \in 0..Len(bytes) : ~ Handles(Ending(bytes, n), ofLast[n], tail, s, after)}
<1>3. ASSUME Bad # {}
      PROVE  FALSE
    <2>1. PICK n \in Bad : \A k \in Bad : n <= k
        <3>1. Bad \in SUBSET Nat
            OBVIOUS
        <3> HIDE DEF Bad
        <3> QED
            BY <1>3, <3>1, NatMin
    <2>2. n \in 0..Len(bytes) /\ ~ Handles(Ending(bytes, n), ofLast[n], tail, s, after)
        BY <2>1
    <2>3. Ending(bytes, n) \in Seq(Bytes)
        BY <2>2, EndingFacts
    <2>4. CASE ~ Extractable(Ending(bytes, n))
        <3>1. ofLast[n] = [frames |-> <<>>, rest |-> Ending(bytes, n)]
            BY <1>2, <2>2, <2>4 DEF Loop
        <3> QED
            BY <2>2, <2>3, <2>4, <3>1, HandlesEnd
    <2>5. CASE Extractable(Ending(bytes, n))
        <3>1. PICK r \in 0..(n - 1) :
                 r = n - Consumed(Ending(bytes, n)) /\ After(Ending(bytes, n)) = Ending(bytes, r)
            BY <2>2, <2>5, EndingFacts
        <3>2. r \in 0..Len(bytes) /\ r \notin Bad
            BY <2>1, <2>2, <3>1
        <3>3. Handles(After(Ending(bytes, n)), ofLast[r], tail, s, after)
            BY <3>1, <3>2
        <3>4. ofLast[n] = [frames |-> <<First(Ending(bytes, n))>> \o ofLast[r].frames,
                           rest |-> ofLast[r].rest]
            BY <1>2, <2>2, <2>5, <3>1 DEF Loop
        <3> QED
            BY <2>2, <2>3, <2>5, <3>3, <3>4, HandlesRound
    <2> QED
        BY <2>4, <2>5
<1>4. Len(bytes) \in 0..Len(bytes)
    OBVIOUS
<1>5. Handles(Ending(bytes, Len(bytes)), ofLast[Len(bytes)], tail, s, after)
    BY <1>3, <1>4
<1>6. Ending(bytes, Len(bytes)) = bytes
    <2>1. /\ Ending(bytes, Len(bytes)) \in Seq(Bytes)
          /\ Len(Ending(bytes, Len(bytes))) = Len(bytes)
          /\ \A i \in 1..Len(bytes) : Ending(bytes, Len(bytes))[i] = bytes[i]
        BY DEF Ending
    <2> QED
        BY <2>1, SeqEqual
<1> QED
    BY <1>1, <1>5, <1>6

-------------------------------------------------------------------------------
(* What the steps do to the stream                                         *)

\* The bytes of a buffer may all go.
LEMMA StreamDrop ==
    ASSUME NEW s \in Seq(Messages), NEW part \in Seq(Bytes), NEW tail \in Seq(Bytes),
           NEW start, NEW after, Stream(part \o tail, start, s, after)
    PROVE  \E moved : Stream(<<>> \o tail, moved, s, after)
<1>1. PICK w \in Seq(Bytes) : w = part \o tail /\ Len(w) = Len(part) + Len(tail)
    BY ConcatProperties
<1>2. PICK n \in 0..Len(part) : n = Len(part)
    OBVIOUS
<1>3. SubSeq(part, n + 1, Len(part)) = <<>>
    BY <1>2, SubSeqEmpty
<1>4. SubSeq(part, n + 1, Len(part)) \o tail = SubSeq(w, n + 1, Len(w))
    BY <1>1, CutConcat
<1>5. n \in 0..Len(w)
    BY <1>1, <1>2
<1>6. Stream(SubSeq(w, n + 1, Len(w)), [k \in 1..Len(s) |-> start[k] - n], s, after)
    BY <1>1, <1>5, StreamShift
<1> QED
    BY <1>3, <1>4, <1>6

\* The bytes that are taken from the air follow those of the buffer.
LEMMA StreamTaken ==
    ASSUME NEW part \in Seq(Bytes), NEW tail \in Seq(Bytes), NEW n \in 0..Len(tail)
    PROVE  /\ SubSeq(tail, 1, n) \in Seq(Bytes)
           /\ part \o SubSeq(tail, 1, n) \in Seq(Bytes)
           /\ SubSeq(tail, n + 1, Len(tail)) \in Seq(Bytes)
           /\ (part \o SubSeq(tail, 1, n)) \o SubSeq(tail, n + 1, Len(tail)) = part \o tail
<1>1. PICK taken \in Seq(Bytes) :
         /\ taken = SubSeq(tail, 1, n) /\ Len(taken) = n
         /\ \A i \in 1..n : taken[i] = tail[i]
    <2>1. SubSeq(tail, 1, n) \in Seq(Bytes) /\ Len(SubSeq(tail, 1, n)) = n
          /\ \A i \in 1..n : SubSeq(tail, 1, n)[i] = tail[i]
        OBVIOUS
    <2> QED
        BY <2>1
<1>2. PICK left \in Seq(Bytes) :
         /\ left = SubSeq(tail, n + 1, Len(tail)) /\ Len(left) = Len(tail) - n
         /\ \A i \in 1..(Len(tail) - n) : left[i] = tail[n + i]
    <2>1. SubSeq(tail, n + 1, Len(tail)) \in Seq(Bytes)
          /\ Len(SubSeq(tail, n + 1, Len(tail))) = Len(tail) - n
          /\ \A i \in 1..(Len(tail) - n) : SubSeq(tail, n + 1, Len(tail))[i] = tail[n + i]
        OBVIOUS
    <2> QED
        BY <2>1
<1>3. taken \o left = tail
    <2>1. /\ taken \o left \in Seq(Bytes) /\ Len(taken \o left) = Len(tail)
          /\ \A i \in 1..Len(tail) :
                (taken \o left)[i] = IF i <= n THEN taken[i] ELSE left[i - n]
        <3>1. /\ taken \o left \in Seq(Bytes) /\ Len(taken \o left) = Len(taken) + Len(left)
              /\ \A i \in 1..(Len(taken) + Len(left)) :
                    (taken \o left)[i] = IF i <= Len(taken) THEN taken[i] ELSE left[i - Len(taken)]
            BY ConcatProperties
        <3>2. Len(taken) = n /\ Len(left) = Len(tail) - n
            BY <1>1, <1>2
        <3>3. Len(taken) + Len(left) = Len(tail)
            BY <3>2
        <3> QED
            BY <3>1, <3>2, <3>3
    <2>2. ASSUME NEW i \in 1..Len(tail)
          PROVE  (taken \o left)[i] = tail[i]
        <3>1. CASE i <= n
            BY <1>1, <2>1, <3>1
        <3>2. CASE i > n
            <4>1. PICK j \in 1..(Len(tail) - n) : j = i - n
                BY <3>2
            <4>2. left[j] = tail[i]
                BY <1>2, <4>1
            <4>3. (taken \o left)[i] = left[i - n]
                BY <2>1, <3>2
            <4> QED
                BY <4>1, <4>2, <4>3
        <3>3. i <= n \/ i > n
            OBVIOUS
        <3> QED
            BY <3>1, <3>2, <3>3
    <2> QED
        BY <2>1, <2>2, SeqEqual
<1>4. (part \o taken) \o left = part \o (taken \o left)
    BY ConcatAssociative, SMTT(30)
<1>5. part \o taken \in Seq(Bytes)
    BY ConcatProperties
<1> QED
    BY <1>1, <1>2, <1>3, <1>4, <1>5

\* Characters of two bytes are whole.
LEMMA DecodesPairs ==
    ASSUME NEW text \in Seq(Bytes), Decodes(text)
    PROVE  \A i \in 1..Len(text) :
              /\ text[i] = "m1" => i < Len(text) /\ text[i + 1] = "m2"
              /\ text[i] = "m2" => i > 1 /\ text[i - 1] = "m1"
<1>1. DOMAIN text = 1..Len(text)
    OBVIOUS
<1> QED
    BY <1>1, Zenon DEF Decodes

\* A message that is sent begins behind everything that is under way, and behind the
\* noise before it.
LEMMA StreamSend ==
    ASSUME NEW s \in Seq(Messages), NEW w \in Seq(Bytes), NEW start, NEW after,
           Stream(w, start, s, after), NEW m \in Messages, NEW noise \in Noises,
           NEW more, more = [k \in 1..Len(Append(s, m)) |->
                                IF k <= Len(s) THEN after[k] + Len(noise) + Len(m) ELSE 0]
    PROVE  \E longer :
              /\ Stream((w \o noise) \o m, longer, Append(s, m), more)
              /\ \A fr \in Seq(Seq(Bytes)) :
                    Progress(start, fr, s) => Progress(longer, fr, Append(s, m))
<1> DEFINE wn == w \o noise
           z == wn \o m
           t == Append(s, m)
           K == Len(s) + 1
           B == Len(w) + Len(noise) + 1
           longer == [k \in 1..K |-> IF k <= Len(s) THEN start[k] ELSE B]
<1>1. /\ m \in Seq(Bytes) /\ IsObject(m) /\ Len(m) \in Nat /\ Len(m) >= 1
      /\ \A i \in 1..Len(m) :
            /\ m[i] = "m1" => i < Len(m) /\ m[i + 1] = "m2"
            /\ m[i] = "m2" => i > 1 /\ m[i - 1] = "m1"
    <2>1. IsObject(m)
        BY MessageAssumption
    <2>2. m \in Seq(Bytes) /\ m # <<>> /\ Decodes(m)
        BY <2>1 DEF IsObject
    <2>3. Len(m) \in Nat /\ Len(m) >= 1
        BY <2>2
    <2> QED
        BY <2>1, <2>2, <2>3, DecodesPairs
<1>2. /\ noise \in Seq(Bytes) /\ Len(noise) \in Nat
      /\ \A i \in 1..Len(noise) :
            /\ noise[i] \notin {"open", "q"}
            /\ noise[i] = "m1" => i < Len(noise) /\ noise[i + 1] = "m2"
            /\ noise[i] = "m2" => i > 1 /\ noise[i - 1] = "m1"
    <2>1. noise \in Seq(Bytes \ {"open", "q"}) /\ Decodes(noise)
        BY NoiseAssumption
    <2>2. noise \in Seq(Bytes)
        BY <2>1, SeqMonotonic
    <2>3. \A i \in 1..Len(noise) : noise[i] \in Bytes \ {"open", "q"}
        BY <2>1
    <2>4. \A i \in 1..Len(noise) :
            /\ noise[i] = "m1" => i < Len(noise) /\ noise[i + 1] = "m2"
            /\ noise[i] = "m2" => i > 1 /\ noise[i - 1] = "m1"
        BY <2>1, <2>2, DecodesPairs
    <2>5. Len(noise) \in Nat
        BY <2>2
    <2> QED
        BY <2>2, <2>3, <2>4, <2>5
<1>3. /\ wn \in Seq(Bytes) /\ Len(wn) = Len(w) + Len(noise)
      /\ \A i \in 1..(Len(w) + Len(noise)) :
            wn[i] = IF i <= Len(w) THEN w[i] ELSE noise[i - Len(w)]
    BY <1>2, ConcatProperties
<1>4. /\ z \in Seq(Bytes) /\ Len(z) = Len(wn) + Len(m)
      /\ \A i \in 1..(Len(wn) + Len(m)) : z[i] = IF i <= Len(wn) THEN wn[i] ELSE m[i - Len(wn)]
    BY <1>1, <1>3, ConcatProperties
<1>5. /\ Len(z) = B + Len(m) - 1 /\ B \in Nat /\ B >= Len(w) + 1
      /\ \A i \in 1..Len(w) : z[i] = w[i]
      /\ \A i \in 1..Len(noise) : z[Len(w) + i] = noise[i]
      /\ \A i \in 1..Len(m) : z[B + i - 1] = m[i]
    <2> HIDE DEF z, wn
    <2>1. Len(z) = B + Len(m) - 1 /\ B \in Nat /\ B >= Len(w) + 1
        BY <1>1, <1>2, <1>3, <1>4
    <2>2. ASSUME NEW i \in 1..Len(w)
          PROVE  z[i] = w[i]
        BY <1>1, <1>2, <1>3, <1>4
    <2>3. ASSUME NEW i \in 1..Len(noise)
          PROVE  z[Len(w) + i] = noise[i]
        <3>1. PICK p \in 1..(Len(w) + Len(noise)) : p = Len(w) + i
            BY <1>2
        <3>2. z[p] = wn[p]
            BY <1>1, <1>3, <1>4
        <3>3. wn[p] = noise[p - Len(w)] /\ p - Len(w) = i
            BY <1>3, <3>1
        <3> QED
            BY <3>1, <3>2, <3>3
    <2>4. ASSUME NEW i \in 1..Len(m)
          PROVE  z[B + i - 1] = m[i]
        <3>1. PICK p \in 1..(Len(wn) + Len(m)) : p = B + i - 1
            <4>1. B + i - 1 \in 1..(Len(wn) + Len(m))
                BY <1>1, <1>2, <1>3
            <4> QED
                BY <4>1
        <3>2. p > Len(wn) /\ p - Len(wn) = i
            BY <1>2, <1>3, <3>1
        <3>3. z[p] = m[p - Len(wn)]
            BY <1>3, <1>4, <3>2
        <3> QED
            BY <3>1, <3>2, <3>3
    <2> QED
        BY <2>1, <2>2, <2>3, <2>4
<1>6. \A i \in 1..Len(z) : \/ i \in 1..Len(w)
                           \/ \E j \in 1..Len(noise) : i = Len(w) + j
                           \/ \E j \in 1..Len(m) : i = B + j - 1
    <2> SUFFICES ASSUME NEW i \in 1..Len(z), i > Len(w)
                 PROVE  \/ \E j \in 1..Len(noise) : i = Len(w) + j
                        \/ \E j \in 1..Len(m) : i = B + j - 1
        BY SMTT(30)
    <2>1. CASE i <= Len(w) + Len(noise)
        <3>1. i - Len(w) \in 1..Len(noise) /\ i = Len(w) + (i - Len(w))
            BY <1>2, <2>1
        <3> QED
            BY <3>1
    <2>2. CASE i > Len(w) + Len(noise)
        <3>1. i - B + 1 \in 1..Len(m) /\ i = B + (i - B + 1) - 1
            BY <1>1, <1>2, <1>5, <2>2
        <3> QED
            BY <3>1
    <2> QED
        BY <1>2, <2>1, <2>2
<1>7. /\ t \in Seq(Messages) /\ Len(t) = K /\ t[K] = m /\ K \in Nat
      /\ \A k \in 1..Len(s) : t[k] = s[k]
    OBVIOUS
<1>8. \A k \in 1..Len(s) : /\ start[k] \in Int /\ Len(s[k]) \in Nat /\ after[k] \in Nat
                            /\ start[k] + Len(s[k]) + after[k] = Len(w) + 1
    BY SentObjects DEF Stream
<1>9. /\ longer \in [1..K -> Int] /\ longer[K] = B
      /\ \A k \in 1..Len(s) : longer[k] = start[k]
    BY <1>5, <1>8
<1>10. \A k \in 1..K : k = K \/ k \in 1..Len(s)
    OBVIOUS
<1>11. /\ \A k \in 1..Len(s) : start[k] + Len(s[k]) <= Len(w) + 1
       /\ \A j, k \in 1..Len(s) : j < k => start[j] + Len(s[j]) <= start[k]
    BY StreamEnds DEF Stream
<1>12. /\ more \in [1..K -> Nat] /\ more[K] = 0
        /\ \A k \in 1..Len(s) : more[k] = after[k] + Len(noise) + Len(m)
    <2>1. more = [k \in 1..K |-> IF k <= Len(s) THEN after[k] + Len(noise) + Len(m) ELSE 0]
        BY <1>7
    <2>2. K \in 1..K /\ ~ (K <= Len(s)) /\ \A k \in 1..Len(s) : k \in 1..K /\ k <= Len(s)
        BY <1>7
    <2>3. \A k \in 1..K : (IF k <= Len(s) THEN after[k] + Len(noise) + Len(m) ELSE 0) \in Nat
        <3> SUFFICES ASSUME NEW k \in 1..K
                     PROVE  (IF k <= Len(s) THEN after[k] + Len(noise) + Len(m) ELSE 0) \in Nat
            OBVIOUS
        <3>1. CASE k <= Len(s)
            <4>1. k \in 1..Len(s)
                BY <3>1
            <4>2. after[k] \in Nat
                BY <1>8, <4>1
            <4> QED
                BY <1>1, <1>2, <3>1, <4>2
        <3>2. CASE ~ (k <= Len(s))
            BY <3>2
        <3> QED
            BY <3>1, <3>2
    <2> HIDE DEF K
    <2> QED
        BY <2>1, <2>2, <2>3
<1> HIDE DEF z, wn, t, K, B, longer
<1>13. \A k \in 1..K : longer[k] + Len(t[k]) + more[k] = Len(z) + 1
    <2> SUFFICES ASSUME NEW k \in 1..K
                 PROVE  longer[k] + Len(t[k]) + more[k] = Len(z) + 1
        OBVIOUS
    <2>1. CASE k = K
        <3>1. longer[k] = B /\ t[k] = m /\ more[k] = 0
            BY <1>7, <1>9, <1>12, <2>1
        <3> QED
            BY <1>1, <1>5, <3>1
    <2>2. CASE k \in 1..Len(s)
        <3>1. longer[k] + Len(t[k]) + after[k] = Len(w) + 1
            <4>1. longer[k] = start[k] /\ t[k] = s[k]
                BY <1>7, <1>9, <2>2
            <4>2. start[k] + Len(s[k]) + after[k] = Len(w) + 1
                BY <1>8, <2>2
            <4> QED
                BY <4>1, <4>2
        <3>2. more[k] = after[k] + Len(noise) + Len(m) /\ B = Len(w) + Len(noise) + 1
            BY <1>12, <2>2 DEF B
        <3>3. longer[k] \in Int /\ Len(t[k]) \in Nat /\ after[k] \in Nat
            BY <1>7, <1>8, <1>9, <2>2
        <3>4. PICK b \in Int, l \in Nat, a \in Nat : b = longer[k] /\ l = Len(t[k]) /\ a = after[k]
            BY <3>3
        <3>5. b + l + a = Len(w) + 1 /\ more[k] = a + Len(noise) + Len(m)
            BY <3>1, <3>2, <3>4
        <3>6. Len(z) = Len(w) + Len(noise) + 1 + Len(m) - 1
            BY <1>5, <3>2
        <3>7. b + l + (a + Len(noise) + Len(m)) = Len(z) + 1
            <4>1. PICK g \in Nat, h \in Nat, v \in Nat : g = Len(noise) /\ h = Len(m) /\ v = Len(w)
                BY <1>1, <1>2
            <4>2. b + l + a = v + 1 /\ Len(z) = v + g + 1 + h - 1
                BY <3>5, <3>6, <4>1
            <4>3. b + l + (a + g + h) = Len(z) + 1
                BY <4>2
            <4> QED
                BY <4>1, <4>3
        <3>8. longer[k] + Len(t[k]) + more[k] = b + l + (a + Len(noise) + Len(m))
            BY <3>4, <3>5, Zenon
        <3> QED
            BY <3>7, <3>8
    <2> QED
        BY <1>10, <2>1, <2>2
<1>14. \A j, k \in 1..K : j < k => longer[j] + Len(t[j]) <= longer[k]
    <2> SUFFICES ASSUME NEW j \in 1..K, NEW k \in 1..K, j < k
                 PROVE  longer[j] + Len(t[j]) <= longer[k]
        OBVIOUS
    <2>1. j \in 1..Len(s)
        BY <1>7, <1>10
    <2>2. CASE k = K
        <3>1. start[j] + Len(s[j]) <= Len(w) + 1
            BY <1>11, <2>1
        <3>2. longer[j] = start[j] /\ t[j] = s[j] /\ longer[k] = B
            BY <1>7, <1>9, <2>1, <2>2
        <3>3. start[j] + Len(s[j]) \in Int /\ Len(w) \in Nat
            BY <1>8, <2>1
        <3> QED
            BY <1>5, <3>1, <3>2, <3>3
    <2>3. CASE k \in 1..Len(s)
        BY <1>7, <1>9, <1>11, <2>1, <2>3
    <2> QED
        BY <1>10, <2>2, <2>3
<1>15. ASSUME NEW i \in 1..Len(z), NEW k \in 1..K, Covers(longer, t, k, i)
       PROVE  z[i] = t[k][i - longer[k] + 1]
    <2>1. CASE k = K
        <3>1. B <= i /\ i < B + Len(m)
            BY <1>7, <1>9, <1>15, <2>1 DEF Covers
        <3>2. PICK j \in 1..Len(m) : j = i - B + 1
            BY <1>1, <1>5, <3>1
        <3>3. B + j - 1 = i /\ i - longer[k] + 1 = j
            BY <1>5, <1>9, <2>1, <3>2, SMTT(30)
        <3>4. z[B + j - 1] = m[j]
            BY <1>5
        <3> QED
            BY <1>7, <2>1, <3>3, <3>4
    <2>2. CASE k \in 1..Len(s)
        <3>1. Covers(start, s, k, i)
            BY <1>7, <1>9, <1>15, <2>2 DEF Covers
        <3>2. i \in 1..Len(w)
            <4>1. start[k] + Len(s[k]) <= Len(w) + 1
                BY <1>11, <2>2
            <4> QED
                BY <1>5, <1>8, <2>2, <3>1, <4>1 DEF Covers
        <3>3. w[i] = s[k][i - start[k] + 1]
            BY <2>2, <3>1, <3>2 DEF Stream
        <3> QED
            BY <1>5, <1>7, <1>9, <2>2, <3>2, <3>3
    <2> QED
        BY <1>10, <2>1, <2>2
<1>16. ASSUME NEW i \in 1..Len(z), z[i] \in {"open", "q"}
       PROVE  \E k \in 1..K : Covers(longer, t, k, i)
    <2>1. CASE i \in 1..Len(w)
        <3>1. PICK k \in 1..Len(s) : Covers(start, s, k, i)
            BY <1>5, <1>16, <2>1 DEF Stream
        <3>2. Covers(longer, t, k, i) /\ k \in 1..K
            BY <1>7, <1>9, <3>1 DEF Covers, K
        <3> QED
            BY <3>2
    <2>2. ASSUME NEW j \in 1..Len(noise), i = Len(w) + j
          PROVE  FALSE
        BY <1>2, <1>5, <1>16, <2>2
    <2>3. ASSUME NEW j \in 1..Len(m), i = B + j - 1
          PROVE  \E k \in 1..K : Covers(longer, t, k, i)
        <3>1. Covers(longer, t, K, i)
            BY <1>1, <1>5, <1>7, <1>9, <2>3 DEF Covers
        <3>2. K \in 1..K
            BY <1>7 DEF K
        <3> QED
            BY <3>1, <3>2
    <2> QED
        BY <1>6, <2>1, <2>2, <2>3
<1>17. ASSUME NEW i \in 1..Len(z)
       PROVE  /\ z[i] = "m1" => i < Len(z) /\ z[i + 1] = "m2"
              /\ z[i] = "m2" /\ i > 1 => z[i - 1] = "m1"
    <2>1. CASE i \in 1..Len(w)
        <3>1. /\ w[i] = "m1" => i < Len(w) /\ w[i + 1] = "m2"
              /\ w[i] = "m2" /\ i > 1 => w[i - 1] = "m1"
            BY <2>1 DEF Stream
        <3>2. i < Len(w) => i + 1 \in 1..Len(w) /\ i < Len(z)
            BY <1>1, <1>5, <2>1
        <3>3. i > 1 => i - 1 \in 1..Len(w)
            BY <2>1
        <3> QED
            BY <1>5, <2>1, <3>1, <3>2, <3>3
    <2>2. ASSUME NEW j \in 1..Len(noise), i = Len(w) + j
          PROVE  /\ z[i] = "m1" => i < Len(z) /\ z[i + 1] = "m2"
                 /\ z[i] = "m2" /\ i > 1 => z[i - 1] = "m1"
        <3>1. /\ noise[j] = "m1" => j < Len(noise) /\ noise[j + 1] = "m2"
              /\ noise[j] = "m2" => j > 1 /\ noise[j - 1] = "m1"
            BY <1>2
        <3>2. z[i] = noise[j]
            BY <1>5, <2>2
        <3>3. ASSUME j < Len(noise)
              PROVE  i < Len(z) /\ z[i + 1] = noise[j + 1]
            <4>1. PICK p \in 1..Len(noise) : p = j + 1
                BY <1>2, <3>3
            <4>2. Len(w) + p = i + 1
                BY <2>2, <4>1
            <4>3. z[Len(w) + p] = noise[p]
                BY <1>5
            <4>4. i < Len(z)
                BY <1>1, <1>2, <1>5, <2>2, <3>3 DEF B
            <4> QED
                BY <4>1, <4>2, <4>3, <4>4
        <3>4. ASSUME j > 1
              PROVE  z[i - 1] = noise[j - 1]
            <4>1. PICK p \in 1..Len(noise) : p = j - 1
                BY <1>2, <3>4
            <4>2. Len(w) + p = i - 1
                BY <2>2, <4>1
            <4>3. z[Len(w) + p] = noise[p]
                BY <1>5
            <4> QED
                BY <4>1, <4>2, <4>3
        <3> QED
            BY <3>1, <3>2, <3>3, <3>4
    <2>3. ASSUME NEW j \in 1..Len(m), i = B + j - 1
          PROVE  /\ z[i] = "m1" => i < Len(z) /\ z[i + 1] = "m2"
                 /\ z[i] = "m2" /\ i > 1 => z[i - 1] = "m1"
        <3>1. /\ m[j] = "m1" => j < Len(m) /\ m[j + 1] = "m2"
              /\ m[j] = "m2" => j > 1 /\ m[j - 1] = "m1"
            BY <1>1
        <3>2. z[i] = m[j]
            BY <1>5, <2>3
        <3>3. ASSUME j < Len(m)
              PROVE  i < Len(z) /\ z[i + 1] = m[j + 1]
            <4>1. PICK p \in 1..Len(m) : p = j + 1
                BY <1>1, <3>3
            <4>2. B + p - 1 = i + 1
                BY <1>5, <2>3, <4>1
            <4>3. z[B + p - 1] = m[p]
                BY <1>5
            <4>4. i < Len(z)
                BY <1>1, <1>5, <2>3, <3>3
            <4> QED
                BY <4>1, <4>2, <4>3, <4>4
        <3>4. ASSUME j > 1
              PROVE  z[i - 1] = m[j - 1]
            <4>1. PICK p \in 1..Len(m) : p = j - 1
                BY <1>1, <3>4
            <4>2. B + p - 1 = i - 1
                BY <1>5, <2>3, <4>1
            <4>3. z[B + p - 1] = m[p]
                BY <1>5
            <4> QED
                BY <4>1, <4>2, <4>3
        <3> QED
            BY <3>1, <3>2, <3>3, <3>4
    <2> QED
        BY <1>6, <2>1, <2>2, <2>3
<1>18. Stream(z, longer, t, more)
    BY <1>7, <1>9, <1>13, <1>12, <1>14, <1>15, <1>16, <1>17 DEF Stream
<1>19. ASSUME NEW fr \in Seq(Seq(Bytes)), Progress(start, fr, s)
       PROVE  Progress(longer, fr, t)
    <2>1. /\ Len(fr) \in Nat /\ Len(fr) <= Len(s)
          /\ \A k \in 1..Len(s) :
                /\ k <= Len(fr) => fr[k] = s[k] /\ start[k] + Len(s[k]) <= 1
                /\ k > Len(fr) => start[k] >= 1
        BY <1>19 DEF Progress
    <2>2. ASSUME NEW k \in 1..K
          PROVE  IF k <= Len(fr) THEN fr[k] = t[k] /\ longer[k] + Len(t[k]) <= 1
                                 ELSE longer[k] >= 1
        <3>1. CASE k = K
            BY <1>5, <1>9, <2>1, <3>1 DEF K
        <3>2. CASE k \in 1..Len(s)
            <4>1. longer[k] = start[k] /\ t[k] = s[k]
                BY <1>7, <1>9, <3>2
            <4>2. k <= Len(fr) \/ k > Len(fr)
                BY <2>1, <3>2
            <4> QED
                BY <2>1, <3>2, <4>1, <4>2
        <3> QED
            BY <1>10, <3>1, <3>2
    <2>3. Len(fr) <= Len(t)
        BY <1>7, <2>1 DEF K
    <2> QED
        BY <1>7, <2>2, <2>3 DEF Progress
<1> QED
    BY <1>18, <1>19 DEF z, wn, t

\* How the bytes of a message that is sent are grouped does not matter.
LEMMA Regroup ==
    ASSUME NEW a \in Seq(Bytes), NEW b \in Seq(Bytes), NEW c \in Seq(Bytes), NEW d \in Seq(Bytes),
           NEW w, w = a \o b, NEW cd, cd = (b \o c) \o d
    PROVE  (w \o c) \o d = a \o cd /\ cd \in Seq(Bytes)
<1>1. PICK bc \in Seq(Bytes) : bc = b \o c
    BY ConcatProperties
<1>2. w \o c = a \o bc
    <2>1. (a \o b) \o c = a \o (b \o c)
        BY ConcatAssociative, SMTT(30)
    <2> QED
        BY <1>1, <2>1
<1>3. (a \o bc) \o d = a \o (bc \o d)
    OBVIOUS
<1>4. bc \o d \in Seq(Bytes)
    BY ConcatProperties
<1>5. cd = bc \o d
    BY <1>1
<1> QED
    BY <1>2, <1>3, <1>4, <1>5

\* A frame that is a piece of a message stays one when another message is sent.
LEMMA WithinGrows ==
    ASSUME NEW s \in Seq(Messages), NEW m \in Messages, NEW f, Within(f, s)
    PROVE  Within(f, Append(s, m))
<1> SUFFICES ASSUME Head(f) = "open"
             PROVE  \E k \in 1..Len(Append(s, m)) :
                        \E i \in 1..(Len(Append(s, m)[k]) - Len(f) + 1) :
                            f = SubSeq(Append(s, m)[k], i, i + Len(f) - 1)
    BY DEF Within
<1>1. PICK k \in 1..Len(s) : \E i \in 1..(Len(s[k]) - Len(f) + 1) :
                                  f = SubSeq(s[k], i, i + Len(f) - 1)
    BY DEF Within
<1>2. k \in 1..Len(Append(s, m)) /\ Append(s, m)[k] = s[k]
    OBVIOUS
<1> QED
    BY <1>1, <1>2

-------------------------------------------------------------------------------
(* The invariant                                                           *)

\* Nothing in the buffer can be extracted, the frames that begin with a brace that opens
\* an object are pieces of messages, and what the buffer holds and the air carries is a
\* stream of the messages, of which the frames are the first ones unless bytes were
\* dropped.
FrameInv ==
    /\ TypeOK
    /\ ~ Extractable(buffer)
    /\ \A i \in 1..Len(frames) : Within(frames[i], sent)
    /\ \E start :
          /\ Stream(buffer \o air, start, sent, later)
          /\ ~ dropped => Progress(start, frames, sent)

\* An empty buffer holds nothing to extract.
LEMMA EmptyHoldsNothing == ~ Extractable(<<>>)
BY DEF Extractable, Opening

\* The invariant holds when a session begins.
LEMMA FrameInvInit == Init => FrameInv
<1> SUFFICES ASSUME Init
             PROVE  FrameInv
    OBVIOUS
<1> USE DEF Init
<1>1. TypeOK
    <2>1. sent \in Seq(Messages) /\ frames \in Seq(Seq(Bytes)) /\ later \in [1..Len(sent) -> Nat]
        BY EmptySeq
    <2>2. air \in Seq(Bytes) /\ buffer \in Seq(Bytes) /\ Len(buffer) = 0
        BY EmptySeq
    <2>3. Len(buffer) <= Limit
        BY <2>2, BoundAssumption
    <2> QED
        BY <2>1, <2>2, <2>3 DEF TypeOK
<1>2. ~ Extractable(buffer)
    BY EmptyHoldsNothing
<1>3. \A i \in 1..Len(frames) : Within(frames[i], sent)
    OBVIOUS
<1> DEFINE start == [k \in 1..Len(sent) |-> 0]
<1>4. buffer \o air = <<>> /\ Len(sent) = 0 /\ Len(frames) = 0
    OBVIOUS
<1>5. Stream(buffer \o air, start, sent, later)
    <2>1. Len(buffer \o air) = 0 /\ later \in [1..Len(sent) -> Nat]
        BY <1>4
    <2>2. start \in [1..Len(sent) -> Int]
        OBVIOUS
    <2> HIDE DEF start
    <2> QED
        BY <1>4, <2>1, <2>2 DEF Stream
<1>6. Progress(start, frames, sent)
    BY <1>4 DEF Progress
<1> QED
    BY <1>1, <1>2, <1>3, <1>5, <1>6 DEF FrameInv

\* Every step of the unit, of the radio and of the session keeps it.
LEMMA FrameInvNext == FrameInv /\ [Next]_vars => FrameInv'
<1> SUFFICES ASSUME FrameInv, [Next]_vars
             PROVE  FrameInv'
    OBVIOUS
<1>1. /\ sent \in Seq(Messages) /\ air \in Seq(Bytes) /\ buffer \in Seq(Bytes)
      /\ Len(buffer) <= Limit /\ frames \in Seq(Seq(Bytes)) /\ dropped \in BOOLEAN
      /\ phase \in {"open", "closing", "closed"} /\ later \in [1..Len(sent) -> Nat]
    BY DEF FrameInv, TypeOK
<1>2. /\ ~ Extractable(buffer)
      /\ \A i \in 1..Len(frames) : Within(frames[i], sent)
    BY DEF FrameInv
<1>3. PICK start : /\ Stream(buffer \o air, start, sent, later)
                   /\ ~ dropped => Progress(start, frames, sent)
    BY DEF FrameInv
<1>4. PICK w \in Seq(Bytes) : w = buffer \o air
    BY <1>1, ConcatProperties
<1>5. CASE Send
    <2>1. PICK m \in Messages, noise \in Noises :
             /\ sent' = Append(sent, m) /\ air' = (air \o noise) \o m
             /\ later' = [k \in 1..Len(sent') |->
                             IF k <= Len(sent) THEN later[k] + Len(noise) + Len(m) ELSE 0]
        BY <1>5 DEF Send
    <2>2. UNCHANGED <<buffer, frames, dropped, phase>>
        BY <1>5 DEF Send
    <2>3. PICK longer :
             /\ Stream((w \o noise) \o m, longer, sent', later')
             /\ \A fr \in Seq(Seq(Bytes)) :
                   Progress(start, fr, sent) => Progress(longer, fr, sent')
        BY <1>1, <1>3, <1>4, <2>1, StreamSend
    <2>4. noise \in Seq(Bytes) /\ m \in Seq(Bytes)
        <3>1. noise \in Seq(Bytes \ {"open", "q"}) /\ IsObject(m)
            BY MessageAssumption, NoiseAssumption
        <3> QED
            BY <3>1, SeqMonotonic DEF IsObject
    <2>5. (w \o noise) \o m = buffer \o air' /\ air' \in Seq(Bytes)
        <3>1. PICK b0 \in Seq(Bytes), a0 \in Seq(Bytes) : b0 = buffer /\ a0 = air
            BY <1>1
        <3>2. PICK joined : joined = (a0 \o noise) \o m
            OBVIOUS
        <3>3. w = b0 \o a0
            BY <1>4, <3>1
        <3>4. (w \o noise) \o m = b0 \o joined /\ joined \in Seq(Bytes)
            BY <2>4, <3>2, <3>3, Regroup, SMTT(30)
        <3>5. air' = joined
            BY <2>1, <3>1, <3>2
        <3> QED
            BY <3>1, <3>4, <3>5
    <2>6. TypeOK'
        <3>1. sent' \in Seq(Messages) /\ later' \in [1..Len(sent') -> Nat]
            BY <1>1, <2>1, <2>3 DEF Stream
        <3> QED
            BY <1>1, <2>2, <2>5, <3>1 DEF TypeOK
    <2>7. \A i \in 1..Len(frames) : Within(frames[i], sent')
        BY <1>1, <1>2, <2>1, WithinGrows
    <2>8. Stream(buffer' \o air', longer, sent', later')
        BY <2>2, <2>3, <2>5
    <2>9. ~ dropped' => Progress(longer, frames', sent')
        BY <1>1, <1>3, <2>2, <2>3
    <2> QED
        BY <1>2, <2>2, <2>6, <2>7, <2>8, <2>9 DEF FrameInv
<1>6. CASE Feed
    <2>1. PICK n \in 1..MaxChunk :
             /\ n <= Len(air)
             /\ air' = SubSeq(air, n + 1, Len(air))
             /\ LET bytes == buffer \o SubSeq(air, 1, n) IN
                   IF TooLong(bytes)
                   THEN Discard
                   ELSE /\ buffer' = Extracted(bytes).rest
                        /\ frames' = frames \o Extracted(bytes).frames
                        /\ UNCHANGED dropped
        BY <1>6 DEF Feed
    <2>2. UNCHANGED <<sent, later, phase>>
        BY <1>6 DEF Feed
    <2>3. n \in 0..Len(air)
        BY <1>1, <2>1, BoundAssumption
    <2>4. PICK bytes \in Seq(Bytes) :
             /\ bytes = buffer \o SubSeq(air, 1, n)
             /\ air' \in Seq(Bytes)
             /\ bytes \o air' = buffer \o air
        BY <1>1, <2>1, <2>3, StreamTaken
    <2>5. Stream(bytes \o air', start, sent, later)
        BY <1>3, <2>4
    <2>6. CASE TooLong(bytes)
        <3>1. buffer' = <<>> /\ dropped' = TRUE /\ frames' = frames
            BY <2>1, <2>4, <2>6 DEF Discard
        <3>2. PICK moved : Stream(<<>> \o air', moved, sent, later)
            BY <1>1, <2>4, <2>5, StreamDrop
        <3>3. TypeOK'
            BY <1>1, <2>2, <2>4, <3>1, BoundAssumption, EmptySeq DEF TypeOK
        <3> QED
            BY <1>2, <2>2, <3>1, <3>2, <3>3, EmptyHoldsNothing DEF FrameInv
    <2>7. CASE ~ TooLong(bytes)
        <3>1. /\ buffer' = Extracted(bytes).rest
              /\ frames' = frames \o Extracted(bytes).frames
              /\ dropped' = dropped
            BY <2>1, <2>4, <2>7
        <3>2. Handles(bytes, Extracted(bytes), air', sent, later)
            BY <1>1, <2>4, ExtractedHandles
        <3>3. /\ buffer' \in Seq(Bytes) /\ Len(buffer') <= Len(bytes) /\ ~ Extractable(buffer')
              /\ Extracted(bytes).frames \in Seq(Seq(Bytes))
            BY <3>1, <3>2 DEF Handles
        <3>4. /\ \A i \in 1..Len(Extracted(bytes).frames) : Within(Extracted(bytes).frames[i], sent)
              /\ \E moved :
                    /\ Stream(Extracted(bytes).rest \o air', moved, sent, later)
                    /\ \A fr \in Seq(Seq(Bytes)) :
                          Progress(start, fr, sent)
                             => Progress(moved, fr \o Extracted(bytes).frames, sent)
            BY <2>5, <3>2 DEF Handles
        <3>5. PICK new \in Seq(Seq(Bytes)) : new = Extracted(bytes).frames
            BY <3>3
        <3>6. PICK moved :
                 /\ Stream(buffer' \o air', moved, sent, later)
                 /\ \A fr \in Seq(Seq(Bytes)) :
                       Progress(start, fr, sent) => Progress(moved, fr \o new, sent)
            BY <3>1, <3>4, <3>5
        <3>7. /\ frames' = frames \o new /\ frames' \in Seq(Seq(Bytes))
              /\ Len(frames') = Len(frames) + Len(new)
              /\ \A i \in 1..(Len(frames) + Len(new)) :
                    frames'[i] = IF i <= Len(frames) THEN frames[i] ELSE new[i - Len(frames)]
            BY <1>1, <3>1, <3>5, ConcatProperties
        <3>8. ASSUME NEW i \in 1..Len(frames')
              PROVE  Within(frames'[i], sent)
            <4>1. CASE i <= Len(frames)
                BY <1>1, <1>2, <3>7, <4>1
            <4>2. CASE i > Len(frames)
                <5>1. PICK j \in 1..Len(new) : j = i - Len(frames)
                    <6>1. /\ Len(frames) \in Nat /\ Len(new) \in Nat
                          /\ i \in 1..(Len(frames) + Len(new))
                        BY <1>1, <3>7
                    <6>2. i - Len(frames) \in 1..Len(new)
                        BY <4>2, <6>1
                    <6> QED
                        BY <6>2
                <5>2. frames'[i] = new[j]
                    BY <1>1, <3>7, <4>2, <5>1
                <5> QED
                    BY <3>4, <3>5, <5>2
            <4>3. i <= Len(frames) \/ i > Len(frames)
                BY <1>1, <3>7
            <4> QED
                BY <4>1, <4>2, <4>3
        <3>9. TypeOK'
            <4>1. Len(bytes) <= Limit
                BY <2>4, <2>7, BoundAssumption DEF TooLong
            <4>2. Len(buffer') <= Limit
                BY <2>4, <3>3, <4>1, BoundAssumption
            <4> QED
                BY <1>1, <2>2, <2>4, <3>1, <3>3, <3>7, <4>2 DEF TypeOK
        <3>10. ~ dropped' => Progress(moved, frames', sent')
            BY <1>1, <1>3, <2>2, <3>1, <3>6, <3>7
        <3> QED
            BY <2>2, <3>3, <3>6, <3>8, <3>9, <3>10 DEF FrameInv
    <2> QED
        BY <2>6, <2>7
<1>7. CASE Reset
    <2>1. /\ phase' = "closing" /\ buffer' = <<>> /\ dropped' = (dropped \/ buffer # <<>>)
          /\ UNCHANGED <<sent, later, air, frames>>
        BY <1>7 DEF Reset
    <2>2. TypeOK'
        BY <1>1, <2>1, BoundAssumption, EmptySeq DEF TypeOK
    <2>3. CASE buffer = <<>>
        BY <1>2, <1>3, <2>1, <2>2, <2>3 DEF FrameInv
    <2>4. CASE buffer # <<>>
        <3>1. PICK moved : Stream(<<>> \o air, moved, sent, later)
            BY <1>1, <1>3, StreamDrop
        <3>2. dropped'
            BY <2>1, <2>4
        <3> QED
            BY <1>2, <2>1, <2>2, <3>1, <3>2, EmptyHoldsNothing DEF FrameInv
    <2> QED
        BY <2>3, <2>4
<1>8. CASE StopNotifyReturns
    BY <1>1, <1>2, <1>3, <1>8 DEF StopNotifyReturns, FrameInv, TypeOK
<1>9. CASE UNCHANGED vars
    BY <1>1, <1>2, <1>3, <1>9 DEF vars, FrameInv, TypeOK
<1> QED
    BY <1>5, <1>6, <1>7, <1>8, <1>9 DEF Next

\* The inductive invariant: however often feed is called and wherever the bytes are cut,
\* the buffer of JsonFrameAssembler holds the start of what the unit still has to say.
THEOREM FrameInvariant == Spec => []FrameInv
BY FrameInvInit, FrameInvNext, PTL DEF Spec

-------------------------------------------------------------------------------
(* The properties                                                          *)

\* Every variable keeps its type; the buffer never exceeds MAX_FRAME_BUFFER_BYTES.
THEOREM TypeCorrect == Spec => []TypeOK
<1>1. FrameInv => TypeOK
    BY DEF FrameInv
<1> QED
    BY <1>1, FrameInvariant, PTL

\* The frames that feed returns are the messages, in order, each once, until bytes are
\* dropped.
THEOREM FramesInOrder == Spec => []InOrder
<1>1. ASSUME FrameInv, ~ dropped
      PROVE  IsPrefix(frames, sent)
    <2>1. sent \in Seq(Messages) /\ frames \in Seq(Seq(Bytes))
        BY <1>1 DEF FrameInv, TypeOK
    <2>2. PICK start : Progress(start, frames, sent)
        BY <1>1 DEF FrameInv
    <2>3. /\ Len(frames) <= Len(sent)
          /\ \A k \in 1..Len(sent) : k <= Len(frames) => frames[k] = sent[k]
        BY <2>2 DEF Progress
    <2>4. SubSeq(frames, 1, Len(frames)) = SubSeq(sent, 1, Len(frames))
        <3>1. PICK n \in Nat : n = Len(frames)
            BY <2>1
        <3>2. \A k \in 1..n : frames[k] = sent[k]
            BY <2>1, <2>3, <3>1
        <3>3. /\ SubSeq(frames, 1, n) = [k \in 1..n |-> frames[k]]
              /\ SubSeq(sent, 1, n) = [k \in 1..n |-> sent[k]]
            BY <2>1, <2>3, <3>1
        <3> QED
            BY <3>1, <3>2, <3>3
    <2> QED
        BY <2>3, <2>4 DEF IsPrefix
<1>2. FrameInv => InOrder
    BY <1>1 DEF InOrder
<1> QED
    BY <1>2, FrameInvariant, PTL

\* Every message whose last byte has arrived has been returned, until bytes are dropped:
\* feed leaves no whole object in the buffer, unless the buffer ends inside a character.
THEOREM NoneHeldBack == Spec => []NothingHeldBack
<1>1. ASSUME FrameInv, ~ dropped, ~ CutInCharacter, NEW a \in DOMAIN sent, Arrived(a),
             ~ (a <= Len(frames))
      PROVE  FALSE
    <2>1. /\ sent \in Seq(Messages) /\ frames \in Seq(Seq(Bytes)) /\ buffer \in Seq(Bytes)
          /\ air \in Seq(Bytes) /\ ~ Extractable(buffer)
        BY <1>1 DEF FrameInv, TypeOK
    <2>2. PICK start : Stream(buffer \o air, start, sent, later) /\ Progress(start, frames, sent)
        BY <1>1 DEF FrameInv
    <2>3. PICK k \in 1..Len(sent) : k = Len(frames) + 1 /\ a \in 1..Len(sent) /\ k <= a
        <3>1. Len(frames) \in Nat /\ Len(sent) \in Nat /\ a \in 1..Len(sent)
            BY <2>1
        <3>2. Len(frames) + 1 \in 1..Len(sent) /\ Len(frames) + 1 <= a
            BY <1>1, <3>1
        <3> QED
            BY <3>1, <3>2
    <2>4. Len(air) <= later[k]
        <3>1. later[a] <= later[k]
            <4>1. PICK w \in Seq(Bytes) : w = buffer \o air
                BY <2>1, ConcatProperties
            <4>2. k < a => later[a] <= later[k]
                BY <2>1, <2>2, <2>3, <4>1, StreamEnds
            <4>3. later[a] \in Nat /\ later[k] \in Nat
                BY <2>2, <2>3 DEF Stream
            <4> QED
                BY <2>3, <4>2, <4>3
        <3>2. later[a] \in Nat /\ later[k] \in Nat /\ Len(air) <= later[a]
            BY <1>1, <2>2, <2>3 DEF Stream, Arrived
        <3> QED
            BY <2>1, <3>1, <3>2
    <2>5. buffer # <<>> => buffer[Len(buffer)] # "m1"
        BY <1>1, <2>1 DEF CutInCharacter, Last
    <2> QED
        BY <2>1, <2>2, <2>3, <2>4, <2>5, WholeIsExtractable
<1>2. FrameInv => NothingHeldBack
    BY <1>1 DEF NothingHeldBack
<1> QED
    BY <1>2, FrameInvariant, PTL

\* Even after the buffer was emptied with bytes in it, a frame that begins with a brace
\* which opens an object is a piece of one message, whatever texts raw_decode accepts
\* from a brace inside a string.
THEOREM WithinOne == Spec => []WithinOneMessage
<1>1. ASSUME FrameInv
      PROVE  WithinOneMessage
    <2>1. DOMAIN frames = 1..Len(frames) /\ DOMAIN sent = 1..Len(sent)
        BY <1>1 DEF FrameInv, TypeOK
    <2>2. \A i \in 1..Len(frames) : Within(frames[i], sent)
        BY <1>1 DEF FrameInv
    <2> QED
        BY <2>1, <2>2 DEF WithinOneMessage, Within
<1> QED
    BY <1>1, FrameInvariant, PTL
===============================================================================
