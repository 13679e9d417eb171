---------------------------- MODULE FrameAssembler ----------------------------
(***************************************************************************)
(* Reassembly of JSON objects from notifications                           *)
(* (src/custom_components/jackery/protocol.py, JsonFrameAssembler) within  *)
(* one session (_send_commands of ble_client.py).                          *)
(*                                                                         *)
(* The unit sends messages, each one a JSON object; the radio cuts the     *)
(* stream of their bytes anywhere.  Of a byte this matters:                *)
(*   "open" "close"   it opens or closes an object of its message          *)
(*   "q"              the byte of an opening brace inside a string         *)
(*   "m1" "m2"        the first and the second byte of one character       *)
(* The others only tell texts apart.                                       *)
(*                                                                         *)
(* raw_decode may also be called at a brace inside a string, when the      *)
(* bytes before it are lost.  What begins there is hardly ever an object,  *)
(* but it may be one: {",":":1}{"} is, which {"a":"{",":":1} followed by   *)
(* {"}":2} contains.  Which texts are is a constant (Strays).              *)
(***************************************************************************)
EXTENDS Integers, Sequences, FiniteSets, FiniteSetsExt, SequencesExt

CONSTANTS
    Others,         \* the other bytes
    Strays,         \* the JSON objects that begin at a brace inside a string
    Messages,       \* what the unit may send: sequences of bytes
    Noises,         \* what it may send before a message: sequences of bytes
    MaxMessages,    \* bound: messages in a session
    MaxChunk,       \* longest payload of a notification
    Limit           \* MAX_FRAME_BUFFER_BYTES

VARIABLES
    sent,           \* the messages handed to the radio
    later,          \* history: how many bytes were sent after each of them
    air,            \* bytes that are not delivered yet
    buffer,         \* self._buffer
    frames,         \* every frame the assembler returned
    dropped,        \* the buffer was emptied with bytes in it
    phase           \* open, closing (stop_notify is awaited) or closed

vars == <<sent, later, air, buffer, frames, dropped, phase>>

Bytes == {"open", "close", "q", "m1", "m2"} \cup Others

TypeOK ==
    /\ sent \in Seq(Messages)
    /\ later \in [1..Len(sent) -> Nat]
    /\ air \in Seq(Bytes)
    /\ buffer \in Seq(Bytes) /\ Len(buffer) <= Limit
    /\ frames \in Seq(Seq(Bytes))
    /\ dropped \in BOOLEAN
    /\ phase \in {"open", "closing", "closed"}

Init ==
    /\ sent = <<>>
    /\ later = <<>>
    /\ air = <<>>
    /\ buffer = <<>>
    /\ frames = <<>>
    /\ dropped = FALSE
    /\ phase = "open"

-------------------------------------------------------------------------------
(* _try_extract_one                                                        *)

\* Where the search for an opening brace, which knows no strings, stops.
Opening(bytes) == {i \in DOMAIN bytes : bytes[i] \in {"open", "q"}}
Text(bytes) == SubSeq(bytes, Min(Opening(bytes)), Len(bytes))

\* All that follows the brace must be UTF-8, whole characters to the end.
Decodes(text) ==
    /\ \A i \in DOMAIN text : text[i] = "m1" => i < Len(text) /\ text[i + 1] = "m2"
    /\ \A i \in DOMAIN text : text[i] = "m2" => i > 1 /\ text[i - 1] = "m1"

Depth(text, n) ==
    Cardinality({i \in 1..n : text[i] = "open"}) - Cardinality({i \in 1..n : text[i] = "close"})

\* Where raw_decode finds an object at the start of the text to end, if it finds one.
Closing(text) ==
    IF Head(text) = "q"
    THEN {n \in DOMAIN text : SubSeq(text, 1, n) \in Strays}
    ELSE {n \in DOMAIN text : Depth(text, n) = 0}

Extractable(bytes) ==
    /\ Opening(bytes) # {}
    /\ Decodes(Text(bytes))
    /\ Closing(Text(bytes)) # {}

First(bytes) == SubSeq(Text(bytes), 1, Min(Closing(Text(bytes))))

\* Mutant: what is consumed is counted in characters.
ConsumedCharacters(bytes) ==
    Min(Opening(bytes)) - 1 + Len(SelectSeq(First(bytes), LAMBDA b : b # "m2"))

Consumed(bytes) == Min(Opening(bytes)) - 1 + Len(First(bytes))

After(bytes) == SubSeq(bytes, Consumed(bytes) + 1, Len(bytes))

\* Mutant: one frame of a chunk is enough.
ExtractedOnce(bytes) ==
    IF Extractable(bytes)
    THEN [frames |-> <<First(bytes)>>, rest |-> After(bytes)]
    ELSE [frames |-> <<>>, rest |-> bytes]

\* The loop of feed: every frame the bytes hold, and the bytes that remain.
Extracted(bytes) ==
    LET ofLast[n \in 0..Len(bytes)] ==     \* of the last n bytes
            LET left == SubSeq(bytes, Len(bytes) - n + 1, Len(bytes)) IN
                IF Extractable(left)
                THEN LET more == ofLast[n - Consumed(left)]
                     IN  [frames |-> <<First(left)>> \o more.frames, rest |-> more.rest]
                ELSE [frames |-> <<>>, rest |-> left]
    IN  ofLast[Len(bytes)]

-------------------------------------------------------------------------------

\* A message is one JSON object: its first byte opens it and its last closes it.
IsObject(m) ==
    /\ m \in Seq(Bytes) /\ m # <<>> /\ Head(m) = "open"
    /\ Decodes(m)
    /\ Depth(m, Len(m)) = 0
    /\ \A n \in 1..(Len(m) - 1) : Depth(m, n) > 0

ASSUME ByteAssumption == Others \cap {"open", "close", "q", "m1", "m2"} = {}

\* raw_decode stops where the object ends: none is the beginning of another.
ASSUME StrayAssumption ==
    /\ \A x \in Strays : x \in Seq(Bytes) /\ x # <<>> /\ Head(x) = "q"
    /\ \A x, y \in Strays : ~IsStrictPrefix(x, y)

ASSUME MessageAssumption == \A m \in Messages : IsObject(m)

\* What stands between the messages is text without an opening brace.
ASSUME NoiseAssumption ==
    \A n \in Noises : n \in Seq(Bytes \ {"open", "q"}) /\ Decodes(n)

ASSUME BoundAssumption == MaxMessages \in Nat /\ MaxChunk \in Nat /\ Limit \in Nat

Send ==
    /\ phase # "closed"
    /\ Len(sent) < MaxMessages
    /\ \E m \in Messages, noise \in Noises :
          /\ sent' = Append(sent, m)
          /\ later' = [k \in 1..Len(sent') |->
                          IF k <= Len(sent) THEN later[k] + Len(noise) + Len(m) ELSE 0]
          /\ air' = air \o noise \o m
    /\ UNCHANGED <<buffer, frames, dropped, phase>>

\* Mutant: the limit is checked before the chunk is added.
TooLongBefore(bytes) == Len(buffer) > Limit

TooLong(bytes) == Len(bytes) > Limit

\* Mutant: the chunk that does not fit is discarded, the buffer is kept.
DiscardChunk ==
    /\ dropped' = TRUE
    /\ UNCHANGED <<buffer, frames>>

Discard ==
    /\ buffer' = <<>>
    /\ dropped' = TRUE
    /\ UNCHANGED frames

\* A notification, which _on_notify feeds to the assembler.
Feed ==
    /\ phase # "closed"
    /\ \E n \in 1..MaxChunk :
          /\ n <= Len(air)
          /\ air' = SubSeq(air, n + 1, Len(air))
          /\ LET bytes == buffer \o SubSeq(air, 1, n) IN
                IF TooLong(bytes)
                THEN Discard
                ELSE /\ buffer' = Extracted(bytes).rest
                     /\ frames' = frames \o Extracted(bytes).frames
                     /\ UNCHANGED dropped
    /\ UNCHANGED <<sent, later, phase>>

\* The command loop is left: the assembler is reset, stop_notify is called, and
\* until it returns notifications still arrive.
Reset ==
    /\ phase = "open"
    /\ phase' = "closing"
    /\ buffer' = <<>>
    /\ dropped' = (dropped \/ buffer # <<>>)
    /\ UNCHANGED <<sent, later, air, frames>>

StopNotifyReturns ==
    /\ phase = "closing"
    /\ phase' = "closed"
    /\ UNCHANGED <<sent, later, air, buffer, frames, dropped>>

Next == Send \/ Feed \/ Reset \/ StopNotifyReturns

Spec == Init /\ [][Next]_vars

-------------------------------------------------------------------------------
(* Properties                                                              *)

\* However the stream is cut, and whatever text without an opening brace stands
\* between the messages, the frames are the messages, in order, each once, until bytes
\* are dropped.
InOrder == ~dropped => IsPrefix(frames, sent)

\* The last byte of the k-th message was delivered: what is in the air came later.
Arrived(k) == Len(air) <= later[k]

CutInCharacter == buffer # <<>> /\ Last(buffer) = "m1"

\* "return any complete JSON objects it completes", as far as it holds: a message of
\* which every byte has arrived has been returned, whatever follows it in the buffer,
\* unless the last notification was cut inside a character.  Then nothing decodes, and
\* a message that is whole waits for the rest of the next one.
NothingHeldBack ==
    ~dropped /\ ~CutInCharacter => \A k \in DOMAIN sent : Arrived(k) => k <= Len(frames)

\* Even after bytes were dropped, a frame is an object within one message, if it
\* begins with a brace that opens one.  Only from a brace inside a string may raw_decode
\* find an object that nobody sent, even one made of the pieces of two messages.
WithinOneMessage ==
    \A f \in DOMAIN frames : Head(frames[f]) = "open" =>
        \E m \in DOMAIN sent : \E i \in 1..(Len(sent[m]) - Len(frames[f]) + 1) :
            frames[f] = SubSeq(sent[m], i, i + Len(frames[f]) - 1)

\* "the first complete top-level JSON object": no frame is a part of a message.
OnlyTopLevel == \A f \in DOMAIN frames : \E m \in DOMAIN sent : frames[f] = sent[m]
===============================================================================
