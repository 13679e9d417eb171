------------------------------ MODULE MCTelemetry ------------------------------
(* Telemetry for TLC: payloads that nest, that name one key twice, that have    *)
(* empty names, empty lists and lists that shrink, and that change the type of a *)
(* field.                                                                        *)
EXTENDS Telemetry

Leaf(type, is) == [type |-> type, is |-> is]
Member(key, value) == [key |-> key, value |-> value]
Object(members) == [type |-> "object", members |-> members]
List(members) == [type |-> "list", members |-> members]

Output == <<"port", "dot", "acOutput">>
Low == Leaf("text", "low")

Nested == Object(<<Member(<<"port">>, Object(<<Member(<<"acOutput">>, Leaf("bool", "TRUE"))>>)),
                   Member(<<"model">>, Leaf("text", "A"))>>)
DottedFirst == Object(<<Member(Output, Low),
                        Member(<<"port">>, Object(<<Member(<<"acOutput">>, Leaf("bool", "FALSE"))>>))>>)
DottedLast == Object(<<Member(<<"port">>, Object(<<Member(<<"acOutput">>, Leaf("bool", "FALSE"))>>)),
                       Member(Output, Low)>>)
Unnamed == Object(<<Member(<<>>, Object(<<Member(<<"model">>, Leaf("digits", "7"))>>)),
                    Member(<<"cells">>, List(<<Leaf("number", "1"),
                                               Object(<<Member(<<"full">>, Leaf("bool", "TRUE"))>>)>>))>>)
Renamed == Object(<<Member(<<"model">>, Leaf("null", "none")),
                    Member(<<"deviceModel">>, Leaf("text", "C")),
                    Member(<<"seq">>, Leaf("number", "9"))>>)
Shrunk == Object(<<Member(<<>>, Low), Member(<<"cells">>, List(<<Low>>)),
                   Member(<<"port">>, List(<<>>))>>)

\* A name may begin with a dot.
Dotted == Object(<<Member(<<"dot", "model">>, Leaf("text", "D")),
                   Member(<<>>, Object(<<Member(<<"dot", "model">>, Leaf("null", "none"))>>))>>)

MCPayloads == {Nested, DottedFirst, DottedLast, Unnamed, Renamed, Shrunk, Dotted}

RECURSIVE Parts(_)
Parts(data) ==
    {data} \cup (IF data.type \in Nests
                THEN UNION {Parts(Child(data, i)) : i \in DOMAIN data.members} ELSE {})
RECURSIVE Deep(_)
Deep(data) ==
    IF data.type \in Nests /\ data.members # <<>>
    THEN 1 + Max({Deep(Child(data, i)) : i \in DOMAIN data.members}) ELSE 0

MCData == UNION {Parts(payload) : payload \in MCPayloads}
MCHeight == [data \in MCData |-> Deep(data)]
MCPieces == STRING
MCIndexes == <<"[0]", "[1]", "[2]">>

MCModelKeys == << <<"model">>, <<"deviceModel">> >>
MCFields == {Output, <<"model">>, <<"deviceModel">>, <<"seq">>, <<"cells", "[0]">>,
             <<"cells", "[1]", "dot", "full">>, <<"dot", "model">>}
MCIgnored == {<<"seq">>}
MCHinted == {Output}
===============================================================================
