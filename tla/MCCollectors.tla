---------------------------- MODULE MCCollectors ----------------------------
EXTENDS Collectors

CONSTANTS r1, r2

\* A symbol for each kind of priority: absent from the map, and so no
\* priority; without a number; and with one.
MCPriority == "<x>" :> -1 @@ "<11>" :> 11 @@ "<36>" :> 36

\* Of two digits, too: any digits are a version.
MCVersions == {"1", "20"}

MCKeyOf == "k=v" :> "k" @@ "l=v" :> "l" @@ "k=w" :> "k"

\* A key in two elements; brackets, a blank and a colon in messages.
MCMeant == {
    [rfc |-> 5424, version |-> "20", pri |-> "<36>", facility |-> 4, level |-> 4, host |-> <<"h">>,
     app |-> <<"a">>, proc |-> <<"7">>, msgid |-> <<"-">>,
     sd |-> <<<<"[", "e">>, <<"k=v">>, <<"l=v", "]", "[", "f">>, <<"k=w", "]">>>>,
     elements |-> <<[id |-> "e", params |-> <<"k=v", "l=v">>],
                    [id |-> "f", params |-> <<"k=w">>]>>,
     message |-> <<<<"m">>, <<"[", "n", "]">>, <<"x">>>>],
    [rfc |-> 3164, pri |-> "<11>", facility |-> 1, level |-> 3, host |-> <<"h">>,
     app |-> <<"a">>, proc |-> << >>, sd |-> << >>, elements |-> << >>,
     message |-> <<<<"m", ":">>, <<"[", "1", "]">>>>]}
MCDatagrams == {Render(m) : m \in MCMeant} \cup {<<<<"<x>", "TS">>>>}

\* A line that may be cut, also before its newline.
MCTcpLines == {<<<<"<11>", "TS">>, <<"h">>>>}

Templates(id, layout) ==
    [type |-> "template", length |-> IF layout = "empty" THEN 8 ELSE 12,
     defs |-> <<[id |-> id, layout |-> layout]>>]
Data(id, layout, length) == [type |-> "data", id |-> id, layout |-> layout, length |-> length]
Options(length) == [type |-> "options", length |-> length]
MCLayoutSize == "short" :> 4 @@ "long" :> 8 @@ "empty" :> 0

V9(length, count, sets) == [version |-> 9, length |-> length, count |-> count, sets |-> sets]
Ipfix(length, sets) == [version |-> 10, length |-> length, sets |-> sets]

\* Two exporters that use the same template id; sets in both orders; a count
\* that ends a v9 packet early; records and padding; a set that is not all
\* there; one of length 0; and a template without fields, for records of its own.
MCPackets == {
    V9(45, 3, <<Templates(256, "short"), Data(256, "short", 13)>>),
    V9(60, 1, <<Data(256, "long", 20), Options(8), Templates(256, "long")>>),
    Ipfix(32, <<Templates(256, "long"), Data(256, "long", 12)>>),
    Ipfix(48, <<Data(256, "long", 20), Templates(256, "short")>>),
    Ipfix(24, <<Options(0)>>),
    V9(32, 1, <<Templates(257, "empty"), Data(257, "empty", 4)>>),
    [version |-> 5, count |-> 3, fits |-> 1, sets |-> << >>],
    [version |-> 7, count |-> 1, sets |-> << >>]}

MCXmlTexts == {
    EmptyXml,
    [EventID |-> NotANumber, Channel |-> "Security", Level |-> 4, Data |-> << >>],
    [EventID |-> 4625, Channel |-> "Security", Level |-> 2,
     Data |-> <<<<"n", "v">>, <<"n", "w">>>>]}
=============================================================================
