---------------------------- MODULE SyslogParser ----------------------------
(***************************************************************************)
(* SyslogParser: RFC 5424 and RFC 3164 messages to fields.  A text is a    *)
(* sequence of words, what blanks separate; a word is a sequence of        *)
(* symbols, which are the characters the parser looks for and what lies    *)
(* between them.  A priority with its brackets, a BSD timestamp (which has *)
(* blanks in it) and a key="value" parameter are one symbol each.          *)
(***************************************************************************)
EXTENDS Integers, Sequences, FiniteSets, SequencesExt

CONSTANTS
    Priority,   \* priority symbol -> its number, -1 if it has none
    Versions,   \* the symbols that are digits, of a number that an int holds
    KeyOf       \* parameter symbol -> its key

From(s, i) == SubSeq(s, i, Len(s))

\* parse_token after skip_whitespace: the kth word, empty at the end.
Word(s, k) == IF k <= Len(s) THEN s[k] ELSE << >>

Begins(s, symbol) == s # << >> /\ s[1][1] = symbol

\* remove_prefix and skip_whitespace: k symbols of the first word are gone.
Drop(s, k) == IF k >= Len(s[1]) THEN Tail(s) ELSE <<From(s[1], k + 1)>> \o Tail(s)

parse_priority(s) == IF s # << >> /\ s[1][1] \in DOMAIN Priority THEN Priority[s[1][1]] ELSE -1

\* Mutant of DataWords: to the last bracket that is followed by a blank.
DataWordsToLast(s) ==
    LET ends == {i \in 1 .. Len(s) - 1 : s[i][Len(s[i])] = "]"}
    IN  IF Begins(s, "[") /\ ends # {} THEN CHOOSE i \in ends : \A j \in ends : i >= j ELSE 0

\* How many words the structured data has: to the first bracket that is
\* followed by a blank, none if there is no such bracket.
DataWords(s) ==
    LET ends == {i \in 1 .. Len(s) - 1 : s[i][Len(s[i])] = "]"}
    IN  IF Begins(s, "[") /\ ends # {} THEN CHOOSE i \in ends : \A j \in ends : i <= j ELSE 0

\* <PRI>VERSION TIMESTAMP HOSTNAME APP-NAME PROCID MSGID [SD] MSG, after PRI.
\* What follows the version's digits is the timestamp, blank or not.
parse_rfc5424(s) ==
    LET t == Drop(s, 1)
        r == From(t, 6)
    IN  [version |-> <<s[1][1]>>, host |-> Word(t, 2), app |-> Word(t, 3), proc |-> Word(t, 4),
         msgid |-> Word(t, 5), sd |-> SubSeq(r, 1, DataWords(r)),
         message |-> IF Begins(r, "-") THEN Drop(r, 1) ELSE From(r, DataWords(r) + 1)]

\* What ends the tag of an RFC 3164 message, besides a blank.
TagEnds == {":"}

\* Where the first symbol of a set is in a word, or one behind the end.
First(w, stops) ==
    IF \E i \in DOMAIN w : w[i] \in stops
    THEN CHOOSE i \in DOMAIN w : w[i] \in stops /\ \A j \in 1 .. i - 1 : w[j] \notin stops
    ELSE Len(w) + 1

\* TAG MSG or TAG: MSG.  Without a blank or colon all is message.  A process
\* id is looked for behind the colon.
TagAndMessage(r) ==
    LET n == First(r[1], TagEnds)
        pid == From(r[1], n + 1)
        close == First(pid, {"]"})
        hasPid == pid # << >> /\ pid[1] = "[" /\ close <= Len(pid)
    IN  IF Len(r) = 1 /\ n > Len(r[1]) THEN [app |-> << >>, proc |-> << >>, message |-> r]
        ELSE [app |-> SubSeq(r[1], 1, n - 1),
              proc |-> IF hasPid THEN SubSeq(pid, 2, close - 1) ELSE << >>,
              message |-> Drop(r, IF hasPid THEN n + close ELSE n)]

\* <PRI>TIMESTAMP HOSTNAME TAG: MSG, after PRI.  The timestamp is 15
\* characters, whatever they are, or nothing if there are fewer: the texts
\* here have a timestamp, or end before it.
parse_rfc3164(s) ==
    LET h == IF Word(s, 1) = <<"TS">> THEN 2 ELSE 1
        t == IF Len(s) > h THEN TagAndMessage(From(s, h + 1))
             ELSE [app |-> << >>, proc |-> << >>, message |-> << >>]
    IN  [version |-> << >>, host |-> Word(s, h), app |-> t.app, proc |-> t.proc,
         msgid |-> << >>, sd |-> << >>, message |-> t.message]

NoMessage == [priority |-> -1]

\* parse: nothing without a priority; RFC 5424 if digits follow it at once.
parse(s) ==
    LET p == parse_priority(s)
    IN  IF p < 0 THEN NoMessage
        ELSE [priority |-> p, facility |-> p \div 8, severity |-> p % 8,
              fields |-> IF Len(s[1]) > 1 /\ s[1][2] \in Versions THEN parse_rfc5424(Drop(s, 1))
                         ELSE parse_rfc3164(Drop(s, 1))]

\* Where parameters are: a place is the word with the bracket and the id of
\* their element, and their own word.  The id is the last symbol of its word.
ParameterPlaces(sd) ==
    {q \in (DOMAIN sd) \X (DOMAIN sd) :
        /\ q[1] < q[2] /\ "[" \in ToSet(sd[q[1]]) /\ sd[q[2]][1] \in DOMAIN KeyOf
        /\ \A k \in q[1] + 1 .. q[2] - 1 : "[" \notin ToSet(sd[k])}

\* parse_structured_data: the parameters by the element they are in.  Of those
\* with one id and one key the map keeps the last.  Ids and keys have no dots.
parse_structured_data(sd) ==
    LET id(q) == sd[q[1]][Len(sd[q[1]])]
        param(q) == sd[q[2]][1]
        places == ParameterPlaces(sd)
        same(q, o) == id(o) = id(q) /\ KeyOf[param(o)] = KeyOf[param(q)]
    IN  {<<id(p), param(p)>> :
            p \in {q \in places : \A o \in places : same(q, o) => o[2] <= q[2]}}

map_severity(s) ==
    CASE s \in 0 .. 2 -> "critical" [] s = 3 -> "high" [] s = 4 -> "medium" [] OTHER -> "info"
=============================================================================
