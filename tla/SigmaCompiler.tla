--------------------------- MODULE SigmaCompiler ----------------------------
(***************************************************************************)
(* The Sigma compiler: from the lines of a YAML file to a CorrelationRule. *)
(* A line is a record: its indent, whether it is a comment, the key before *)
(* its first colon (NoKey if it has none), and the text after it, trimmed  *)
(* and without quotes, as the sequence of its parts between '|'.  The text *)
(* of "tags" is a sequence of tags, each the sequence of its words between *)
(* dots.  Blank lines change nothing and are left out.                     *)
(***************************************************************************)
EXTENDS SequencesExt, Integers

CONSTANTS TechniqueIds,    \* the words of tags that begin with 't'
          DetectionKeys    \* the keys that end in "detection"

NoKey == ""
Selection == 4   \* the indent at which names of selections stand

\* parse_yaml_simple: whatever its indent, the last line with the key and a
\* value counts.
LinesOf(yaml, key) ==
    {i \in DOMAIN yaml : ~yaml[i].comment /\ yaml[i].key = key /\ yaml[i].text # << >>}

ValueOr(yaml, key, default) ==
    IF LinesOf(yaml, key) = {} THEN default ELSE yaml[Max(LinesOf(yaml, key))].text

IsDetection(line) == line.key \in DetectionKeys /\ line.indent < Selection

\* compile: the lines after "detection:" up to the first that is indented less
\* than a selection.  Comments are not removed here.
NoBlock == [inside |-> FALSE, done |-> FALSE, lines |-> << >>]

BlockStep(b, line) ==
    IF b.done THEN b
    ELSE IF IsDetection(line) THEN [b EXCEPT !.inside = TRUE]
    ELSE IF ~b.inside THEN b
    ELSE IF line.indent < Selection THEN [b EXCEPT !.done = TRUE]
    ELSE [b EXCEPT !.lines = Append(@, line)]

Block(yaml) ==
    LET after[n \in 0 .. Len(yaml)] == IF n = 0 THEN NoBlock ELSE BlockStep(after[n - 1], yaml[n])
    IN after[Len(yaml)].lines

\* An inline value of a selection is kept whole, the value of a field is split
\* at '|' and the first part after it is the operator.
Inline(line) == [field |-> line.key, value |-> line.text, operator_type |-> "eq"]

FieldOf(line) ==
    IF Len(line.text) > 1
    THEN [field |-> line.key, value |-> <<line.text[1]>>, operator_type |-> line.text[2]]
    ELSE [field |-> line.key, value |-> line.text, operator_type |-> "eq"]

\* Mutant of IsName: names of selections stand less deep than Selection.
IsNameAbove(line) == line.indent < Selection

IsName(line) == line.indent <= Selection

NoDetections == [inside |-> FALSE, found |-> << >>]

ParseStep(d, line) ==
    IF line.key = NoKey THEN d
    ELSE IF IsName(line)
    THEN IF line.key = "condition" THEN d
         ELSE [inside |-> TRUE,
               found  |-> IF line.text = << >> THEN d.found ELSE Append(d.found, Inline(line))]
    ELSE IF d.inside THEN [d EXCEPT !.found = Append(@, FieldOf(line))] ELSE d

parse_detection(lines) ==
    LET after[n \in 0 .. Len(lines)] ==
            IF n = 0 THEN NoDetections ELSE ParseStep(after[n - 1], lines[n])
    IN after[Len(lines)].found

\* The condition expression is not looked at: all detections must hold.
compile_condition(detections) ==
    [i \in DOMAIN detections |->
        [field |-> detections[i].field,
         value |-> detections[i].value,
         op    |-> IF detections[i].operator_type \in {"contains", "startswith", "endswith", "regex"}
                   THEN detections[i].operator_type ELSE "="]]

\* The last technique and the last tactic; a sub-technique loses its number.
IsAttack(tag) == Len(tag) > 1 /\ tag[1] = "attack"

extract_mitre(tags) ==
    LET techniques == SelectSeq(tags, LAMBDA tag : IsAttack(tag) /\ tag[2] \in TechniqueIds)
        tactics == SelectSeq(tags, LAMBDA tag : IsAttack(tag) /\ tag[2] \notin TechniqueIds)
    IN [tactic    |-> IF tactics = << >> THEN << >> ELSE Tail(Last(tactics)),
        technique |-> IF techniques = << >> THEN << >> ELSE <<Last(techniques)[2]>>]

map_level(level) ==
    CASE level = <<"critical">> -> 4 [] level = <<"high">> -> 3
      [] level = <<"medium">> -> 2 [] level = <<"low">> -> 1 [] OTHER -> 0

Untitled == <<"Untitled Rule">>

\* A rule without an id is given the number of the rule.
IdOf(yaml, rules_compiled) == ValueOr(yaml, "id", <<"rule", rules_compiled + 1>>)

compile(yaml, rules_compiled) ==
    [id         |-> IdOf(yaml, rules_compiled),
     name       |-> ValueOr(yaml, "title", Untitled),
     severity   |-> map_level(ValueOr(yaml, "level", <<"medium">>)),
     score      |-> 20 * map_level(ValueOr(yaml, "level", <<"medium">>)),
     mitre      |-> extract_mitre(ValueOr(yaml, "tags", << >>)),
     conditions |-> compile_condition(parse_detection(Block(yaml)))]

=============================================================================
