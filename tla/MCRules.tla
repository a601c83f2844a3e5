------------------------------ MODULE MCRules -------------------------------
EXTENDS RuleEngine

Line(n, k, words) == [indent |-> n, key |-> k, text |-> words, comment |-> FALSE]

\* A rule with four-space selections, one with the two-space selections of the
\* repository's own rules and no id, one with an indented detection key, lines
\* without a colon, fields before a name and behind the block, and no id.
Deep ==
    <<Line(0, "id", <<"r1">>), Line(0, "title", <<"deep">>), Line(0, "level", <<"high">>),
      Line(0, "tags", <<<<"attack", "t1190", "001">>, <<"attack", "impact">>>>),
      Line(0, "detection", << >>), Line(4, "selection", << >>),
      Line(8, "process", <<"cmd", "contains">>), Line(6, "user", <<"root">>),
      Line(4, "keyword", <<"evil", "regex">>), Line(4, "condition", <<"selection">>),
      Line(0, "falsepositives", << >>), Line(4, "note", <<"none">>)>>

Shallow ==
    <<Line(0, "title", <<"shallow">>), Line(0, "detection", << >>), Line(2, "selection", << >>),
      Line(4, "action", <<"connect">>), Line(2, "condition", <<"selection">>)>>

Odd ==
    <<[Line(4, "# off", <<"y">>) EXCEPT !.comment = TRUE], Line(6, "logsource", <<"any">>),
      Line(2, "detection", << >>), Line(4, NoKey, << >>), Line(6, "early", <<"x">>),
      Line(4, "filter", << >>), Line(5, "late", <<"z", "near">>), Line(7, "more", <<"w", "endswith">>),
      Line(4, "condition", <<"filter">>), Line(2, "after", <<"v">>), Line(5, "tail", <<"u">>)>>

RepositoryRules == {<<Shallow>>}
MCDirectories == {<<Deep, Odd>>, <<Shallow>>}

MCAdded == {[compile(Deep, 0) EXCEPT !.conditions = << >>],
            [compile(Deep, 0) EXCEPT !.id = <<"custom">>]}
=============================================================================
