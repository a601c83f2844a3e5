----------------------------- MODULE RuleEngine -----------------------------
(***************************************************************************)
(* The rule engine.  Threads load a directory of Sigma rules, add and      *)
(* remove single rules, reload the directory and read the rules.  mutex_   *)
(* guards rules_, profiles_ and stats_; load_sigma_rules compiles before   *)
(* it takes it, reload_sigma_rules holds it from the clearing of the rules *)
(* to the last insertion.  The compiler's own counter is guarded by        *)
(* nothing: the count read for an increment is written back in a step of   *)
(* its own, so that two increments may become one.                         *)
(***************************************************************************)
EXTENDS SigmaCompiler, FiniteSets

CONSTANTS Threads,
          Directories, \* each the .yml files in the order the iteration meets
                       \* them, each file the sequence of its lines
          Added,      \* the rules add_rule may be called with
          MaxCalls    \* bound: calls of all threads together

VARIABLES
    rules, profiles, stats,   \* rules_, the ids of profiles_, stats_
    mutex,                    \* the thread that holds mutex_, Nobody
    compiled,                 \* stats_.rules_compiled of the compiler
    pc, calls,                \* per thread: where it is; how many calls were made
    unread,                   \* per thread: files the iteration has still to reach
    made,                     \* per thread: the rules compiled so far
    counted,                  \* per thread: the count read for the increment
    replaced,                 \* history: insertions over a rule, since the last reload
    gone,                     \* history: ids of files removed, or left out of a
                              \* reload, since they were last inserted
    numbers,                  \* history: per thread, the numbers its rules were given
    raced                     \* history: two compilations overlapped

threadVars == <<pc, calls, unread, made, counted>>
history == <<replaced, gone, numbers, raced>>
rulesVars == <<rules, profiles, stats, mutex, compiled, threadVars, history>>

Nobody == "nobody"
NoCount == -1

ASSUME RulesAssumption ==
    /\ MaxCalls \in Nat /\ Nobody \notin Threads
    /\ \A d \in Directories :
          /\ d \in Seq(ToSet(d))
          /\ \A yaml \in ToSet(d) :
                yaml \in Seq(ToSet(yaml)) /\ \A line \in ToSet(yaml) : line.indent \in Nat

NoStats == [total_rules |-> 0, sigma_rules |-> 0, dsl_rules |-> 0, rules_loaded |-> 0]
NoRules == [id \in {} |-> << >>]

\* What the files compile to.  But for the number in its id, which SigmaRule puts
\* in, a rule does not depend on when its file is compiled.
Texts == UNION {ToSet(d) : d \in Directories}
RuleOf == [yaml \in Texts |-> compile(yaml, 0)]
SigmaRule(yaml, rules_compiled) == [RuleOf[yaml] EXCEPT !.id = IdOf(yaml, rules_compiled)]

\* The ids the files give their rules.
Named == {ValueOr(yaml, "id", << >>) : yaml \in Texts} \ {<< >>}

RulesInit ==
    /\ rules = NoRules /\ profiles = {} /\ stats = NoStats
    /\ mutex = Nobody /\ compiled = 0
    /\ pc = [t \in Threads |-> "idle"] /\ calls = 0
    /\ unread = [t \in Threads |-> << >>] /\ made = [t \in Threads |-> << >>]
    /\ counted = [t \in Threads |-> NoCount]
    /\ replaced = 0 /\ gone = Named
    /\ numbers = [t \in Threads |-> << >>] /\ raced = FALSE

-----------------------------------------------------------------------------
(* The compilation of a directory *)

Calls(t) ==
    /\ pc[t] = "idle" /\ calls < MaxCalls
    /\ calls' = calls + 1

Compiling(t) == pc[t] \in {"load", "reload"}

IdsOf(seq) == {seq[i].id : i \in DOMAIN seq}

\* The insertion of rules under their ids, one after the other: the last one of
\* an id stays.
InsertAll(table, seq) ==
    [id \in DOMAIN table \cup IdsOf(seq) |->
        IF id \in IdsOf(seq) THEN seq[Max({i \in DOMAIN seq : seq[i].id = id})] ELSE table[id]]

\* Mutant of CompileOne: the number is the length of the list, as if each
\* directory were compiled by a compiler of its own.
CompileOneNumbered(t) ==
    /\ Compiling(t) /\ counted[t] = NoCount /\ unread[t] # << >>
    /\ unread' = [unread EXCEPT ![t] = Tail(@)]
    /\ made' = [made EXCEPT ![t] = Append(@, SigmaRule(Head(unread[t]), Len(made[t])))]
    /\ counted' = [counted EXCEPT ![t] = compiled]
    /\ numbers' = [numbers EXCEPT ![t] =
                      IF LinesOf(Head(unread[t]), "id") = {} THEN Append(@, Len(made[t]) + 1) ELSE @]
    /\ raced' = (raced \/ \E u \in Threads \ {t} : counted[u] # NoCount)
    /\ UNCHANGED <<rules, profiles, stats, mutex, compiled, pc, calls, replaced, gone>>

\* compile: the rule, its number if it has no id, and the read of the counter
\* for its increment.  Nothing else in it can fail but allocation.
CompileOne(t) ==
    /\ Compiling(t) /\ counted[t] = NoCount /\ unread[t] # << >>
    /\ unread' = [unread EXCEPT ![t] = Tail(@)]
    /\ made' = [made EXCEPT ![t] = Append(@, SigmaRule(Head(unread[t]), compiled))]
    /\ counted' = [counted EXCEPT ![t] = compiled]
    /\ numbers' = [numbers EXCEPT ![t] =
                      IF LinesOf(Head(unread[t]), "id") = {} THEN Append(@, compiled + 1) ELSE @]
    /\ raced' = (raced \/ \E u \in Threads \ {t} : counted[u] # NoCount)
    /\ UNCHANGED <<rules, profiles, stats, mutex, compiled, pc, calls, replaced, gone>>

\* stats_.rules_compiled++: the write of it.
CountCompiled(t) ==
    /\ counted[t] # NoCount
    /\ compiled' = counted[t] + 1
    /\ counted' = [counted EXCEPT ![t] = NoCount]
    /\ UNCHANGED <<rules, profiles, stats, mutex, pc, calls, unread, made, history>>

\* compile_directory: a file that cannot be opened is passed over, an iteration
\* that throws ends it with the rules found so far.
FilesSkipped(t) ==
    /\ Compiling(t) /\ counted[t] = NoCount /\ unread[t] # << >>
    /\ \E rest \in {Tail(unread[t]), << >>} : unread' = [unread EXCEPT ![t] = rest]
    /\ UNCHANGED <<rules, profiles, stats, mutex, compiled, pc, calls, made, counted, history>>

Compiled(t) == unread[t] = << >> /\ counted[t] = NoCount

-----------------------------------------------------------------------------
(* load_sigma_rules *)

LoadBegins(t) ==
    /\ Calls(t)
    /\ pc' = [pc EXCEPT ![t] = "load"] /\ \E d \in Directories : unread' = [unread EXCEPT ![t] = d]
    /\ UNCHANGED <<rules, profiles, stats, mutex, compiled, made, counted, history>>

\* The rules are inserted one after the other under mutex_; a rule over an
\* earlier one of the same id is counted again.
LoadInserts(t) ==
    /\ pc[t] = "load" /\ Compiled(t) /\ mutex = Nobody
    /\ \E table \in {InsertAll(rules, made[t])} :
          /\ rules' = table
          /\ replaced' = replaced + Cardinality(DOMAIN rules) + Len(made[t]) - Cardinality(DOMAIN table)
    /\ profiles' = profiles \cup IdsOf(made[t])
    /\ stats' = [stats EXCEPT !.total_rules = @ + Len(made[t]),
                              !.sigma_rules = @ + Len(made[t]),
                              !.rules_loaded = @ + Len(made[t])]
    /\ pc' = [pc EXCEPT ![t] = "idle"] /\ made' = [made EXCEPT ![t] = << >>]
    /\ gone' = gone \ IdsOf(made[t])
    /\ UNCHANGED <<mutex, compiled, calls, unread, counted, numbers, raced>>

-----------------------------------------------------------------------------
(* reload_sigma_rules *)

\* Mutant of ReloadClears: the lock is released for the compilation.
ReloadUnlocks(t) ==
    /\ Calls(t) /\ mutex = Nobody
    /\ rules' = NoRules /\ profiles' = {} /\ stats' = NoStats /\ replaced' = 0
    /\ pc' = [pc EXCEPT ![t] = "reload"] /\ \E d \in Directories : unread' = [unread EXCEPT ![t] = d]
    /\ UNCHANGED <<mutex, compiled, made, counted, gone, numbers, raced>>

\* mutex_ is taken, and every rule is dropped, the added ones too.
ReloadClears(t) ==
    /\ Calls(t) /\ mutex = Nobody /\ mutex' = t
    /\ rules' = NoRules /\ profiles' = {} /\ stats' = NoStats /\ replaced' = 0
    /\ pc' = [pc EXCEPT ![t] = "reload"] /\ \E d \in Directories : unread' = [unread EXCEPT ![t] = d]
    /\ UNCHANGED <<compiled, made, counted, gone, numbers, raced>>

\* The insertion of what was compiled, and the unlocking.
ReloadInserts(t) ==
    /\ pc[t] = "reload" /\ Compiled(t) /\ mutex = t
    /\ mutex' = Nobody
    /\ \E table \in {InsertAll(rules, made[t])} :
          /\ rules' = table
          /\ replaced' = replaced + Cardinality(DOMAIN rules) + Len(made[t]) - Cardinality(DOMAIN table)
    /\ profiles' = profiles \cup IdsOf(made[t])
    /\ stats' = [stats EXCEPT !.total_rules = @ + Len(made[t]), !.sigma_rules = @ + Len(made[t])]
    /\ pc' = [pc EXCEPT ![t] = "idle"] /\ made' = [made EXCEPT ![t] = << >>]
    /\ gone' = Named \ IdsOf(made[t])
    /\ UNCHANGED <<compiled, calls, unread, counted, numbers, raced>>

-----------------------------------------------------------------------------
(* Single rules *)

add_rule(t) ==
    /\ Calls(t) /\ mutex = Nobody
    /\ \E rule \in Added :
          /\ rules' = InsertAll(rules, <<rule>>)
          /\ profiles' = profiles \cup {rule.id}
          /\ replaced' = replaced + IF rule.id \in DOMAIN rules THEN 1 ELSE 0
          /\ gone' = gone \ {rule.id}
    /\ stats' = [stats EXCEPT !.total_rules = @ + 1, !.dsl_rules = @ + 1]
    /\ UNCHANGED <<mutex, compiled, pc, unread, made, counted, numbers, raced>>

\* remove_rule returns false for an id that is not there.
Known(id) == id \in DOMAIN rules

remove_rule(t, id) ==
    /\ Calls(t) /\ mutex = Nobody /\ Known(id)
    /\ rules' = [i \in DOMAIN rules \ {id} |-> rules[i]]
    /\ profiles' = profiles \ {id}
    /\ stats' = [stats EXCEPT !.total_rules = @ - 1]
    /\ gone' = gone \cup {id}
    /\ UNCHANGED <<mutex, compiled, pc, unread, made, counted, replaced, numbers, raced>>

\* get_rules, rule_count, get_profiles and get_stats copy under mutex_: what
\* they return is what there is in a state where it is free.
Readable == mutex = Nobody

Ids == Named \cup {rule.id : rule \in Added} \cup {<<"rule", n>> : n \in 1 .. compiled + Cardinality(Threads)}

Step(t) ==
    \/ CompileOne(t)
    \/ CountCompiled(t)
    \/ LoadInserts(t)
    \/ ReloadInserts(t)

CallStep(t) ==
    \/ LoadBegins(t) \/ ReloadClears(t) \/ add_rule(t)
    \/ \E id \in Ids : remove_rule(t, id)

Rest ==
    /\ calls = MaxCalls /\ \A t \in Threads : pc[t] = "idle"
    /\ UNCHANGED rulesVars

RulesNext == Rest \/ \E t \in Threads : Step(t) \/ FilesSkipped(t) \/ CallStep(t)

RulesSpec == RulesInit /\ [][RulesNext]_rulesVars

-----------------------------------------------------------------------------
(* Properties *)

\* The types of the state: every rule stands under its own id and has a profile;
\* the unsigned counters of stats_ never wrap below 0, remove_rule counts down
\* only what was counted up.
RulesTypeOK ==
    /\ \A id \in DOMAIN rules : rules[id].id = id
    /\ profiles = DOMAIN rules
    /\ stats \in [DOMAIN NoStats -> Nat] /\ compiled \in Nat
    /\ mutex \in Threads \cup {Nobody}
    /\ pc \in [Threads -> {"idle", "load", "reload"}] /\ calls \in 0 .. MaxCalls
    /\ \A t \in Threads : unread[t] # << >> =>
           \E d \in Directories : \E n \in 1 .. Len(d) : unread[t] = SubSeq(d, n, Len(d))
    /\ counted \in [Threads -> Nat \cup {NoCount}]

\* What total_rules means: the rules there are and the insertions that replaced
\* one since the last reload, whatever was loaded, added, removed and reloaded
\* in between; and the other counters never count less than it does.
TotalExact ==
    Readable =>
        /\ stats.total_rules = Cardinality(DOMAIN rules) + replaced
        /\ stats.sigma_rules + stats.dsl_rules >= stats.total_rules

\* What YAML says of a file, whatever its columns: the detection block are the
\* lines deeper than its key, selections are named at the indent of its first
\* line, and what stands deeper than a name is a field of it.
DetectionLines(yaml) == {d \in DOMAIN yaml : yaml[d].key \in DetectionKeys}

Within(yaml, d, i) == d < i /\ \A j \in d + 1 .. i : yaml[j].indent > yaml[d].indent

\* A line of the block is a condition of the rule when it is a field below the
\* name of a selection, or a name with a value of its own.
IsCondition(yaml, i) ==
    \E d \in DetectionLines(yaml) :
        LET names == {j \in d + 1 .. i : /\ yaml[j].indent = yaml[d + 1].indent
                                        /\ yaml[j].key \notin {NoKey, "condition"}}
        IN  /\ Within(yaml, d, i) /\ yaml[i].key # NoKey /\ ~yaml[i].comment
            /\ \/ yaml[i].indent > yaml[d + 1].indent /\ names # {}
               \/ i \in names /\ yaml[i].text # << >>

\* A rule has the title of its file, and for each line of the file that is a
\* condition one condition on the field the line names, in their order.
Exact(rule, yaml) ==
    LET lines == {i \in DOMAIN yaml : IsCondition(yaml, i)}
        Place(i) == Cardinality({j \in lines : j <= i})
    IN  /\ rule.name = ValueOr(yaml, "title", Untitled)
        /\ DOMAIN rule.conditions = 1 .. Cardinality(lines)
        /\ \A i \in lines : rule.conditions[Place(i)].field = yaml[i].key

\* The layout the compiler is made for: one detection key, at an indent below
\* four, and a block that begins at four, goes no higher and has no comments.
FourColumns(yaml) ==
    \A d \in DetectionLines(yaml) :
        /\ DetectionLines(yaml) = {d} /\ yaml[d].indent < Selection
        /\ \A i \in DOMAIN yaml : Within(yaml, d, i) =>
              /\ yaml[i].indent >= Selection /\ ~yaml[i].comment
              /\ i = d + 1 => yaml[i].indent = Selection

\* Every compilation of a file of that layout gives an exact rule, whatever
\* blocks stand before and after the detection block, and whichever thread
\* compiles what else.  The files of the repository have another layout (see
\* DetectionsRead).
ConditionsExact ==
    [][\A t \in Threads : made'[t] \notin {made[t], << >>} =>
          LET yaml == Head(unread[t])
          IN  FourColumns(yaml) => Exact(Last(made'[t]), yaml)]_rulesVars

\* What the README shows and says of the compiler: the detection section of a
\* file is parsed into fields, values and modifiers.  The selections of its
\* example, of the tests and of config/sigma_rules stand at two columns, where
\* the compiler sees the end of the block.
DetectionsRead ==
    \A t \in Threads : \A n \in DOMAIN made[t] : \E yaml \in Texts : Exact(made[t][n], yaml)

\* As long as no two compilations overlapped, no two rules without an id were
\* given the same number, in whatever order directories were loaded and
\* reloaded: none of them replaces another.
NumbersFresh ==
    \/ raced
    \/ /\ \A t \in Threads : IsInjective(numbers[t])
       /\ \A t, u \in Threads : t # u => ToSet(numbers[t]) \cap ToSet(numbers[u]) = {}

\* A reader never meets a reload half done: it sees every rule of a named file
\* that was loaded and neither removed nor left out of the reload since.
NeverHalfLoaded == Readable => Named \ gone \subseteq DOMAIN rules

\* What readers get under mutex_ is consistent: no reload half done, a total
\* that agrees with the rules, and every rule under its own id.
ReadersConsistent == RulesTypeOK /\ TotalExact /\ NeverHalfLoaded

=============================================================================
