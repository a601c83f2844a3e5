----------------------------- MODULE Dictionary -----------------------------
(***************************************************************************)
(* What a MemTable promises to who uses put, remove and clear and looks at *)
(* what get returns: a map from keys to values.  An operation that returns *)
(* true has had its effect, a put that returns false has had none.         *)
(***************************************************************************)
CONSTANTS Keys, Values

VARIABLES dict, reply   \* the map; the last operation and what it returned

Init == dict = << >> /\ reply = << >>

\* The map with k mapped to v.
Mapped(k, v) == [j \in DOMAIN dict \cup {k} |-> IF j = k THEN v ELSE dict[j]]

Put(k, v) == \/ reply' = <<"put", k, v, TRUE>> /\ dict' = Mapped(k, v)
             \/ reply' = <<"put", k, v, FALSE>> /\ UNCHANGED dict
Remove(k) == reply' = <<"remove", k>> /\ dict' = [j \in DOMAIN dict \ {k} |-> dict[j]]
Clear     == reply' = <<"clear">> /\ dict' = << >>

Next == \/ \E k \in Keys : Remove(k) \/ \E v \in Values : Put(k, v)
        \/ Clear

Spec == Init /\ [][Next]_<<dict, reply>>
=============================================================================
