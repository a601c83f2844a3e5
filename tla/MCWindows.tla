----------------------------- MODULE MCWindows -----------------------------
(* Window specs for the runs of EventWindows. *)
EXTENDS EventWindows, TLC

Base == [id |-> "tumble", type |-> "Tumbling", size |-> 2, slide |-> 1, gap |-> 1,
         grouped |-> FALSE, function |-> "count", threshold |-> 2]
Tumble  == Base
Slide   == [Base EXCEPT !.id = "slide", !.type = "Sliding", !.grouped = TRUE, !.function = "max"]
Session == [Base EXCEPT !.id = "session", !.type = "Session", !.grouped = TRUE]
Hop     == [Base EXCEPT !.id = "hop", !.type = "Hopping", !.size = 3, !.slide = 2]

OnlySessions == {Session}
AllTypes == {Tumble, Slide, Session, Hop}
GroupSymmetry == Permutations(Groups)
=============================================================================
