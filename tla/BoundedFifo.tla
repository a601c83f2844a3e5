---------------------------- MODULE BoundedFifo ----------------------------
(***************************************************************************)
(* What every ring buffer of the repository promises its callers: a first- *)
(* in first-out queue of at most Limit elements.  A try_push that finds    *)
(* room appends, a try_pop that finds an element removes the oldest; a     *)
(* refused call is a stuttering step.                                      *)
(***************************************************************************)
EXTENDS Naturals, Sequences

CONSTANTS Values,    \* the elements
          Limit      \* how many the queue holds at most

VARIABLES queue,     \* the elements inside, oldest first
          delivered  \* the elements handed to consumers so far, in order

Init == queue = << >> /\ delivered = << >>

Put(v) ==
    /\ Len(queue) < Limit
    /\ queue' = Append(queue, v)
    /\ UNCHANGED delivered

Take ==
    /\ queue # << >>
    /\ delivered' = Append(delivered, Head(queue))
    /\ queue' = Tail(queue)

Next == Take \/ \E v \in Values : Put(v)

Spec == Init /\ [][Next]_<<queue, delivered>>
=============================================================================
