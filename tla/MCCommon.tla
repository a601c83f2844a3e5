------------------------------ MODULE MCCommon ------------------------------
(***************************************************************************)
(* The two objects of collectors/common with a protocol of their own: the  *)
(* lock-free buffer and the thread pool.  Neither uses the other, and a    *)
(* behaviour is about one of them.                                         *)
(***************************************************************************)
EXTENDS SpscBuffer, ThreadPool

VARIABLE object   \* which one

commonVars == <<object, vars, poolVars>>

CommonInit == object \in {"buffer", "pool"} /\ Init /\ PoolInit

\* The pool is shut down, and every caller was answered.
PoolRests ==
    /\ \A t \in Tasks : t \in pushed \cup refused
    /\ \A s \in Stoppers : spc[s] \in {"returned", "early"}
    /\ UNCHANGED poolVars

BufferStep == object = "buffer" /\ Next /\ UNCHANGED poolVars
PoolStep   == object = "pool" /\ (PoolNext \/ PoolRests) /\ UNCHANGED vars

CommonNext == (BufferStep \/ PoolStep) /\ UNCHANGED object

\* Where the pool is the object, its fairness holds.
CommonSpec ==
    /\ CommonInit /\ [][CommonNext]_commonVars
    /\ WF_poolVars(object = "pool" /\ NotifyOne)
    /\ \A w \in Workers : WF_poolVars(object = "pool" /\ WorkerRuns(w))
    /\ \A s \in Stoppers : WF_poolVars(object = "pool" /\ ShutdownRuns(s))
=============================================================================
