-------------------------- MODULE MCSharedObjects --------------------------
(***************************************************************************)
(* Three objects whose calls are each made under one mutex, so that a call *)
(* or a compiled file is a step: the ring, the rule engine and the window  *)
(* manager.  None uses another, and a behaviour is about one of them.      *)
(***************************************************************************)
EXTENDS RingBuffer, MCRules, MCWindows

VARIABLE object   \* which one

sharedVars == <<object, vars, rulesVars, windowsVars>>

SharedInit ==
    /\ object \in {"ring", "rules", "windows"}
    /\ Init /\ RulesInit /\ WindowsInit

RingStep    == object = "ring" /\ Next /\ UNCHANGED <<rulesVars, windowsVars>>
RulesStep   == object = "rules" /\ RulesNext /\ UNCHANGED <<vars, windowsVars>>
WindowsStep == object = "windows" /\ WindowsNext /\ UNCHANGED <<vars, rulesVars>>

SharedNext == (RingStep \/ RulesStep \/ WindowsStep) /\ UNCHANGED object

SharedSpec == SharedInit /\ [][SharedNext]_sharedVars
=============================================================================
