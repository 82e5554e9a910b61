-------------------------------- MODULE MCSaves --------------------------------
(* Native saves for TLC: how they get their identity, and how the goal of their *)
(* slot is told, each explored while the other rests.  The goal has two saves   *)
(* of one slot, which differ in nothing, and one of another.                    *)
EXTENDS Saves

CONSTANTS a1, a2, b, A, B

MCSaves == {a1, a2, b}
MCPlayers == {A, B}
MCPlayerOf == [save \in Saves |-> IF save = b THEN B ELSE A]

mcvars == <<vars, statusVars>>

MCInit == Init /\ G!Init

BindingSpec ==
    /\ MCInit /\ [][Next /\ UNCHANGED statusVars]_mcvars
    /\ Fairness

GoalSpec ==
    /\ MCInit /\ [][G!Next /\ UNCHANGED vars]_mcvars
    /\ G!Fairness
=============================================================================
