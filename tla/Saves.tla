--------------------------------- MODULE Saves ---------------------------------
(***************************************************************************)
(* Native saves: how a save gets its identity (SaveBinding) beside how the *)
(* goal of the slot a save is bound to is told to the server (GoalStatus,  *)
(* which takes the saves and their slots as given).  They share no         *)
(* variable.  What both promise is stated here once, for the runs and for  *)
(* the proofs.                                                             *)
(***************************************************************************)
EXTENDS SaveBinding

CONSTANTS Saves, Players, PlayerOf, GoalLocations, MaxConnections, MaxFailures

VARIABLES
    disk, session, readOnly, slot, generation, armed, task, window, sentOn,
    link, conn, received, failed, succeeded, failures

statusVars == <<disk, session, readOnly, slot, generation, armed, task, window,
                sentOn, link, conn, received, failed, succeeded, failures>>

G == INSTANCE GoalStatus WITH
    Slots <- Players, SlotOf <- PlayerOf, MaxFaults <- MaxFailures,
    faults <- failures

ASSUME GoalAssumption ==
    G!SlotAssumption /\ G!BoundAssumption /\ G!NoneAssumption

\* GoalStatus: one status per authenticated connection, failed sends aside.
OncePerConnection == G!OncePerConnection

\* GoalStatus: the flag is on disk only if a send for the slot has returned.
SentFlagTrue == G!SentFlagTrue

\* GoalStatus: the server is told of a goal only if a save of the joined slot
\* says so on disk.
ToldOnlyIfCompleted == G!ToldOnlyIfCompleted

\* GoalStatus: a joined connection of a completed slot is told.
Told == G!Told
=============================================================================
