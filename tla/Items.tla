--------------------------------- MODULE Items ---------------------------------
(***************************************************************************)
(* Received items: how the ledger of a save becomes features of the game   *)
(* (ItemReconciliation, which takes packets as given) beside how the       *)
(* history of the server becomes the journal of a save (ReceivedItems).    *)
(* They share no variable.  What both promise is stated here once, for the *)
(* runs and for the proofs.                                                *)
(***************************************************************************)
EXTENDS ItemReconciliation

CONSTANTS Network, Invalid, MaxItems, MaxSwitches

VARIABLES
    history, discarded, sendIndex, joined, link, down, up, count, connected,
    queue, requested, rejection, syncs, open, journal, switches, losses

journalVars == <<history, discarded, sendIndex, joined, link, down, up, count,
                 connected, queue, requested, rejection, syncs, open, journal,
                 switches, losses>>

J == INSTANCE ReceivedItems WITH
    Items <- Network, MaxMoves <- MaxSwitches, authenticated <- connected,
    session <- open, moves <- switches, faults <- losses

ASSUME JournalAssumption == J!BoundAssumption /\ J!ItemAssumption

\* ReceivedItems: a journal is what the server has, without hole or repetition.
JournalFromServer == J!JournalFromServer

\* ReceivedItems: what has been applied stays applied.
AppliedKept == J!AppliedKept
=============================================================================
