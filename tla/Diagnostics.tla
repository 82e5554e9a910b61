------------------------------ MODULE Diagnostics ------------------------------
(***************************************************************************)
(* The diagnostics: the files the logs of the clients are kept in          *)
(* (DiagnosticStorage) beside the drain of the game's ring into the log    *)
(* (DiagnosticDrain, to which writing is one fallible step).  They share   *)
(* no variable.  What both promise is stated here once, for the runs and   *)
(* for the proofs.                                                         *)
(***************************************************************************)
EXTENDS DiagnosticStorage

CONSTANTS Capacity, None, Interrupts, Malforms, MaxNext, MaxRings, MaxClients,
          MaxAcks, MaxLosses

VARIABLES
    ring, nonce, snapshot, acks, greeted, client, conn, known, state, last,
    source, pending, mute, log, holes,
    losses    \* mute and losses: console and faults of DiagnosticDrain

drainVars == <<ring, nonce, snapshot, acks, greeted, client, conn, known, state,
               last, source, pending, mute, log, holes, losses>>

Drain == INSTANCE DiagnosticDrain WITH
    MaxFaults <- MaxLosses, console <- mute, faults <- losses

ASSUME DrainAssumption ==
    /\ Drain!CapacityAssumption /\ Drain!KindAssumption
    /\ Drain!NoneAssumption /\ Drain!BoundAssumption

\* DiagnosticDrain: the log tells the records of the rings apart, and tells
\* what is missing.
LogTrue == Drain!LogTrue

\* DiagnosticDrain: a record leaves the ring only once it is logged.
AcknowledgedLogged == Drain!AcknowledgedLogged
=============================================================================
