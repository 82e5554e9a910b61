---------------------------- MODULE MCDiagnostics ----------------------------
(* The two halves of the diagnostics for TLC.  The safety of the files is     *)
(* explored alone, where nothing tells two sessions apart; the drain and the  *)
(* liveness of the files are, each while the other rests.                     *)
EXTENDS Diagnostics, TLC

CONSTANTS a, b

VARIABLE part   \* which half is explored

mcvars == <<part, vars, drainVars>>

OneHost == [s \in Sessions |-> CHOOSE h \in Hosts : TRUE]

Symmetry == Permutations(Sessions)

OfDrain(A) == part = "drain" /\ A /\ UNCHANGED <<part, vars>>
OfStorage(A) == part = "storage" /\ A /\ UNCHANGED <<part, drainVars>>

MCInit == part \in {"drain", "storage"} /\ Init /\ Drain!Init

MCNext == OfDrain(Drain!Next) \/ OfStorage(Next)

StorageInit == part = "storage" /\ Init /\ Drain!Init

StorageSpec == StorageInit /\ [][MCNext]_mcvars

\* The fairness of both halves.  As only one of them ever moves, a condition of
\* the one and a condition of the other make one.
DiagnosticsSpec ==
    /\ MCInit /\ [][MCNext]_mcvars
    /\ WF_mcvars(OfDrain(Drain!Attach))
    /\ WF_mcvars(OfDrain(Drain!EvaluateHello))
    /\ WF_mcvars(OfDrain(Drain!SendAck) \/ OfStorage(Proceeds(a)))
    /\ WF_mcvars(OfDrain(Drain!EvaluateAck) \/ OfStorage(Proceeds(b)))
    /\ SF_mcvars(OfDrain(Drain!Export) \/ OfStorage(Acquires(a)))
    /\ SF_mcvars(OfDrain(Drain!Drain) \/ OfStorage(Acquires(b)))

\* DiagnosticDrain!Drained: in the end the ring is empty, so nothing at its head
\* is refused for ever, or nothing can be written.
RingDrained == <>[](part = "drain" => Drain!InRing = {} \/ mute)

\* DiagnosticStorage: whoever starts gets ready, moves to the console or dies,
\* and whoever holds the capacity lock gives it back.
SessionsProceed == StartsFinish /\ LockPasses
=============================================================================
