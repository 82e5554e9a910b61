------------------------------ MODULE MCProtocol ------------------------------
(* The exchange of the client with the bridge for TLC: of the commands and   *)
(* the state file one is explored while the other rests.                     *)
EXTENDS Protocol

VARIABLE part     \* which of them is explored

mcvars == <<part, vars, fileVars>>

ASSUME S!BoundAssumption

MCInit == part \in {"commands", "file"} /\ Init /\ S!Init

Commands(A) == part = "commands" /\ A /\ UNCHANGED <<part, fileVars>>
OfFile(A) == part = "file" /\ A /\ UNCHANGED <<part, vars>>

MCNext == Commands(Next) \/ OfFile(S!Next)

\* The fairness of both: goalc evaluates, the game writes, the client polls,
\* and a wait has a deadline.
MCSpec ==
    /\ MCInit /\ [][MCNext]_mcvars
    /\ WF_mcvars(Commands(Evaluate) \/ OfFile(S!Evaluate))
    /\ WF_mcvars(Commands(AcceptHello) \/ OfFile(S!Write))
    /\ WF_mcvars(Commands(ReceiveReceipt) \/ OfFile(S!StartRead))
    /\ WF_mcvars(Commands(TimesOut) \/ OfFile(S!ReadMore))
    /\ WF_mcvars(OfFile(S!SendPing))
    /\ WF_mcvars(OfFile(S!Poll))

\* CommandReceipts, SnapshotFile: a wait for a receipt ends, and a ping to the
\* game the client has said hello to is answered.
WaitsEnd == WaitEnds /\ S!Answered
=============================================================================
