-------------------------------- MODULE MCItems --------------------------------
(* Received items for TLC: ReceivedItems and ItemReconciliation, each explored *)
(* while the other rests.                                                      *)
EXTENDS Items

VARIABLE part   \* which of them is explored

mcvars == <<part, vars, journalVars>>

MCInit == part \in {"features", "journal"} /\ Init /\ J!Init

Features(A) == part = "features" /\ A /\ UNCHANGED <<part, journalVars>>
OfJournal(A) == part = "journal" /\ A /\ UNCHANGED <<part, vars>>

MCNext == Features(Next) \/ OfJournal(J!Next)

\* The fairness of both: the server, the connection, the game and the client
\* go on; the player and the faults need not.
MCSpec ==
    /\ MCInit /\ [][MCNext]_mcvars
    /\ WF_mcvars(Features(FinishLoad) \/ OfJournal(J!Announce))
    /\ WF_mcvars(Features(Settle) \/ OfJournal(J!Serve))
    /\ WF_mcvars(Features(Evaluate) \/ OfJournal(J!Handle))
    /\ WF_mcvars(Features(Supervise) \/ OfJournal(J!Dial))
    /\ WF_mcvars(Features(TimesOutUnanswered) \/ OfJournal(J!RunSync))
    /\ WF_mcvars(\/ Features(OnConnected)
                 \/ OfJournal(\E s \in Saves : J!OpenSession(s)))
    /\ WF_mcvars(Features(Work) \/ OfJournal(J!WorkerRuns))

\* ItemReconciliation, ReceivedItems: in the end the history is in the journal
\* of the open session, requests for it have come to an end, and the game has
\* the features of the ledger.
ItemsSettle == <>[](J!HistoryRecorded /\ J!Quiet /\ Reconciled)
=============================================================================
