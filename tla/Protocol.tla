-------------------------------- MODULE Protocol --------------------------------
(***************************************************************************)
(* The exchange of the client with the bridge: the commands and their      *)
(* receipts (CommandReceipts) beside the state file the answers are read   *)
(* from (SnapshotFile).  CommandReceipts takes what the game published as  *)
(* read whole, which is what SnapshotFile is about; they share no          *)
(* variable.  What both promise is stated here once, for the run and for   *)
(* the proofs.                                                             *)
(***************************************************************************)
EXTENDS CommandReceipts

CONSTANTS Base, MaxSessions, MaxForms, MaxReloads, MaxOverlap, ReloadsWhileReading

VARIABLES
    file, unwritten, game, reloads, queue, client, asked, reader, exported, log,
    sentAt, observed

fileVars == <<file, unwritten, game, reloads, queue, client, asked, reader,
              exported, log, sentAt, observed>>

S == INSTANCE SnapshotFile WITH forms <- queue

\* SnapshotFile: a snapshot the client observes is one export, whole.
OneExport == S!OneExport

\* SnapshotFile: an answer was exported after the form it answers was sent.
AnswerFresh == S!AnswerFresh
=============================================================================
