--------------------------- MODULE InterprocessLock ---------------------------
(***************************************************************************)
(* The lock directory that serializes installers and diagnostic writers    *)
(* (agents/diagnostics.py, interprocess_directory_lock): mkdir takes it,   *)
(* owner.json says whose it is, and a waiter that finds the owner dead, or *)
(* cannot inspect it for longer than a lease, removes both.                *)
(*                                                                         *)
(* Each call that reaches the file system is a step of its own, so that a  *)
(* process may stop, die or be overtaken between any two of them.          *)
(*                                                                         *)
(* An acquisition stands for one token (process, thread, time).  A nested  *)
(* use by the thread that holds the lock touches nothing and is left out.  *)
(***************************************************************************)
CONSTANTS
    Acquisitions, \* the uses of the lock
    None,         \* no record
    Remote,       \* pairs of acquisitions on two hosts
    Identified,   \* whether the system tells when a process was started
    Serial,       \* whether a recovery runs alone from its judgement to rmdir
    LongPause,    \* whether a live owner may take longer than the lease
    Patient,      \* whether waiters wait for longer than anything here takes
    MayFail       \* whether writing the owner record may fail

ASSUME NoneAssumption == Acquisitions \cap {None, "empty", "absent"} = {}
ASSUME RemoteAssumption == Remote \subseteq Acquisitions \X Acquisitions
ASSUME SwitchAssumption ==
    /\ Identified \in BOOLEAN /\ Serial \in BOOLEAN /\ LongPause \in BOOLEAN
    /\ Patient \in BOOLEAN /\ MayFail \in BOOLEAN

\* Between mkdir and rmdir of the directory an acquisition made itself.
Owning == {"made", "opened", "in", "release", "released", "undo", "undone"}
\* From the judgement of a waiter to its rmdir.
Evicting == {"compare", "evict", "evicted"}
Waiting == {"try", "read", "judge", "wait"}
Ended == {"done", "failed", "dead"}

VARIABLES
    pc,       \* where each acquisition is
    dir,      \* the lock directory exists
    file,     \* owner.json: whose record, "empty" or "absent"
    handle,   \* whose open file is still the one in the directory
    observed, \* the record a waiter has read, None if it could not be read
    aged,     \* the directory was last changed longer than a lease ago
    old,      \* acquisitions whose record is older than a lease
    reused    \* dead processes whose number belongs to another process

vars == <<pc, dir, file, handle, observed, aged, old, reused>>

TypeOK ==
    /\ pc \in [Acquisitions -> Owning \cup Evicting \cup Waiting \cup Ended]
    /\ dir \in BOOLEAN
    /\ file \in Acquisitions \cup {"empty", "absent"}
    /\ (file # "absent" => dir)
    /\ handle \in SUBSET Acquisitions
    /\ observed \in [Acquisitions -> Acquisitions \cup {None}]
    /\ aged \in BOOLEAN
    /\ old \in SUBSET Acquisitions
    /\ reused \in SUBSET Acquisitions

Go(p, from, to) == pc[p] = from /\ pc' = [pc EXCEPT ![p] = to]

\* Nobody else is in the middle of a recovery.
Undisturbed(p) == Serial => \A q \in Acquisitions \ {p} : pc[q] \notin Evicting

-----------------------------------------------------------------------------
(* Taking the lock.                                                        *)

\* lock_directory.mkdir()
Make(p) ==
    /\ Undisturbed(p)
    /\ ~dir
    /\ Go(p, "try", "made")
    /\ dir' = TRUE /\ aged' = FALSE
    /\ UNCHANGED <<file, handle, observed, old, reused>>

Exists(p) ==
    /\ Undisturbed(p)
    /\ dir
    /\ Go(p, "try", "read")
    /\ UNCHANGED <<dir, file, handle, observed, aged, old, reused>>

\* owner_path.write_text(...): the file is truncated or created ...
Open(p) ==
    /\ Undisturbed(p)
    /\ IF dir
       THEN /\ Go(p, "made", "opened")
            /\ file' = "empty"
            /\ handle' = handle \cup {p}
            /\ aged' = (aged /\ file # "absent")
       ELSE /\ Go(p, "made", "undo")
            /\ UNCHANGED <<file, handle, aged>>
    /\ UNCHANGED <<dir, observed, old, reused>>

\* ... and filled, which nobody sees once it was unlinked.
Fill(p) ==
    /\ Undisturbed(p)
    /\ Go(p, "opened", "in")
    /\ file' = IF p \in handle THEN p ELSE file
    /\ handle' = handle \ {p}
    /\ UNCHANGED <<dir, observed, aged, old, reused>>

WriteFails(p) ==
    /\ Undisturbed(p)
    /\ MayFail
    /\ Go(p, "opened", "undo")
    /\ handle' = handle \ {p}
    /\ UNCHANGED <<dir, file, observed, aged, old, reused>>

-----------------------------------------------------------------------------
(* _recover_stale_interprocess_lock                                        *)

\* A missing or unfinished record is not observed.
Read(p) ==
    /\ Undisturbed(p)
    /\ Go(p, "read", "judge")
    /\ observed' = [observed EXCEPT ![p] = IF file \in Acquisitions THEN file ELSE None]
    /\ UNCHANGED <<dir, file, handle, aged, old, reused>>

\* A process on this host is asked for; what cannot be inspected has a lease.
Dead(q) == pc[q] = "dead" /\ (q \in reused => Identified)

\* mutant: an owner without a record is waited for
StaleRecorded(p) ==
    LET q == observed[p]
    IN  IF q = None THEN FALSE
        ELSE IF <<p, q>> \in Remote THEN q \in old
        ELSE Dead(q)

Stale(p) ==
    LET q == observed[p]
    IN  IF q = None THEN dir /\ aged
        ELSE IF <<p, q>> \in Remote THEN q \in old
        ELSE Dead(q)

Judge(p) ==
    /\ Undisturbed(p)
    /\ Go(p, "judge", IF Stale(p) THEN "compare" ELSE "wait")
    /\ UNCHANGED <<dir, file, handle, observed, aged, old, reused>>

\* mutant: the record is not read once more
CompareNever(p) ==
    /\ Undisturbed(p)
    /\ Go(p, "compare", "evict")
    /\ UNCHANGED <<dir, file, handle, observed, aged, old, reused>>

\* The record is read once more, if it was read at all.
Compare(p) ==
    /\ Undisturbed(p)
    /\ Go(p, "compare", IF observed[p] \in {None, file} THEN "evict" ELSE "wait")
    /\ UNCHANGED <<dir, file, handle, observed, aged, old, reused>>

Unlinks ==
    /\ file' = "absent"
    /\ handle' = {}
    /\ aged' = (aged /\ file = "absent")

Evict(p) ==
    /\ Undisturbed(p)
    /\ Go(p, "evict", "evicted")
    /\ Unlinks
    /\ UNCHANGED <<dir, observed, old, reused>>

\* rmdir fails unless the directory is there and empty.
Removable == dir /\ file = "absent"

Removes == dir' = (dir /\ ~Removable) /\ aged' = (aged /\ ~Removable)

Recover(p) ==
    /\ Undisturbed(p)
    /\ Go(p, "evicted", IF Removable THEN "try" ELSE "wait")
    /\ Removes
    /\ UNCHANGED <<file, handle, observed, old, reused>>

Retry(p) ==
    /\ Go(p, "wait", "try")
    /\ UNCHANGED <<dir, file, handle, observed, aged, old, reused>>

GiveUp(p) ==
    /\ ~Patient
    /\ Go(p, "wait", "failed")
    /\ UNCHANGED <<dir, file, handle, observed, aged, old, reused>>

-----------------------------------------------------------------------------
(* Leaving the lock: only the record with the own token is removed.        *)

Leave(p) ==
    /\ Undisturbed(p)
    /\ Go(p, "in", IF file = p THEN "release" ELSE "done")
    /\ UNCHANGED <<dir, file, handle, observed, aged, old, reused>>

Unlink(p) ==
    /\ Undisturbed(p)
    /\ Go(p, "release", "released") \/ Go(p, "undo", "undone")
    /\ Unlinks
    /\ UNCHANGED <<dir, observed, old, reused>>

Remove(p) ==
    /\ Undisturbed(p)
    /\ Go(p, "released", "done") \/ Go(p, "undone", "failed")
    /\ Removes
    /\ UNCHANGED <<file, handle, observed, old, reused>>

-----------------------------------------------------------------------------
(* The world.                                                              *)

Crash(p) ==
    /\ pc[p] \notin Ended
    /\ pc' = [pc EXCEPT ![p] = "dead"]
    /\ handle' = handle \ {p}
    /\ UNCHANGED <<dir, file, observed, aged, old, reused>>

Reuse(p) ==
    /\ pc[p] = "dead" /\ p \notin reused
    /\ reused' = reused \cup {p}
    /\ UNCHANGED <<pc, dir, file, handle, observed, aged, old>>

\* A lease goes by.
Lapse ==
    /\ dir /\ ~aged
    /\ LongPause \/ \A p \in Acquisitions : pc[p] \notin Owning
    /\ aged' = TRUE
    /\ old' = {p \in Acquisitions : pc[p] \in Owning \cup Ended}
    /\ UNCHANGED <<pc, dir, file, handle, observed, reused>>

-----------------------------------------------------------------------------
Takes(p) == Make(p) \/ Exists(p) \/ Open(p) \/ Fill(p) \/ WriteFails(p)
Recovers(p) ==
    \/ Read(p) \/ Judge(p) \/ Compare(p) \/ Evict(p) \/ Recover(p)
    \/ Retry(p) \/ GiveUp(p)
Leaves(p) == Leave(p) \/ Unlink(p) \/ Remove(p)

Step(p) == Takes(p) \/ Recovers(p) \/ Leaves(p)

Next ==
    \/ \E p \in Acquisitions : Step(p) \/ Crash(p) \/ Reuse(p)
    \/ Lapse

Init ==
    /\ pc = [p \in Acquisitions |-> "try"]
    /\ dir = FALSE /\ file = "absent" /\ handle = {}
    /\ observed = [p \in Acquisitions |-> None]
    /\ aged = FALSE /\ old = {} /\ reused = {}

Spec == Init /\ [][Next]_vars

\* A process that lives goes on, and time goes by.
Fairness == WF_vars(Lapse) /\ \A p \in Acquisitions : WF_vars(Step(p))

FairSpec == Spec /\ Fairness

-----------------------------------------------------------------------------
\* diagnostics.py, "a slow filesystem or debugger pause cannot be allowed to
\* destroy mutual exclusion": two live processes are never both in the
\* transaction, whoever died, recovered or released before.
MutualExclusion ==
    \A p, q \in Acquisitions : pc[p] = "in" /\ pc[q] = "in" => p = q

\* However its owners die, and at whichever step, the lock does not stay behind
\* for ever: whoever waits patiently has had it, failed to write, or died, in
\* the end.
NobodyBlocked == <>[](\A p \in Acquisitions : pc[p] \in Ended)
=============================================================================
