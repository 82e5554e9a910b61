------------------------------ MODULE StateStore ------------------------------
(***************************************************************************)
(* The durable state of one native save: a primary file, its backup and    *)
(* the debris of interrupted or quarantined files, under the writer lease  *)
(* of the state root (persistence.py).                                     *)
(*                                                                         *)
(* A file is written to a temporary, flushed, and renamed over its target, *)
(* so every other process, and the next one after a crash, sees the whole  *)
(* old or the whole new contents.  The steps below are those renames; a    *)
(* crash, an exception or damage to a file can come between any two.       *)
(* A writer is a client process; its slot stands for everything a binding  *)
(* is compared with: seed, team, slot, name and native slot.               *)
(***************************************************************************)
EXTENDS Integers

CONSTANTS
    Writers,      \* client processes
    Slots,        \* authenticated slots
    Updates,      \* what commits record: items, locations, receipts...
    NoWriter,     \* the lease is free
    NoSlot,       \* unbound, or no authorization record
    Missing,      \* no such file
    Corrupt,      \* unreadable, truncated or with a wrong checksum
    NoState,      \* no session, no acknowledged commit
    MaxRevision,  \* bound: revisions of the state
    MaxFaults,    \* bound: crashes and failed writes
    MaxDamage     \* bound: files damaged from outside

ASSUME BoundAssumption ==
    MaxRevision \in Nat /\ MaxFaults \in Nat /\ MaxDamage \in Nat

State == [instance: Nat, revision: Nat, slot: Slots \cup {NoSlot},
          clean: BOOLEAN, data: SUBSET Updates]

ASSUME SentinelAssumption ==
    /\ NoWriter \notin Writers
    /\ NoSlot \notin Slots
    /\ Missing \notin State
    /\ Corrupt \notin State
    /\ NoState \notin State
    /\ Missing # Corrupt

VARIABLES
    primary, backup,   \* contents of the two files
    debris,            \* there is a quarantined or interrupted file
    authorization,     \* the slot of the save's authorization record
    fresh,             \* the native save is fresh and unprogressed
    lease,             \* the owner of .writer.lock
    proc,              \* the session of each writer and its next step
    acked,             \* history: the last state reported as committed
    instances,         \* history: state instances created
    damage,            \* history: files damaged so far
    faults             \* crashes and failed writes so far

vars == <<primary, backup, debris, authorization, fresh, lease, proc, acked,
          instances, damage, faults>>

\* pc: what the writer does next.  "quarantine" is the backup's, after the
\* primary's; "backup", "replace" and "report" are the steps of a commit.
Process ==
    [pc: {"closed", "create", "restore", "quarantine", "loaded", "open",
          "backup", "replace", "report"},
     purpose: {"opening", "update", "closing"},
     slot: Slots \cup {NoSlot},
     eligible: BOOLEAN,
     state: State \cup {NoState},
     next: State \cup {NoState},
     previous: State \cup {NoState}]

TypeOK ==
    /\ primary \in State \cup {Missing, Corrupt}
    /\ backup \in State \cup {Missing, Corrupt}
    /\ debris \in BOOLEAN
    /\ authorization \in Slots \cup {NoSlot}
    /\ fresh \in BOOLEAN
    /\ lease \in Writers \cup {NoWriter}
    /\ proc \in [Writers -> Process]
    /\ acked \in State \cup {NoState}
    /\ instances \in Nat
    /\ damage \in Nat
    /\ faults \in Nat

Closed ==
    [pc |-> "closed", purpose |-> "opening", slot |-> NoSlot,
     eligible |-> FALSE, state |-> NoState, next |-> NoState,
     previous |-> NoState]

Readable(contents) == contents \notin {Missing, Corrupt}

Release(w) ==
    /\ lease' = NoWriter
    /\ proc' = [proc EXCEPT ![w] = Closed]

-----------------------------------------------------------------------------
(* StateRepository.open_live.                                               *)

\* mutant: the record is only required to exist
AuthorizationExists(s) == authorization # NoSlot

\* _require_save_identity_authorization
Authorized(s) == authorization = s

\* _preflight_save_identity_authorization: provenance is checked before the
\* recovery can change a file.
PreflightPasses(s) ==
    LET seen == IF Readable(primary) THEN primary ELSE backup
    IN  \/ seen = Corrupt
        \/ seen = Missing /\ primary = Corrupt
        \/ Readable(seen) /\ seen.slot # NoSlot
        \/ Authorized(s)

\* _validate_authenticated_binding
Compatible(contents, s) == contents.slot \in {NoSlot, s}

\* mutant: a new state replaces one that was quarantined
CreateAlways(isFresh) == isFresh

\* _quarantine_candidates and the eligibility check of create_unbound
MayCreate(isFresh) == ~debris /\ isFresh

Begin(w, s, stage, loaded) ==
    /\ lease' = w
    /\ proc' = [proc EXCEPT ![w] =
                  [Closed EXCEPT !.pc = stage, !.slot = s, !.eligible = fresh,
                                 !.state = loaded]]

\* mutant: nobody looks at the lease
LeaseIgnored == TRUE

\* _StateWriterLease.acquire
LeaseFree == lease = NoWriter

\* The primary is readable.
OpenLoaded(w, s) ==
    /\ Readable(primary)
    /\ Compatible(primary, s)
    /\ Begin(w, s, "loaded", primary)
    /\ UNCHANGED <<primary, backup, debris>>

\* There is no primary: the backup is restored, or a state is created.
OpenWithoutPrimary(w, s) ==
    /\ primary = Missing
    /\ \/ /\ Readable(backup)
          /\ Compatible(backup, s)
          /\ Begin(w, s, "restore", backup)
          /\ UNCHANGED <<primary, backup, debris>>
       \/ /\ backup = Missing
          /\ MayCreate(fresh)
          /\ Begin(w, s, "create", NoState)
          /\ UNCHANGED <<primary, backup, debris>>
       \/ /\ backup = Corrupt
          /\ backup' = Missing
          /\ debris' = TRUE
          /\ UNCHANGED <<primary, lease, proc>>

\* The primary is corrupt: it is quarantined once the backup is known to be
\* compatible, or unusable as well.
OpenCorrupt(w, s) ==
    /\ primary = Corrupt
    /\ primary' = Missing
    /\ debris' = TRUE
    /\ \/ /\ Readable(backup)
          /\ Compatible(backup, s)
          /\ Begin(w, s, "restore", backup)
       \/ /\ backup = Missing
          /\ UNCHANGED <<lease, proc>>
       \/ /\ backup = Corrupt
          /\ Begin(w, s, "quarantine", NoState)
    /\ UNCHANGED backup

\* The lease, the checks and the reads of _open.  An open that is refused for
\* the lease, the authorization, the binding or the eligibility changes nothing.
Open(w, s) ==
    /\ LeaseFree
    /\ proc[w] = Closed
    /\ PreflightPasses(s)
    /\ OpenLoaded(w, s) \/ OpenWithoutPrimary(w, s) \/ OpenCorrupt(w, s)
    /\ UNCHANGED <<authorization, fresh, acked, instances, damage, faults>>

\* The second _quarantine, after which the open is refused.
QuarantineBackup(w) ==
    /\ proc[w].pc = "quarantine"
    /\ backup' = IF backup = Missing THEN backup ELSE Missing
    /\ Release(w)
    /\ UNCHANGED <<primary, debris, authorization, fresh, acked, instances,
                   damage, faults>>

\* _write_new_primary(PersistentState.create_unbound(...))
Create(w) ==
    /\ proc[w].pc = "create"
    /\ instances' = instances + 1
    /\ primary' = [instance |-> instances', revision |-> 0, slot |-> NoSlot,
                   clean |-> TRUE, data |-> {}]
    /\ proc' = [proc EXCEPT ![w].pc = "loaded", ![w].state = primary']
    /\ UNCHANGED <<backup, debris, authorization, fresh, lease, acked, damage,
                   faults>>

\* _restore_backup, which reads the backup again.
Restore(w) ==
    /\ proc[w].pc = "restore"
    /\ primary' = backup
    /\ proc' = [proc EXCEPT ![w].pc = "loaded"]
    /\ UNCHANGED <<backup, debris, authorization, fresh, lease, acked,
                   instances, damage, faults>>

\* mutant: the disk is written without comparing revisions
RevisionUnchecked(old) == TRUE

\* The instance and revision comparisons of _commit_impl.
RevisionCurrent(old) ==
    primary.instance = old.instance /\ primary.revision = old.revision

\* _commit_impl up to the writing of the temporary: new replaces old.
BeginCommit(w, purpose, old, new) ==
    /\ Readable(primary)
    /\ RevisionCurrent(old)
    /\ old.revision < MaxRevision
    /\ proc' = [proc EXCEPT ![w].pc = "backup", ![w].purpose = purpose,
                  ![w].next = [new EXCEPT !.revision = old.revision + 1],
                  ![w].previous = primary]

\* The rest of _open: bind an unbound state, mark the session as running.
FinishOpen(w) ==
    LET loaded == proc[w].state
        opened == [loaded EXCEPT !.slot = proc[w].slot, !.clean = FALSE]
    IN  /\ proc[w].pc = "loaded"
        /\ loaded.slot = NoSlot => Authorized(proc[w].slot)
        /\ \/ /\ opened = loaded
              /\ proc' = [proc EXCEPT ![w].pc = "open"]
           \/ /\ opened # loaded
              /\ BeginCommit(w, "opening", loaded, opened)
        /\ UNCHANGED <<primary, backup, debris, authorization, fresh, lease,
                       acked, instances, damage, faults>>

-----------------------------------------------------------------------------
(* StateSession.commit and close.                                           *)

Commit(w, u) ==
    LET old == proc[w].state
    IN  /\ proc[w].pc = "open"
        /\ u \notin old.data
        /\ BeginCommit(w, "update", old, [old EXCEPT !.data = @ \cup {u}])
        /\ UNCHANGED <<primary, backup, debris, authorization, fresh, lease,
                       acked, instances, damage, faults>>

\* close(clean=True) records the clean shutdown first.
CloseClean(w) ==
    LET old == proc[w].state
    IN  /\ proc[w].pc = "open"
        /\ BeginCommit(w, "closing", old, [old EXCEPT !.clean = TRUE])
        /\ UNCHANGED <<primary, backup, debris, authorization, fresh, lease,
                       acked, instances, damage, faults>>

\* close(clean=False), or a clean close whose commit is refused.
CloseUnclean(w) ==
    /\ proc[w].pc = "open"
    /\ Release(w)
    /\ UNCHANGED <<primary, backup, debris, authorization, fresh, acked,
                   instances, damage, faults>>

\* mutant: the backup is refreshed only when there is none
KeepFirstBackup(w) == IF backup = Missing THEN proc[w].previous ELSE backup

\* _atomic_replace_bytes(paths.backup, previous)
RefreshedBackup(w) == proc[w].previous

ReplaceBackup(w) ==
    /\ proc[w].pc = "backup"
    /\ backup' = RefreshedBackup(w)
    /\ proc' = [proc EXCEPT ![w].pc = "replace"]
    /\ UNCHANGED <<primary, debris, authorization, fresh, lease, acked,
                   instances, damage, faults>>

\* os.replace(temporary, paths.primary)
ReplacePrimary(w) ==
    /\ proc[w].pc = "replace"
    /\ primary' = proc[w].next
    /\ proc' = [proc EXCEPT ![w].pc = "report"]
    /\ UNCHANGED <<backup, debris, authorization, fresh, lease, acked,
                   instances, damage, faults>>

\* _commit returns the committed state to the session.
Report(w) ==
    /\ proc[w].pc = "report"
    /\ acked' = proc[w].next
    /\ IF proc[w].purpose = "closing"
       THEN Release(w)
       ELSE /\ proc' = [proc EXCEPT ![w].pc = "open", ![w].state = proc[w].next,
                                    ![w].next = NoState, ![w].previous = NoState]
            /\ UNCHANGED lease
    /\ UNCHANGED <<primary, backup, debris, authorization, fresh, instances,
                   damage, faults>>

-----------------------------------------------------------------------------
(* Failures.                                                                *)

\* A temporary may be left behind by a write that is cut short.
Leftover(stage) ==
    debris' \in IF stage \in {"create", "restore", "backup", "replace"}
                THEN {debris, TRUE} ELSE {debris}

\* A commit raises: before the primary is replaced, or after it (the last
\* directory sync and fault point).  The session keeps its old state, the
\* opening and the closing of a session end.
CommitFails(w) ==
    /\ proc[w].pc \in {"backup", "replace", "report"}
    /\ faults < MaxFaults
    /\ faults' = faults + 1
    /\ Leftover(proc[w].pc)
    /\ IF proc[w].purpose = "update"
       THEN /\ proc' = [proc EXCEPT ![w].pc = "open", ![w].next = NoState,
                                    ![w].previous = NoState]
            /\ UNCHANGED lease
       ELSE Release(w)
    /\ UNCHANGED <<primary, backup, authorization, fresh, acked, instances,
                   damage>>

\* _open raises between two of its steps, or finds the primary changed when
\* it commits.
OpenFails(w) ==
    /\ \/ /\ proc[w].pc \in {"create", "restore", "quarantine", "loaded"}
          /\ faults < MaxFaults
          /\ faults' = faults + 1
       \/ /\ proc[w].pc = "loaded"
          /\ ~Readable(primary)
          /\ UNCHANGED faults
    /\ Release(w)
    /\ UNCHANGED <<primary, backup, debris, authorization, fresh, acked,
                   instances, damage>>

\* The process ends; the operating system releases its lock.
Crash(w) ==
    /\ proc[w] # Closed
    /\ faults < MaxFaults
    /\ faults' = faults + 1
    /\ Leftover(proc[w].pc)
    /\ proc' = [proc EXCEPT ![w] = Closed]
    /\ lease' = IF lease = w THEN NoWriter ELSE lease
    /\ UNCHANGED <<primary, backup, authorization, fresh, acked, instances,
                   damage>>

\* A file is damaged from outside.
DamageFile ==
    /\ damage < MaxDamage
    /\ damage' = damage + 1
    /\ \/ /\ Readable(primary)
          /\ primary' = Corrupt
          /\ UNCHANGED backup
       \/ /\ Readable(backup)
          /\ backup' = Corrupt
          /\ UNCHANGED primary
    /\ UNCHANGED <<debris, authorization, fresh, lease, proc, acked, instances,
                   faults>>

\* The player progresses in the native save.
Progress ==
    /\ fresh
    /\ fresh' = FALSE
    /\ UNCHANGED <<primary, backup, debris, authorization, lease, proc, acked,
                   instances, damage, faults>>

\* The identity of a native save was authorized before the game could use it;
\* a save of before the authorization records has none.
Init ==
    /\ primary = Missing
    /\ backup = Missing
    /\ debris = FALSE
    /\ authorization \in Slots \cup {NoSlot}
    /\ fresh \in BOOLEAN
    /\ lease = NoWriter
    /\ proc = [w \in Writers |-> Closed]
    /\ acked = NoState
    /\ instances = 0
    /\ damage = 0
    /\ faults = 0

Next ==
    \/ \E w \in Writers :
          \/ \E s \in Slots : Open(w, s)
          \/ QuarantineBackup(w)
          \/ Create(w)
          \/ Restore(w)
          \/ FinishOpen(w)
          \/ \E u \in Updates : Commit(w, u)
          \/ CloseClean(w)
          \/ CloseUnclean(w)
          \/ ReplaceBackup(w)
          \/ ReplacePrimary(w)
          \/ Report(w)
          \/ CommitFails(w)
          \/ OpenFails(w)
          \/ Crash(w)
    \/ DamageFile
    \/ Progress

Spec == Init /\ [][Next]_vars

-----------------------------------------------------------------------------
(* Properties.                                                              *)

\* What the next open of the save would load.
Loadable == IF Readable(primary) THEN primary
            ELSE IF Readable(backup) THEN backup ELSE Missing

\* A state reported as committed survives crashes, failed commits and
\* recoveries; one damaged file costs at most the last revision
\* (_write_state keeps the previous primary as the backup).
CommittedSurvives ==
    acked # NoState /\ damage <= 1
        => /\ Readable(Loadable)
           /\ Loadable.revision + damage >= acked.revision
           /\ damage = 0 => acked.data \subseteq Loadable.data

\* No writer, in any interleaving, and no crash undoes what the files hold:
\* neither an update nor the binding (the lease, the revision comparison and
\* the order of the renames).
NothingUndone ==
    [][damage' = damage /\ Readable(Loadable)
         => /\ Readable(Loadable')
            /\ Loadable.data \subseteq Loadable'.data
            /\ Loadable.slot \in {NoSlot, Loadable'.slot}]_<<primary, backup>>

\* The ledger of a save is never replaced by an empty one, whatever was
\* quarantined or interrupted (_load_or_create refuses).
OneInstance == instances <= 1

\* Only the slot the save's identity was authorized for writes a state:
\* another slot may at most move a corrupt file away
\* (_preflight_save_identity_authorization, _validate_authenticated_binding).
OnlyAuthorizedWrites ==
    [][\A w \in Writers :
         /\ lease = w
         /\ \/ primary' # primary /\ Readable(primary')
            \/ backup' # backup /\ Readable(backup')
         => authorization = proc[w].slot]_<<primary, backup>>

\* "For the first binding, the native save must be explicitly verified fresh
\* and unprogressed [...] This check also applies if a crash left an unbound
\* sidecar" (worlds/jak3/docs/persistence_en.md:17-20).
FirstBindingFresh ==
    [][\A w \in Writers :
         /\ lease = w
         /\ Readable(primary) /\ primary.slot = NoSlot
         /\ Readable(primary') /\ primary'.slot # NoSlot
         => proc[w].eligible]_primary
=============================================================================
