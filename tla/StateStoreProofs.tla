--------------------------- MODULE StateStoreProofs ---------------------------
(***************************************************************************)
(* The durability of one save for any writers, slots and updates, any      *)
(* number of crashes and failed writes, and as many damaged files as each  *)
(* property admits.                                                        *)
(*                                                                         *)
(* The properties speak of files; what makes them inductive is where the   *)
(* one writer with the lease is, and how its old, next and previous state  *)
(* compare with the files at that step.                                    *)
(***************************************************************************)
EXTENDS StateStore, TLAPS

\* The second state has everything of the first.
Extends(a, b) ==
    /\ a.data \subseteq b.data
    /\ a.slot \in {NoSlot, b.slot}
    /\ a.revision <= b.revision

\* Bound to nobody, or to the slot the save is authorized for.
Owned(state) == state.slot \in {NoSlot, authorization}

\* A writer that is not closed holds the lease.
LeaseHeld ==
    \A w \in Writers :
        IF lease = w THEN proc[w].pc # "closed" ELSE proc[w] = Closed

FilesOrdered ==
    /\ Readable(primary) => Owned(primary)
    /\ Readable(backup) => Owned(backup)
    /\ Readable(primary) /\ Readable(backup) => Extends(backup, primary)

\* A state was created and is somewhere on the disk.
Created ==
    /\ instances <= 1
    /\ instances = 1 => primary # Missing \/ debris

Opening(p) ==
    /\ p.pc = "create" => primary = Missing /\ backup = Missing /\ instances = 0
    /\ p.pc = "quarantine" => ~Readable(primary) /\ ~Readable(backup)
    /\ p.pc = "restore" =>
          /\ p.state \in State /\ Owned(p.state)
          /\ primary = Missing
          /\ Readable(backup) => backup = p.state
    /\ p.pc = "loaded" =>
          /\ p.state \in State /\ Owned(p.state)
          /\ Readable(primary) => primary = p.state

\* A session whose last commit failed after the rename is behind the file.
Serving(p) ==
    p.pc = "open" =>
        /\ p.state \in State /\ Owned(p.state)
        /\ Readable(primary) => primary = p.state
                                \/ p.state.revision < primary.revision

Committing(p) ==
    p.pc \in {"backup", "replace", "report"} =>
        /\ p.state \in State /\ p.next \in State
        /\ p.previous = p.state
        /\ Owned(p.state) /\ Owned(p.next)
        /\ Extends(p.state, p.next)
        /\ p.next.revision = p.state.revision + 1
        /\ Readable(primary)
              => primary = IF p.pc = "report" THEN p.next ELSE p.state
        /\ Readable(backup)
              => IF p.pc = "backup" THEN Extends(backup, p.state)
                 ELSE backup = p.state

Stage ==
    \A w \in Writers :
        lease = w =>
            /\ proc[w].pc # "quarantine" => proc[w].slot = authorization
            /\ Opening(proc[w])
            /\ Serving(proc[w])
            /\ Committing(proc[w])

\* What is left of the files while at most one was damaged.
Undamaged ==
    damage = 0 =>
        /\ primary # Corrupt /\ backup # Corrupt
        /\ acked # NoState =>
              /\ Readable(primary) /\ Readable(backup)
              /\ acked.revision <= primary.revision
              /\ acked.revision <= backup.revision + 1
              /\ acked.data \subseteq primary.data
        /\ \A w \in Writers :
              lease = w =>
                 /\ proc[w].pc \in {"backup", "replace", "report"} => Readable(primary)
                 /\ proc[w].pc \in {"replace", "report"} => Readable(backup)

DamagedOnce ==
    damage = 1 =>
        /\ acked # NoState =>
              Readable(Loadable) /\ acked.revision <= Loadable.revision + 1
        /\ \A w \in Writers :
              lease = w /\ proc[w].pc = "report"
                 => Readable(primary) \/ Readable(backup)

SInv ==
    /\ TypeOK
    /\ LeaseHeld
    /\ FilesOrdered
    /\ Created
    /\ Stage
    /\ Undamaged
    /\ DamagedOnce

-----------------------------------------------------------------------------
(* The one writer that acts.                                                *)

\* A session that is not closed has the lease, so it is the only one.
LEMMA Holder ==
    ASSUME SInv, NEW w \in Writers, proc[w].pc # "closed"
    PROVE  /\ lease = w
           /\ proc[w] \in Process
           /\ proc[w].pc # "quarantine" => proc[w].slot = authorization
           /\ Opening(proc[w])
           /\ Serving(proc[w])
           /\ Committing(proc[w])
  <1>1. proc[w] # Closed
    BY DEF Closed
  <1>2. lease = w
    BY <1>1 DEF SInv, LeaseHeld
  <1>3. proc[w] \in Process
    BY DEF SInv, TypeOK
  <1>4. QED
    BY <1>2, <1>3 DEF SInv, Stage

\* When only the holder of the lease moves, the lease stays where it is or is
\* released with the session.
LEMMA Alone ==
    ASSUME TypeOK, LeaseHeld, NEW w \in Writers, lease \in {w, NoWriter},
           NEW q \in Process, proc' = [proc EXCEPT ![w] = q],
           \/ lease' = w /\ q.pc # "closed"
           \/ lease' = NoWriter /\ q = Closed
    PROVE  /\ proc' \in [Writers -> Process]
           /\ lease' \in Writers \cup {NoWriter}
           /\ LeaseHeld'
           /\ proc'[w] = q
           /\ \A v \in Writers : lease' = v => v = w
  <1>1. /\ proc \in [Writers -> Process]
        /\ NoWriter \notin Writers
    BY SentinelAssumption DEF TypeOK
  <1>2. /\ proc' \in [Writers -> Process]
        /\ proc'[w] = q
        /\ \A v \in Writers \ {w} : proc'[v] = proc[v]
    BY <1>1
  <1>3. \A v \in Writers \ {w} : proc[v] = Closed
    BY <1>1 DEF LeaseHeld
  <1>4. \A v \in Writers : lease' = v => v = w
    BY <1>1
  <1>5. LeaseHeld'
    BY <1>1, <1>2, <1>3 DEF LeaseHeld
  <1>6. QED
    BY <1>2, <1>4, <1>5

LEMMA ClosedProcess == Closed \in Process /\ Closed.pc = "closed"
  BY DEF Closed, Process

\* The files stay and the session ends.
LEMMA Ends ==
    ASSUME SInv, NEW w \in Writers, lease = w, Release(w),
           debris' \in BOOLEAN, debris => debris',
           faults' \in Nat,
           UNCHANGED <<primary, backup, authorization, fresh, instances,
                       damage>>,
           acked' = acked
    PROVE  SInv'
  <1>1. /\ proc' \in [Writers -> Process]
        /\ lease' \in Writers \cup {NoWriter}
        /\ LeaseHeld'
        /\ \A v \in Writers : lease' # v
    BY Alone, ClosedProcess, SentinelAssumption DEF SInv, Release
  <1>2. TypeOK'
    BY <1>1 DEF SInv, TypeOK
  <1>3. FilesOrdered' /\ Created'
    BY DEF SInv, FilesOrdered, Created, Owned, Readable
  <1>4. Stage'
    BY <1>1 DEF Stage
  <1>5. Undamaged' /\ DamagedOnce'
    BY <1>1 DEF SInv, Undamaged, DamagedOnce, Readable, Loadable
  <1>6. QED
    BY <1>1, <1>2, <1>3, <1>4, <1>5 DEF SInv

\* The files stay and the session goes on as q.
LEMMA Moves ==
    ASSUME SInv, NEW w \in Writers, lease \in {w, NoWriter}, lease' = w,
           NEW q \in Process, proc' = [proc EXCEPT ![w] = q],
           q.pc # "closed",
           q.pc # "quarantine" => q.slot = authorization,
           Opening(q), Serving(q), Committing(q),
           q.pc \in {"backup", "replace", "report"} /\ damage = 0
              => Readable(primary) /\ (q.pc # "backup" => Readable(backup)),
           q.pc = "report" => proc[w].pc = "report",
           debris' \in BOOLEAN, debris => debris',
           faults' \in Nat,
           UNCHANGED <<primary, backup, authorization, fresh, instances,
                       damage, acked>>
    PROVE  SInv'
  <1>1. /\ proc' \in [Writers -> Process]
        /\ lease' \in Writers \cup {NoWriter}
        /\ LeaseHeld'
        /\ proc'[w] = q
        /\ \A v \in Writers : lease' = v => v = w
    BY Alone, ClosedProcess, SentinelAssumption DEF SInv
  <1>2. TypeOK'
    BY <1>1 DEF SInv, TypeOK
  <1>3. FilesOrdered' /\ Created'
    BY DEF SInv, FilesOrdered, Created, Owned, Readable
  <1>4. Stage'
    <2>1. Opening(proc[w])'
      BY <1>1 DEF Opening, Owned, Readable
    <2>2. Serving(proc[w])'
      BY <1>1 DEF Serving, Owned, Readable
    <2>3. Committing(proc[w])'
      BY <1>1 DEF Committing, Owned, Readable
    <2>4. proc'[w].pc # "quarantine" => proc'[w].slot = authorization'
      BY <1>1
    <2>5. QED
      BY <1>1, <2>1, <2>2, <2>3, <2>4 DEF Stage
  <1>5. Undamaged' /\ DamagedOnce'
    <2>1. q.pc = "report" => lease = w
      <3>1. q.pc = "report" => proc[w] # Closed
        BY ClosedProcess
      <3>2. QED
        BY <3>1 DEF SInv, LeaseHeld
    <2>2. QED
      BY <1>1, <2>1 DEF SInv, Undamaged, DamagedOnce, Readable, Loadable
  <1>6. QED
    BY <1>1, <1>2, <1>3, <1>4, <1>5 DEF SInv

\* A commit starts: the next state extends the one of the session.
LEMMA Commits ==
    ASSUME SInv, NEW w \in Writers, proc[w].pc \in {"loaded", "open"},
           NEW purpose \in {"opening", "update", "closing"},
           NEW new \in State, Owned(new), Extends(proc[w].state, new),
           BeginCommit(w, purpose, proc[w].state, new),
           UNCHANGED <<primary, backup, debris, authorization, fresh, lease,
                       acked, instances, damage, faults>>
    PROVE  SInv'
  <1> DEFINE p == proc[w]
             next == [new EXCEPT !.revision = p.state.revision + 1]
             q == [p EXCEPT !.pc = "backup", !.purpose = purpose,
                            !.next = next, !.previous = primary]
  <1>1. /\ lease = w
        /\ p \in Process
        /\ p.slot = authorization
        /\ Opening(p)
        /\ Serving(p)
    BY Holder
  <1>2. /\ Readable(primary)
        /\ RevisionCurrent(p.state)
        /\ p.state \in State
        /\ Owned(p.state)
    BY <1>1 DEF BeginCommit, Opening, Serving
  <1>3. primary \in State
    BY <1>2 DEF SInv, TypeOK, Readable
  <1>4. primary = p.state
    <2>1. primary.revision = p.state.revision
      BY <1>2 DEF RevisionCurrent
    <2>2. ~(p.state.revision < primary.revision)
      BY <1>2, <1>3, <2>1 DEF State
    <2>3. QED
      BY <1>1, <1>2, <2>2 DEF Opening, Serving
  <1>5. /\ next \in State
        /\ next.revision = p.state.revision + 1
        /\ next.slot = new.slot
        /\ next.data = new.data
    BY <1>2 DEF State
  <1>6. /\ q \in Process
        /\ q.pc = "backup"
        /\ q.slot = p.slot
        /\ q.state = p.state
        /\ q.next = next
        /\ q.previous = primary
    BY <1>1, <1>3, <1>5 DEF Process
  <1>7. proc' = [proc EXCEPT ![w] = q]
    BY <1>1 DEF BeginCommit, SInv, TypeOK
  <1>8. p.state.revision \in Nat
    BY <1>2 DEF State
  <1> HIDE DEF next, q
  <1>9. Extends(p.state, next) /\ Owned(next)
    BY <1>5, <1>8 DEF Extends, Owned
  <1>10. Readable(backup) => Extends(backup, p.state)
    BY <1>2, <1>4 DEF SInv, FilesOrdered
  <1>11. Opening(q) /\ Serving(q)
    BY <1>6 DEF Opening, Serving
  <1>12. Committing(q)
    BY <1>2, <1>4, <1>5, <1>6, <1>9, <1>10 DEF Committing
  <1>13. QED
    BY <1>1, <1>2, <1>6, <1>7, <1>11, <1>12, Moves DEF SInv, TypeOK

-----------------------------------------------------------------------------
(* Each step preserves the invariant.                                       *)

\* Who passes the preflight and the binding, with something usable on the
\* disk or with nothing there, is the authorized slot.
LEMMA Preflight ==
    ASSUME SInv, NEW s \in Slots, PreflightPasses(s)
    PROVE  /\ Readable(primary) /\ Compatible(primary, s) => s = authorization
           /\ ~Readable(primary) /\ Readable(backup) /\ Compatible(backup, s)
                 => s = authorization
           /\ primary = Missing /\ backup = Missing => s = authorization
  <1>1. /\ Readable(primary) => Owned(primary)
        /\ Readable(backup) => Owned(backup)
    BY DEF SInv, FilesOrdered
  <1>2. s # NoSlot /\ Missing # Corrupt
    BY SentinelAssumption
  <1>3. QED
    BY <1>1, <1>2 DEF PreflightPasses, Readable, Compatible, Owned, Authorized

\* The process a beginning open makes.
LEMMA Begins ==
    ASSUME SInv, NEW w \in Writers, NEW s \in Slots, lease = NoWriter,
           NEW stage \in {"loaded", "restore", "create", "quarantine"},
           NEW loaded \in State \cup {NoState}, Begin(w, s, stage, loaded)
    PROVE  \E q \in Process :
              /\ proc' = [proc EXCEPT ![w] = q]
              /\ lease' = w
              /\ q.pc = stage /\ q.slot = s /\ q.state = loaded
  <1> DEFINE q == [Closed EXCEPT !.pc = stage, !.slot = s, !.eligible = fresh,
                                 !.state = loaded]
  <1>1. q \in Process /\ q.pc = stage /\ q.slot = s /\ q.state = loaded
    BY DEF Closed, Process, SInv, TypeOK
  <1>2. proc' = [proc EXCEPT ![w] = q] /\ lease' = w
    BY DEF Begin
  <1>3. QED
    BY <1>1, <1>2

LEMMA OpenLoadedPreserves ==
    ASSUME SInv, NEW w \in Writers, NEW s \in Slots, lease = NoWriter,
           PreflightPasses(s), OpenLoaded(w, s),
           UNCHANGED <<authorization, fresh, acked, instances, damage, faults>>
    PROVE  SInv'
  <1>1. /\ Readable(primary)
        /\ primary \in State
        /\ s = authorization
        /\ Owned(primary)
    BY Preflight DEF OpenLoaded, SInv, TypeOK, Readable, FilesOrdered
  <1>2. PICK q \in Process :
           /\ proc' = [proc EXCEPT ![w] = q]
           /\ lease' = w
           /\ q.pc = "loaded" /\ q.slot = s /\ q.state = primary
    BY <1>1, Begins DEF OpenLoaded
  <1>3. Opening(q) /\ Serving(q) /\ Committing(q)
    BY <1>1, <1>2 DEF Opening, Serving, Committing
  <1>4. QED
    BY <1>1, <1>2, <1>3, Moves DEF OpenLoaded, SInv, TypeOK

LEMMA OpenWithoutPrimaryPreserves ==
    ASSUME SInv, NEW w \in Writers, NEW s \in Slots, lease = NoWriter,
           PreflightPasses(s), OpenWithoutPrimary(w, s),
           UNCHANGED <<authorization, fresh, acked, instances, damage, faults>>
    PROVE  SInv'
  <1>1. /\ primary = Missing
        /\ ~Readable(primary)
    BY DEF OpenWithoutPrimary, Readable
  <1>2. CASE /\ Readable(backup)
             /\ Compatible(backup, s)
             /\ Begin(w, s, "restore", backup)
             /\ UNCHANGED <<primary, backup, debris>>
    <2>1. backup \in State /\ s = authorization /\ Owned(backup)
      BY <1>1, <1>2, Preflight DEF SInv, TypeOK, Readable, FilesOrdered
    <2>2. PICK q \in Process :
             /\ proc' = [proc EXCEPT ![w] = q]
             /\ lease' = w
             /\ q.pc = "restore" /\ q.slot = s /\ q.state = backup
      BY <1>2, <2>1, Begins
    <2>3. Opening(q) /\ Serving(q) /\ Committing(q)
      BY <1>1, <2>1, <2>2 DEF Opening, Serving, Committing
    <2>4. QED
      BY <1>2, <2>1, <2>2, <2>3, Moves DEF SInv, TypeOK
  <1>3. CASE /\ backup = Missing
             /\ MayCreate(fresh)
             /\ Begin(w, s, "create", NoState)
             /\ UNCHANGED <<primary, backup, debris>>
    <2>1. s = authorization
      BY <1>1, <1>3, Preflight
    <2>2. instances = 0
      BY <1>1, <1>3 DEF SInv, TypeOK, Created, MayCreate
    <2>3. PICK q \in Process :
             /\ proc' = [proc EXCEPT ![w] = q]
             /\ lease' = w
             /\ q.pc = "create" /\ q.slot = s /\ q.state = NoState
      BY <1>3, Begins
    <2>4. Opening(q) /\ Serving(q) /\ Committing(q)
      BY <1>1, <1>3, <2>2, <2>3 DEF Opening, Serving, Committing
    <2>5. QED
      BY <1>3, <2>1, <2>3, <2>4, Moves DEF SInv, TypeOK
  <1>4. CASE /\ backup = Corrupt
             /\ backup' = Missing
             /\ debris' = TRUE
             /\ UNCHANGED <<primary, lease, proc>>
    <2>1. /\ TypeOK' /\ LeaseHeld' /\ FilesOrdered' /\ Created'
      BY <1>1, <1>4 DEF SInv, TypeOK, LeaseHeld, FilesOrdered, Created, Readable
    <2>2. Stage'
      BY <1>4, SentinelAssumption DEF Stage
    <2>3. damage # 0
      BY <1>4 DEF SInv, Undamaged
    <2>4. Undamaged' /\ DamagedOnce'
      BY <1>1, <1>4, <2>3, SentinelAssumption
         DEF SInv, Undamaged, DamagedOnce, Loadable, Readable
    <2>5. QED
      BY <2>1, <2>2, <2>4 DEF SInv
  <1>5. QED
    BY <1>2, <1>3, <1>4 DEF OpenWithoutPrimary

LEMMA OpenCorruptPreserves ==
    ASSUME SInv, NEW w \in Writers, NEW s \in Slots, lease = NoWriter,
           PreflightPasses(s), OpenCorrupt(w, s),
           UNCHANGED <<authorization, fresh, acked, instances, damage, faults>>
    PROVE  SInv'
  <1>1. /\ primary = Corrupt /\ primary' = Missing
        /\ ~Readable(primary) /\ ~Readable(primary')
        /\ backup' = backup /\ debris' = TRUE
    BY DEF OpenCorrupt, Readable
  <1>2. FilesOrdered' /\ Created'
    BY <1>1 DEF SInv, FilesOrdered, Created, Readable, Owned
  <1>3. damage # 0
    BY <1>1 DEF SInv, Undamaged
  <1>4. CASE Readable(backup) /\ Compatible(backup, s)
             /\ Begin(w, s, "restore", backup)
    <2>1. backup \in State /\ s = authorization /\ Owned(backup)
      BY <1>1, <1>4, Preflight DEF SInv, TypeOK, Readable, FilesOrdered
    <2>2. PICK q \in Process :
             /\ proc' = [proc EXCEPT ![w] = q]
             /\ lease' = w
             /\ q.pc = "restore" /\ q.slot = s /\ q.state = backup
      BY <1>4, <2>1, Begins
    <2>3. /\ proc' \in [Writers -> Process]
          /\ lease' \in Writers \cup {NoWriter}
          /\ LeaseHeld'
          /\ proc'[w] = q
          /\ \A v \in Writers : lease' = v => v = w
      BY <2>2, Alone DEF SInv
    <2>4. TypeOK'
      BY <1>1, <2>3, SentinelAssumption DEF SInv, TypeOK
    <2>5. Stage'
      BY <1>1, <2>1, <2>2, <2>3
         DEF Stage, Opening, Serving, Committing, Readable, Owned
    <2>6. Undamaged' /\ DamagedOnce'
      BY <1>1, <1>3, <2>2, <2>3
         DEF SInv, Undamaged, DamagedOnce, Loadable, Readable
    <2>7. QED
      BY <1>2, <2>3, <2>4, <2>5, <2>6 DEF SInv
  <1>5. CASE backup = Missing /\ UNCHANGED <<lease, proc>>
    <2>1. TypeOK' /\ LeaseHeld'
      BY <1>1, <1>5 DEF SInv, TypeOK, LeaseHeld
    <2>2. Stage'
      BY <1>5, SentinelAssumption DEF Stage
    <2>3. Undamaged' /\ DamagedOnce'
      BY <1>1, <1>3, <1>5, SentinelAssumption
         DEF SInv, Undamaged, DamagedOnce, Loadable, Readable
    <2>4. QED
      BY <1>2, <2>1, <2>2, <2>3 DEF SInv
  <1>6. CASE backup = Corrupt /\ Begin(w, s, "quarantine", NoState)
    <2>1. PICK q \in Process :
             /\ proc' = [proc EXCEPT ![w] = q]
             /\ lease' = w
             /\ q.pc = "quarantine" /\ q.slot = s /\ q.state = NoState
      BY <1>6, Begins
    <2>2. /\ proc' \in [Writers -> Process]
          /\ lease' \in Writers \cup {NoWriter}
          /\ LeaseHeld'
          /\ proc'[w] = q
          /\ \A v \in Writers : lease' = v => v = w
      BY <2>1, Alone DEF SInv
    <2>3. TypeOK'
      BY <1>1, <2>2, SentinelAssumption DEF SInv, TypeOK
    <2>4. Stage'
      BY <1>1, <1>6, <2>1, <2>2
         DEF Stage, Opening, Serving, Committing, Readable, Owned
    <2>5. Undamaged' /\ DamagedOnce'
      BY <1>1, <1>3, <2>1, <2>2
         DEF SInv, Undamaged, DamagedOnce, Loadable, Readable
    <2>6. QED
      BY <1>2, <2>2, <2>3, <2>4, <2>5 DEF SInv
  <1>7. QED
    BY <1>4, <1>5, <1>6 DEF OpenCorrupt

LEMMA OpenPreserves ==
    ASSUME SInv, NEW w \in Writers, NEW s \in Slots, Open(w, s)
    PROVE  SInv'
  BY OpenLoadedPreserves, OpenWithoutPrimaryPreserves, OpenCorruptPreserves
     DEF Open, LeaseFree

LEMMA QuarantineBackupPreserves ==
    ASSUME SInv, NEW w \in Writers, QuarantineBackup(w)
    PROVE  SInv'
  <1>1. /\ lease = w
        /\ ~Readable(primary) /\ ~Readable(backup)
    BY Holder DEF QuarantineBackup, Opening
  <1>2. /\ primary' = primary /\ debris' = debris
        /\ backup' \in {backup, Missing}
        /\ ~Readable(primary') /\ ~Readable(backup')
    BY <1>1 DEF QuarantineBackup, Readable
  <1>3. /\ proc' \in [Writers -> Process]
        /\ lease' \in Writers \cup {NoWriter}
        /\ LeaseHeld'
        /\ \A v \in Writers : lease' # v
    BY <1>1, Alone, ClosedProcess, SentinelAssumption
       DEF SInv, QuarantineBackup, Release
  <1>4. TypeOK'
    BY <1>2, <1>3 DEF SInv, TypeOK, QuarantineBackup
  <1>5. FilesOrdered' /\ Created'
    BY <1>2 DEF SInv, FilesOrdered, Created, QuarantineBackup
  <1>6. Stage'
    BY <1>3 DEF Stage
  <1>7. Undamaged'
    BY <1>1, <1>2, <1>3, SentinelAssumption
       DEF SInv, Undamaged, QuarantineBackup, Readable
  <1>8. DamagedOnce'
    BY <1>1, <1>2, <1>3, SentinelAssumption
       DEF SInv, DamagedOnce, QuarantineBackup, Readable, Loadable
  <1>9. QED
    BY <1>3, <1>4, <1>5, <1>6, <1>7, <1>8 DEF SInv

LEMMA CreatePreserves ==
    ASSUME SInv, NEW w \in Writers, Create(w)
    PROVE  SInv'
  <1> DEFINE q == [proc[w] EXCEPT !.pc = "loaded", !.state = primary']
  <1>1. /\ lease = w
        /\ proc[w] \in Process
        /\ proc[w].slot = authorization
        /\ primary = Missing /\ backup = Missing /\ instances = 0
    BY Holder DEF Create, Opening
  <1>2. /\ primary' \in State
        /\ primary'.slot = NoSlot
        /\ instances' = 1
    BY <1>1 DEF Create, State
  <1>3. q \in Process /\ q.pc = "loaded" /\ q.slot = authorization
        /\ q.state = primary'
    BY <1>1, <1>2 DEF Process
  <1>4. proc' = [proc EXCEPT ![w] = q]
    BY <1>1 DEF Create, SInv, TypeOK
  <1> HIDE DEF q
  <1>5. /\ proc' \in [Writers -> Process]
        /\ lease' \in Writers \cup {NoWriter}
        /\ LeaseHeld'
        /\ proc'[w] = q
        /\ \A v \in Writers : lease' = v => v = w
    BY <1>1, <1>3, <1>4, Alone DEF SInv, Create
  <1>6. Readable(primary') /\ ~Readable(backup) /\ ~Readable(primary)
    BY <1>1, <1>2, SentinelAssumption DEF Readable
  <1>7. TypeOK'
    BY <1>2, <1>5 DEF SInv, TypeOK, Create
  <1>8. FilesOrdered' /\ Created'
    BY <1>2, <1>6, SentinelAssumption
       DEF FilesOrdered, Created, Owned, Create, Readable
  <1>9. Stage'
    <2>1. Opening(proc[w])'
      BY <1>2, <1>3, <1>5 DEF Opening, Owned
    <2>2. Serving(proc[w])' /\ Committing(proc[w])'
      BY <1>3, <1>5 DEF Serving, Committing
    <2>3. QED
      BY <1>3, <1>5, <2>1, <2>2 DEF Stage, Create
  <1>10. Undamaged' /\ DamagedOnce'
    BY <1>1, <1>2, <1>3, <1>5, <1>6, SentinelAssumption
       DEF SInv, Undamaged, DamagedOnce, Create, Loadable, Readable
  <1>11. QED
    BY <1>5, <1>7, <1>8, <1>9, <1>10 DEF SInv

LEMMA RestorePreserves ==
    ASSUME SInv, NEW w \in Writers, Restore(w)
    PROVE  SInv'
  <1> DEFINE q == [proc[w] EXCEPT !.pc = "loaded"]
  <1>1. /\ lease = w
        /\ proc[w] \in Process
        /\ proc[w].slot = authorization
        /\ proc[w].state \in State /\ Owned(proc[w].state)
        /\ primary = Missing
        /\ Readable(backup) => backup = proc[w].state
    BY Holder DEF Restore, Opening
  <1>2. q \in Process /\ q.pc = "loaded" /\ q.slot = authorization
        /\ q.state = proc[w].state
    BY <1>1 DEF Process
  <1>3. proc' = [proc EXCEPT ![w] = q]
    BY <1>1 DEF Restore, SInv, TypeOK
  <1> HIDE DEF q
  <1>4. /\ proc' \in [Writers -> Process]
        /\ lease' \in Writers \cup {NoWriter}
        /\ LeaseHeld'
        /\ proc'[w] = q
        /\ \A v \in Writers : lease' = v => v = w
    BY <1>1, <1>2, <1>3, Alone DEF SInv, Restore
  <1>5. /\ primary' = backup /\ backup' = backup /\ debris' = debris
        /\ ~Readable(primary)
    BY <1>1 DEF Restore, Readable
  <1>6. TypeOK'
    BY <1>4, <1>5 DEF SInv, TypeOK, Restore
  <1>7. FilesOrdered'
    <2>1. Readable(backup) => Extends(backup, backup)
      BY DEF SInv, TypeOK, Readable, Extends, State
    <2>2. QED
      BY <1>5, <2>1 DEF SInv, FilesOrdered, Owned, Restore, Readable, Extends
  <1>8. Created'
    BY <1>1, <1>5 DEF SInv, Created, Restore
  <1>9. Stage'
    <2>1. Opening(proc[w])'
      BY <1>1, <1>2, <1>4, <1>5 DEF Opening, Owned, Restore, Readable
    <2>2. Serving(proc[w])' /\ Committing(proc[w])'
      BY <1>2, <1>4 DEF Serving, Committing
    <2>3. QED
      BY <1>2, <1>4, <2>1, <2>2 DEF Stage, Restore
  <1>10. Undamaged' /\ DamagedOnce'
    BY <1>1, <1>2, <1>4, <1>5
       DEF SInv, Undamaged, DamagedOnce, Restore, Loadable, Readable
  <1>11. QED
    BY <1>4, <1>6, <1>7, <1>8, <1>9, <1>10 DEF SInv

LEMMA FinishOpenPreserves ==
    ASSUME SInv, NEW w \in Writers, FinishOpen(w)
    PROVE  SInv'
  <1> DEFINE loaded == proc[w].state
             opened == [loaded EXCEPT !.slot = proc[w].slot, !.clean = FALSE]
  <1>1. /\ lease = w
        /\ proc[w] \in Process
        /\ proc[w].pc = "loaded"
        /\ proc[w].slot = authorization
        /\ loaded \in State /\ Owned(loaded)
        /\ Readable(primary) => primary = loaded
        /\ authorization \in Slots \cup {NoSlot}
    BY Holder DEF FinishOpen, Opening, SInv, TypeOK
  <1>2. /\ opened \in State
        /\ opened.slot = authorization
        /\ opened.data = loaded.data
        /\ opened.revision = loaded.revision
        /\ loaded.revision \in Nat
    BY <1>1 DEF State
  <1>3. CASE opened = loaded /\ proc' = [proc EXCEPT ![w].pc = "open"]
    <2> DEFINE q == [proc[w] EXCEPT !.pc = "open"]
    <2>1. q \in Process /\ q.pc = "open" /\ q.slot = authorization
          /\ q.state = loaded
      BY <1>1 DEF Process
    <2>2. proc' = [proc EXCEPT ![w] = q]
      BY <1>1, <1>3 DEF SInv, TypeOK
    <2> HIDE DEF q
    <2>3. Opening(q) /\ Serving(q) /\ Committing(q)
      BY <1>1, <2>1 DEF Opening, Serving, Committing
    <2>4. QED
      BY <1>1, <2>1, <2>2, <2>3, Moves DEF FinishOpen, SInv, TypeOK
  <1>4. CASE BeginCommit(w, "opening", loaded, opened)
    <2> HIDE DEF opened
    <2>1. Owned(opened) /\ Extends(loaded, opened)
      BY <1>1, <1>2 DEF Owned, Extends
    <2>2. QED
      BY <1>1, <1>2, <1>4, <2>1, Commits DEF FinishOpen
  <1>5. QED
    BY <1>3, <1>4 DEF FinishOpen

LEMMA CommitPreserves ==
    ASSUME SInv, NEW w \in Writers, NEW u \in Updates, Commit(w, u)
    PROVE  SInv'
  <1> DEFINE old == proc[w].state
             new == [old EXCEPT !.data = @ \cup {u}]
  <1>1. proc[w].pc = "open" /\ old \in State /\ Owned(old)
    BY Holder DEF Commit, Serving
  <1>2. /\ new \in State
        /\ new.slot = old.slot
        /\ new.data = old.data \cup {u}
        /\ new.revision = old.revision
        /\ old.revision \in Nat
    BY <1>1 DEF State
  <1>3. BeginCommit(w, "update", old, new)
    BY DEF Commit
  <1> HIDE DEF new
  <1>4. Owned(new) /\ Extends(old, new)
    BY <1>1, <1>2 DEF Owned, Extends
  <1>5. QED
    BY <1>1, <1>2, <1>3, <1>4, Commits DEF Commit

LEMMA CloseCleanPreserves ==
    ASSUME SInv, NEW w \in Writers, CloseClean(w)
    PROVE  SInv'
  <1> DEFINE old == proc[w].state
             new == [old EXCEPT !.clean = TRUE]
  <1>1. proc[w].pc = "open" /\ old \in State /\ Owned(old)
    BY Holder DEF CloseClean, Serving
  <1>2. /\ new \in State
        /\ new.slot = old.slot
        /\ new.data = old.data
        /\ new.revision = old.revision
        /\ old.revision \in Nat
    BY <1>1 DEF State
  <1>3. BeginCommit(w, "closing", old, new)
    BY DEF CloseClean
  <1> HIDE DEF new
  <1>4. Owned(new) /\ Extends(old, new)
    BY <1>1, <1>2 DEF Owned, Extends
  <1>5. QED
    BY <1>1, <1>2, <1>3, <1>4, Commits DEF CloseClean

LEMMA CloseUncleanPreserves ==
    ASSUME SInv, NEW w \in Writers, CloseUnclean(w)
    PROVE  SInv'
  BY Holder, Ends DEF CloseUnclean, SInv, TypeOK

LEMMA ReplaceBackupPreserves ==
    ASSUME SInv, NEW w \in Writers, ReplaceBackup(w)
    PROVE  SInv'
  <1> DEFINE q == [proc[w] EXCEPT !.pc = "replace"]
             old == proc[w].state
  <1>1. /\ lease = w
        /\ proc[w] \in Process
        /\ proc[w].pc = "backup"
        /\ proc[w].slot = authorization
        /\ Committing(proc[w])
    BY Holder DEF ReplaceBackup
  <1>2. /\ old \in State /\ Owned(old)
        /\ backup' = old
        /\ primary' = primary /\ debris' = debris
        /\ Readable(primary) => primary = old
        /\ Readable(backup) => Extends(backup, old)
    BY <1>1 DEF ReplaceBackup, RefreshedBackup, Committing
  <1>3. /\ q \in Process /\ q.pc = "replace" /\ q.slot = authorization
        /\ q.state = old /\ q.next = proc[w].next
        /\ q.previous = proc[w].previous
    BY <1>1 DEF Process
  <1>4. proc' = [proc EXCEPT ![w] = q]
    BY <1>1 DEF ReplaceBackup, SInv, TypeOK
  <1> HIDE DEF q
  <1>5. /\ proc' \in [Writers -> Process]
        /\ lease' \in Writers \cup {NoWriter}
        /\ LeaseHeld'
        /\ proc'[w] = q
        /\ \A v \in Writers : lease' = v => v = w
    BY <1>1, <1>3, <1>4, Alone DEF SInv, ReplaceBackup
  <1>6. Readable(backup') /\ Extends(old, old) /\ old.revision \in Nat
    BY <1>2, SentinelAssumption DEF Readable, Extends, State
  <1>7. TypeOK'
    BY <1>2, <1>5 DEF SInv, TypeOK, ReplaceBackup
  <1>8. FilesOrdered' /\ Created'
    BY <1>2, <1>6
       DEF SInv, FilesOrdered, Created, Owned, ReplaceBackup, Readable, Extends
  <1>9. Stage'
    <2>1. Committing(proc[w])'
      BY <1>1, <1>2, <1>3, <1>5
         DEF Committing, Owned, ReplaceBackup, Readable
    <2>2. Serving(proc[w])' /\ Opening(proc[w])'
      BY <1>3, <1>5 DEF Serving, Opening
    <2>3. QED
      BY <1>3, <1>5, <2>1, <2>2 DEF Stage, ReplaceBackup
  <1>10. Undamaged'
    <2>1. damage = 0 => Readable(primary) /\ primary = old
      BY <1>1, <1>2 DEF SInv, Undamaged
    <2>2. damage = 0 /\ acked # NoState => acked.revision <= old.revision + 1
      BY <1>2, <1>6, <2>1 DEF SInv, Undamaged, TypeOK, State
    <2>3. damage = 0 => backup' # Corrupt
      BY <1>6 DEF Readable
    <2>4. UNCHANGED <<damage, acked, primary>>
      BY DEF ReplaceBackup
    <2>5. damage = 0 => Readable(primary')
      BY <2>1, <2>4
    <2>6. QED
      BY <1>2, <1>3, <1>5, <1>6, <2>1, <2>2, <2>3, <2>4, <2>5
         DEF SInv, Undamaged
  <1>11. DamagedOnce'
    <2>1. damage = 1 /\ acked # NoState
             => Readable(Loadable') /\ acked.revision <= Loadable'.revision + 1
      <3>1. CASE Readable(primary)
        BY <1>2, <3>1 DEF SInv, DamagedOnce, Loadable, Readable
      <3>2. CASE ~Readable(primary)
        <4>1. Loadable' = old
          BY <1>2, <1>6, <3>2 DEF Loadable, Readable
        <4>2. damage = 1 /\ acked # NoState
                 => Readable(backup) /\ acked.revision <= backup.revision + 1
          BY <3>2 DEF SInv, DamagedOnce, Loadable, Readable
        <4>3. damage = 1 /\ acked # NoState
                 => /\ acked.revision \in Nat
                    /\ backup.revision \in Nat
                    /\ backup.revision <= old.revision
          BY <1>2, <4>2 DEF SInv, TypeOK, State, Readable, Extends
        <4>4. QED
          BY <1>2, <1>6, <4>1, <4>2, <4>3
      <3>3. QED
        BY <3>1, <3>2
    <2>2. QED
      BY <1>3, <1>5, <2>1 DEF DamagedOnce, ReplaceBackup, Readable
  <1>12. QED
    BY <1>5, <1>7, <1>8, <1>9, <1>10, <1>11 DEF SInv

LEMMA ReplacePrimaryPreserves ==
    ASSUME SInv, NEW w \in Writers, ReplacePrimary(w)
    PROVE  SInv'
  <1> DEFINE q == [proc[w] EXCEPT !.pc = "report"]
             old == proc[w].state
             next == proc[w].next
  <1>1. /\ lease = w
        /\ proc[w] \in Process
        /\ proc[w].pc = "replace"
        /\ proc[w].slot = authorization
        /\ Committing(proc[w])
    BY Holder DEF ReplacePrimary
  <1>2. /\ old \in State /\ Owned(old)
        /\ next \in State /\ Owned(next)
        /\ Extends(old, next)
        /\ next.revision = old.revision + 1
        /\ primary' = next
        /\ backup' = backup /\ debris' = debris
        /\ Readable(primary) => primary = old
        /\ Readable(backup) => backup = old
    BY <1>1 DEF ReplacePrimary, Committing
  <1>3. /\ q \in Process /\ q.pc = "report" /\ q.slot = authorization
        /\ q.state = old /\ q.next = next
        /\ q.previous = proc[w].previous
    BY <1>1 DEF Process
  <1>4. proc' = [proc EXCEPT ![w] = q]
    BY <1>1 DEF ReplacePrimary, SInv, TypeOK
  <1> HIDE DEF q
  <1>5. /\ proc' \in [Writers -> Process]
        /\ lease' \in Writers \cup {NoWriter}
        /\ LeaseHeld'
        /\ proc'[w] = q
        /\ \A v \in Writers : lease' = v => v = w
    BY <1>1, <1>3, <1>4, Alone DEF SInv, ReplacePrimary
  <1>6. /\ Readable(primary')
        /\ primary' # Corrupt /\ primary' # Missing
        /\ old.revision \in Nat /\ next.revision \in Nat
    BY <1>2, SentinelAssumption DEF Readable, State
  <1>7. TypeOK'
    BY <1>2, <1>5 DEF SInv, TypeOK, ReplacePrimary
  <1>8. FilesOrdered' /\ Created'
    BY <1>2, <1>6
       DEF SInv, FilesOrdered, Created, Owned, ReplacePrimary, Readable, Extends
  <1>9. Stage'
    <2>1. Committing(proc[w])'
      BY <1>1, <1>2, <1>3, <1>5
         DEF Committing, Owned, ReplacePrimary, Readable
    <2>2. Serving(proc[w])' /\ Opening(proc[w])'
      BY <1>3, <1>5 DEF Serving, Opening
    <2>3. QED
      BY <1>3, <1>5, <2>1, <2>2 DEF Stage, ReplacePrimary
  <1>10. UNCHANGED <<damage, acked>>
    BY DEF ReplacePrimary
  <1>11. Undamaged'
    <2>1. damage = 0
             => Readable(primary) /\ primary = old /\ Readable(backup)
      BY <1>1, <1>2 DEF SInv, Undamaged
    <2>2. damage = 0 /\ acked # NoState
             => /\ acked.revision <= next.revision
                /\ acked.revision <= backup.revision + 1
                /\ acked.data \subseteq next.data
      <3>1. damage = 0 /\ acked # NoState
               => /\ acked.revision \in Nat
                  /\ acked.revision <= old.revision
                  /\ acked.revision <= backup.revision + 1
                  /\ acked.data \subseteq old.data
        BY <2>1 DEF SInv, Undamaged, TypeOK, State
      <3>2. QED
        BY <1>2, <1>6, <3>1 DEF Extends
    <2>3. damage = 0 => Readable(backup') /\ backup' # Corrupt
      BY <1>2, <2>1 DEF Readable
    <2>4. QED
      BY <1>2, <1>3, <1>5, <1>6, <1>10, <2>1, <2>2, <2>3 DEF SInv, Undamaged
  <1>12. DamagedOnce'
    <2>1. Loadable' = next
      BY <1>2, <1>6 DEF Loadable, Readable
    <2>2. damage = 1 /\ acked # NoState => acked.revision <= old.revision + 1
      BY <1>2 DEF SInv, DamagedOnce, Loadable, Readable
    <2>3. damage = 1 /\ acked # NoState => acked.revision \in Nat
      BY DEF SInv, TypeOK, State
    <2>4. damage = 1 /\ acked # NoState
             => Readable(Loadable') /\ acked.revision <= Loadable'.revision + 1
      BY <1>2, <1>6, <2>1, <2>2, <2>3
    <2>5. QED
      BY <1>6, <1>10, <2>4 DEF DamagedOnce
  <1>13. QED
    BY <1>5, <1>7, <1>8, <1>9, <1>11, <1>12 DEF SInv

\* The primary holds the next state, the backup the one before it.
LEMMA ReportPreserves ==
    ASSUME SInv, NEW w \in Writers, Report(w)
    PROVE  SInv'
  <1> DEFINE old == proc[w].state
             next == proc[w].next
             q == [proc[w] EXCEPT !.pc = "open", !.state = next,
                                  !.next = NoState, !.previous = NoState]
  <1>1. /\ lease = w
        /\ proc[w] \in Process
        /\ proc[w].pc = "report"
        /\ proc[w].slot = authorization
        /\ Committing(proc[w])
    BY Holder DEF Report
  <1>2. /\ old \in State
        /\ next \in State /\ Owned(next)
        /\ Extends(old, next)
        /\ next.revision = old.revision + 1
        /\ acked' = next
        /\ Readable(primary) => primary = next
        /\ Readable(backup) => backup = old
        /\ next # NoState
    BY <1>1, SentinelAssumption DEF Report, Committing
  <1>3. UNCHANGED <<primary, backup, debris, authorization, fresh, instances,
                    damage, faults>>
    BY DEF Report
  <1>4. /\ q \in Process /\ q.pc = "open" /\ q.slot = authorization
        /\ q.state = next
    BY <1>1, <1>2 DEF Process
  <1>5. \/ proc' = [proc EXCEPT ![w] = q] /\ lease' = w
        \/ proc' = [proc EXCEPT ![w] = Closed] /\ lease' = NoWriter
    BY <1>1 DEF Report, Release, SInv, TypeOK
  <1> HIDE DEF q
  <1>6. /\ proc' \in [Writers -> Process]
        /\ lease' \in Writers \cup {NoWriter}
        /\ LeaseHeld'
        /\ \A v \in Writers : lease' = v => v = w
        /\ lease' = w => proc'[w] = q
    <2>1. CASE proc' = [proc EXCEPT ![w] = q] /\ lease' = w
      BY <1>1, <1>4, <2>1, Alone DEF SInv
    <2>2. CASE proc' = [proc EXCEPT ![w] = Closed] /\ lease' = NoWriter
      BY <1>1, <2>2, ClosedProcess, SentinelAssumption, Alone DEF SInv
    <2>3. QED
      BY <1>5, <2>1, <2>2
  <1>7. TypeOK'
    BY <1>2, <1>3, <1>6 DEF SInv, TypeOK
  <1>8. FilesOrdered' /\ Created'
    BY <1>3 DEF SInv, FilesOrdered, Created, Owned, Readable
  <1>9. Stage'
    <2>1. ASSUME lease' = w
          PROVE  Opening(proc[w])' /\ Serving(proc[w])' /\ Committing(proc[w])'
      BY <1>2, <1>3, <1>4, <1>6, <2>1
         DEF Opening, Serving, Committing, Owned, Readable
    <2>2. QED
      BY <1>3, <1>4, <1>6, <2>1 DEF Stage
  <1>10. old.revision \in Nat /\ next.revision \in Nat
    BY <1>2 DEF State
  <1>11. Undamaged'
    <2>1. damage = 0
             => /\ Readable(primary) /\ Readable(backup)
                /\ primary = next /\ backup = old
                /\ primary # Corrupt /\ backup # Corrupt
      BY <1>1, <1>2 DEF SInv, Undamaged
    <2>2. QED
      BY <1>2, <1>3, <1>4, <1>6, <1>10, <2>1 DEF Undamaged, Readable
  <1>12. DamagedOnce'
    <2>1. damage = 1 => Readable(primary) \/ Readable(backup)
      BY <1>1 DEF SInv, DamagedOnce
    <2>2. damage = 1
             => Readable(Loadable) /\ next.revision <= Loadable.revision + 1
      BY <1>2, <1>10, <2>1 DEF Loadable
    <2>3. Loadable' = Loadable
      BY <1>3 DEF Loadable, Readable
    <2>4. QED
      BY <1>2, <1>3, <1>4, <1>6, <2>2, <2>3 DEF DamagedOnce, Readable
  <1>13. QED
    BY <1>6, <1>7, <1>8, <1>9, <1>11, <1>12 DEF SInv

\* What a write that is cut short leaves is still debris.
LEMMA LeftoverStays ==
    ASSUME TypeOK, NEW stage, Leftover(stage)
    PROVE  debris' \in BOOLEAN /\ (debris => debris')
  BY DEF Leftover, TypeOK

\* A session whose commit failed after the rename is behind the primary.
LEMMA CommitFailsPreserves ==
    ASSUME SInv, NEW w \in Writers, CommitFails(w)
    PROVE  SInv'
  <1>1. /\ lease = w
        /\ proc[w] \in Process
        /\ proc[w].pc \in {"backup", "replace", "report"}
        /\ proc[w].slot = authorization
        /\ Committing(proc[w])
    BY Holder DEF CommitFails
  <1>2. debris' \in BOOLEAN /\ (debris => debris') /\ faults' \in Nat
    BY LeftoverStays DEF CommitFails, SInv, TypeOK
  <1>3. CASE Release(w)
    BY <1>1, <1>2, <1>3, Ends DEF CommitFails
  <1>4. CASE lease' = lease
             /\ proc' = [proc EXCEPT ![w].pc = "open", ![w].next = NoState,
                                     ![w].previous = NoState]
    <2> DEFINE q == [proc[w] EXCEPT !.pc = "open", !.next = NoState,
                                    !.previous = NoState]
    <2>1. q \in Process /\ q.pc = "open" /\ q.slot = authorization
          /\ q.state = proc[w].state
      BY <1>1 DEF Process
    <2>2. proc' = [proc EXCEPT ![w] = q]
      BY <1>1, <1>4 DEF SInv, TypeOK
    <2> HIDE DEF q
    <2>3. Opening(q) /\ Committing(q)
      BY <2>1 DEF Opening, Committing
    <2>4. Serving(q)
      BY <1>1, <2>1 DEF Serving, Committing, State
    <2>5. QED
      BY <1>1, <1>2, <1>4, <2>1, <2>2, <2>3, <2>4, Moves DEF CommitFails
  <1>5. QED
    BY <1>3, <1>4 DEF CommitFails

LEMMA OpenFailsPreserves ==
    ASSUME SInv, NEW w \in Writers, OpenFails(w)
    PROVE  SInv'
  <1>1. lease = w
    BY Holder DEF OpenFails
  <1>2. faults' \in Nat /\ debris' \in BOOLEAN
    BY DEF OpenFails, SInv, TypeOK
  <1>3. QED
    BY <1>1, <1>2, Ends DEF OpenFails

LEMMA CrashPreserves ==
    ASSUME SInv, NEW w \in Writers, Crash(w)
    PROVE  SInv'
  <1>1. lease = w
    BY DEF Crash, SInv, LeaseHeld
  <1>2. debris' \in BOOLEAN /\ (debris => debris') /\ faults' \in Nat
    BY LeftoverStays DEF Crash, SInv, TypeOK
  <1>3. QED
    BY <1>1, <1>2, Ends DEF Crash, Release

\* With both files whole, one of them is enough.
LEMMA DamageFilePreserves ==
    ASSUME SInv, DamageFile
    PROVE  SInv'
  <1>1. /\ \/ primary' = Corrupt /\ backup' = backup /\ Readable(primary)
           \/ backup' = Corrupt /\ primary' = primary /\ Readable(backup)
        /\ damage' = damage + 1
        /\ damage \in Nat
        /\ Readable(primary') => Readable(primary) /\ primary' = primary
        /\ Readable(backup') => Readable(backup) /\ backup' = backup
    BY DEF DamageFile, SInv, TypeOK, Readable
  <1>2. UNCHANGED <<debris, authorization, fresh, lease, proc, acked, instances,
                    faults>>
    BY DEF DamageFile
  <1>3. TypeOK' /\ LeaseHeld'
    BY <1>1, <1>2 DEF SInv, TypeOK, LeaseHeld
  <1>4. FilesOrdered'
    BY <1>1, <1>2 DEF SInv, FilesOrdered, Owned
  <1>5. Created'
    BY <1>1, <1>2, SentinelAssumption DEF SInv, Created
  <1>6. Stage'
    <2>1. ASSUME NEW w \in Writers, lease' = w
          PROVE  /\ proc'[w].pc # "quarantine" => proc'[w].slot = authorization'
                 /\ Opening(proc[w])' /\ Serving(proc[w])'
                 /\ Committing(proc[w])'
      <3>1. /\ proc[w].pc # "quarantine" => proc[w].slot = authorization
            /\ Opening(proc[w]) /\ Serving(proc[w]) /\ Committing(proc[w])
        BY <1>2, <2>1 DEF SInv, Stage
      <3>2. Opening(proc[w])'
        BY <1>1, <1>2, <3>1, SentinelAssumption DEF Opening, Owned, Readable
      <3>3. Serving(proc[w])'
        BY <1>1, <1>2, <3>1 DEF Serving, Owned
      <3>4. Committing(proc[w])'
        BY <1>1, <1>2, <3>1 DEF Committing, Owned
      <3>5. QED
        BY <1>2, <3>1, <3>2, <3>3, <3>4
    <2>2. QED
      BY <2>1 DEF Stage
  <1>7. Undamaged'
    BY <1>1 DEF Undamaged
  <1>8. DamagedOnce'
    <2>1. SUFFICES ASSUME damage = 0 PROVE DamagedOnce'
      BY <1>1 DEF DamagedOnce
    <2>2. ASSUME acked # NoState
          PROVE  Readable(Loadable') /\ acked.revision <= Loadable'.revision + 1
      <3>1. /\ Readable(primary) /\ Readable(backup)
            /\ acked.revision <= primary.revision
            /\ acked.revision <= backup.revision + 1
        BY <2>1, <2>2 DEF SInv, Undamaged
      <3>2. acked.revision \in Nat /\ primary.revision \in Nat
        BY <2>2, <3>1 DEF SInv, TypeOK, State, Readable
      <3>3. acked.revision <= primary.revision + 1
        BY <3>1, <3>2
      <3>4. Loadable' \in {primary, backup}
        BY <1>1, <3>1 DEF Loadable, Readable
      <3>5. QED
        BY <3>1, <3>3, <3>4
    <2>3. ASSUME NEW w \in Writers, lease = w, proc[w].pc = "report"
          PROVE  Readable(primary') \/ Readable(backup')
      <3>1. Readable(primary) /\ Readable(backup)
        BY <2>1, <2>3 DEF SInv, Undamaged
      <3>2. QED
        BY <1>1, <3>1 DEF Readable
    <2>4. QED
      BY <1>2, <2>2, <2>3 DEF DamagedOnce, Readable
  <1>9. QED
    BY <1>3, <1>4, <1>5, <1>6, <1>7, <1>8 DEF SInv

LEMMA ProgressPreserves ==
    ASSUME SInv, UNCHANGED <<primary, backup, debris, authorization, lease,
                             proc, acked, instances, damage, faults>>,
           fresh' \in BOOLEAN
    PROVE  SInv'
  <1>1. TypeOK' /\ LeaseHeld' /\ FilesOrdered' /\ Created'
    BY DEF SInv, TypeOK, LeaseHeld, FilesOrdered, Created, Owned, Readable
  <1>2. Stage'
    BY DEF SInv, Stage, Opening, Serving, Committing, Owned, Readable
  <1>3. Undamaged' /\ DamagedOnce'
    BY DEF SInv, Undamaged, DamagedOnce, Loadable, Readable
  <1>4. QED
    BY <1>1, <1>2, <1>3 DEF SInv

-----------------------------------------------------------------------------
(* The theorems.                                                            *)

LEMMA InitHolds ==
    ASSUME Init
    PROVE  SInv
  <1>1. TypeOK
    BY ClosedProcess DEF Init, TypeOK
  <1>2. LeaseHeld /\ FilesOrdered /\ Created /\ Stage
    BY SentinelAssumption
       DEF Init, LeaseHeld, FilesOrdered, Created, Stage, Readable
  <1>3. Undamaged /\ DamagedOnce
    BY SentinelAssumption DEF Init, Undamaged, DamagedOnce
  <1>4. QED
    BY <1>1, <1>2, <1>3 DEF SInv

LEMMA StepHolds ==
    ASSUME SInv, [Next]_vars
    PROVE  SInv'
  <1>1. ASSUME NEW w \in Writers, NEW s \in Slots, Open(w, s)
        PROVE  SInv'
    BY <1>1, OpenPreserves
  <1>2. ASSUME NEW w \in Writers,
               \/ QuarantineBackup(w) \/ Create(w) \/ Restore(w)
               \/ FinishOpen(w) \/ OpenFails(w)
        PROVE  SInv'
    BY <1>2, QuarantineBackupPreserves, CreatePreserves, RestorePreserves,
       FinishOpenPreserves, OpenFailsPreserves
  <1>3. ASSUME NEW w \in Writers, NEW u \in Updates, Commit(w, u)
        PROVE  SInv'
    BY <1>3, CommitPreserves
  <1>4. ASSUME NEW w \in Writers,
               \/ CloseClean(w) \/ CloseUnclean(w) \/ ReplaceBackup(w)
               \/ ReplacePrimary(w) \/ Report(w) \/ CommitFails(w) \/ Crash(w)
        PROVE  SInv'
    BY <1>4, CloseCleanPreserves, CloseUncleanPreserves,
       ReplaceBackupPreserves, ReplacePrimaryPreserves, ReportPreserves,
       CommitFailsPreserves, CrashPreserves
  <1>5. CASE DamageFile
    BY <1>5, DamageFilePreserves
  <1>6. CASE Progress
    BY <1>6, ProgressPreserves DEF Progress
  <1>7. CASE UNCHANGED vars
    BY <1>7, ProgressPreserves DEF vars, SInv, TypeOK
  <1>8. QED
    BY <1>1, <1>2, <1>3, <1>4, <1>5, <1>6, <1>7 DEF Next

\* The inductive invariant holds in every behaviour.
THEOREM Invariant == Spec => []SInv
  <1>1. Init => SInv
    BY InitHolds
  <1>2. SInv /\ [Next]_vars => SInv'
    BY StepHolds
  <1>3. QED
    BY <1>1, <1>2, PTL DEF Spec

\* The files, the sessions and the histories keep their types.
THEOREM TypeCorrect == Spec => []TypeOK
  <1>1. SInv => TypeOK
    BY DEF SInv
  <1>2. QED
    BY <1>1, Invariant, PTL

\* The ledger of a save is never replaced by an empty one (_load_or_create,
\* _quarantine_candidates).
THEOREM NeverRecreated == Spec => []OneInstance
  <1>1. SInv => OneInstance
    BY DEF SInv, Created, OneInstance
  <1>2. QED
    BY <1>1, Invariant, PTL

\* A state reported as committed is still what the next open loads, and one
\* damaged file costs at most its last revision (_commit_impl, _write_state).
THEOREM Durable == Spec => []CommittedSurvives
  <1>1. ASSUME SInv, acked # NoState, damage <= 1
        PROVE  /\ Readable(Loadable)
               /\ Loadable.revision + damage >= acked.revision
               /\ damage = 0 => acked.data \subseteq Loadable.data
    <2>1. acked.revision \in Nat /\ damage \in Nat
      BY <1>1 DEF SInv, TypeOK, State
    <2>2. Readable(Loadable) => Loadable.revision \in Nat
      BY <1>1 DEF SInv, TypeOK, State, Loadable, Readable
    <2>3. CASE damage = 0
      <3>1. /\ Readable(primary)
            /\ acked.revision <= primary.revision
            /\ acked.data \subseteq primary.data
        BY <1>1, <2>3 DEF SInv, Undamaged
      <3>2. Loadable = primary
        BY <3>1 DEF Loadable
      <3>3. QED
        BY <2>1, <2>2, <2>3, <3>1, <3>2
    <2>4. CASE damage = 1
      BY <1>1, <2>1, <2>2, <2>4 DEF SInv, DamagedOnce
    <2>5. QED
      BY <1>1, <2>1, <2>3, <2>4
  <1>2. SInv => CommittedSurvives
    BY <1>1 DEF CommittedSurvives
  <1>3. QED
    BY <1>2, Invariant, PTL

\* What the next open would load only grows, in every step of any writer that
\* damages no file.
LEMMA StepKeeps ==
    ASSUME SInv, Next, damage' = damage, Readable(Loadable)
    PROVE  /\ Readable(Loadable')
           /\ Loadable.data \subseteq Loadable'.data
           /\ Loadable.slot \in {NoSlot, Loadable'.slot}
  <1>1. CASE UNCHANGED <<primary, backup>>
    BY <1>1 DEF Loadable, Readable
  <1>2. ASSUME NEW w \in Writers, NEW s \in Slots, Open(w, s)
        PROVE  Loadable' = Loadable
    BY <1>2 DEF Open, OpenLoaded, OpenWithoutPrimary, OpenCorrupt, Loadable,
                Readable
  <1>3. ASSUME NEW w \in Writers, QuarantineBackup(w)
        PROVE  FALSE
    BY <1>3, Holder DEF QuarantineBackup, Opening, Loadable, Readable
  <1>4. ASSUME NEW w \in Writers, Create(w)
        PROVE  FALSE
    BY <1>4, Holder DEF Create, Opening, Loadable, Readable
  <1>5. ASSUME NEW w \in Writers, Restore(w)
        PROVE  Loadable' = Loadable
    BY <1>5, Holder DEF Restore, Opening, Loadable, Readable
  <1>6. ASSUME NEW w \in Writers, ReplaceBackup(w)
        PROVE  \/ Loadable' = Loadable
               \/ Readable(Loadable') /\ Extends(Loadable, Loadable')
    <2>1. /\ backup' = proc[w].state
          /\ primary' = primary
          /\ proc[w].state \in State
          /\ Readable(backup) => Extends(backup, proc[w].state)
      BY <1>6, Holder DEF ReplaceBackup, RefreshedBackup, Committing
    <2>2. Readable(backup')
      BY <2>1, SentinelAssumption DEF Readable
    <2>3. QED
      BY <2>1, <2>2 DEF Loadable, Readable
  <1>7. ASSUME NEW w \in Writers, ReplacePrimary(w)
        PROVE  Readable(Loadable') /\ Extends(Loadable, Loadable')
    <2>1. /\ primary' = proc[w].next
          /\ proc[w].next \in State
          /\ Extends(proc[w].state, proc[w].next)
          /\ Readable(primary) => primary = proc[w].state
          /\ Readable(backup) => backup = proc[w].state
      BY <1>7, Holder DEF ReplacePrimary, Committing
    <2>2. Readable(primary') /\ Loadable' = primary'
      BY <2>1, SentinelAssumption DEF Readable, Loadable
    <2>3. QED
      BY <2>1, <2>2 DEF Loadable, Readable
  <1>8. DamageFile => FALSE
    BY DEF DamageFile, SInv, TypeOK
  <1>9. \/ UNCHANGED <<primary, backup>>
        \/ \E w \in Writers : \/ \E s \in Slots : Open(w, s)
                              \/ QuarantineBackup(w) \/ Create(w) \/ Restore(w)
                              \/ ReplaceBackup(w) \/ ReplacePrimary(w)
        \/ DamageFile
    <2>1. ASSUME NEW w \in Writers
          PROVE  /\ FinishOpen(w) \/ CloseClean(w) \/ (\E u \in Updates : Commit(w, u))
                      => UNCHANGED <<primary, backup>>
                 /\ CloseUnclean(w) \/ Report(w) => UNCHANGED <<primary, backup>>
                 /\ CommitFails(w) \/ OpenFails(w) => UNCHANGED <<primary, backup>>
                 /\ Crash(w) => UNCHANGED <<primary, backup>>
      <3>1. FinishOpen(w) => UNCHANGED <<primary, backup>>
        BY DEF FinishOpen
      <3>2. \A u \in Updates : Commit(w, u) => UNCHANGED <<primary, backup>>
        BY DEF Commit
      <3>3. CloseClean(w) => UNCHANGED <<primary, backup>>
        BY DEF CloseClean
      <3>4. CloseUnclean(w) => UNCHANGED <<primary, backup>>
        BY DEF CloseUnclean
      <3>5. Report(w) => UNCHANGED <<primary, backup>>
        BY DEF Report
      <3>6. CommitFails(w) => UNCHANGED <<primary, backup>>
        BY DEF CommitFails
      <3>7. OpenFails(w) => UNCHANGED <<primary, backup>>
        BY DEF OpenFails
      <3>8. Crash(w) => UNCHANGED <<primary, backup>>
        BY DEF Crash
      <3>9. QED
        BY <3>1, <3>2, <3>3, <3>4, <3>5, <3>6, <3>7, <3>8
    <2>2. Progress => UNCHANGED <<primary, backup>>
      BY DEF Progress
    <2>3. QED
      BY <2>1, <2>2 DEF Next
  <1>10. QED
    BY <1>1, <1>2, <1>3, <1>4, <1>5, <1>6, <1>7, <1>8, <1>9 DEF Extends

\* Neither an update nor the binding is undone (the lease, the revision
\* comparison of _commit_impl and the order of the renames).
THEOREM OnlyGrows == Spec => NothingUndone
  <1>1. SInv /\ [Next]_vars
          => [damage' = damage /\ Readable(Loadable)
                => /\ Readable(Loadable')
                   /\ Loadable.data \subseteq Loadable'.data
                   /\ Loadable.slot \in {NoSlot, Loadable'.slot}]_<<primary,
                                                                    backup>>
    BY StepKeeps DEF vars
  <1>2. QED
    BY <1>1, Invariant, PTL DEF Spec, NothingUndone

\* A step that writes a readable file is one of the lease's holder, or of
\* nobody with a lease.
LEMMA StepWrites ==
    ASSUME SInv, Next, NEW w \in Writers, lease = w,
           \/ primary' # primary /\ Readable(primary')
           \/ backup' # backup /\ Readable(backup')
    PROVE  authorization = proc[w].slot
  <1>1. w # NoWriter
    BY SentinelAssumption
  <1>2. SUFFICES ASSUME proc[w].pc = "quarantine"
        PROVE  FALSE
    BY DEF SInv, Stage
  <1>3. ASSUME NEW v \in Writers, NEW s \in Slots, Open(v, s)
        PROVE  FALSE
    BY <1>1, <1>3 DEF Open, LeaseFree
  <1>4. ASSUME NEW v \in Writers, proc[v].pc # "closed"
        PROVE  v = w
    BY <1>4, Holder
  <1>5. ~DamageFile
    BY DEF DamageFile, Readable
  <1>6. QED
    BY <1>2, <1>3, <1>4, <1>5
       DEF Next, QuarantineBackup, Create, Restore, FinishOpen, Commit,
           CloseClean, CloseUnclean, ReplaceBackup, ReplacePrimary, Report,
           CommitFails, OpenFails, Crash, Progress, Readable

\* Only the slot the save's identity was authorized for writes a state
\* (_preflight_save_identity_authorization, _validate_authenticated_binding).
THEOREM OnlyItsSlot == Spec => OnlyAuthorizedWrites
  <1>1. SInv /\ [Next]_vars
          => [\A w \in Writers :
                /\ lease = w
                /\ \/ primary' # primary /\ Readable(primary')
                   \/ backup' # backup /\ Readable(backup')
                => authorization = proc[w].slot]_<<primary, backup>>
    BY StepWrites DEF vars
  <1>2. QED
    BY <1>1, Invariant, PTL DEF Spec, OnlyAuthorizedWrites
=============================================================================
