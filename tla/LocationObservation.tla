------------------------- MODULE LocationObservation -------------------------
(***************************************************************************)
(* How a completed location travels from the GOAL runtime to the durable   *)
(* ledger of its native save: the observer of archipelago-locations.gc,    *)
(* the diagnostic ring of archipelago-diagnostics.gc, the snapshot file,   *)
(* and the Python side that commits a record, acknowledges it and selects  *)
(* the state session of the loaded save (client.py, agents/protocol.py).   *)
(*                                                                         *)
(* A ledger is here the set of locations committed for a save; what        *)
(* happens to it afterwards is the subject of LocationOutbox.              *)
(*                                                                         *)
(* The game runs concurrently with the client.  Forms are evaluated in the *)
(* order they were sent; an acknowledgement is sent without waiting for    *)
(* its evaluation.                                                         *)
(***************************************************************************)
EXTENDS Integers, Sequences, FiniteSets

CONSTANTS
    Saves,          \* native saves, by their identity
    LocationOrder,  \* the location identifiers in publication order
    Rewards,        \* locations observed by the reward wrapper
    NoSave,         \* no native save, no session, no observer descriptor
    NoLocation,     \* the location of any other diagnostic record
    NoAck,          \* _goal_ack_pending is None
    NoSnapshot,     \* no snapshot awaits its reader
    Capacity,       \* AP-DIAGNOSTIC-RING-CAPACITY: 128, for 8 locations
    MaxSequence,    \* bound: diagnostic records of one activation
    MaxFaults       \* bound: reloads, lost forms, failed commits...

Locations == {LocationOrder[i] : i \in DOMAIN LocationOrder}

ASSUME CapacityAssumption ==
    Capacity \in Nat \ {0} /\ MaxSequence \in Nat /\ MaxFaults \in Nat
\* One export publishes every pending location: the ring holds them all.
ASSUME OrderAssumption ==
    LocationOrder \in Seq(Locations) /\ Len(LocationOrder) <= Capacity
ASSUME RewardAssumption == Rewards \subseteq Locations

VARIABLES
    \* the GOAL runtime
    native,      \* completed locations of each native save
    loaded,      \* the published native save
    restoring,   \* the save whose restore has read its tag
    bound,       \* ap-state-loaded and ap-state-bound
    observer,    \* *ap-location-observer* and its descriptor identity
    ring,        \* *ap-diagnostic-ring* and its activation generation
    \* between GOAL and Python
    forms,       \* nREPL forms sent and not evaluated, in order
    snapshot,    \* the snapshot of the last heartbeat, until it is observed
    \* the client
    session,     \* the save of state_session
    authenticated,
    readOnly,    \* _location_read_only
    ackPending,  \* _goal_ack_pending
    ledger,      \* durable: checked locations of each save
    faults       \* faults injected so far

goalVars == <<native, loaded, restoring, bound, observer, ring>>
clientVars == <<session, authenticated, readOnly, ackPending, ledger>>
vars == <<goalVars, forms, snapshot, clientVars, faults>>

\* A record names a location and no native save.
Record == [sequence: Nat, location: Locations \cup {NoLocation}]
Publication == [generation: Nat, sequence: Nat \cup {-1}]
Ack == [generation: Nat, sequence: Nat]
Form == [kind: {"ping"}, status: Saves \cup {NoSave}]
        \cup [kind: {"ack"}, ack: Ack]
Snapshot == [save: Saves \cup {NoSave}, generation: Nat, events: Seq(Record)]

ASSUME SentinelAssumption ==
    /\ NoSave \notin Saves
    /\ NoLocation \notin Locations
    /\ NoAck \notin Ack
    /\ NoSnapshot \notin Snapshot

TypeOK ==
    /\ native \in [Saves -> SUBSET Locations]
    /\ loaded \in Saves \cup {NoSave}
    /\ restoring \in Saves \cup {NoSave}
    /\ bound \in BOOLEAN
    /\ observer \in [save: Saves \cup {NoSave},
                     observed: SUBSET Locations,
                     pending: SUBSET Locations,
                     published: [Locations -> Publication]]
    /\ ring \in [generation: Nat, next: Nat, events: Seq(Record)]
    /\ Len(ring.events) <= Capacity
    /\ forms \in Seq(Form)
    /\ snapshot \in Snapshot \cup {NoSnapshot}
    /\ session \in Saves \cup {NoSave}
    /\ authenticated \in BOOLEAN
    /\ readOnly \in BOOLEAN
    /\ ackPending \in Ack \cup {NoAck}
    /\ ledger \in [Saves -> SUBSET Locations]
    /\ faults \in Nat

Fault == faults < MaxFaults /\ faults' = faults + 1

-----------------------------------------------------------------------------
(* The diagnostic ring.                                                     *)

LastOf(events, n) ==
    SubSeq(events, IF Len(events) > n THEN Len(events) - n + 1 ELSE 1,
           Len(events))

\* ap-diagnostic-ring-emit!, once for each record of the batch: a full ring
\* drops its oldest record.
Emit(r, batch) ==
    [r EXCEPT !.events = LastOf(r.events \o batch, Capacity),
              !.next = r.next + Len(batch)]

\* The head passes the acknowledged records.
Acknowledged(events, ack) ==
    {i \in DOMAIN events : events[i].sequence <= ack.sequence}

Drained(r, ack) ==
    [r EXCEPT !.events =
        SubSeq(@, Cardinality(Acknowledged(@, ack)) + 1, Len(@))]

\* mutant: a delayed acknowledgement drains the ring of a later activation
RingAckAnyGeneration(r, ack) == Drained(r, ack)

\* ap-diagnostic-ring-ack!
RingAck(r, ack) == IF ack.generation = r.generation THEN Drained(r, ack) ELSE r

-----------------------------------------------------------------------------
(* The location observer.                                                   *)

Unpublished == [l \in Locations |-> [generation |-> 0, sequence |-> -1]]

\* ap-locations-clear-descriptor!
ClearedObserver ==
    [save |-> NoSave, observed |-> {}, pending |-> {},
     published |-> Unpublished]

\* ap-locations-descriptor-ready?
DescriptorReady == loaded # NoSave /\ bound

\* ap-locations-refresh-descriptor!
Refreshed(o, ready) ==
    IF ~ready THEN ClearedObserver
    ELSE IF o.save = loaded THEN o
    ELSE [ClearedObserver EXCEPT !.save = loaded]

\* ap-locations-queue-once!
QueueOnce(o, completed) ==
    [o EXCEPT !.observed = @ \cup completed,
              !.pending = @ \cup (completed \ o.observed)]

\* ap-locations-publish! of the pending locations among those given, in
\* publication order: each takes the next sequence of the ring.
Due(o, chosen) ==
    {i \in DOMAIN LocationOrder : LocationOrder[i] \in o.pending \cap chosen}

Before(i, due) == {j \in due : j < i}

Batch(o, r, chosen) ==
    LET due == Due(o, chosen)
    IN  [n \in 1 .. Cardinality(due) |->
            [sequence |-> r.next + n - 1,
             location |-> LocationOrder[CHOOSE i \in due :
                                          Cardinality(Before(i, due)) = n - 1]]]

Published(o, r, batch) ==
    [o EXCEPT !.published =
        [l \in Locations |->
            IF \E i \in DOMAIN batch : batch[i].location = l
            THEN [generation |-> r.generation,
                  sequence |-> (CHOOSE e \in {batch[i] : i \in DOMAIN batch} :
                                   e.location = l).sequence]
            ELSE o.published[l]]]

\* mutant: an acknowledgement is matched by its sequence alone
AckOneAnyGeneration(publication, ack) ==
    publication.sequence >= 0 /\ publication.sequence <= ack.sequence

\* ap-locations-ack-one!
AckOne(publication, ack) ==
    /\ ack.generation = publication.generation
    /\ publication.sequence >= 0
    /\ publication.sequence <= ack.sequence

\* ap-locations-ack!
LocationsAck(o, ack) ==
    [o EXCEPT !.pending = {l \in @ : ~AckOne(o.published[l], ack)}]

\* ap-export-state!: every export polls the native task state, publishes what
\* is pending again and writes a snapshot.
Export(o, r, isBound) ==
    LET ready == loaded # NoSave /\ isBound
        refreshed == Refreshed(o, ready)
        queued == IF ready THEN QueueOnce(refreshed, native[loaded])
                  ELSE refreshed
        batch == Batch(queued, r, Locations)
    IN  /\ r.next + Len(batch) <= MaxSequence
        /\ observer' = Published(queued, r, batch)
        /\ ring' = Emit(r, batch)

-----------------------------------------------------------------------------
(* The game.                                                                *)

\* A task of the loaded save is completed; the next export polls it.
CompleteTask(l) ==
    /\ loaded # NoSave
    /\ l \notin native[loaded]
    /\ native' = [native EXCEPT ![loaded] = @ \cup {l}]
    /\ UNCHANGED <<loaded, restoring, bound, observer, ring, forms, snapshot,
                   clientVars, faults>>

\* ap-locations-observe-reward!: the reward wrapper observes at once.
TakeReward(l) ==
    /\ l \in Rewards
    /\ loaded # NoSave
    /\ l \notin native[loaded]
    /\ native' = [native EXCEPT ![loaded] = @ \cup {l}]
    /\ LET refreshed == Refreshed(observer, DescriptorReady)
           queued == IF DescriptorReady THEN QueueOnce(refreshed, {l})
                     ELSE refreshed
           batch == Batch(queued, ring, {l})
       IN  /\ ring.next + Len(batch) <= MaxSequence
           /\ observer' = Published(queued, ring, batch)
           /\ ring' = Emit(ring, batch)
    /\ UNCHANGED <<loaded, restoring, bound, forms, snapshot, clientVars,
                   faults>>

\* ap3-read-native-save-tag!: a restore clears the published descriptor.
BeginRestore(s) ==
    /\ restoring = NoSave
    /\ restoring' = s
    /\ loaded' = NoSave
    /\ bound' = FALSE
    /\ UNCHANGED <<native, observer, ring, forms, snapshot, clientVars, faults>>

\* ap3-publish-pending-native-save! at native done, or the error state.
FinishRestore ==
    /\ restoring # NoSave
    /\ \/ loaded' = restoring /\ UNCHANGED faults
       \/ loaded' = NoSave /\ Fault
    /\ restoring' = NoSave
    /\ bound' = FALSE
    /\ UNCHANGED <<native, observer, ring, forms, snapshot, clientVars>>

\* Any other diagnostic record.
EmitOther ==
    /\ Fault
    /\ ring.next < MaxSequence
    /\ ring' = Emit(ring, <<[sequence |-> ring.next, location |-> NoLocation]>>)
    /\ UNCHANGED <<native, loaded, restoring, bound, observer, forms, snapshot,
                   clientVars>>

\* The diagnostics module is loaded again: a new ring and generation.
ReloadDiagnostics ==
    /\ Fault
    /\ Export(observer, [generation |-> ring.generation + 1, next |-> 0,
                         events |-> <<>>], bound)
    /\ UNCHANGED <<native, loaded, restoring, bound, forms, snapshot,
                   clientVars>>

\* The locations module is loaded again.
ReloadLocations ==
    /\ Fault
    /\ Export(ClearedObserver, ring, bound)
    /\ UNCHANGED <<native, loaded, restoring, bound, forms, snapshot,
                   clientVars>>

\* ap3-apply-sidecar-state!: loaded and bound only for the exact descriptor.
SidecarMatches(status) == loaded # NoSave /\ status = loaded

\* GOAL evaluates the next form: a heartbeat, or ap-diagnostic-ack!.
EvaluatePing ==
    /\ forms # <<>>
    /\ Head(forms).kind = "ping"
    /\ forms' = Tail(forms)
    /\ bound' = SidecarMatches(Head(forms).status)
    /\ Export(observer, ring, bound')
    /\ snapshot' = [save |-> loaded, generation |-> ring.generation,
                    events |-> ring'.events]
    /\ UNCHANGED <<native, loaded, restoring, clientVars, faults>>

EvaluateAck ==
    /\ forms # <<>>
    /\ Head(forms).kind = "ack"
    /\ forms' = Tail(forms)
    /\ ring' = RingAck(ring, Head(forms).ack)
    /\ observer' = LocationsAck(observer, Head(forms).ack)
    /\ UNCHANGED <<native, loaded, restoring, bound, snapshot, clientVars,
                   faults>>

-----------------------------------------------------------------------------
(* The client.                                                              *)

PingOutstanding == \E i \in DOMAIN forms : forms[i].kind = "ping"

\* The heartbeat reports the save of the open session.
SendPing ==
    /\ ~PingOutstanding
    /\ snapshot = NoSnapshot
    /\ forms' = Append(forms, [kind |-> "ping", status |-> session])
    /\ UNCHANGED <<goalVars, snapshot, clientVars, faults>>

\* _ingest_goal_events stops at the first record it cannot commit.
Safe(events, isReady) ==
    LET refused == {i \in DOMAIN events : events[i].location # NoLocation}
    IN  IF isReady \/ refused = {} THEN Len(events)
        ELSE (CHOOSE i \in refused : \A j \in refused : i <= j) - 1

\* _schedule_goal_acknowledgement
Scheduled(pending, ack) ==
    IF pending # NoAck /\ pending.generation = ack.generation
       /\ pending.sequence > ack.sequence
    THEN pending ELSE ack

\* The session after sync_persistence, which runs after the records of the
\* snapshot have been ingested with the session of before.
Synchronised(save) == IF authenticated THEN save ELSE NoSave

\* _observe_snapshot, the scheduling of the acknowledgement and
\* sync_persistence.  A failed commit stops the ingestion and latches the
\* client; the diagnostics may write only some of the safe records.
Observe ==
    /\ snapshot # NoSnapshot
    /\ LET events == snapshot.events
           safe == Safe(events, session # NoSave /\ ~readOnly)
       IN  \E committed \in 0 .. safe, written \in 0 .. safe :
             /\ written <= committed
             /\ \/ committed = safe /\ written = committed
                   /\ UNCHANGED <<readOnly, faults>>
                \/ committed < safe /\ written = committed
                   /\ events[committed + 1].location # NoLocation
                   /\ events[committed + 1].location \notin ledger[session]
                   /\ readOnly' = TRUE
                   /\ Fault
                \/ committed = safe /\ written < committed
                   /\ UNCHANGED readOnly
                   /\ Fault
             /\ ledger' =
                  IF session = NoSave THEN ledger
                  ELSE [ledger EXCEPT ![session] =
                          @ \cup ({events[i].location : i \in 1 .. committed}
                                    \ {NoLocation})]
             /\ ackPending' =
                  IF written = 0 THEN ackPending
                  ELSE Scheduled(ackPending,
                                 [generation |-> snapshot.generation,
                                  sequence |-> events[written].sequence])
    /\ session' = Synchronised(snapshot.save)
    /\ snapshot' = NoSnapshot
    /\ UNCHANGED <<goalVars, forms, authenticated>>

\* _drain_goal_acknowledgements: sent, or given up.
SendAck ==
    /\ ackPending # NoAck
    /\ ackPending' = NoAck
    /\ \/ /\ forms' = Append(forms, [kind |-> "ack", ack |-> ackPending])
          /\ UNCHANGED faults
       \/ Fault /\ UNCHANGED forms
    /\ UNCHANGED <<goalVars, snapshot, session, authenticated, readOnly, ledger>>

\* on_package("RoomInfo") and on_package("Connected")
OnRoomInfo ==
    /\ authenticated
    /\ Fault
    /\ authenticated' = FALSE
    /\ session' = NoSave
    /\ readOnly' = FALSE
    /\ UNCHANGED <<goalVars, forms, snapshot, ackPending, ledger>>

OnConnected ==
    /\ ~authenticated
    /\ authenticated' = TRUE
    /\ UNCHANGED <<goalVars, forms, snapshot, session, readOnly, ackPending,
                   ledger, faults>>

\* mark_bridge_unavailable: a timeout closes the session and the connection.
BridgeLost ==
    /\ Fault
    /\ session' = NoSave
    /\ forms' = <<>>
    /\ snapshot' = NoSnapshot
    /\ UNCHANGED <<goalVars, authenticated, readOnly, ackPending, ledger>>

Init ==
    /\ native = [s \in Saves |-> {}]
    /\ loaded = NoSave
    /\ restoring = NoSave
    /\ bound = FALSE
    /\ observer = ClearedObserver
    /\ ring = [generation |-> 1, next |-> 0, events |-> <<>>]
    /\ forms = <<>>
    /\ snapshot = NoSnapshot
    /\ session = NoSave
    /\ authenticated = FALSE
    /\ readOnly = FALSE
    /\ ackPending = NoAck
    /\ ledger = [s \in Saves |-> {}]
    /\ faults = 0

GameStep ==
    \/ \E l \in Locations \ Rewards : CompleteTask(l)
    \/ \E l \in Rewards : TakeReward(l)
    \/ \E s \in Saves : BeginRestore(s)
    \/ FinishRestore
    \/ EmitOther
    \/ ReloadDiagnostics
    \/ ReloadLocations
    \/ EvaluatePing
    \/ EvaluateAck

ClientStep ==
    \/ SendPing
    \/ Observe
    \/ SendAck
    \/ OnRoomInfo
    \/ OnConnected
    \/ BridgeLost

Next == GameStep \/ ClientStep

Spec == Init /\ [][Next]_vars

-----------------------------------------------------------------------------
(* Properties.                                                              *)

\* GOAL stops offering a location of the observed save only when Python has
\* committed it for that very save, across lost, delayed and coalesced
\* acknowledgements, reloads of either module and changes of session
\* (ap-locations-ack-one!, _ingest_goal_events).
OfferedUntilCommitted ==
    observer.save # NoSave
        => observer.observed \ observer.pending \subseteq ledger[observer.save]

Committed(l) == \E s \in Saves : l \in ledger[s]

\* A location record leaves the ring of an activation only once committed,
\* or pushed out by newer records of a full ring (ap-diagnostic-ring-ack!).
RecordsLeaveCommitted ==
    [][ring'.generation = ring.generation =>
         \A i \in DOMAIN ring.events :
            \/ ring.events[i].location = NoLocation
            \/ \E j \in DOMAIN ring'.events : ring'.events[j] = ring.events[i]
            \/ ring'.next > ring.next /\ Len(ring'.events) = Capacity
            \/ Committed(ring.events[i].location)]_ring

\* "Loaded" and "bound" acknowledge one exact native save
\* (docs/architecture.md): a save's ledger holds only locations completed in
\* that save.
CommittedToOwnSave == \A s \in Saves : ledger[s] \subseteq native[s]
=============================================================================
