---------------------------- MODULE LocationOutbox ----------------------------
(***************************************************************************)
(* The client side of location reporting: the durable ledger of one native *)
(* save (worlds/jak3/location_outbox.py), the part of Jak3Context that     *)
(* commits GOAL observations, reconciles with the server and retries the   *)
(* outbox (worlds/jak3/client.py), and the Archipelago server and socket   *)
(* it talks to (external, as the client uses them).                        *)
(*                                                                         *)
(* One native save and one slot; the choice of the state session among     *)
(* several saves is the subject of LocationObservation.                    *)
(*                                                                         *)
(* Code that runs between two awaits is one action.  The client awaits     *)
(* only in the outbox task, between its creation and its first             *)
(* instruction, and while the socket sends.                                *)
(***************************************************************************)
EXTENDS Naturals, Sequences

CONSTANTS
    Locations,     \* enabled location identifiers of the slot
    NoSession,     \* state_session is None
    NoMirror,      \* _server_checked_locations is None
    NoBatch,       \* no outbox task, no remembered projection
    MaxFaults,     \* bound: crashes, lost links, failed commits, bad packets...
    MaxQueue       \* bound: packets in flight in each direction

\* A ledger is the location part of PersistentState.
Ledger == [checked: SUBSET Locations,
           confirmed: SUBSET Locations,
           pending: SUBSET Locations]

ASSUME SentinelAssumption ==
    /\ \A ledger \in Ledger : NoSession # ledger
    /\ \A S \in SUBSET Locations : NoMirror # S /\ NoBatch # S

ASSUME BoundAssumption == MaxFaults \in Nat /\ MaxQueue \in Nat

VARIABLES
    \* durable
    disk,          \* the ledger in the primary state file
    \* volatile state of the client process
    session,       \* NoSession, or the ledger held by the open StateSession
    stale,         \* the primary file has a later revision than the session
    readOnly,      \* _location_read_only
    authenticated, \* authenticated_slot is not None
    armed,         \* _location_authenticated_server is the live server
    task,          \* _location_send_task: the pending set it was created for
    lastSend,      \* projection sent less than LOCATION_RETRY_SECONDS ago
    mirror,        \* _server_checked_locations
    updates,       \* _location_server_updates
    reconciled,    \* _location_reconciled_state_instance is the session's
    \* environment
    native,        \* locations completed in the native game
    link,          \* state of the server connection
    toClient,      \* packets from the server, in order
    toServer,      \* LocationChecks batches to the server, in order
    server,        \* locations the server holds
    faults,        \* faults injected so far
    \* history
    everServer     \* locations the server has held at some time

clientVars == <<session, stale, readOnly, authenticated, armed, task, lastSend,
                mirror, updates, reconciled>>
serverVars == <<server, everServer>>
vars == <<disk, clientVars, native, link, toClient, toServer, serverVars, faults>>

Update == [full: BOOLEAN, checked: SUBSET Locations]
Packet == [kind: {"RoomInfo", "Malformed", "Incompatible"}]
          \cup [kind: {"Connected", "RoomUpdate"}, checked: SUBSET Locations]

\* "broken": the connection is gone and the client has not noticed yet.
Links == {"down", "greeting", "joined", "broken"}

TypeOK ==
    /\ disk \in Ledger
    /\ session = NoSession \/ session \in Ledger
    /\ stale \in BOOLEAN
    /\ readOnly \in BOOLEAN
    /\ authenticated \in BOOLEAN
    /\ armed \in BOOLEAN
    /\ task = NoBatch \/ task \in SUBSET Locations
    /\ lastSend = NoBatch \/ lastSend \in SUBSET Locations
    /\ mirror = NoMirror \/ mirror \in SUBSET Locations
    /\ updates \in Seq(Update)
    /\ reconciled \in BOOLEAN
    /\ native \in SUBSET Locations
    /\ link \in Links
    /\ toClient \in Seq(Packet)
    /\ toServer \in Seq(SUBSET Locations)
    /\ server \in SUBSET Locations
    /\ everServer \in SUBSET Locations
    /\ faults \in Nat

-----------------------------------------------------------------------------
(* Ledger transitions: location_outbox.py.                                  *)

EmptyLedger == [checked |-> {}, confirmed |-> {}, pending |-> {}]

\* _transition: pending is always recomputed from the other two sets.
Transition(checked, confirmed) ==
    [checked |-> checked, confirmed |-> confirmed,
     pending |-> checked \ confirmed]

\* The two ValueErrors of _transition.
TransitionAllowed(old, new) ==
    old.checked \subseteq new.checked /\ new.confirmed \subseteq new.checked

ObserveLocalLocation(ledger, l) ==
    Transition(ledger.checked \cup {l}, ledger.confirmed)

\* mutant: the confirmed set of an earlier connection survives a rollback
ReconcileConnectedMerging(ledger, checked) ==
    Transition(ledger.checked \cup checked, ledger.confirmed \cup checked)

ReconcileConnected(ledger, checked) ==
    Transition(ledger.checked \cup checked, checked)

ReconcileRoomUpdate(ledger, checked) ==
    Transition(ledger.checked \cup checked, ledger.confirmed \cup checked)

\* The server updates of a queue, applied in order.  A full update replaces
\* the queue (QueueUpdate), so only the first one can be full.
Reconcile(ledger, queue) ==
    LET all == UNION {queue[i].checked : i \in DOMAIN queue}
    IN  IF queue = <<>> THEN ledger
        ELSE IF queue[1].full
             THEN ReconcileRoomUpdate(
                      ReconcileConnected(ledger, queue[1].checked), all)
             ELSE ReconcileRoomUpdate(ledger, all)

-----------------------------------------------------------------------------
(* Commits, the drain of server updates and the pump of the outbox.         *)

Fault == faults < MaxFaults /\ faults' = faults + 1

\* mutant: no comparison of revisions before the write
RevisionUnchecked == TRUE

\* StateRepository._commit refuses a session whose revision is not the one of
\* the primary file.
RevisionCurrent == ~stale

\* session.commit(new) from the ledger old succeeds.
Committed(old, new) ==
    /\ new = old \/ (RevisionCurrent /\ TransitionAllowed(old, new))
    /\ session' = new
    /\ disk' = IF new = old THEN disk ELSE new
    /\ UNCHANGED <<stale, readOnly, faults>>

\* mutant: the ledger in memory is replaced before the write, whose failure
\* is only logged
CommitFailedMemoryFirst(old, new) ==
    /\ new # old
    /\ session' = new
    /\ disk' = old
    /\ Fault
    /\ UNCHANGED <<stale, readOnly>>

\* session.commit(new) raises: nothing was written (a stale revision, an I/O
\* error before the primary file was replaced), or the primary was replaced
\* and a later step raised, which leaves the session behind the file.
\* Location commits then latch the client read-only.
CommitFailed(old, new) ==
    /\ new # old
    /\ session' = old
    /\ readOnly' = TRUE
    /\ \/ /\ stale
          /\ disk' = disk
          /\ UNCHANGED <<stale, faults>>
       \/ /\ ~stale
          /\ Fault
          /\ \/ disk' = old /\ stale' = FALSE
             \/ disk' = new /\ stale' = TRUE

\* _location_transport_ready
TransportReady(isArmed, isAuthenticated, latched) ==
    isArmed /\ isAuthenticated /\ ~latched

\* _pump_location_outbox: the outbox task after the pump.
Pumped(sess, ready, current, last) ==
    IF /\ sess # NoSession
       /\ sess.pending # {}
       /\ ready
       /\ current = NoBatch
       /\ sess.pending # last
    THEN sess.pending
    ELSE current

\* _drain_location_server_updates over the queue the handler leaves.  The
\* first drain of a newly opened session replays the server mirror instead
\* of the packets that arrived without a session.
ReplayMirror(queue, mir, isReconciled) ==
    IF ~isReconciled /\ mir # NoMirror
    THEN <<[full |-> TRUE, checked |-> mir]>>
    ELSE queue

Drained(sess, queue, mir, isReconciled) ==
    IF sess = NoSession \/ readOnly
    THEN /\ session' = sess
         /\ updates' = queue
         /\ reconciled' = isReconciled
         /\ UNCHANGED <<disk, stale, readOnly, faults>>
    ELSE LET todo == ReplayMirror(queue, mir, isReconciled)
         IN  /\ reconciled' = TRUE
             /\ \/ /\ Committed(sess, Reconcile(sess, todo))
                   /\ updates' = <<>>
                \/ \E k \in 1 .. Len(todo) :
                      LET before == Reconcile(sess, SubSeq(todo, 1, k - 1))
                      IN  /\ before = sess \/ RevisionCurrent
                          /\ CommitFailed(before,
                                          Reconcile(before, <<todo[k]>>))
                          /\ updates' = SubSeq(todo, k, Len(todo))

-----------------------------------------------------------------------------
(* Client handlers.                                                         *)

\* _commit_goal_location_observation: GOAL offers a completed location again
\* and again until Python has committed it.
ObserveLocal(l) ==
    /\ l \in native
    /\ ~readOnly
    /\ session # NoSession
    /\ LET new == ObserveLocalLocation(session, l)
       IN  \/ /\ Committed(session, new)
              /\ task' = Pumped(new, TransportReady(armed, authenticated, FALSE),
                                task, lastSend)
           \/ /\ CommitFailed(session, new)
              /\ UNCHANGED task
    /\ UNCHANGED <<authenticated, armed, lastSend, mirror, updates, reconciled,
                   native, link, toClient, toServer, serverVars>>

\* Commits of the same session for items, receipts and the goal: they change
\* no location and do not look at the location latch.
OtherCommit ==
    /\ session # NoSession
    /\ RevisionCurrent
    /\ disk' = session
    /\ \/ UNCHANGED <<session, stale, faults>>
       \/ Fault /\ stale' = TRUE /\ UNCHANGED session
    /\ UNCHANGED <<readOnly, authenticated, armed, task, lastSend, mirror,
                   updates, reconciled, native, link, toClient, toServer,
                   serverVars>>

\* sync_persistence for a snapshot with a loaded, identified native save: the
\* heartbeat that opens the session, drains and pumps.
Heartbeat ==
    /\ authenticated
    /\ LET opened == IF session = NoSession THEN disk ELSE session
       IN  Drained(opened, updates, mirror, reconciled)
    /\ task' = Pumped(session', TransportReady(armed, authenticated, readOnly'),
                      task, lastSend)
    /\ UNCHANGED <<authenticated, armed, lastSend, mirror, native, link,
                   toClient, toServer, serverVars>>

\* The heartbeat's own receipt commit raises: the session is dropped, but the
\* state instance stays marked as reconciled.
HeartbeatRefused ==
    /\ authenticated
    /\ session # NoSession
    /\ stale \/ faults < MaxFaults
    /\ faults' = IF stale THEN faults ELSE faults + 1
    /\ session' = NoSession
    /\ stale' = FALSE
    /\ UNCHANGED <<disk, readOnly, authenticated, armed, task, lastSend,
                   mirror, updates, reconciled, native, link, toClient,
                   toServer, serverVars>>

\* close_persistence: the bridge is lost or timed out, or the native save is
\* unloaded.
CloseSession ==
    /\ session # NoSession \/ reconciled
    /\ Fault
    /\ session' = NoSession
    /\ stale' = FALSE
    /\ reconciled' = FALSE
    /\ UNCHANGED <<disk, readOnly, authenticated, armed, task, lastSend,
                   mirror, updates, native, link, toClient, toServer,
                   serverVars>>

\* _invalidate_location_transport
Invalidate ==
    /\ armed' = FALSE
    /\ task' = NoBatch
    /\ lastSend' = NoBatch

Receive(kind) ==
    /\ toClient # <<>>
    /\ Head(toClient).kind = kind
    /\ toClient' = Tail(toClient)

\* on_package("RoomInfo")
OnRoomInfo ==
    /\ Receive("RoomInfo")
    /\ Invalidate
    /\ readOnly' = FALSE
    /\ mirror' = NoMirror
    /\ updates' = <<>>
    /\ session' = NoSession
    /\ stale' = FALSE
    /\ reconciled' = FALSE
    /\ authenticated' = FALSE
    /\ UNCHANGED <<disk, native, link, toServer, serverVars, faults>>

\* on_package("Connected") with a compatible slot: a new transport, then the
\* full update replaces the queue, then drain and pump.
OnConnected ==
    /\ Receive("Connected")
    /\ LET checked == Head(toClient).checked
       IN  /\ mirror' = checked
           /\ Drained(session, <<[full |-> TRUE, checked |-> checked]>>,
                      checked, reconciled)
    /\ authenticated' = TRUE
    /\ armed' = TRUE
    /\ lastSend' = NoBatch
    /\ task' = Pumped(session', TransportReady(TRUE, TRUE, readOnly'),
                      NoBatch, NoBatch)
    /\ UNCHANGED <<native, link, toServer, serverVars>>

\* on_package("Connected") whose slot contract is refused
OnIncompatible ==
    /\ Receive("Incompatible")
    /\ Invalidate
    /\ authenticated' = FALSE
    /\ UNCHANGED <<disk, session, stale, readOnly, mirror, updates, reconciled,
                   native, link, toServer, serverVars, faults>>

\* on_package("RoomUpdate"), refused before a slot is authenticated
OnRoomUpdate ==
    /\ Receive("RoomUpdate")
    /\ IF authenticated
       THEN LET checked == Head(toClient).checked
                known == IF mirror = NoMirror THEN {} ELSE mirror
            IN  /\ mirror' = known \cup checked
                /\ Drained(session,
                           Append(updates, [full |-> FALSE, checked |-> checked]),
                           known \cup checked, reconciled)
                /\ task' = Pumped(session',
                                  TransportReady(armed, TRUE, readOnly'),
                                  task, lastSend)
       ELSE /\ readOnly' = TRUE
            /\ UNCHANGED <<disk, session, stale, mirror, updates, reconciled,
                           task, faults>>
    /\ UNCHANGED <<authenticated, armed, lastSend, native, link, toServer,
                   serverVars>>

\* _reject_location_update: a packet with unknown or disabled identifiers is
\* dropped and latches the client read-only.
OnMalformed ==
    /\ Receive("Malformed")
    /\ readOnly' = TRUE
    /\ UNCHANGED <<disk, session, stale, authenticated, armed, task, lastSend,
                   mirror, updates, reconciled, native, link, toServer,
                   serverVars, faults>>

\* _reserve_location_batch
Reservable ==
    /\ session # NoSession
    /\ TransportReady(armed, authenticated, readOnly)
    /\ session.pending # {}
    /\ session.pending # lastSend

\* _send_reserved_location_batch: the reservation is taken before the send,
\* so a failed send is retried only after the retry window.
Send ==
    /\ lastSend' = session.pending
    /\ \/ /\ link = "joined"
          /\ Len(toServer) < MaxQueue
          /\ toServer' = Append(toServer, session.pending)
       \/ /\ link # "joined"
          /\ UNCHANGED toServer
    /\ UNCHANGED <<disk, session>>

\* _send_location_outbox: the task was created for one pending set; when that
\* set has changed, or another send has reserved it, the task ends silently.
RunTask ==
    /\ task # NoBatch
    /\ task' = NoBatch
    /\ IF Reservable /\ session.pending = task
       THEN Send
       ELSE UNCHANGED <<lastSend, toServer, disk, session>>
    /\ UNCHANGED <<stale, readOnly, authenticated, armed, mirror, updates,
                   reconciled, native, link, toClient, serverVars, faults>>

\* _send_sync_with_location_outbox: an item Sync carries the outbox along.
SendSync ==
    /\ Reservable
    /\ Send
    /\ UNCHANGED <<stale, readOnly, authenticated, armed, task, mirror,
                   updates, reconciled, native, link, toClient, serverVars,
                   faults>>

\* LOCATION_RETRY_SECONDS pass.
RetryWindowElapses ==
    /\ lastSend # NoBatch
    /\ lastSend' = NoBatch
    /\ UNCHANGED <<disk, session, stale, readOnly, authenticated, armed, task,
                   mirror, updates, reconciled, native, link, toClient,
                   toServer, serverVars, faults>>

\* connection_closed: the client notices that the socket is gone.  The slot
\* stays authenticated and the session stays open.
ConnectionClosed ==
    /\ link = "broken"
    /\ link' = "down"
    /\ Invalidate
    /\ UNCHANGED <<disk, session, stale, readOnly, authenticated, mirror,
                   updates, reconciled, native, toClient, toServer,
                   serverVars, faults>>

\* The client process dies and is started again; only the file survives.
Crash ==
    /\ Fault
    /\ session' = NoSession
    /\ stale' = FALSE
    /\ readOnly' = FALSE
    /\ authenticated' = FALSE
    /\ Invalidate
    /\ mirror' = NoMirror
    /\ updates' = <<>>
    /\ reconciled' = FALSE
    /\ link' = "down"
    /\ toClient' = <<>>
    /\ toServer' = <<>>
    /\ UNCHANGED <<disk, native, serverVars>>

-----------------------------------------------------------------------------
(* The game and the Archipelago server (external).                          *)

Complete(l) ==
    /\ l \notin native
    /\ native' = native \cup {l}
    /\ UNCHANGED <<disk, clientVars, link, toClient, toServer, serverVars,
                   faults>>

Connect ==
    /\ link = "down"
    /\ link' = "greeting"
    /\ toClient' = <<[kind |-> "RoomInfo"]>>
    /\ UNCHANGED <<disk, clientVars, native, toServer, serverVars, faults>>

\* The server answers the authentication that follows RoomInfo.
Join ==
    /\ link = "greeting"
    /\ toClient = <<>>
    /\ link' = "joined"
    /\ \/ /\ toClient' = <<[kind |-> "Connected", checked |-> server]>>
          /\ UNCHANGED faults
       \/ /\ Fault
          /\ \E kind \in {"Malformed", "Incompatible"} :
                toClient' = <<[kind |-> kind]>>
    /\ UNCHANGED <<disk, clientVars, native, toServer, serverVars>>

\* A location is checked: every client of the slot is told what is new.
Announce(new) ==
    /\ server' = server \cup new
    /\ everServer' = everServer \cup new
    /\ IF link = "joined" /\ new # {}
       THEN /\ Len(toClient) < MaxQueue
            /\ toClient' = Append(toClient,
                                  [kind |-> "RoomUpdate", checked |-> new])
       ELSE UNCHANGED toClient

ServerReceives ==
    /\ link = "joined"
    /\ toServer # <<>>
    /\ toServer' = Tail(toServer)
    /\ Announce(Head(toServer) \ server)
    /\ UNCHANGED <<disk, clientVars, native, link, faults>>

\* Another client of the same slot checks a location.
CheckedElsewhere ==
    /\ Fault
    /\ \E l \in Locations \ server : Announce({l})
    /\ UNCHANGED <<disk, clientVars, native, link, toServer>>

Malformed ==
    /\ link = "joined"
    /\ Len(toClient) < MaxQueue
    /\ Fault
    /\ toClient' = Append(toClient, [kind |-> "Malformed"])
    /\ UNCHANGED <<disk, clientVars, native, link, toServer, serverVars>>

LoseLink ==
    /\ link \in {"greeting", "joined"}
    /\ Fault
    /\ link' = "broken"
    /\ toClient' = <<>>
    /\ toServer' = <<>>
    /\ UNCHANGED <<disk, clientVars, native, serverVars>>

\* The slot was refused, or the client is latched read-only.
Refused == readOnly \/ (link = "joined" /\ toClient = <<>> /\ ~authenticated)

\* The player connects again after a refusal.
PlayerReconnects ==
    /\ link = "joined"
    /\ Refused
    /\ link' = "broken"
    /\ toClient' = <<>>
    /\ toServer' = <<>>
    /\ UNCHANGED <<disk, clientVars, native, serverVars, faults>>

\* The server restarts from an older save and drops every connection.
Rollback ==
    /\ Fault
    /\ \E S \in SUBSET server \ {{}} : server' = server \ S
    /\ link' = IF link = "down" THEN "down" ELSE "broken"
    /\ toClient' = <<>>
    /\ toServer' = <<>>
    /\ UNCHANGED <<disk, clientVars, native, everServer>>

Init ==
    /\ disk = EmptyLedger
    /\ session = NoSession
    /\ stale = FALSE
    /\ readOnly = FALSE
    /\ authenticated = FALSE
    /\ armed = FALSE
    /\ task = NoBatch
    /\ lastSend = NoBatch
    /\ mirror = NoMirror
    /\ updates = <<>>
    /\ reconciled = FALSE
    /\ native = {}
    /\ link = "down"
    /\ toClient = <<>>
    /\ toServer = <<>>
    /\ server = {}
    /\ everServer = {}
    /\ faults = 0

ClientStep ==
    \/ \E l \in Locations : ObserveLocal(l)
    \/ OtherCommit
    \/ Heartbeat
    \/ HeartbeatRefused
    \/ CloseSession
    \/ OnRoomInfo
    \/ OnConnected
    \/ OnIncompatible
    \/ OnRoomUpdate
    \/ OnMalformed
    \/ RunTask
    \/ SendSync
    \/ RetryWindowElapses
    \/ ConnectionClosed
    \/ Crash

EnvironmentStep ==
    \/ \E l \in Locations : Complete(l)
    \/ Connect
    \/ Join
    \/ ServerReceives
    \/ CheckedElsewhere
    \/ Malformed
    \/ LoseLink
    \/ PlayerReconnects
    \/ Rollback

Next == ClientStep \/ EnvironmentStep

Spec == Init /\ [][Next]_vars

\* The asyncio loop runs every ready task and packet handler, the heartbeat
\* period and the retry window pass, GOAL republishes what is not committed,
\* CommonClient reconnects, and the server answers.  Nothing is assumed of
\* faults, of the player or of other clients.
Fairness ==
    /\ \A l \in Locations : WF_vars(ObserveLocal(l))
    /\ WF_vars(Heartbeat)
    /\ WF_vars(OnRoomInfo \/ OnConnected \/ OnIncompatible \/ OnRoomUpdate
               \/ OnMalformed)
    /\ WF_vars(RunTask)
    /\ WF_vars(RetryWindowElapses)
    /\ WF_vars(ConnectionClosed)
    /\ WF_vars(Connect)
    /\ WF_vars(Join)
    /\ WF_vars(ServerReceives)

FairSpec == Spec /\ Fairness

-----------------------------------------------------------------------------
(* Properties.                                                              *)

Consistent(ledger) ==
    /\ ledger.confirmed \subseteq ledger.checked
    /\ ledger.pending = ledger.checked \ ledger.confirmed

\* In the file and in memory the checked set is split exactly into confirmed
\* and pending, through every commit, failed commit, reconciliation and
\* reopening: nothing is dropped from the outbox while unconfirmed, nothing
\* confirmed stays in it (location_outbox._transition, validate_state).
LedgerPartition ==
    /\ Consistent(disk)
    /\ session # NoSession => Consistent(session)

\* A durably checked location stays checked: no crash, rollback of the server,
\* failed commit or commit from a session that fell behind the file removes
\* it (client.py commits, StateRepository._commit).
CheckedMonotonic == [][disk.checked \subseteq disk'.checked]_disk

\* Only locations already durable in the file are ever on the wire, whatever
\* failed in between (_send_reserved_location_batch after session.commit).
DurableBeforeSent ==
    \A i \in DOMAIN toServer : toServer[i] \subseteq disk.checked

\* A location is confirmed only if the server held it at some time; a send is
\* never an acknowledgement (docs/development/protocol-3.md).
ConfirmedOnlyByServer == disk.confirmed \subseteq everServer

InFlight == UNION {toClient[i].checked :
                     i \in {j \in DOMAIN toClient :
                              toClient[j].kind = "RoomUpdate"}}

\* Once a new connection has been reconciled, the confirmed set and the
\* updates still in flight are exactly what the server holds, also when it
\* came back with less than before or when updates arrived while no session
\* was open (_queue_server_location_update, _drain_location_server_updates).
ConfirmedMatchesServer ==
    link = "joined" /\ authenticated /\ ~readOnly
    /\ session # NoSession /\ reconciled
        => session.confirmed \cup InFlight = server

\* The refinement mapping to the abstract promise.
Delivery == INSTANCE LocationDelivery WITH
    earned <- native,
    recorded <- disk.checked,
    delivered <- server,
    known <- everServer,
    acknowledged <- disk.confirmed

\* The client implements LocationDelivery: every step records only what was
\* earned or held by the server, delivers only what is recorded, and
\* acknowledges only what the server has held.
ImplementsDelivery == Delivery!Spec

\* Every location completed in the game ends up at the server and confirmed,
\* for good, whatever finite number of faults happened, unless the client
\* ends up refusing to report at all (the retry loop of the outbox).
EventuallyDelivered ==
    <>[](native \subseteq server /\ native \subseteq disk.confirmed)
    \/ <>[]Refused
=============================================================================
