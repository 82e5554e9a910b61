------------------------- MODULE LocationOutboxProofs -------------------------
(***************************************************************************)
(* Safety of LocationOutbox for any set of locations, any number of faults *)
(* and any queue bound, by one inductive invariant; after it the           *)
(* refinement of LocationDelivery, and the agreement with the server.      *)
(***************************************************************************)
EXTENDS LocationOutbox, TLAPS

(* The invariants the runs check are not inductive by themselves: a commit *)
(* replaces the file by the ledger of the session, so the file keeps its   *)
(* locations only because the session holds all of them unless it is       *)
(* stale; and a confirmation is taken from a packet, a queued update or    *)
(* the mirror, so all of those must come from the server as well.          *)

\* A ledger as the client may hold it, given what the server has held.
Sound(ledger) ==
    ledger \in Ledger /\ Consistent(ledger) /\ ledger.confirmed \subseteq everServer

\* A session ledger against the file: equal to it, or behind it and stale.
Linked(sess) ==
    /\ Sound(disk)
    /\ Sound(sess)
    /\ sess.checked \subseteq disk.checked
    /\ ~stale => sess = disk

SessionFollowsFile ==
    /\ Sound(disk)
    /\ session = NoSession => ~stale
    /\ session # NoSession => Linked(session)

KnownQueue(queue) ==
    \A i \in DOMAIN queue : queue[i].checked \subseteq everServer

KnownPackets(packets) ==
    \A i \in DOMAIN packets :
        packets[i].kind \in {"Connected", "RoomUpdate"}
            => packets[i].checked \subseteq everServer

\* Whatever the client may take for confirmed was held by the server.
ServerProvenance ==
    /\ server \subseteq everServer
    /\ mirror # NoMirror => mirror \subseteq everServer
    /\ KnownQueue(updates)
    /\ KnownPackets(toClient)

IInv ==
    /\ TypeOK
    /\ SessionFollowsFile
    /\ DurableBeforeSent
    /\ ServerProvenance

-----------------------------------------------------------------------------
(* The ledger operators.                                                    *)

\* A transition yields a consistent ledger of enabled locations
\* (location_outbox._transition).
LEMMA TransitionFacts ==
    ASSUME NEW checked \in SUBSET Locations, NEW confirmed \in SUBSET checked
    PROVE  /\ Transition(checked, confirmed) \in Ledger
           /\ Transition(checked, confirmed).checked = checked
           /\ Transition(checked, confirmed).confirmed = confirmed
           /\ Consistent(Transition(checked, confirmed))
  BY DEF Transition, Ledger, Consistent

\* A local observation adds its location and confirms nothing new
\* (observe_local_location).
LEMMA ObserveFacts ==
    ASSUME NEW ledger \in Ledger, Consistent(ledger), NEW l \in Locations
    PROVE  LET new == ObserveLocalLocation(ledger, l)
           IN  /\ new \in Ledger
               /\ Consistent(new)
               /\ new.checked = ledger.checked \cup {l}
               /\ new.confirmed = ledger.confirmed
  <1> DEFINE checked == ledger.checked \cup {l}
  <1>1. checked \in SUBSET Locations /\ ledger.confirmed \in SUBSET checked
    BY DEF Ledger, Consistent
  <1> HIDE DEF checked
  <1>2. /\ Transition(checked, ledger.confirmed) \in Ledger
        /\ Transition(checked, ledger.confirmed).checked = checked
        /\ Transition(checked, ledger.confirmed).confirmed = ledger.confirmed
        /\ Consistent(Transition(checked, ledger.confirmed))
    BY <1>1, TransitionFacts
  <1>3. QED
    BY <1>2 DEF ObserveLocalLocation, checked

\* Reconciling a Connected packet keeps what is checked and confirms exactly
\* the server's set (reconcile_connected_locations).
LEMMA ConnectedFacts ==
    ASSUME NEW ledger \in Ledger, Consistent(ledger),
           NEW checked \in SUBSET Locations
    PROVE  LET new == ReconcileConnected(ledger, checked)
           IN  /\ new \in Ledger
               /\ Consistent(new)
               /\ new.checked = ledger.checked \cup checked
               /\ new.confirmed = checked
  <1> DEFINE all == ledger.checked \cup checked
  <1>1. all \in SUBSET Locations /\ checked \in SUBSET all
    BY DEF Ledger
  <1> HIDE DEF all
  <1>2. /\ Transition(all, checked) \in Ledger
        /\ Transition(all, checked).checked = all
        /\ Transition(all, checked).confirmed = checked
        /\ Consistent(Transition(all, checked))
    BY <1>1, TransitionFacts
  <1>3. QED
    BY <1>2 DEF ReconcileConnected, all

\* Reconciling a RoomUpdate keeps what is checked and confirmed and confirms
\* its set (reconcile_room_update_locations).
LEMMA RoomUpdateFacts ==
    ASSUME NEW ledger \in Ledger, Consistent(ledger),
           NEW checked \in SUBSET Locations
    PROVE  LET new == ReconcileRoomUpdate(ledger, checked)
           IN  /\ new \in Ledger
               /\ Consistent(new)
               /\ new.checked = ledger.checked \cup checked
               /\ new.confirmed = ledger.confirmed \cup checked
  <1> DEFINE all == ledger.checked \cup checked
             known == ledger.confirmed \cup checked
  <1>1. all \in SUBSET Locations /\ known \in SUBSET all
    BY DEF Ledger, Consistent
  <1> HIDE DEF all, known
  <1>2. /\ Transition(all, known) \in Ledger
        /\ Transition(all, known).checked = all
        /\ Transition(all, known).confirmed = known
        /\ Consistent(Transition(all, known))
    BY <1>1, TransitionFacts
  <1>3. QED
    BY <1>2 DEF ReconcileRoomUpdate, all, known

\* Applying server updates keeps the partition, removes nothing from the
\* checked set, adds only what becomes confirmed, and confirms only what the
\* updates or the ledger already confirmed.
LEMMA ReconcileFacts ==
    ASSUME NEW ledger \in Ledger, Consistent(ledger),
           NEW queue \in Seq(Update), NEW E,
           ledger.confirmed \subseteq E,
           \A i \in DOMAIN queue : queue[i].checked \subseteq E
    PROVE  LET new == Reconcile(ledger, queue)
           IN  /\ new \in Ledger
               /\ Consistent(new)
               /\ ledger.checked \subseteq new.checked
               /\ new.checked = ledger.checked \cup new.confirmed
               /\ new.confirmed \subseteq E
  <1> DEFINE all == UNION {queue[i].checked : i \in DOMAIN queue}
  <1>1. all \in SUBSET Locations /\ all \subseteq E
    <2>1. ASSUME NEW i \in DOMAIN queue
          PROVE  queue[i].checked \in SUBSET Locations
      <3>1. queue[i] \in Update
        OBVIOUS
      <3>2. QED
        BY <3>1 DEF Update
    <2>2. \A x \in all : \E i \in DOMAIN queue : x \in queue[i].checked
      OBVIOUS
    <2> HIDE DEF all
    <2>3. QED
      BY <2>1, <2>2
  <1>2. CASE queue = <<>>
    BY <1>2 DEF Reconcile, Consistent, Ledger
  <1>4. CASE queue # <<>> /\ ~queue[1].full
    <2>1. Reconcile(ledger, queue) = ReconcileRoomUpdate(ledger, all)
      BY <1>4 DEF Reconcile
    <2> HIDE DEF all
    <2>2. QED
      BY <1>1, <2>1, RoomUpdateFacts DEF Consistent
  <1>5. CASE queue # <<>> /\ queue[1].full
    <2> DEFINE server1 == queue[1].checked
               mid == ReconcileConnected(ledger, server1)
    <2>1. 1 \in DOMAIN queue /\ queue[1] \in Update
      BY <1>5
    <2>2. server1 \in SUBSET Locations /\ server1 \subseteq all
      BY <2>1 DEF Update
    <2>3. Reconcile(ledger, queue) = ReconcileRoomUpdate(mid, all)
      BY <1>5 DEF Reconcile
    <2> HIDE DEF server1, all
    <2>4. /\ mid \in Ledger
          /\ Consistent(mid)
          /\ mid.checked = ledger.checked \cup server1
          /\ mid.confirmed = server1
      BY <2>2, ConnectedFacts
    <2> HIDE DEF mid
    <2>5. QED
      BY <1>1, <2>2, <2>3, <2>4, RoomUpdateFacts
  <1>6. QED
    BY <1>2, <1>4, <1>5

-----------------------------------------------------------------------------
(* Commits and the drain.                                                   *)

Typed == stale \in BOOLEAN /\ readOnly \in BOOLEAN /\ faults \in Nat

\* A successful commit of a ledger that loses no location.
LEMMA CommittedFacts ==
    ASSUME NEW old, NEW new, Typed, Linked(old), Sound(new),
           old.checked \subseteq new.checked,
           Committed(old, new), UNCHANGED everServer
    PROVE  /\ session' = new
           /\ Sound(disk)'
           /\ Linked(session)'
           /\ disk.checked \subseteq disk'.checked
           /\ Typed'
  <1>1. session' = new /\ UNCHANGED <<stale, readOnly, faults>>
    BY DEF Committed
  <1>2. CASE new = old
    BY <1>1, <1>2 DEF Committed, Linked, Sound, Consistent, Typed
  <1>3. CASE new # old
    <2>1. ~stale /\ disk' = new /\ old = disk
      BY <1>3 DEF Committed, RevisionCurrent, Linked
    <2>2. QED
      BY <1>1, <2>1 DEF Linked, Sound, Consistent, Typed
  <1>4. QED
    BY <1>2, <1>3

\* A failed commit, whether or not the file was already replaced.  The drain
\* may have committed earlier updates: old is the ledger it has reached from
\* sess.
LEMMA CommitFailedFacts ==
    ASSUME NEW sess, NEW old, NEW new, Typed, Linked(sess),
           Sound(old), sess.checked \subseteq old.checked,
           old = sess \/ ~stale,
           Sound(new), old.checked \subseteq new.checked,
           CommitFailed(old, new), UNCHANGED everServer
    PROVE  /\ session' = old
           /\ Sound(disk)'
           /\ Linked(session)'
           /\ disk.checked \subseteq disk'.checked
           /\ Typed'
  <1>1. session' = old /\ readOnly' = TRUE
    BY DEF CommitFailed
  <1>2. CASE stale
    <2>1. disk' = disk /\ UNCHANGED <<stale, faults>> /\ old = sess
      BY <1>2 DEF CommitFailed
    <2>2. QED
      BY <1>1, <1>2, <2>1 DEF Linked, Sound, Consistent, Typed
  <1>3. CASE ~stale
    <2>1. sess = disk /\ faults' = faults + 1
      BY <1>3 DEF CommitFailed, Fault, Linked
    <2>2. faults' \in Nat
      BY <2>1 DEF Typed
    <2>3. CASE disk' = old /\ stale' = FALSE
      <3>1. stale' \in BOOLEAN /\ readOnly' \in BOOLEAN
        BY <1>1, <2>3, Zenon
      <3>2. Typed'
        BY <2>2, <3>1, Zenon DEF Typed
      <3>3. Sound(disk)' /\ Sound(session)'
        BY <1>1, <2>3 DEF Sound, Consistent
      <3>4. session' = disk' /\ disk.checked \subseteq disk'.checked
        BY <1>1, <2>1, <2>3
      <3>5. QED
        BY <1>1, <3>2, <3>3, <3>4 DEF Linked
    <2>4. CASE disk' = new /\ stale' = TRUE
      <3>1. stale' \in BOOLEAN /\ readOnly' \in BOOLEAN
        BY <1>1, <2>4, Zenon
      <3>2. Typed'
        BY <2>2, <3>1, Zenon DEF Typed
      <3>3. Sound(disk)' /\ Sound(session)'
        BY <1>1, <2>4 DEF Sound, Consistent
      <3>4. /\ session'.checked \subseteq disk'.checked
            /\ disk.checked \subseteq disk'.checked
        BY <1>1, <2>1, <2>4
      <3>5. QED
        BY <1>1, <2>4, <3>2, <3>3, <3>4 DEF Linked
    <2>5. QED
      BY <1>3, <2>3, <2>4 DEF CommitFailed
  <1>4. QED
    BY <1>2, <1>3

\* Reconciliation keeps a ledger sound.
LEMMA ReconcileSound ==
    ASSUME NEW ledger, Sound(ledger), NEW queue \in Seq(Update),
           KnownQueue(queue)
    PROVE  /\ Sound(Reconcile(ledger, queue))
           /\ ledger.checked \subseteq Reconcile(ledger, queue).checked
  BY ReconcileFacts DEF Sound, KnownQueue

\* The replay of the mirror is a queue of what the server held
\* (_drain_location_server_updates on a newly opened session).
LEMMA ReplayFacts ==
    ASSUME NEW queue \in Seq(Update), KnownQueue(queue), NEW mir, NEW isRec,
           mir # NoMirror => mir \in SUBSET Locations /\ mir \subseteq everServer
    PROVE  /\ ReplayMirror(queue, mir, isRec) \in Seq(Update)
           /\ KnownQueue(ReplayMirror(queue, mir, isRec))
  <1>1. CASE ~isRec /\ mir # NoMirror
    <2> DEFINE update == [full |-> TRUE, checked |-> mir]
    <2>1. update \in Update /\ update.checked \subseteq everServer
      BY <1>1 DEF Update
    <2> HIDE DEF update
    <2>2. <<update>> \in Seq(Update) /\ KnownQueue(<<update>>)
      BY <2>1 DEF KnownQueue
    <2>3. QED
      BY <1>1, <2>2 DEF ReplayMirror, update
  <1>2. CASE ~(~isRec /\ mir # NoMirror)
    BY <1>2 DEF ReplayMirror
  <1>3. QED
    BY <1>1, <1>2

\* Any drain keeps the file and the session sound and linked.
LEMMA DrainedFacts ==
    ASSUME NEW sess, NEW queue \in Seq(Update), NEW mir, NEW isRec \in BOOLEAN,
           Typed, Sound(disk), KnownQueue(queue),
           sess = NoSession => ~stale,
           sess # NoSession => Linked(sess),
           mir # NoMirror => mir \in SUBSET Locations /\ mir \subseteq everServer,
           Drained(sess, queue, mir, isRec), UNCHANGED everServer
    PROVE  /\ Typed'
           /\ Sound(disk)'
           /\ disk.checked \subseteq disk'.checked
           /\ session' = NoSession => ~stale'
           /\ session' # NoSession => Linked(session)'
           /\ updates' \in Seq(Update)
           /\ KnownQueue(updates)'
           /\ reconciled' \in BOOLEAN
  <1>1. CASE sess = NoSession \/ readOnly
    <2>1. /\ session' = sess
          /\ updates' = queue
          /\ reconciled' = isRec
          /\ UNCHANGED <<disk, stale, readOnly, faults>>
      BY <1>1 DEF Drained
    <2>2. Typed' /\ reconciled' \in BOOLEAN
      BY <2>1, Zenon DEF Typed
    <2>3. QED
      BY <2>1, <2>2 DEF Sound, Linked, Consistent, KnownQueue
  <1>2. CASE ~(sess = NoSession \/ readOnly)
    <2> DEFINE todo == ReplayMirror(queue, mir, isRec)
    <2>1. todo \in Seq(Update) /\ KnownQueue(todo)
      BY ReplayFacts
    <2>2. /\ reconciled' = TRUE
          /\ \/ /\ Committed(sess, Reconcile(sess, todo))
                /\ updates' = <<>>
             \/ \E k \in 1 .. Len(todo) :
                   LET before == Reconcile(sess, SubSeq(todo, 1, k - 1))
                   IN  /\ before = sess \/ RevisionCurrent
                       /\ CommitFailed(before, Reconcile(before, <<todo[k]>>))
                       /\ updates' = SubSeq(todo, k, Len(todo))
      BY <1>2 DEF Drained
    <2> HIDE DEF todo
    <2>3. Linked(sess) /\ Sound(sess) /\ sess # NoSession
      BY <1>2 DEF Linked
    <2>4. CASE /\ Committed(sess, Reconcile(sess, todo))
               /\ updates' = <<>>
      <3>1. /\ Sound(Reconcile(sess, todo))
            /\ sess.checked \subseteq Reconcile(sess, todo).checked
        BY <2>1, <2>3, ReconcileSound
      <3>2. /\ session' = Reconcile(sess, todo)
            /\ Sound(disk)'
            /\ Linked(session)'
            /\ disk.checked \subseteq disk'.checked
            /\ Typed'
        BY <2>3, <2>4, <3>1, CommittedFacts
      <3>3. session' # NoSession
        BY <3>1, <3>2, SentinelAssumption DEF Sound
      <3>4. QED
        BY <2>2, <2>4, <3>2, <3>3 DEF KnownQueue
    <2>5. ASSUME NEW k \in 1 .. Len(todo),
                 LET before == Reconcile(sess, SubSeq(todo, 1, k - 1))
                 IN  /\ before = sess \/ RevisionCurrent
                     /\ CommitFailed(before, Reconcile(before, <<todo[k]>>))
                     /\ updates' = SubSeq(todo, k, Len(todo))
          PROVE  /\ Typed'
                 /\ Sound(disk)'
                 /\ disk.checked \subseteq disk'.checked
                 /\ session' # NoSession
                 /\ Linked(session)'
                 /\ updates' \in Seq(Update)
                 /\ KnownQueue(updates)'
      <3> DEFINE prefix == SubSeq(todo, 1, k - 1)
                 before == Reconcile(sess, prefix)
                 next == <<todo[k]>>
                 after == Reconcile(before, next)
      <3>1. prefix \in Seq(Update) /\ KnownQueue(prefix)
        BY <2>1 DEF KnownQueue
      <3>2. next \in Seq(Update) /\ KnownQueue(next)
        BY <2>1 DEF KnownQueue
      <3>3. updates' \in Seq(Update) /\ KnownQueue(updates)'
        BY <2>1, <2>5 DEF KnownQueue
      <3> HIDE DEF prefix, next
      <3>4. Sound(before) /\ sess.checked \subseteq before.checked
        BY <2>3, <3>1, ReconcileSound
      <3> HIDE DEF before
      <3>5. Sound(after) /\ before.checked \subseteq after.checked
        BY <3>2, <3>4, ReconcileSound
      <3>6. CommitFailed(before, after) /\ (before = sess \/ ~stale)
        BY <2>5 DEF before, prefix, next, RevisionCurrent
      <3> HIDE DEF after
      <3>7. /\ session' = before
            /\ Sound(disk)'
            /\ Linked(session)'
            /\ disk.checked \subseteq disk'.checked
            /\ Typed'
        BY <2>3, <3>4, <3>5, <3>6, CommitFailedFacts
      <3>8. session' # NoSession
        BY <3>4, <3>7, SentinelAssumption DEF Sound
      <3>9. QED
        BY <3>3, <3>7, <3>8
    <2>6. QED
      BY <2>2, <2>4, <2>5
  <1>3. QED
    BY <1>1, <1>2

-----------------------------------------------------------------------------
(* Every step preserves the invariant.                                      *)

\* A fresh client and an empty ledger satisfy the invariant.
LEMMA InitInvariant == Init => IInv
  <1> SUFFICES ASSUME Init PROVE IInv
    OBVIOUS
  <1> USE DEF Init
  <1>1. Sound(EmptyLedger)
    BY DEF Sound, Consistent, EmptyLedger, Ledger
  <1>2. TypeOK
    <2>1. /\ stale \in BOOLEAN /\ readOnly \in BOOLEAN /\ authenticated \in BOOLEAN
          /\ armed \in BOOLEAN /\ reconciled \in BOOLEAN
      BY Zenon
    <2>2. /\ updates \in Seq(Update) /\ toClient \in Seq(Packet)
          /\ toServer \in Seq(SUBSET Locations)
      OBVIOUS
    <2>3. QED
      BY <1>1, <2>1, <2>2 DEF TypeOK, Links, Sound
  <1>3. SessionFollowsFile
    BY <1>1 DEF SessionFollowsFile
  <1>4. DurableBeforeSent /\ ServerProvenance
    BY DEF DurableBeforeSent, ServerProvenance, KnownQueue, KnownPackets
  <1>5. QED
    BY <1>2, <1>3, <1>4 DEF IInv

\* Steps of the game and of the server: the client's state does not move.
LEMMA EnvironmentStepInvariant ==
    ASSUME IInv, EnvironmentStep
    PROVE  IInv' /\ disk' = disk
  <1> USE DEF IInv
  <1>1. ASSUME UNCHANGED <<disk, clientVars>>, everServer \subseteq everServer'
        PROVE  SessionFollowsFile'
    BY <1>1 DEF SessionFollowsFile, Linked, Sound, Consistent, clientVars
  <1>2. ASSUME NEW l \in Locations, Complete(l)
        PROVE  IInv' /\ disk' = disk
    BY <1>1, <1>2
    DEF Complete, TypeOK, clientVars, serverVars, DurableBeforeSent,
        ServerProvenance, KnownQueue, KnownPackets
  <1>3. CASE Connect
    BY <1>1, <1>3
    DEF Connect, TypeOK, clientVars, serverVars, DurableBeforeSent,
        ServerProvenance, KnownQueue, KnownPackets, Packet, Links
  <1>4. CASE Join
    <2>1. PICK packet \in Packet :
             /\ toClient' = <<packet>>
             /\ packet.kind \in {"Connected", "RoomUpdate"}
                   => packet.checked \subseteq server
      <3>1. CASE toClient' = <<[kind |-> "Connected", checked |-> server]>>
        BY <3>1 DEF TypeOK, Packet
      <3>2. CASE \E kind \in {"Malformed", "Incompatible"} :
                    toClient' = <<[kind |-> kind]>>
        BY <3>2 DEF Packet
      <3>3. QED
        BY <1>4, <3>1, <3>2 DEF Join
    <2>2. /\ toClient' \in Seq(Packet)
          /\ KnownPackets(toClient)'
      BY <1>4, <2>1 DEF KnownPackets, ServerProvenance, Join, serverVars
    <2>3. faults' \in Nat
      BY <1>4 DEF Join, Fault, TypeOK
    <2>4. QED
      BY <1>1, <1>4, <2>2, <2>3
      DEF Join, TypeOK, clientVars, serverVars, DurableBeforeSent,
          ServerProvenance, KnownQueue, Links
  <1>5. ASSUME NEW new \in SUBSET Locations, Announce(new),
               UNCHANGED <<disk, clientVars, native, link>>,
               toServer' \in Seq(SUBSET Locations), faults' \in Nat,
               DurableBeforeSent'
        PROVE  IInv' /\ disk' = disk
    <2> DEFINE packet == [kind |-> "RoomUpdate", checked |-> new]
    <2>1. /\ server' \in SUBSET Locations
          /\ everServer' \in SUBSET Locations
          /\ server' \subseteq everServer'
          /\ everServer \subseteq everServer'
          /\ new \subseteq everServer'
      BY <1>5 DEF Announce, TypeOK, ServerProvenance
    <2>2. packet \in Packet /\ packet.checked = new
      BY DEF Packet
    <2>3. toClient' = toClient \/ toClient' = Append(toClient, packet)
      BY <1>5 DEF Announce
    <2> HIDE DEF packet
    <2>4. toClient' \in Seq(Packet)
      BY <2>2, <2>3 DEF TypeOK
    <2>5. KnownPackets(toClient)'
      <3>1. CASE toClient' = toClient
        BY <2>1, <3>1 DEF KnownPackets, ServerProvenance
      <3>2. CASE toClient' = Append(toClient, packet)
        <4>1. ASSUME NEW i \in DOMAIN toClient'
              PROVE  \/ toClient'[i] = packet
                     \/ /\ i \in DOMAIN toClient
                        /\ toClient'[i] = toClient[i]
          BY <3>2 DEF TypeOK
        <4>2. ASSUME NEW i \in DOMAIN toClient,
                     toClient[i].kind \in {"Connected", "RoomUpdate"}
              PROVE  toClient[i].checked \subseteq everServer'
          BY <2>1, <4>2 DEF KnownPackets, ServerProvenance
        <4>3. packet.checked \subseteq everServer'
          BY <2>1, <2>2
        <4>4. QED
          BY <4>1, <4>2, <4>3 DEF KnownPackets
      <3>3. QED
        BY <2>3, <3>1, <3>2
    <2>6. TypeOK'
      BY <1>5, <2>1, <2>4 DEF TypeOK, clientVars
    <2>7. ServerProvenance'
      BY <1>5, <2>1, <2>5 DEF ServerProvenance, KnownQueue, clientVars
    <2>8. QED
      BY <1>1, <1>5, <2>1, <2>6, <2>7
  <1>6. CASE ServerReceives
    BY <1>5, <1>6
    DEF ServerReceives, TypeOK, clientVars, DurableBeforeSent
  <1>7. CASE CheckedElsewhere
    BY <1>5, <1>7
    DEF CheckedElsewhere, Fault, TypeOK, clientVars, DurableBeforeSent
  <1>8. CASE Malformed
    BY <1>1, <1>8
    DEF Malformed, Fault, TypeOK, clientVars, serverVars, DurableBeforeSent,
        ServerProvenance, KnownQueue, KnownPackets, Packet
  <1>9. CASE LoseLink
    BY <1>1, <1>9
    DEF LoseLink, Fault, TypeOK, clientVars, serverVars, DurableBeforeSent,
        ServerProvenance, KnownQueue, KnownPackets, Links
  <1>10. CASE PlayerReconnects
    BY <1>1, <1>10
    DEF PlayerReconnects, TypeOK, clientVars, serverVars, DurableBeforeSent,
        ServerProvenance, KnownQueue, KnownPackets, Links
  <1>11. CASE Rollback
    BY <1>1, <1>11
    DEF Rollback, Fault, TypeOK, clientVars, DurableBeforeSent,
        ServerProvenance, KnownQueue, KnownPackets, Links
  <1>12. QED
    BY <1>2, <1>3, <1>4, <1>6, <1>7, <1>8, <1>9, <1>10, <1>11
    DEF EnvironmentStep

\* The outbox task is created for a set of locations.
LEMMA PumpedType ==
    ASSUME NEW sess, NEW ready, NEW current, NEW last,
           sess = NoSession \/ sess \in Ledger,
           current = NoBatch \/ current \in SUBSET Locations
    PROVE  \/ Pumped(sess, ready, current, last) = NoBatch
           \/ Pumped(sess, ready, current, last) \in SUBSET Locations
  BY DEF Pumped, Ledger

\* A handler that drains, in a state of the invariant.
LEMMA DrainStep ==
    ASSUME IInv, UNCHANGED everServer,
           NEW sess, sess = session \/ (session = NoSession /\ sess = disk),
           NEW queue \in Seq(Update), KnownQueue(queue),
           NEW mir,
           mir # NoMirror => mir \in SUBSET Locations /\ mir \subseteq everServer,
           NEW isRec \in BOOLEAN,
           Drained(sess, queue, mir, isRec)
    PROVE  /\ Typed'
           /\ disk' \in Ledger
           /\ session' = NoSession \/ session' \in Ledger
           /\ disk.checked \subseteq disk'.checked
           /\ SessionFollowsFile'
           /\ updates' \in Seq(Update)
           /\ KnownQueue(updates)'
           /\ reconciled' \in BOOLEAN
  <1>1. Typed /\ Sound(disk)
    BY DEF IInv, TypeOK, Typed, SessionFollowsFile
  <1>2. sess = NoSession => ~stale
    BY SentinelAssumption, <1>1 DEF IInv, SessionFollowsFile, Sound
  <1>3. sess # NoSession => Linked(sess)
    <2>1. CASE sess = session
      BY <2>1 DEF IInv, SessionFollowsFile
    <2>2. CASE session = NoSession /\ sess = disk
      BY <2>2 DEF IInv, SessionFollowsFile, Linked
    <2>3. QED
      BY <2>1, <2>2
  <1>4. /\ Typed'
        /\ Sound(disk)'
        /\ disk.checked \subseteq disk'.checked
        /\ session' = NoSession => ~stale'
        /\ session' # NoSession => Linked(session)'
        /\ updates' \in Seq(Update)
        /\ KnownQueue(updates)'
        /\ reconciled' \in BOOLEAN
    BY <1>1, <1>2, <1>3, DrainedFacts
  <1>5. disk' \in Ledger /\ (session' = NoSession \/ session' \in Ledger)
    BY <1>4 DEF Sound, Linked
  <1>6. QED
    BY <1>4, <1>5 DEF SessionFollowsFile

\* What was durable when it was sent stays durable while the file grows.
LEMMA StillDurable ==
    ASSUME DurableBeforeSent, UNCHANGED toServer,
           disk.checked \subseteq disk'.checked
    PROVE  DurableBeforeSent'
  <1> SUFFICES ASSUME NEW i \in DOMAIN toServer
               PROVE  toServer[i] \subseteq disk'.checked
    BY DEF DurableBeforeSent
  <1>1. QED
    BY DEF DurableBeforeSent

\* ObserveLocal: the observation is committed, or the commit fails.
LEMMA ObserveLocalInvariant ==
    ASSUME IInv, NEW l \in Locations, ObserveLocal(l)
    PROVE  IInv' /\ disk.checked \subseteq disk'.checked
  <1> DEFINE new == ObserveLocalLocation(session, l)
  <1>1. Typed /\ Linked(session) /\ Sound(session) /\ UNCHANGED everServer
    BY DEF IInv, TypeOK, Typed, SessionFollowsFile, ObserveLocal, Linked,
           serverVars
  <1>2. Sound(new) /\ session.checked \subseteq new.checked
    BY <1>1, ObserveFacts DEF Sound
  <1>3. \/ /\ Committed(session, new)
           /\ task' = Pumped(new, TransportReady(armed, authenticated, FALSE),
                             task, lastSend)
        \/ CommitFailed(session, new) /\ task' = task
    BY DEF ObserveLocal
  <1> HIDE DEF new
  <1>4. /\ session' \in Ledger
        /\ Sound(disk)'
        /\ Linked(session)'
        /\ disk.checked \subseteq disk'.checked
        /\ Typed'
    BY <1>1, <1>2, <1>3, CommittedFacts, CommitFailedFacts DEF Sound
  <1>5. task' = NoBatch \/ task' \in SUBSET Locations
    <2> DEFINE ready == TransportReady(armed, authenticated, FALSE)
    <2>1. task = NoBatch \/ task \in SUBSET Locations
      BY DEF IInv, TypeOK
    <2>2. new \in Ledger
      BY <1>2 DEF Sound
    <2>3. task' = task \/ task' = Pumped(new, ready, task, lastSend)
      BY <1>3
    <2> HIDE DEF ready
    <2>4. QED
      BY <2>1, <2>2, <2>3, PumpedType
  <1>6. UNCHANGED <<authenticated, armed, lastSend, mirror, updates, reconciled,
                    native, link, toClient, toServer, server, everServer>>
    BY DEF ObserveLocal, serverVars
  <1>7. TypeOK'
    BY <1>4, <1>5, <1>6 DEF IInv, TypeOK, Typed, Sound
  <1>8. SessionFollowsFile'
    BY <1>4, SentinelAssumption DEF SessionFollowsFile
  <1>9. DurableBeforeSent'
    BY <1>4, <1>6, StillDurable DEF IInv
  <1>10. ServerProvenance'
    BY <1>6 DEF IInv, ServerProvenance, KnownQueue, KnownPackets
  <1>11. QED
    BY <1>4, <1>7, <1>8, <1>9, <1>10 DEF IInv

\* Commits that change no location rewrite the file as it is.
LEMMA OtherCommitInvariant ==
    ASSUME IInv, OtherCommit
    PROVE  IInv' /\ disk' = disk
  <1>1. disk' = disk /\ session = disk /\ session' = session /\ ~stale
    BY DEF IInv, SessionFollowsFile, Linked, OtherCommit, RevisionCurrent
  <1>2. faults' \in Nat
    BY DEF IInv, TypeOK, OtherCommit, Fault
  <1>3. stale' = stale \/ stale' = TRUE
    BY DEF OtherCommit
  <1>4. stale' \in BOOLEAN
    BY <1>3, Zenon DEF IInv, TypeOK
  <1>5. UNCHANGED <<readOnly, authenticated, armed, task, lastSend, mirror,
                    updates, reconciled, native, link, toClient, toServer,
                    server, everServer>>
    BY DEF OtherCommit, serverVars
  <1>6. TypeOK'
    BY <1>1, <1>2, <1>4, <1>5 DEF IInv, TypeOK
  <1>7. SessionFollowsFile'
    BY <1>1, <1>5 DEF IInv, SessionFollowsFile, Linked, Sound, Consistent,
                      OtherCommit
  <1>8. DurableBeforeSent' /\ ServerProvenance'
    BY <1>1, <1>5, StillDurable
    DEF IInv, ServerProvenance, KnownQueue, KnownPackets
  <1>9. QED
    BY <1>1, <1>6, <1>7, <1>8 DEF IInv

\* Steps that drop the session or touch only volatile flags.
LEMMA SessionDropInvariant ==
    ASSUME IInv, UNCHANGED <<disk, native, server, everServer>>,
           \/ session' = NoSession /\ stale' = FALSE
           \/ UNCHANGED <<session, stale>>,
           readOnly' \in BOOLEAN, authenticated' \in BOOLEAN,
           armed' \in BOOLEAN, reconciled' \in BOOLEAN,
           task' = task \/ task' = NoBatch,
           lastSend' = lastSend \/ lastSend' = NoBatch,
           mirror' = mirror \/ mirror' = NoMirror,
           updates' = updates \/ updates' = <<>>,
           link' \in Links,
           toClient' \in Seq(Packet), KnownPackets(toClient)',
           toServer' = toServer \/ toServer' = <<>>,
           faults' \in Nat
    PROVE  IInv'
  <1> USE DEF IInv
  <1>1. stale' \in BOOLEAN
    <2>1. stale' = stale \/ stale' = FALSE
      OBVIOUS
    <2>2. QED
      BY <2>1, Zenon DEF TypeOK
  <1>2. session' = NoSession \/ session' \in Ledger
    BY DEF TypeOK
  <1>3. TypeOK'
    <2>1. updates' \in Seq(Update) /\ toServer' \in Seq(SUBSET Locations)
      <3>1. updates \in Seq(Update) /\ toServer \in Seq(SUBSET Locations)
        BY DEF TypeOK
      <3>2. <<>> \in Seq(Update) /\ <<>> \in Seq(SUBSET Locations)
        OBVIOUS
      <3>3. updates' \in Seq(Update)
        BY <3>1, <3>2
      <3>4. toServer' \in Seq(SUBSET Locations)
        BY <3>1, <3>2
      <3>5. QED
        BY <3>3, <3>4
    <2>2. /\ task' = NoBatch \/ task' \in SUBSET Locations
          /\ lastSend' = NoBatch \/ lastSend' \in SUBSET Locations
          /\ mirror' = NoMirror \/ mirror' \in SUBSET Locations
      BY DEF TypeOK
    <2>3. /\ disk' \in Ledger
          /\ native' \in SUBSET Locations
          /\ server' \in SUBSET Locations
          /\ everServer' \in SUBSET Locations
      BY DEF TypeOK
    <2>4. QED
      BY <1>1, <1>2, <2>1, <2>2, <2>3 DEF TypeOK
  <1>4. SessionFollowsFile'
    BY DEF SessionFollowsFile, Linked, Sound, Consistent
  <1>5. DurableBeforeSent'
    BY DEF DurableBeforeSent
  <1>6. ServerProvenance'
    <2>1. KnownQueue(updates)'
      BY DEF ServerProvenance, KnownQueue
    <2>2. QED
      BY <2>1 DEF ServerProvenance
  <1>7. QED
    BY <1>3, <1>4, <1>5, <1>6

\* Taking a packet leaves the others as they were.
LEMMA ReceiveFacts ==
    ASSUME IInv, NEW kind, Receive(kind), UNCHANGED everServer
    PROVE  /\ toClient' \in Seq(Packet)
           /\ KnownPackets(toClient)'
           /\ Head(toClient) \in Packet
           /\ Head(toClient).kind = kind
           /\ kind \in {"Connected", "RoomUpdate"}
                 => Head(toClient).checked \subseteq everServer
  <1>1. /\ toClient \in Seq(Packet)
        /\ toClient # <<>>
        /\ KnownPackets(toClient)
        /\ toClient' = Tail(toClient)
    BY DEF IInv, TypeOK, ServerProvenance, Receive
  <1>2. Head(toClient) = toClient[1] /\ 1 \in DOMAIN toClient
    BY <1>1
  <1>3. toClient' \in Seq(Packet) /\ Head(toClient) \in Packet
    BY <1>1
  <1>4. ASSUME NEW i \in DOMAIN toClient'
        PROVE  i + 1 \in DOMAIN toClient /\ toClient'[i] = toClient[i + 1]
    BY <1>1
  <1>5. KnownPackets(toClient)'
    BY <1>1, <1>4 DEF KnownPackets
  <1>6. Head(toClient).kind = kind
    BY DEF Receive
  <1>7. QED
    BY <1>1, <1>2, <1>3, <1>5, <1>6 DEF KnownPackets

\* RoomInfo closes the session and forgets the projections of the server.
LEMMA OnRoomInfoInvariant ==
    ASSUME IInv, OnRoomInfo
    PROVE  IInv'
  <1>1. toClient' \in Seq(Packet) /\ KnownPackets(toClient)'
    BY ReceiveFacts DEF OnRoomInfo, serverVars
  <1>2. /\ readOnly' \in BOOLEAN /\ authenticated' \in BOOLEAN
        /\ armed' \in BOOLEAN /\ reconciled' \in BOOLEAN
    BY Zenon DEF OnRoomInfo, Invalidate
  <1>3. link' \in Links /\ faults' \in Nat
    BY DEF OnRoomInfo, IInv, TypeOK
  <1>4. QED
    BY <1>1, <1>2, <1>3, SessionDropInvariant
    DEF OnRoomInfo, Invalidate, serverVars

\* A refused Connected leaves the ledger alone.
LEMMA OnIncompatibleInvariant ==
    ASSUME IInv, OnIncompatible
    PROVE  IInv'
  <1>1. toClient' \in Seq(Packet) /\ KnownPackets(toClient)'
    BY ReceiveFacts DEF OnIncompatible, serverVars
  <1>2. /\ readOnly' \in BOOLEAN /\ authenticated' \in BOOLEAN
        /\ armed' \in BOOLEAN /\ reconciled' \in BOOLEAN
    BY Zenon DEF OnIncompatible, Invalidate, IInv, TypeOK
  <1>3. link' \in Links /\ faults' \in Nat
    BY DEF OnIncompatible, IInv, TypeOK
  <1>4. QED
    BY <1>1, <1>2, <1>3, SessionDropInvariant
    DEF OnIncompatible, Invalidate, serverVars

\* A malformed packet latches the client and changes nothing else.
LEMMA OnMalformedInvariant ==
    ASSUME IInv, OnMalformed
    PROVE  IInv'
  <1>1. toClient' \in Seq(Packet) /\ KnownPackets(toClient)'
    BY ReceiveFacts DEF OnMalformed, serverVars
  <1>2. /\ readOnly' \in BOOLEAN /\ authenticated' \in BOOLEAN
        /\ armed' \in BOOLEAN /\ reconciled' \in BOOLEAN
    BY Zenon DEF OnMalformed, IInv, TypeOK
  <1>3. link' \in Links /\ faults' \in Nat
    BY DEF OnMalformed, IInv, TypeOK
  <1>4. QED
    BY <1>1, <1>2, <1>3, SessionDropInvariant DEF OnMalformed, serverVars

\* The session is closed without a packet: a refused heartbeat, a lost
\* bridge, a crash of the process.
LEMMA SessionClosedInvariant ==
    ASSUME IInv, HeartbeatRefused \/ CloseSession \/ Crash
    PROVE  IInv' /\ disk' = disk
  <1>1. toClient' = toClient \/ toClient' = <<>>
    BY DEF HeartbeatRefused, CloseSession, Crash
  <1>2. toClient' \in Seq(Packet) /\ KnownPackets(toClient)'
    <2>1. toClient \in Seq(Packet) /\ KnownPackets(toClient)
      BY DEF IInv, TypeOK, ServerProvenance
    <2>2. everServer' = everServer
      BY DEF HeartbeatRefused, CloseSession, Crash, serverVars
    <2>3. CASE toClient' = toClient
      BY <2>1, <2>2, <2>3 DEF KnownPackets
    <2>4. CASE toClient' = <<>>
      BY <2>4 DEF KnownPackets
    <2>5. QED
      BY <1>1, <2>3, <2>4
  <1>3. /\ readOnly' \in BOOLEAN /\ authenticated' \in BOOLEAN
        /\ armed' \in BOOLEAN /\ reconciled' \in BOOLEAN
    BY Zenon DEF HeartbeatRefused, CloseSession, Crash, Invalidate, IInv, TypeOK
  <1>4. link' \in Links /\ faults' \in Nat
    BY DEF HeartbeatRefused, CloseSession, Crash, Fault, IInv, TypeOK, Links
  <1>5. QED
    BY <1>2, <1>3, <1>4, SessionDropInvariant
    DEF HeartbeatRefused, CloseSession, Crash, Invalidate, serverVars

\* Timers and the closing of the socket.
LEMMA TimerInvariant ==
    ASSUME IInv, RetryWindowElapses \/ ConnectionClosed
    PROVE  IInv' /\ disk' = disk
  <1>1. toClient' \in Seq(Packet) /\ KnownPackets(toClient)'
    BY DEF IInv, TypeOK, ServerProvenance, KnownPackets, RetryWindowElapses,
           ConnectionClosed, serverVars
  <1>2. /\ readOnly' \in BOOLEAN /\ authenticated' \in BOOLEAN
        /\ armed' \in BOOLEAN /\ reconciled' \in BOOLEAN
    BY Zenon DEF RetryWindowElapses, ConnectionClosed, Invalidate, IInv, TypeOK
  <1>3. link' \in Links /\ faults' \in Nat
    BY DEF RetryWindowElapses, ConnectionClosed, IInv, TypeOK, Links
  <1>4. QED
    BY <1>1, <1>2, <1>3, SessionDropInvariant
    DEF RetryWindowElapses, ConnectionClosed, Invalidate, serverVars

\* What a draining handler leaves: the parts it shares with the others.
LEMMA DrainedInvariant ==
    ASSUME IInv,
           Typed', disk' \in Ledger, session' = NoSession \/ session' \in Ledger,
           disk.checked \subseteq disk'.checked, SessionFollowsFile',
           updates' \in Seq(Update), KnownQueue(updates)', reconciled' \in BOOLEAN,
           authenticated' \in BOOLEAN, armed' \in BOOLEAN,
           task' = NoBatch \/ task' \in SUBSET Locations,
           lastSend' = lastSend \/ lastSend' = NoBatch,
           mirror' = NoMirror \/ mirror' \in SUBSET Locations,
           mirror' # NoMirror => mirror' \subseteq everServer,
           toClient' \in Seq(Packet), KnownPackets(toClient)',
           UNCHANGED <<native, link, toServer, server, everServer>>
    PROVE  IInv'
  <1> USE DEF IInv
  <1>1. TypeOK'
    <2>1. lastSend' = NoBatch \/ lastSend' \in SUBSET Locations
      BY DEF TypeOK
    <2>2. QED
      BY <2>1 DEF TypeOK, Typed
  <1>2. DurableBeforeSent'
    BY StillDurable
  <1>3. ServerProvenance'
    BY DEF ServerProvenance
  <1>4. QED
    BY <1>1, <1>2, <1>3

\* The heartbeat opens the session from the file and drains (sync_persistence).
LEMMA HeartbeatInvariant ==
    ASSUME IInv, Heartbeat
    PROVE  IInv' /\ disk.checked \subseteq disk'.checked
  <1> DEFINE opened == IF session = NoSession THEN disk ELSE session
             ready == TransportReady(armed, authenticated, readOnly')
  <1>1. /\ Drained(opened, updates, mirror, reconciled)
        /\ task' = Pumped(session', ready, task, lastSend)
        /\ UNCHANGED <<authenticated, armed, lastSend, mirror, native, link,
                       toClient, toServer, server, everServer>>
    BY DEF Heartbeat, serverVars
  <1>2. opened = session \/ (session = NoSession /\ opened = disk)
    OBVIOUS
  <1> HIDE DEF opened, ready
  <1>3. /\ updates \in Seq(Update) /\ KnownQueue(updates)
        /\ mirror = NoMirror \/ mirror \in SUBSET Locations
        /\ mirror # NoMirror => mirror \subseteq everServer
        /\ reconciled \in BOOLEAN
        /\ toClient \in Seq(Packet) /\ KnownPackets(toClient)
    BY DEF IInv, TypeOK, ServerProvenance
  <1>4. /\ Typed'
        /\ disk' \in Ledger
        /\ session' = NoSession \/ session' \in Ledger
        /\ disk.checked \subseteq disk'.checked
        /\ SessionFollowsFile'
        /\ updates' \in Seq(Update)
        /\ KnownQueue(updates)'
        /\ reconciled' \in BOOLEAN
    BY <1>1, <1>2, <1>3, DrainStep
  <1>5. task' = NoBatch \/ task' \in SUBSET Locations
    <2>1. task = NoBatch \/ task \in SUBSET Locations
      BY DEF IInv, TypeOK
    <2>2. QED
      BY <1>1, <1>4, <2>1, PumpedType
  <1>6. authenticated' \in BOOLEAN /\ armed' \in BOOLEAN
    BY <1>1 DEF IInv, TypeOK
  <1>7. toClient' \in Seq(Packet) /\ KnownPackets(toClient)'
    BY <1>1, <1>3 DEF KnownPackets
  <1>8. QED
    BY <1>1, <1>3, <1>4, <1>5, <1>6, <1>7, DrainedInvariant

\* An accepted Connected: its full update replaces the queue and is drained.
LEMMA OnConnectedInvariant ==
    ASSUME IInv, OnConnected
    PROVE  IInv' /\ disk.checked \subseteq disk'.checked
  <1> DEFINE checked == Head(toClient).checked
             update == [full |-> TRUE, checked |-> checked]
             queue == <<update>>
             ready == TransportReady(TRUE, TRUE, readOnly')
  <1>1. /\ Receive("Connected")
        /\ mirror' = checked
        /\ Drained(session, queue, checked, reconciled)
        /\ authenticated' = TRUE
        /\ armed' = TRUE
        /\ lastSend' = NoBatch
        /\ task' = Pumped(session', ready, NoBatch, NoBatch)
        /\ UNCHANGED <<native, link, toServer, server, everServer>>
    BY DEF OnConnected, serverVars
  <1>2. /\ toClient' \in Seq(Packet) /\ KnownPackets(toClient)'
        /\ Head(toClient) \in Packet /\ Head(toClient).kind = "Connected"
        /\ checked \subseteq everServer
    BY <1>1, ReceiveFacts
  <1>3. checked \in SUBSET Locations
    BY <1>2 DEF Packet
  <1> HIDE DEF checked
  <1>4. update \in Update /\ update.checked \subseteq everServer
    BY <1>2, <1>3 DEF Update
  <1> HIDE DEF update
  <1>5. queue \in Seq(Update) /\ KnownQueue(queue)
    BY <1>4 DEF KnownQueue
  <1> HIDE DEF queue, ready
  <1>6. reconciled \in BOOLEAN
    BY DEF IInv, TypeOK
  <1>7. /\ Typed'
        /\ disk' \in Ledger
        /\ session' = NoSession \/ session' \in Ledger
        /\ disk.checked \subseteq disk'.checked
        /\ SessionFollowsFile'
        /\ updates' \in Seq(Update)
        /\ KnownQueue(updates)'
        /\ reconciled' \in BOOLEAN
    BY <1>1, <1>2, <1>3, <1>5, <1>6, DrainStep
  <1>8. task' = NoBatch \/ task' \in SUBSET Locations
    BY <1>1, <1>7, PumpedType
  <1>9. authenticated' \in BOOLEAN /\ armed' \in BOOLEAN
    BY <1>1
  <1>10. QED
    BY <1>1, <1>2, <1>3, <1>7, <1>8, <1>9, DrainedInvariant

\* A RoomUpdate joins the queue and is drained.
LEMMA OnRoomUpdateInvariant ==
    ASSUME IInv, OnRoomUpdate
    PROVE  IInv' /\ disk.checked \subseteq disk'.checked
  <1> DEFINE checked == Head(toClient).checked
             known == IF mirror = NoMirror THEN {} ELSE mirror
             update == [full |-> FALSE, checked |-> checked]
             queue == Append(updates, update)
             ready == TransportReady(armed, TRUE, readOnly')
  <1>1. /\ Receive("RoomUpdate")
        /\ UNCHANGED <<authenticated, armed, lastSend, native, link, toServer,
                       server, everServer>>
    BY DEF OnRoomUpdate, serverVars
  <1>2. /\ toClient' \in Seq(Packet) /\ KnownPackets(toClient)'
        /\ Head(toClient) \in Packet /\ Head(toClient).kind = "RoomUpdate"
        /\ checked \subseteq everServer
    BY <1>1, ReceiveFacts
  <1>3. checked \in SUBSET Locations
    BY <1>2 DEF Packet
  <1>4. authenticated' \in BOOLEAN /\ armed' \in BOOLEAN /\ reconciled \in BOOLEAN
    BY <1>1 DEF IInv, TypeOK
  <1>5. CASE ~authenticated
    <2>1. /\ readOnly' = TRUE
          /\ UNCHANGED <<disk, session, stale, mirror, updates, reconciled,
                         task, faults>>
      BY <1>5 DEF OnRoomUpdate
    <2>2. readOnly' \in BOOLEAN
      BY <2>1, Zenon
    <2>3. /\ reconciled' \in BOOLEAN
          /\ link' \in Links
          /\ faults' \in Nat
      BY <1>1, <2>1 DEF IInv, TypeOK
    <2>4. QED
      BY <1>1, <1>2, <1>4, <2>1, <2>2, <2>3, SessionDropInvariant
  <1>6. CASE authenticated
    <2>1. /\ mirror' = known \cup checked
          /\ Drained(session, queue, known \cup checked, reconciled)
          /\ task' = Pumped(session', ready, task, lastSend)
      BY <1>6 DEF OnRoomUpdate
    <2>2. known \in SUBSET Locations /\ known \subseteq everServer
      BY DEF IInv, TypeOK, ServerProvenance
    <2> HIDE DEF checked, known
    <2>3. update \in Update /\ update.checked \subseteq everServer
      BY <1>2, <1>3 DEF Update
    <2> HIDE DEF update
    <2>4. queue \in Seq(Update) /\ KnownQueue(queue)
      <3>1. updates \in Seq(Update) /\ KnownQueue(updates)
        BY DEF IInv, TypeOK, ServerProvenance
      <3>2. ASSUME NEW i \in DOMAIN queue
            PROVE  queue[i].checked \subseteq everServer
        <4>1. CASE i \in DOMAIN updates
          <5>1. queue[i] = updates[i]
            BY <3>1, <4>1
          <5>2. QED
            BY <3>1, <4>1, <5>1 DEF KnownQueue
        <4>2. CASE i \notin DOMAIN updates
          <5>1. queue[i] = update
            BY <3>1, <4>2
          <5>2. QED
            BY <2>3, <5>1
        <4>3. QED
          BY <4>1, <4>2
      <3>3. queue \in Seq(Update)
        BY <2>3, <3>1
      <3> HIDE DEF queue
      <3>4. QED
        BY <3>2, <3>3 DEF KnownQueue
    <2> HIDE DEF queue, ready
    <2>5. known \cup checked \in SUBSET Locations
          /\ known \cup checked \subseteq everServer
      BY <1>2, <1>3, <2>2
    <2>6. /\ Typed'
          /\ disk' \in Ledger
          /\ session' = NoSession \/ session' \in Ledger
          /\ disk.checked \subseteq disk'.checked
          /\ SessionFollowsFile'
          /\ updates' \in Seq(Update)
          /\ KnownQueue(updates)'
          /\ reconciled' \in BOOLEAN
      BY <1>1, <1>4, <2>1, <2>4, <2>5, DrainStep
    <2>7. task' = NoBatch \/ task' \in SUBSET Locations
      <3>1. task = NoBatch \/ task \in SUBSET Locations
        BY DEF IInv, TypeOK
      <3>2. QED
        BY <2>1, <2>6, <3>1, PumpedType
    <2>8. QED
      BY <1>1, <1>2, <1>4, <2>1, <2>5, <2>6, <2>7, DrainedInvariant
  <1>7. QED
    BY <1>4, <1>5, <1>6 DEF IInv, TypeOK

\* The batch of a send is the outbox of the session, durable already.
LEMMA SendInvariant ==
    ASSUME IInv, RunTask \/ SendSync
    PROVE  IInv' /\ disk' = disk
  <1>1. /\ UNCHANGED <<disk, session, stale, readOnly, authenticated, armed,
                       mirror, updates, reconciled, native, link, toClient,
                       server, everServer, faults>>
        /\ task' = task \/ task' = NoBatch
    BY DEF RunTask, SendSync, Send, serverVars
  <1>2. \/ UNCHANGED <<lastSend, toServer>>
        \/ /\ session # NoSession
           /\ lastSend' = session.pending
           /\ toServer' = toServer \/ toServer' = Append(toServer, session.pending)
    BY DEF RunTask, SendSync, Send, Reservable
  <1>3. session # NoSession
          => /\ session.pending \in SUBSET Locations
             /\ session.pending \subseteq disk.checked
    BY DEF IInv, SessionFollowsFile, Linked, Sound, Consistent, Ledger
  <1>4. lastSend' = NoBatch \/ lastSend' \in SUBSET Locations
    BY <1>2, <1>3 DEF IInv, TypeOK
  <1>5. toServer' \in Seq(SUBSET Locations) /\ DurableBeforeSent'
    <2>1. toServer \in Seq(SUBSET Locations) /\ DurableBeforeSent
      BY DEF IInv, TypeOK
    <2>2. CASE toServer' = toServer
      BY <1>1, <2>1, <2>2, StillDurable
    <2>3. CASE session # NoSession /\ toServer' = Append(toServer, session.pending)
      <3>1. toServer' \in Seq(SUBSET Locations)
        BY <1>3, <2>1, <2>3
      <3>2. ASSUME NEW i \in DOMAIN toServer'
            PROVE  toServer'[i] \subseteq disk'.checked
        <4>1. CASE i \in DOMAIN toServer
          <5>1. toServer'[i] = toServer[i]
            BY <2>1, <2>3, <4>1
          <5>2. QED
            BY <1>1, <2>1, <4>1, <5>1 DEF DurableBeforeSent
        <4>2. CASE i \notin DOMAIN toServer
          <5>1. toServer'[i] = session.pending
            BY <2>1, <2>3, <4>2
          <5>2. QED
            BY <1>1, <1>3, <2>3, <5>1
        <4>3. QED
          BY <4>1, <4>2
      <3>3. QED
        BY <3>1, <3>2 DEF DurableBeforeSent
    <2>4. QED
      BY <1>2, <2>2, <2>3
  <1>6. task' = NoBatch \/ task' \in SUBSET Locations
    BY <1>1 DEF IInv, TypeOK
  <1>7. TypeOK'
    BY <1>1, <1>4, <1>5, <1>6 DEF IInv, TypeOK
  <1>8. SessionFollowsFile'
    BY <1>1 DEF IInv, SessionFollowsFile, Linked, Sound, Consistent
  <1>9. ServerProvenance'
    BY <1>1 DEF IInv, ServerProvenance, KnownQueue, KnownPackets
  <1>10. QED
    BY <1>1, <1>5, <1>7, <1>8, <1>9 DEF IInv

\* Every handler of the client preserves the invariant.
LEMMA ClientStepInvariant ==
    ASSUME IInv, ClientStep
    PROVE  IInv' /\ disk.checked \subseteq disk'.checked
  <1>1. CASE \E l \in Locations : ObserveLocal(l)
    BY <1>1, ObserveLocalInvariant
  <1>2. CASE OtherCommit
    BY <1>2, OtherCommitInvariant
  <1>3. CASE Heartbeat
    BY <1>3, HeartbeatInvariant
  <1>4. CASE HeartbeatRefused \/ CloseSession \/ Crash
    BY <1>4, SessionClosedInvariant
  <1>5. CASE OnRoomInfo
    BY <1>5, OnRoomInfoInvariant DEF OnRoomInfo
  <1>6. CASE OnConnected
    BY <1>6, OnConnectedInvariant
  <1>7. CASE OnIncompatible
    BY <1>7, OnIncompatibleInvariant DEF OnIncompatible
  <1>8. CASE OnRoomUpdate
    BY <1>8, OnRoomUpdateInvariant
  <1>9. CASE OnMalformed
    BY <1>9, OnMalformedInvariant DEF OnMalformed
  <1>10. CASE RunTask \/ SendSync
    BY <1>10, SendInvariant
  <1>11. CASE RetryWindowElapses \/ ConnectionClosed
    BY <1>11, TimerInvariant
  <1>12. QED
    BY <1>1, <1>2, <1>3, <1>4, <1>5, <1>6, <1>7, <1>8, <1>9, <1>10, <1>11
    DEF ClientStep

\* Every step of the system preserves the invariant.
LEMMA StepInvariant ==
    ASSUME IInv, [Next]_vars
    PROVE  IInv' /\ disk.checked \subseteq disk'.checked
  <1>1. CASE ClientStep
    BY <1>1, ClientStepInvariant
  <1>2. CASE EnvironmentStep
    BY <1>2, EnvironmentStepInvariant
  <1>3. CASE UNCHANGED vars
    <2>1. UNCHANGED <<disk, session, stale, readOnly, authenticated, armed, task,
                     lastSend, mirror, updates, reconciled, native, link,
                     toClient, toServer, server, everServer, faults>>
      BY <1>3 DEF vars, clientVars, serverVars
    <2>2. TypeOK'
      BY <2>1 DEF IInv, TypeOK
    <2>3. SessionFollowsFile'
      BY <2>1 DEF IInv, SessionFollowsFile, Linked, Sound, Consistent
    <2>4. DurableBeforeSent'
      BY <2>1, StillDurable DEF IInv
    <2>5. ServerProvenance'
      BY <2>1 DEF IInv, ServerProvenance, KnownQueue, KnownPackets
    <2>6. QED
      BY <2>1, <2>2, <2>3, <2>4, <2>5 DEF IInv
  <1>4. QED
    BY <1>1, <1>2, <1>3 DEF Next

-----------------------------------------------------------------------------
(* The theorems.                                                            *)

\* The inductive invariant: types, the link between the session and the file,
\* durability of what was sent, provenance of what is confirmed.
THEOREM Invariant == Spec => []IInv
  <1>1. IInv /\ [Next]_vars => IInv'
    BY StepInvariant
  <1>2. QED
    BY <1>1, InitInvariant, PTL DEF Spec

\* Every ledger, queue, packet and projection of the client stays within the
\* enabled locations of the slot, whatever packets arrive.
THEOREM TypeCorrect == Spec => []TypeOK
  <1>1. IInv => TypeOK
    BY DEF IInv
  <1>2. QED
    BY <1>1, Invariant, PTL

\* The ledger of the file and of the session is always split exactly into
\* confirmed and pending locations (location_outbox._transition under every
\* commit, failed commit and reopening).
THEOREM PartitionSafe == Spec => []LedgerPartition
  <1>1. IInv => LedgerPartition
    BY DEF IInv, SessionFollowsFile, Linked, Sound, LedgerPartition
  <1>2. QED
    BY <1>1, Invariant, PTL

\* Nothing is sent that a crash could still make the client forget
\* (_send_reserved_location_batch sends the outbox of the committed state).
THEOREM DurableSafe == Spec => []DurableBeforeSent
  <1>1. IInv => DurableBeforeSent
    BY DEF IInv
  <1>2. QED
    BY <1>1, Invariant, PTL

\* A location leaves the outbox only after the server held it.
THEOREM ConfirmationSafe == Spec => []ConfirmedOnlyByServer
  <1>1. IInv => ConfirmedOnlyByServer
    BY DEF IInv, SessionFollowsFile, Sound, ConfirmedOnlyByServer
  <1>2. QED
    BY <1>1, Invariant, PTL

\* No step, crash, server rollback or failed commit makes the file forget a
\* checked location.
THEOREM NothingForgotten == Spec => CheckedMonotonic
  <1>1. IInv /\ [Next]_vars => [disk.checked \subseteq disk'.checked]_disk
    BY StepInvariant
  <1>2. QED
    BY <1>1, Invariant, PTL DEF Spec, CheckedMonotonic

-----------------------------------------------------------------------------
(***************************************************************************)
(* LocationOutbox implements LocationDelivery, for any set of locations,   *)
(* any number of faults and any queue bound.                               *)
(*                                                                         *)
(* Record and Acknowledge of the abstract specification allow one change   *)
(* of the acknowledged set at a time.  A drain applies several server      *)
(* updates, and may stop at one whose commit fails, after the file was     *)
(* replaced or before; its effect on the file is still one Acknowledge,    *)
(* because only the first update of the queue may replace the confirmed    *)
(* set.  That is the one fact IInv does not hold.                          *)
(***************************************************************************)

\* A full update replaces the queue, so it is the first of it
\* (_queue_server_location_update).
FullFirst(queue) == \A i \in DOMAIN queue : i # 1 => ~queue[i].full

RInv == IInv /\ FullFirst(updates)

\* The file is unchanged, or adopts S as confirmed and as checked.
Adopted(S) ==
    /\ S \subseteq everServer
    /\ disk'.confirmed = S
    /\ disk'.checked = disk.checked \cup S

FileMoves == disk' = disk \/ \E S : Adopted(S)

-----------------------------------------------------------------------------
(* The file after a commit, a failed commit and a drain.                    *)

\* What a reconciliation adds to the checked set is confirmed by it, and an
\* update that is not full takes back no confirmation.
LEMMA ReconcileAdopts ==
    ASSUME NEW ledger, Sound(ledger), NEW queue \in Seq(Update),
           KnownQueue(queue)
    PROVE  LET new == Reconcile(ledger, queue)
           IN  /\ Sound(new)
               /\ new.checked = ledger.checked \cup new.confirmed
               /\ new.confirmed \subseteq everServer
               /\ queue = <<>> => new = ledger
               /\ ~queue[1].full => ledger.confirmed \subseteq new.confirmed
  <1> DEFINE new == Reconcile(ledger, queue)
             all == UNION {queue[i].checked : i \in DOMAIN queue}
  <1>1. /\ Sound(new)
        /\ new.checked = ledger.checked \cup new.confirmed
        /\ new.confirmed \subseteq everServer
    BY ReconcileFacts DEF Sound, KnownQueue
  <1>2. queue = <<>> => new = ledger
    BY DEF Reconcile
  <1>3. ASSUME ~queue[1].full PROVE ledger.confirmed \subseteq new.confirmed
    <2>1. CASE queue = <<>>
      BY <1>2, <2>1
    <2>2. CASE queue # <<>>
      <3>1. new = ReconcileRoomUpdate(ledger, all)
        BY <1>3, <2>2 DEF Reconcile
      <3>2. QED
        BY <3>1 DEF ReconcileRoomUpdate, Transition
    <2>3. QED
      BY <2>1, <2>2
  <1>4. QED
    BY <1>1, <1>2, <1>3

\* A drain leaves the file as it was or adopts one set of what the server
\* held, and leaves the queue with its full update first.
LEMMA DrainAdopts ==
    ASSUME RInv,
           NEW sess, sess = session \/ (session = NoSession /\ sess = disk),
           NEW queue \in Seq(Update), KnownQueue(queue), FullFirst(queue),
           NEW mir,
           mir # NoMirror => mir \in SUBSET Locations /\ mir \subseteq everServer,
           NEW isRec,
           Drained(sess, queue, mir, isRec)
    PROVE  FileMoves /\ FullFirst(updates')
  <1>1. CASE sess = NoSession \/ readOnly
    BY <1>1 DEF Drained, FileMoves
  <1>2. CASE ~(sess = NoSession \/ readOnly)
    <2> DEFINE todo == ReplayMirror(queue, mir, isRec)
    <2>1. todo \in Seq(Update) /\ KnownQueue(todo)
      BY ReplayFacts
    <2>2. FullFirst(todo)
      BY DEF FullFirst, ReplayMirror
    <2>3. \/ /\ Committed(sess, Reconcile(sess, todo))
             /\ updates' = <<>>
          \/ \E k \in 1 .. Len(todo) :
                LET before == Reconcile(sess, SubSeq(todo, 1, k - 1))
                IN  /\ before = sess \/ RevisionCurrent
                    /\ CommitFailed(before, Reconcile(before, <<todo[k]>>))
                    /\ updates' = SubSeq(todo, k, Len(todo))
      BY <1>2 DEF Drained
    <2> HIDE DEF todo
    <2>4. Sound(sess) /\ (~stale => sess = disk)
      BY <1>2 DEF RInv, IInv, SessionFollowsFile, Linked
    <2>5. CASE Committed(sess, Reconcile(sess, todo)) /\ updates' = <<>>
      <3> DEFINE new == Reconcile(sess, todo)
      <3>1. /\ new.checked = sess.checked \cup new.confirmed
            /\ new.confirmed \subseteq everServer
        BY <2>1, <2>4, ReconcileAdopts
      <3> HIDE DEF new
      <3>2. disk' = disk \/ (disk' = new /\ sess = disk)
        BY <2>4, <2>5 DEF Committed, RevisionCurrent, new
      <3>3. FileMoves
        BY <3>1, <3>2 DEF FileMoves, Adopted
      <3>4. QED
        BY <2>5, <3>3 DEF FullFirst
    <2>6. ASSUME NEW k \in 1 .. Len(todo),
                 LET before == Reconcile(sess, SubSeq(todo, 1, k - 1))
                 IN  /\ before = sess \/ RevisionCurrent
                     /\ CommitFailed(before, Reconcile(before, <<todo[k]>>))
                     /\ updates' = SubSeq(todo, k, Len(todo))
          PROVE  FileMoves /\ FullFirst(updates')
      <3> DEFINE prefix == SubSeq(todo, 1, k - 1)
                 before == Reconcile(sess, prefix)
                 next == <<todo[k]>>
                 after == Reconcile(before, next)
      <3>1. prefix \in Seq(Update) /\ KnownQueue(prefix)
        BY <2>1 DEF KnownQueue
      <3>2. next \in Seq(Update) /\ KnownQueue(next) /\ next[1] = todo[k]
        BY <2>1 DEF KnownQueue
      <3>3. k = 1 => prefix = <<>>
        BY <2>1
      <3>4. k # 1 => ~todo[k].full
        BY <2>1, <2>2 DEF FullFirst
      <3>5. FullFirst(updates')
        <4>1. ASSUME NEW i \in DOMAIN updates', i # 1
              PROVE  ~updates'[i].full
          <5>1. /\ updates'[i] = todo[k + i - 1]
                /\ k + i - 1 \in DOMAIN todo
                /\ k + i - 1 # 1
            BY <2>1, <2>6, <4>1
          <5>2. QED
            BY <2>2, <5>1 DEF FullFirst
        <4>2. QED
          BY <4>1 DEF FullFirst
      <3> HIDE DEF prefix, next
      <3>6. /\ Sound(before)
            /\ before.checked = sess.checked \cup before.confirmed
            /\ before.confirmed \subseteq everServer
            /\ k = 1 => before = sess
        BY <2>4, <3>1, <3>3, ReconcileAdopts
      <3> HIDE DEF before
      <3>7. /\ after.checked = before.checked \cup after.confirmed
            /\ after.confirmed \subseteq everServer
            /\ k # 1 => before.confirmed \subseteq after.confirmed
        BY <3>2, <3>4, <3>6, ReconcileAdopts
      <3>8. CommitFailed(before, after)
        BY <2>6 DEF before, prefix, next
      <3> HIDE DEF after
      <3>9. after.checked = sess.checked \cup after.confirmed
        BY <3>6, <3>7
      <3>10. disk' = disk \/ (~stale /\ (disk' = before \/ disk' = after))
        BY <3>8 DEF CommitFailed
      <3>11. FileMoves
        BY <2>4, <3>6, <3>7, <3>9, <3>10 DEF FileMoves, Adopted
      <3>12. QED
        BY <3>5, <3>11
    <2>7. QED
      BY <2>3, <2>5, <2>6
  <1>3. QED
    BY <1>1, <1>2

-----------------------------------------------------------------------------
(* One lemma per kind of step.                                              *)

DeliveryStep == [Delivery!Next]_(Delivery!vars)

\* A handler that only moves the file by adopting the server's word.
LEMMA Acknowledges ==
    ASSUME FileMoves, UNCHANGED <<native, server, everServer>>
    PROVE  DeliveryStep
  <1>1. CASE disk' = disk
    BY <1>1 DEF DeliveryStep, Delivery!vars
  <1>2. CASE \E S : Adopted(S)
    <2>1. Delivery!Acknowledge
      BY <1>2 DEF Adopted, Delivery!Acknowledge
    <2>2. QED
      BY <2>1 DEF DeliveryStep, Delivery!Next
  <1>3. QED
    BY <1>1, <1>2 DEF FileMoves

\* An observation records one location the game earned; when its commit fails
\* the file may or may not hold it.
LEMMA ObserveLocalRefines ==
    ASSUME RInv, NEW l \in Locations, ObserveLocal(l)
    PROVE  DeliveryStep /\ FullFirst(updates)'
  <1> DEFINE new == ObserveLocalLocation(session, l)
  <1>1. /\ l \in native
        /\ Committed(session, new) \/ CommitFailed(session, new)
        /\ UNCHANGED <<updates, native, server, everServer>>
    BY DEF ObserveLocal, serverVars
  <1>2. Sound(session) /\ (~stale => session = disk)
    BY DEF RInv, IInv, SessionFollowsFile, Linked, ObserveLocal
  <1>3. /\ new.checked = session.checked \cup {l}
        /\ new.confirmed = session.confirmed
    BY <1>2, ObserveFacts DEF Sound
  <1> HIDE DEF new
  <1>4. disk' = disk \/ (disk' = new /\ session = disk)
    BY <1>1, <1>2 DEF Committed, CommitFailed, RevisionCurrent
  <1>5. CASE disk' = disk
    BY <1>1, <1>5 DEF DeliveryStep, Delivery!vars, RInv, FullFirst
  <1>6. CASE disk' = new /\ session = disk
    <2>1. \E S \in SUBSET (native \cup everServer) :
             disk'.checked = disk.checked \cup S
      BY <1>1, <1>3, <1>6
    <2>2. Delivery!Record
      BY <1>1, <1>3, <1>6, <2>1 DEF Delivery!Record
    <2>3. QED
      BY <1>1, <2>2 DEF DeliveryStep, Delivery!Next, RInv, FullFirst
  <1>7. QED
    BY <1>4, <1>5, <1>6

\* The heartbeat acknowledges what it drains.
LEMMA HeartbeatRefines ==
    ASSUME RInv, Heartbeat
    PROVE  DeliveryStep /\ FullFirst(updates)'
  <1> DEFINE opened == IF session = NoSession THEN disk ELSE session
  <1>1. /\ Drained(opened, updates, mirror, reconciled)
        /\ UNCHANGED <<native, server, everServer>>
    BY DEF Heartbeat, serverVars
  <1>2. opened = session \/ (session = NoSession /\ opened = disk)
    OBVIOUS
  <1> HIDE DEF opened
  <1>3. /\ updates \in Seq(Update) /\ KnownQueue(updates) /\ FullFirst(updates)
        /\ mirror # NoMirror
              => mirror \in SUBSET Locations /\ mirror \subseteq everServer
    BY DEF RInv, IInv, TypeOK, ServerProvenance
  <1>4. FileMoves /\ FullFirst(updates')
    BY <1>1, <1>2, <1>3, DrainAdopts
  <1>5. QED
    BY <1>1, <1>4, Acknowledges DEF FullFirst

\* An accepted Connected acknowledges the server's whole set.
LEMMA OnConnectedRefines ==
    ASSUME RInv, OnConnected
    PROVE  DeliveryStep /\ FullFirst(updates)'
  <1> DEFINE checked == Head(toClient).checked
             update == [full |-> TRUE, checked |-> checked]
             queue == <<update>>
  <1>1. /\ Receive("Connected")
        /\ Drained(session, queue, checked, reconciled)
        /\ UNCHANGED <<native, server, everServer>>
    BY DEF OnConnected, serverVars
  <1>2. /\ Head(toClient) \in Packet
        /\ Head(toClient).kind = "Connected"
        /\ checked \subseteq everServer
    BY <1>1, ReceiveFacts DEF RInv
  <1>3. checked \in SUBSET Locations
    BY <1>2 DEF Packet
  <1> HIDE DEF checked
  <1>4. update \in Update /\ update.checked \subseteq everServer
    BY <1>2, <1>3 DEF Update
  <1> HIDE DEF update
  <1>5. queue \in Seq(Update) /\ KnownQueue(queue) /\ FullFirst(queue)
    BY <1>4 DEF KnownQueue, FullFirst
  <1> HIDE DEF queue
  <1>6. FileMoves /\ FullFirst(updates')
    BY <1>1, <1>2, <1>3, <1>5, DrainAdopts
  <1>7. QED
    BY <1>1, <1>6, Acknowledges DEF FullFirst

\* A RoomUpdate acknowledges what it and the queue before it name.
LEMMA OnRoomUpdateRefines ==
    ASSUME RInv, OnRoomUpdate
    PROVE  DeliveryStep /\ FullFirst(updates)'
  <1> DEFINE checked == Head(toClient).checked
             known == IF mirror = NoMirror THEN {} ELSE mirror
             update == [full |-> FALSE, checked |-> checked]
             queue == Append(updates, update)
  <1>1. /\ Receive("RoomUpdate")
        /\ UNCHANGED <<native, server, everServer>>
    BY DEF OnRoomUpdate, serverVars
  <1>2. CASE ~authenticated
    <2>1. UNCHANGED <<disk, updates>>
      BY <1>2 DEF OnRoomUpdate
    <2>2. QED
      BY <1>1, <2>1, Acknowledges DEF FileMoves, RInv, FullFirst
  <1>3. CASE authenticated
    <2>1. Drained(session, queue, known \cup checked, reconciled)
      BY <1>3 DEF OnRoomUpdate
    <2>2. /\ Head(toClient) \in Packet
          /\ Head(toClient).kind = "RoomUpdate"
          /\ checked \subseteq everServer
      BY <1>1, ReceiveFacts DEF RInv
    <2>3. checked \in SUBSET Locations
      BY <2>2 DEF Packet
    <2>4. known \in SUBSET Locations /\ known \subseteq everServer
      BY DEF RInv, IInv, TypeOK, ServerProvenance
    <2> HIDE DEF checked, known
    <2>5. update \in Update /\ update.checked \subseteq everServer /\ ~update.full
      BY <2>2, <2>3 DEF Update
    <2> HIDE DEF update
    <2>6. updates \in Seq(Update) /\ KnownQueue(updates) /\ FullFirst(updates)
      BY DEF RInv, IInv, TypeOK, ServerProvenance
    <2>7. queue \in Seq(Update)
      BY <2>5, <2>6
    <2>8. ASSUME NEW i \in DOMAIN queue
          PROVE  \/ i \in DOMAIN updates /\ queue[i] = updates[i]
                 \/ queue[i] = update
      BY <2>5, <2>6
    <2> HIDE DEF queue
    <2>9. KnownQueue(queue) /\ FullFirst(queue)
      BY <2>5, <2>6, <2>8 DEF KnownQueue, FullFirst
    <2>10. /\ known \cup checked \in SUBSET Locations
           /\ known \cup checked \subseteq everServer
      BY <2>2, <2>3, <2>4
    <2>11. FileMoves /\ FullFirst(updates')
      BY <2>1, <2>7, <2>9, <2>10, DrainAdopts
    <2>12. QED
      BY <1>1, <2>11, Acknowledges DEF FullFirst
  <1>4. QED
    BY <1>2, <1>3

\* The other handlers of the client change nothing the promise is about.
LEMMA QuietStepRefines ==
    ASSUME RInv,
           \/ OtherCommit \/ HeartbeatRefused \/ CloseSession \/ Crash
           \/ OnRoomInfo \/ OnIncompatible \/ OnMalformed
           \/ RunTask \/ SendSync \/ RetryWindowElapses \/ ConnectionClosed
    PROVE  DeliveryStep /\ FullFirst(updates)'
  <1>1. UNCHANGED <<native, server, everServer>>
    BY DEF OtherCommit, HeartbeatRefused, CloseSession, Crash, OnRoomInfo,
           OnIncompatible, OnMalformed, RunTask, SendSync, RetryWindowElapses,
           ConnectionClosed, serverVars
  <1>2. disk' = disk
    <2>1. CASE OtherCommit
      BY <2>1, OtherCommitInvariant DEF RInv
    <2>2. CASE RunTask \/ SendSync
      BY <2>2, SendInvariant DEF RInv
    <2>3. QED
      BY <2>1, <2>2
      DEF HeartbeatRefused, CloseSession, Crash, OnRoomInfo, OnIncompatible,
          OnMalformed, RetryWindowElapses, ConnectionClosed
  <1>3. updates' = updates \/ updates' = <<>>
    BY DEF OtherCommit, HeartbeatRefused, CloseSession, Crash, OnRoomInfo,
           OnIncompatible, OnMalformed, RunTask, SendSync, RetryWindowElapses,
           ConnectionClosed
  <1>4. FullFirst(updates)'
    BY <1>3 DEF RInv, FullFirst
  <1>5. QED
    BY <1>1, <1>2, <1>4, Acknowledges DEF FileMoves

\* The game earns; the server delivers what is durable, learns from others,
\* and forgets.
LEMMA EnvironmentStepRefines ==
    ASSUME RInv, EnvironmentStep
    PROVE  DeliveryStep /\ FullFirst(updates)'
  <1>1. disk' = disk
    BY EnvironmentStepInvariant DEF RInv
  <1>2. updates' = updates
    BY DEF EnvironmentStep, Complete, Connect, Join, ServerReceives,
           CheckedElsewhere, Malformed, LoseLink, PlayerReconnects, Rollback,
           clientVars
  <1>3. FullFirst(updates)'
    BY <1>2 DEF RInv, FullFirst
  <1>4. ASSUME NEW l \in Locations, Complete(l)
        PROVE  Delivery!Earn
    BY <1>1, <1>4 DEF Complete, serverVars, Delivery!Earn
  <1>5. CASE ServerReceives
    <2> DEFINE new == Head(toServer) \ server
    <2>1. Announce(new) /\ native' = native
      BY <1>5 DEF ServerReceives
    <2>2. toServer \in Seq(SUBSET Locations) /\ toServer # <<>>
          /\ DurableBeforeSent
      BY <1>5 DEF ServerReceives, RInv, IInv, TypeOK
    <2>3. Head(toServer) = toServer[1] /\ 1 \in DOMAIN toServer
      BY <2>2
    <2>4. new \in SUBSET disk.checked
      BY <2>2, <2>3 DEF DurableBeforeSent
    <2>5. Delivery!Deliver
      BY <1>1, <2>1, <2>4 DEF Announce, Delivery!Deliver
    <2>6. QED
      BY <1>3, <2>5 DEF DeliveryStep, Delivery!Next
  <1>6. CASE CheckedElsewhere
    <2>1. Delivery!DeliverElsewhere
      BY <1>1, <1>6 DEF CheckedElsewhere, Announce, Delivery!DeliverElsewhere
    <2>2. QED
      BY <1>3, <2>1 DEF DeliveryStep, Delivery!Next
  <1>7. CASE Rollback
    <2>1. PICK S \in SUBSET server : server' = server \ S
      BY <1>7 DEF Rollback
    <2>2. native' = native /\ everServer' = everServer
      BY <1>7 DEF Rollback
    <2>3. Delivery!Forget
      BY <1>1, <2>1, <2>2 DEF Delivery!Forget
    <2>4. QED
      BY <1>3, <2>3 DEF DeliveryStep, Delivery!Next
  <1>8. CASE Connect \/ Join \/ Malformed \/ LoseLink \/ PlayerReconnects
    <2>1. UNCHANGED <<native, server, everServer>>
      BY <1>8 DEF Connect, Join, Malformed, LoseLink, PlayerReconnects, serverVars
    <2>2. QED
      BY <1>1, <1>3, <2>1, Acknowledges DEF FileMoves
  <1>9. CASE \E l \in Locations : Complete(l)
    BY <1>3, <1>4, <1>9 DEF DeliveryStep, Delivery!Next
  <1>10. QED
    BY <1>5, <1>6, <1>7, <1>8, <1>9 DEF EnvironmentStep

\* Every step is a step of the promise or a stutter.
LEMMA StepRefines ==
    ASSUME RInv, [Next]_vars
    PROVE  DeliveryStep /\ RInv'
  <1>1. IInv'
    BY StepInvariant DEF RInv
  <1>2. CASE \E l \in Locations : ObserveLocal(l)
    BY <1>1, <1>2, ObserveLocalRefines DEF RInv
  <1>3. CASE Heartbeat
    BY <1>1, <1>3, HeartbeatRefines DEF RInv
  <1>4. CASE OnConnected
    BY <1>1, <1>4, OnConnectedRefines DEF RInv
  <1>5. CASE OnRoomUpdate
    BY <1>1, <1>5, OnRoomUpdateRefines DEF RInv
  <1>6. CASE EnvironmentStep
    BY <1>1, <1>6, EnvironmentStepRefines DEF RInv
  <1>7. CASE UNCHANGED vars
    <2>1. UNCHANGED <<disk, updates, native, server, everServer>>
      BY <1>7 DEF vars, clientVars, serverVars
    <2>2. QED
      BY <1>1, <2>1, Acknowledges DEF FileMoves, RInv, FullFirst
  <1>8. CASE \/ OtherCommit \/ HeartbeatRefused \/ CloseSession \/ Crash
             \/ OnRoomInfo \/ OnIncompatible \/ OnMalformed
             \/ RunTask \/ SendSync \/ RetryWindowElapses \/ ConnectionClosed
    BY <1>1, <1>8, QuietStepRefines DEF RInv
  <1>9. QED
    BY <1>2, <1>3, <1>4, <1>5, <1>6, <1>7, <1>8 DEF Next, ClientStep

-----------------------------------------------------------------------------

\* The client implements the promise: whatever is lost, retried, rolled back
\* or half committed, every step records only what the game earned or the
\* server once held, delivers only what is durably recorded, and acknowledges
\* only what the server has held (location_outbox.py with the commits, the
\* drain and the reservation of client.py).
THEOREM Implements == Spec => ImplementsDelivery
  <1>1. Init => Delivery!Init
    BY DEF Init, EmptyLedger, Delivery!Init
  <1>2. Init => RInv
    BY InitInvariant DEF Init, RInv, FullFirst
  <1>3. RInv /\ [Next]_vars => RInv' /\ [Delivery!Next]_(Delivery!vars)
    BY StepRefines DEF DeliveryStep
  <1>4. QED
    BY <1>1, <1>2, <1>3, PTL DEF Spec, ImplementsDelivery, Delivery!Spec

-----------------------------------------------------------------------------
(***************************************************************************)
(* After a reconciliation the client's confirmed set and the updates in    *)
(* flight are what the server holds, for any set of locations, any number  *)
(* of faults and any queue bound.                                          *)
(*                                                                         *)
(* The set passes through three hands: the packets on the connection, the  *)
(* mirror, the queue of updates that wait for a session.  The invariant    *)
(* says of each what is missing in it: the mirror lacks only what is in    *)
(* flight, and the file lacks only what is queued.                         *)
(***************************************************************************)

Full(kind) == kind \in {"Connected", "Incompatible"}

\* The order of a connection: one greeting, one answer to the authentication,
\* then updates; nothing of an old connection survives it.
Greeted ==
    /\ link \in {"down", "broken"} => toClient = <<>>
    /\ link = "greeting" => \/ toClient = <<[kind |-> "RoomInfo"]>>
                            \/ toClient = <<>> /\ ~authenticated
    /\ link = "joined" =>
          \A i \in DOMAIN toClient :
             /\ toClient[i].kind # "RoomInfo"
             /\ Full(toClient[i].kind) => i = 1 /\ ~authenticated

\* Without a slot no session is open or counted as reconciled.
Unopened == ~authenticated => session = NoSession /\ ~reconciled

\* The mirror, or the answer still in flight, lacks only later updates.
ServerKnown ==
    link = "joined" =>
        /\ authenticated => mirror # NoMirror /\ mirror \cup InFlight = server
        /\ \A i \in DOMAIN toClient :
              toClient[i].kind = "Connected"
                 => toClient[i].checked \cup InFlight = server

\* An open session whose location commits never failed is the file, and has
\* no update waiting.
SessionCurrent ==
    ~readOnly /\ session # NoSession => session = disk /\ updates = <<>>

Queued(queue) == UNION {queue[i].checked : i \in DOMAIN queue}

Partial(queue) == \A i \in DOMAIN queue : ~queue[i].full

\* The file lacks of the mirror only the queued updates, none of them full.
LacksOnly(queue, mir) ==
    Partial(queue) /\ disk.confirmed \cup Queued(queue) = mir

\* So does the file of a reconciled instance.
MirrorRecorded ==
    link = "joined" /\ authenticated /\ ~readOnly /\ reconciled
        => LacksOnly(updates, mirror)

AInv ==
    /\ IInv
    /\ Greeted
    /\ Unopened
    /\ ServerKnown
    /\ SessionCurrent
    /\ MirrorRecorded

-----------------------------------------------------------------------------
(* Packets and queues.                                                      *)

\* Taking an update from the connection takes its locations out of flight.
LEMMA FlightTail ==
    ASSUME IInv, NEW kind, Receive(kind)
    PROVE  InFlight = InFlight' \cup (IF kind = "RoomUpdate"
                                      THEN Head(toClient).checked ELSE {})
  <1>1. /\ toClient \in Seq(Packet)
        /\ toClient # <<>>
        /\ toClient' = Tail(toClient)
        /\ Head(toClient) = toClient[1]
        /\ toClient[1].kind = kind
    BY DEF IInv, TypeOK, Receive
  <1>2. ASSUME NEW i \in DOMAIN toClient, i # 1
        PROVE  i - 1 \in DOMAIN toClient' /\ toClient'[i - 1] = toClient[i]
    BY <1>1, <1>2
  <1>3. ASSUME NEW i \in DOMAIN toClient'
        PROVE  i + 1 \in DOMAIN toClient /\ toClient'[i] = toClient[i + 1]
    BY <1>1
  <1>4. 1 \in DOMAIN toClient
    BY <1>1
  <1>5. ASSUME NEW x \in InFlight
        PROVE  x \in InFlight' \cup (IF kind = "RoomUpdate"
                                     THEN Head(toClient).checked ELSE {})
    <2>1. PICK i \in DOMAIN toClient :
             toClient[i].kind = "RoomUpdate" /\ x \in toClient[i].checked
      BY <1>5 DEF InFlight
    <2>2. CASE i = 1
      BY <1>1, <2>1, <2>2
    <2>3. CASE i # 1
      BY <1>2, <2>1, <2>3 DEF InFlight
    <2>4. QED
      BY <2>2, <2>3
  <1>6. ASSUME NEW x \in InFlight'
        PROVE  x \in InFlight
    <2>1. PICK i \in DOMAIN toClient' :
             toClient'[i].kind = "RoomUpdate" /\ x \in toClient'[i].checked
      BY <1>6 DEF InFlight
    <2>2. QED
      BY <1>3, <2>1 DEF InFlight
  <1>7. kind = "RoomUpdate" => Head(toClient).checked \subseteq InFlight
    BY <1>1, <1>4 DEF InFlight
  <1>8. QED
    BY <1>5, <1>6, <1>7

\* Sending an update puts its locations in flight.
LEMMA FlightAppend ==
    ASSUME IInv, NEW packet, toClient' = Append(toClient, packet)
    PROVE  InFlight' = InFlight \cup (IF packet.kind = "RoomUpdate"
                                      THEN packet.checked ELSE {})
  <1>1. toClient \in Seq(Packet)
    BY DEF IInv, TypeOK
  <1>2. ASSUME NEW i \in DOMAIN toClient
        PROVE  i \in DOMAIN toClient' /\ toClient'[i] = toClient[i]
    BY <1>1
  <1>3. ASSUME NEW i \in DOMAIN toClient'
        PROVE  \/ i \in DOMAIN toClient /\ toClient'[i] = toClient[i]
               \/ toClient'[i] = packet
    BY <1>1
  <1>4. Len(toClient) + 1 \in DOMAIN toClient'
        /\ toClient'[Len(toClient) + 1] = packet
    BY <1>1
  <1>5. ASSUME NEW x \in InFlight'
        PROVE  x \in InFlight \cup (IF packet.kind = "RoomUpdate"
                                    THEN packet.checked ELSE {})
    <2>1. PICK i \in DOMAIN toClient' :
             toClient'[i].kind = "RoomUpdate" /\ x \in toClient'[i].checked
      BY <1>5 DEF InFlight
    <2>2. QED
      BY <1>3, <2>1 DEF InFlight
  <1>6. InFlight \subseteq InFlight'
    <2>1. ASSUME NEW x \in InFlight PROVE x \in InFlight'
      <3>1. PICK i \in DOMAIN toClient :
               toClient[i].kind = "RoomUpdate" /\ x \in toClient[i].checked
        BY <2>1 DEF InFlight
      <3>2. QED
        BY <1>2, <3>1 DEF InFlight
    <2>2. QED
      BY <2>1
  <1>7. packet.kind = "RoomUpdate" => packet.checked \subseteq InFlight'
    BY <1>4 DEF InFlight
  <1>8. QED
    BY <1>5, <1>6, <1>7

\* Reconciling updates that are not full adds exactly what they hold; a full
\* update alone replaces the confirmed set (location_outbox.py).
LEMMA ReconciledConfirmed ==
    ASSUME NEW ledger, NEW queue \in Seq(Update)
    PROVE  /\ Partial(queue)
                 => Reconcile(ledger, queue).confirmed
                       = ledger.confirmed \cup Queued(queue)
           /\ \A S : Reconcile(ledger, <<[full |-> TRUE, checked |-> S]>>).confirmed
                       = S
  <1>1. ASSUME Partial(queue)
        PROVE  Reconcile(ledger, queue).confirmed
                  = ledger.confirmed \cup Queued(queue)
    <2>1. CASE queue = <<>>
      <3>1. Queued(queue) = {}
        BY <2>1 DEF Queued
      <3>2. QED
        BY <2>1, <3>1 DEF Reconcile
    <2>2. CASE queue # <<>>
      <3>1. ~queue[1].full
        BY <1>1, <2>2 DEF Partial
      <3>2. Reconcile(ledger, queue) = ReconcileRoomUpdate(ledger, Queued(queue))
        BY <2>2, <3>1 DEF Reconcile, Queued
      <3>3. QED
        BY <3>2 DEF ReconcileRoomUpdate, Transition
    <2>3. QED
      BY <2>1, <2>2
  <1>2. ASSUME NEW S
        PROVE  Reconcile(ledger, <<[full |-> TRUE, checked |-> S]>>).confirmed = S
    <2> DEFINE update == [full |-> TRUE, checked |-> S]
    <2>1. /\ <<update>> # <<>>
          /\ <<update>>[1] = update
          /\ update.full
          /\ update.checked = S
          /\ DOMAIN <<update>> = {1}
      OBVIOUS
    <2> HIDE DEF update
    <2>2. UNION {<<update>>[i].checked : i \in DOMAIN <<update>>} = S
      BY <2>1
    <2>3. Reconcile(ledger, <<update>>)
             = ReconcileRoomUpdate(ReconcileConnected(ledger, S), S)
      BY <2>1, <2>2 DEF Reconcile
    <2>4. Reconcile(ledger, <<update>>).confirmed = S
      BY <2>3 DEF ReconcileRoomUpdate, ReconcileConnected, Transition
    <2>5. QED
      BY <2>4 DEF update
  <1>3. QED
    BY <1>1, <1>2

-----------------------------------------------------------------------------
(* The drain.                                                               *)

\* A drain into an open session that does not fail empties the queue into
\* the file, and leaves the confirmed set equal to the mirror.
LEMMA DrainAgrees ==
    ASSUME IInv,
           NEW sess, ~readOnly /\ sess # NoSession => sess = disk,
           NEW queue \in Seq(Update), NEW mir, NEW isRec \in BOOLEAN,
           Drained(sess, queue, mir, isRec)
    PROVE  /\ ~readOnly' /\ session' # NoSession
                 => session' = disk' /\ updates' = <<>>
           /\ ~readOnly' /\ sess # NoSession /\ mir # NoMirror
              /\ (isRec => LacksOnly(queue, mir))
                 => disk'.confirmed = mir
           /\ sess = NoSession
                 => /\ session' = NoSession
                    /\ updates' = queue
                    /\ reconciled' = isRec
                    /\ UNCHANGED <<disk, readOnly>>
           /\ readOnly => readOnly'
  <1>1. CASE sess = NoSession \/ readOnly
    <2>1. /\ session' = sess
          /\ updates' = queue
          /\ reconciled' = isRec
          /\ UNCHANGED <<disk, readOnly>>
      BY <1>1 DEF Drained
    <2>2. readOnly' \/ session' = NoSession
      BY <1>1, <2>1
    <2>3. QED
      BY <1>1, <2>1, <2>2
  <1>2. CASE ~(sess = NoSession \/ readOnly)
    <2> DEFINE todo == ReplayMirror(queue, mir, isRec)
               new == Reconcile(sess, todo)
    <2>1. \/ Committed(sess, new) /\ updates' = <<>>
          \/ readOnly'
      <3>1. \/ Committed(sess, new) /\ updates' = <<>>
            \/ \E k \in 1 .. Len(todo) :
                  LET before == Reconcile(sess, SubSeq(todo, 1, k - 1))
                  IN  CommitFailed(before, Reconcile(before, <<todo[k]>>))
        BY <1>2 DEF Drained
      <3>2. ASSUME NEW old, NEW after, CommitFailed(old, after)
            PROVE  readOnly'
        BY <3>2 DEF CommitFailed
      <3> HIDE DEF todo, new
      <3>3. QED
        BY <3>1, <3>2
    <2>2. ASSUME Committed(sess, new)
          PROVE  session' = new /\ disk' = new /\ readOnly' = readOnly
      <3> HIDE DEF new
      <3>1. QED
        BY <1>2, <2>2 DEF Committed
    <2>3. ASSUME mir # NoMirror,
                 isRec => LacksOnly(queue, mir), sess = disk
          PROVE  new.confirmed = mir
      <3>1. CASE isRec
        <4>1. todo = queue
          BY <3>1 DEF ReplayMirror
        <4>2. QED
          BY <2>3, <3>1, <4>1, ReconciledConfirmed DEF LacksOnly
      <3>2. CASE ~isRec
        <4>1. todo = <<[full |-> TRUE, checked |-> mir]>>
          BY <2>3, <3>2 DEF ReplayMirror
        <4> HIDE DEF todo
        <4>2. QED
          BY <4>1, ReconciledConfirmed
      <3>3. QED
        BY <3>1, <3>2
    <2> HIDE DEF new, todo
    <2>4. sess = disk
      BY <1>2
    <2>5. QED
      BY <1>2, <2>1, <2>2, <2>3, <2>4
  <1>3. QED
    BY <1>1, <1>2

-----------------------------------------------------------------------------
(* One lemma per kind of step; types come from IInv.                        *)

\* Steps that leave the connection, the server and the mirror alone.
LEMMA SameConnection ==
    ASSUME AInv, UNCHANGED <<link, toClient, server, authenticated, mirror>>
    PROVE  Greeted' /\ ServerKnown'
  <1>1. InFlight' = InFlight
    BY DEF InFlight
  <1>2. Greeted'
    BY DEF AInv, Greeted, Full
  <1>3. ServerKnown'
    BY <1>1 DEF AInv, ServerKnown
  <1>4. QED
    BY <1>2, <1>3

\* Observations, other commits, the outbox task, timers, and the loss of the
\* session.
LEMMA LocalStepAgrees ==
    ASSUME AInv, IInv',
           \/ \E l \in Locations : ObserveLocal(l)
           \/ OtherCommit \/ HeartbeatRefused \/ CloseSession
           \/ RunTask \/ SendSync \/ RetryWindowElapses
    PROVE  AInv'
  <1>1. UNCHANGED <<link, toClient, server, authenticated, mirror, updates>>
    BY DEF ObserveLocal, OtherCommit, HeartbeatRefused, CloseSession, RunTask,
           SendSync, RetryWindowElapses, serverVars
  <1>2. Greeted' /\ ServerKnown'
    BY <1>1, SameConnection
  <1>3. ASSUME NEW l \in Locations, ObserveLocal(l)
        PROVE  /\ Unopened'
               /\ ~readOnly' => session' = disk' /\ ~readOnly /\ updates = <<>>
               /\ ~readOnly' => disk'.confirmed = disk.confirmed
               /\ reconciled' = reconciled
    <2> DEFINE new == ObserveLocalLocation(session, l)
    <2>1. /\ ~readOnly
          /\ session # NoSession
          /\ Committed(session, new) \/ CommitFailed(session, new)
          /\ reconciled' = reconciled
      BY <1>3 DEF ObserveLocal
    <2>2. authenticated /\ session = disk /\ updates = <<>>
      BY <2>1 DEF AInv, Unopened, SessionCurrent
    <2>3. new.confirmed = session.confirmed
      BY DEF ObserveLocalLocation, Transition
    <2> HIDE DEF new
    <2>4. CASE CommitFailed(session, new)
      BY <1>1, <2>1, <2>2, <2>4 DEF CommitFailed, Unopened
    <2>5. CASE Committed(session, new)
      BY <1>1, <2>1, <2>2, <2>3, <2>5 DEF Committed, Unopened
    <2>6. QED
      BY <2>1, <2>4, <2>5
  <1>4. CASE \E l \in Locations : ObserveLocal(l)
    BY <1>1, <1>2, <1>3, <1>4
    DEF AInv, SessionCurrent, MirrorRecorded, LacksOnly, Partial,
          Queued
  <1>5. CASE OtherCommit
    <2>1. disk' = disk /\ UNCHANGED <<session, readOnly, reconciled>>
      BY <1>5, OtherCommitInvariant DEF AInv, OtherCommit
    <2>2. QED
      BY <1>1, <1>2, <2>1
      DEF AInv, Unopened, SessionCurrent, MirrorRecorded, LacksOnly, Partial,
          Queued
  <1>6. CASE HeartbeatRefused \/ CloseSession
    <2>1. /\ session' = NoSession
          /\ UNCHANGED <<disk, readOnly>>
          /\ reconciled' = reconciled \/ reconciled' = FALSE
      BY <1>6 DEF HeartbeatRefused, CloseSession
    <2>2. QED
      BY <1>1, <1>2, <2>1
      DEF AInv, Unopened, SessionCurrent, MirrorRecorded, LacksOnly, Partial,
          Queued
  <1>7. CASE RunTask \/ SendSync \/ RetryWindowElapses
    <2>1. UNCHANGED <<disk, session, readOnly, reconciled>>
      BY <1>7 DEF RunTask, SendSync, Send, RetryWindowElapses
    <2>2. QED
      BY <1>1, <1>2, <2>1
      DEF AInv, Unopened, SessionCurrent, MirrorRecorded, LacksOnly, Partial,
          Queued
  <1>8. QED
    BY <1>4, <1>5, <1>6, <1>7

\* The heartbeat opens the file and drains the queue, or the mirror, into it.
LEMMA HeartbeatAgrees ==
    ASSUME AInv, IInv', Heartbeat
    PROVE  AInv'
  <1> DEFINE opened == IF session = NoSession THEN disk ELSE session
  <1>1. /\ authenticated
        /\ Drained(opened, updates, mirror, reconciled)
        /\ UNCHANGED <<authenticated, mirror, link, toClient, server>>
    BY DEF Heartbeat, serverVars
  <1>2. Greeted' /\ ServerKnown' /\ Unopened'
    BY <1>1, SameConnection DEF Unopened
  <1>3. ~readOnly => opened = disk
    BY DEF AInv, SessionCurrent
  <1>4. opened # NoSession
    BY SentinelAssumption DEF AInv, IInv, TypeOK
  <1>5. updates \in Seq(Update) /\ reconciled \in BOOLEAN
    BY DEF AInv, IInv, TypeOK
  <1> HIDE DEF opened
  <1>6. /\ ~readOnly' /\ session' # NoSession
              => session' = disk' /\ updates' = <<>>
        /\ ~readOnly' /\ mirror # NoMirror
           /\ (reconciled => LacksOnly(updates, mirror))
              => disk'.confirmed = mirror
        /\ readOnly => readOnly'
    BY <1>1, <1>3, <1>4, <1>5, DrainAgrees DEF AInv
  <1>7. SessionCurrent'
    BY <1>6 DEF SessionCurrent
  <1>8. ~readOnly' => updates' = <<>>
    <2>1. opened \in Ledger \/ readOnly
      BY <1>3 DEF AInv, IInv, TypeOK
    <2>2. ASSUME ~readOnly' PROVE session' # NoSession
      <3>1. ~readOnly
        BY <1>6, <2>2
      <3>2. ~(opened = NoSession \/ readOnly)
        BY <1>4, <3>1
      <3>3. Committed(opened, Reconcile(opened,
                         ReplayMirror(updates, mirror, reconciled)))
        <4>1. ASSUME NEW old, NEW after, CommitFailed(old, after)
              PROVE  readOnly'
          BY <4>1 DEF CommitFailed
        <4>2. QED
          BY <1>1, <2>2, <3>2, <4>1 DEF Drained
      <3>4. session' = Reconcile(opened, ReplayMirror(updates, mirror, reconciled))
        BY <3>3 DEF Committed
      <3>5. Sound(opened)
        BY <1>3, <3>1 DEF AInv, IInv, SessionFollowsFile
      <3>6. /\ ReplayMirror(updates, mirror, reconciled) \in Seq(Update)
            /\ KnownQueue(ReplayMirror(updates, mirror, reconciled))
        BY ReplayFacts DEF AInv, IInv, TypeOK, ServerProvenance
      <3>7. session' \in Ledger
        BY <3>4, <3>5, <3>6, ReconcileSound DEF Sound
      <3>8. QED
        BY <3>7, SentinelAssumption
    <2>3. QED
      BY <1>6, <2>2
  <1>9. MirrorRecorded'
    <2>1. SUFFICES ASSUME link = "joined", authenticated, ~readOnly'
                   PROVE  /\ Partial(updates')
                          /\ disk'.confirmed \cup Queued(updates') = mirror
      BY <1>1 DEF MirrorRecorded, LacksOnly, Partial, Queued
    <2>2. updates' = <<>> /\ Partial(updates') /\ Queued(updates') = {}
      BY <1>8, <2>1 DEF Partial, Queued
    <2>3. mirror # NoMirror /\ ~readOnly
      BY <1>6, <2>1 DEF AInv, ServerKnown
    <2>4. disk'.confirmed = mirror
      BY <1>6, <2>1, <2>3 DEF AInv, MirrorRecorded
    <2>5. QED
      BY <2>2, <2>4
  <1>10. QED
    BY <1>2, <1>7, <1>9 DEF AInv

\* RoomInfo and refusals leave a client without a slot.
LEMMA UnauthenticatedAgrees ==
    ASSUME AInv, IInv', OnRoomInfo \/ OnIncompatible
    PROVE  AInv'
  <1>1. PICK kind \in {"RoomInfo", "Incompatible"} : Receive(kind)
    BY DEF OnRoomInfo, OnIncompatible
  <1>2. /\ authenticated' = FALSE
        /\ UNCHANGED <<link, server>>
        /\ \/ session' = NoSession /\ reconciled' = FALSE
           \/ UNCHANGED <<session, reconciled>> /\ Receive("Incompatible")
    BY DEF OnRoomInfo, OnIncompatible, serverVars
  <1>3. /\ toClient \in Seq(Packet)
        /\ toClient # <<>>
        /\ toClient[1].kind = kind
        /\ toClient' = Tail(toClient)
        /\ 1 \in DOMAIN toClient
    BY <1>1 DEF AInv, IInv, TypeOK, Receive
  <1>4. link \in {"greeting", "joined"}
    BY <1>3 DEF AInv, IInv, TypeOK, Links, Greeted
  <1>5. ASSUME NEW i \in DOMAIN toClient'
        PROVE  i + 1 \in DOMAIN toClient /\ toClient'[i] = toClient[i + 1] /\ i # 0
    BY <1>3
  <1>6. CASE link = "greeting"
    <2>1. toClient = <<[kind |-> "RoomInfo"]>>
      BY <1>3, <1>6 DEF AInv, Greeted
    <2>2. toClient' = <<>> /\ kind = "RoomInfo"
      BY <1>3, <2>1
    <2>3. session' = NoSession /\ reconciled' = FALSE
      BY <1>2, <1>3, <2>2 DEF Receive
    <2>4. Greeted'
      BY <1>2, <1>6, <2>2 DEF Greeted
    <2>5. QED
      BY <1>2, <1>6, <2>3, <2>4
      DEF AInv, Unopened, ServerKnown, SessionCurrent, MirrorRecorded
  <1>7. CASE link = "joined"
    <2>1. kind = "Incompatible" /\ ~authenticated
      BY <1>3, <1>7 DEF AInv, Greeted, Full
    <2>2. session = NoSession /\ ~reconciled
      BY <2>1 DEF AInv, Unopened
    <2>3. session' = NoSession /\ reconciled' = FALSE
      <3>1. reconciled \in BOOLEAN
        BY DEF AInv, IInv, TypeOK
      <3>2. QED
        BY <1>2, <2>2, <3>1
    <2>4. ASSUME NEW i \in DOMAIN toClient'
          PROVE  toClient'[i].kind # "RoomInfo" /\ ~Full(toClient'[i].kind)
      <3>1. i + 1 # 1
        BY <1>3
      <3>2. QED
        BY <1>5, <1>7, <3>1 DEF AInv, Greeted
    <2>5. Greeted'
      BY <1>2, <1>7, <2>4 DEF Greeted
    <2>6. ServerKnown'
      BY <1>2, <2>4 DEF ServerKnown, Full
    <2>7. QED
      BY <1>2, <2>3, <2>5, <2>6
      DEF AInv, Unopened, SessionCurrent, MirrorRecorded
  <1>8. QED
    BY <1>4, <1>6, <1>7

\* The facts every packet of a joined connection shares.
LEMMA JoinedReceive ==
    ASSUME AInv, NEW kind, kind # "RoomInfo", Receive(kind)
    PROVE  /\ link = "joined"
           /\ Head(toClient) \in Packet
           /\ Head(toClient).kind = kind
           /\ kind = "Connected"
                 => ~authenticated /\ Head(toClient).checked \cup InFlight = server
           /\ \A i \in DOMAIN toClient' :
                 /\ toClient'[i].kind # "RoomInfo"
                 /\ ~Full(toClient'[i].kind)
  <1>1. /\ toClient \in Seq(Packet)
        /\ toClient # <<>>
        /\ toClient[1] = Head(toClient)
        /\ Head(toClient).kind = kind
        /\ toClient' = Tail(toClient)
        /\ 1 \in DOMAIN toClient
    BY DEF AInv, IInv, TypeOK, Receive
  <1>2. link = "joined"
    <2>1. toClient # <<[kind |-> "RoomInfo"]>>
      BY <1>1
    <2>2. QED
      BY <1>1, <2>1 DEF AInv, IInv, TypeOK, Links, Greeted
  <1>3. ASSUME NEW i \in DOMAIN toClient'
        PROVE  /\ i + 1 \in DOMAIN toClient
               /\ toClient'[i] = toClient[i + 1]
               /\ i + 1 # 1
    BY <1>1
  <1>4. QED
    BY <1>1, <1>2, <1>3 DEF AInv, Greeted, Full, ServerKnown

\* An accepted Connected: the mirror is the server's set, and waits for a
\* session.
LEMMA OnConnectedAgrees ==
    ASSUME AInv, IInv', OnConnected
    PROVE  AInv'
  <1> DEFINE checked == Head(toClient).checked
             update == [full |-> TRUE, checked |-> checked]
             queue == <<update>>
  <1>1. /\ Receive("Connected")
        /\ mirror' = checked
        /\ Drained(session, queue, checked, reconciled)
        /\ authenticated' = TRUE
        /\ UNCHANGED <<link, server>>
    BY DEF OnConnected, serverVars
  <1>2. /\ link = "joined"
        /\ ~authenticated
        /\ checked \cup InFlight = server
        /\ Head(toClient) \in Packet /\ Head(toClient).kind = "Connected"
        /\ \A i \in DOMAIN toClient' :
              /\ toClient'[i].kind # "RoomInfo"
              /\ ~Full(toClient'[i].kind)
    BY <1>1, JoinedReceive
  <1>3. checked \in SUBSET Locations
    BY <1>2 DEF Packet
  <1>4. InFlight = InFlight'
    BY <1>1, FlightTail DEF AInv
  <1>5. session = NoSession /\ ~reconciled
    BY <1>2 DEF AInv, Unopened
  <1> HIDE DEF checked, queue
  <1>6. session' = NoSession /\ reconciled' = reconciled
    BY <1>1, <1>5 DEF Drained
  <1>7. checked # NoMirror
    BY <1>3, SentinelAssumption
  <1>8. Greeted' /\ Unopened'
    BY <1>1, <1>2 DEF Greeted, Unopened
  <1>9. ServerKnown'
    BY <1>1, <1>2, <1>4, <1>7 DEF ServerKnown, Full
  <1>10. SessionCurrent' /\ MirrorRecorded'
    BY <1>5, <1>6 DEF SessionCurrent, MirrorRecorded
  <1>11. QED
    BY <1>8, <1>9, <1>10 DEF AInv

\* A RoomUpdate moves its locations from the connection to the mirror, and to
\* the queue or the file.
LEMMA OnRoomUpdateAgrees ==
    ASSUME AInv, IInv', OnRoomUpdate
    PROVE  AInv'
  <1> DEFINE checked == Head(toClient).checked
             known == IF mirror = NoMirror THEN {} ELSE mirror
             update == [full |-> FALSE, checked |-> checked]
             queue == Append(updates, update)
  <1>1. /\ Receive("RoomUpdate")
        /\ UNCHANGED <<authenticated, link, server>>
    BY DEF OnRoomUpdate, serverVars
  <1>2. /\ link = "joined"
        /\ Head(toClient) \in Packet /\ Head(toClient).kind = "RoomUpdate"
        /\ \A i \in DOMAIN toClient' :
              /\ toClient'[i].kind # "RoomInfo"
              /\ ~Full(toClient'[i].kind)
    BY <1>1, JoinedReceive
  <1>3. checked \in SUBSET Locations
    BY <1>2 DEF Packet
  <1>4. InFlight = InFlight' \cup checked
    BY <1>1, FlightTail DEF AInv
  <1>5. Greeted'
    BY <1>1, <1>2 DEF Greeted
  <1>6. CASE ~authenticated
    <2>1. /\ readOnly' = TRUE
          /\ UNCHANGED <<session, reconciled>>
      BY <1>6 DEF OnRoomUpdate
    <2>2. ServerKnown'
      BY <1>1, <1>2, <1>6 DEF ServerKnown, Full
    <2>3. QED
      BY <1>1, <1>5, <2>1, <2>2
      DEF AInv, Unopened, SessionCurrent, MirrorRecorded
  <1>7. CASE authenticated
    <2>1. /\ mirror' = known \cup checked
          /\ Drained(session, queue, known \cup checked, reconciled)
      BY <1>7 DEF OnRoomUpdate
    <2>2. mirror # NoMirror /\ known = mirror /\ mirror \cup InFlight = server
          /\ mirror \in SUBSET Locations
      BY <1>2, <1>7 DEF AInv, ServerKnown, IInv, TypeOK
    <2> HIDE DEF checked, known
    <2>3. known \cup checked # NoMirror
      BY <1>3, <2>2, SentinelAssumption
    <2>4. ServerKnown'
      BY <1>1, <1>2, <1>4, <2>1, <2>2, <2>3 DEF ServerKnown, Full
    <2>5. Unopened'
      BY <1>1, <1>7 DEF Unopened
    <2>6. update \in Update /\ update.checked = checked /\ ~update.full
      BY <1>3 DEF Update
    <2> HIDE DEF update
    <2>7. updates \in Seq(Update) /\ reconciled \in BOOLEAN
      BY DEF AInv, IInv, TypeOK
    <2>8. queue \in Seq(Update)
      BY <2>6, <2>7
    <2>9. /\ \A i \in DOMAIN updates : i \in DOMAIN queue /\ queue[i] = updates[i]
          /\ \A i \in DOMAIN queue :
                (i \in DOMAIN updates /\ queue[i] = updates[i]) \/ queue[i] = update
          /\ \E i \in DOMAIN queue : queue[i] = update
      <3>1. Len(updates) + 1 \in DOMAIN queue
            /\ queue[Len(updates) + 1] = update
        BY <2>6, <2>7
      <3>2. QED
        BY <2>6, <2>7, <3>1
    <2> HIDE DEF queue
    <2>10. Partial(updates) => Partial(queue)
      BY <2>6, <2>9 DEF Partial
    <2>11. Queued(queue) = Queued(updates) \cup checked
      <3>1. ASSUME NEW x \in Queued(queue)
            PROVE  x \in Queued(updates) \cup checked
        <4>1. PICK i \in DOMAIN queue : x \in queue[i].checked
          BY <3>1 DEF Queued
        <4>2. QED
          BY <2>6, <2>9, <4>1 DEF Queued
      <3>2. ASSUME NEW x \in Queued(updates) \cup checked
            PROVE  x \in Queued(queue)
        <4>1. CASE x \in checked
          BY <2>6, <2>9, <4>1 DEF Queued
        <4>2. CASE x \in Queued(updates)
          <5>1. PICK i \in DOMAIN updates : x \in updates[i].checked
            BY <4>2 DEF Queued
          <5>2. QED
            BY <2>9, <5>1 DEF Queued
        <4>3. QED
          BY <3>2, <4>1, <4>2
      <3>3. QED
        BY <3>1, <3>2
    <2>12. ~readOnly /\ session # NoSession => session = disk
      BY DEF AInv, SessionCurrent
    <2>13. /\ ~readOnly' /\ session' # NoSession
                 => session' = disk' /\ updates' = <<>>
           /\ ~readOnly' /\ session # NoSession
              /\ (reconciled => LacksOnly(queue, known \cup checked))
                 => disk'.confirmed = known \cup checked
           /\ session = NoSession
                 => /\ session' = NoSession
                    /\ updates' = queue
                    /\ reconciled' = reconciled
                    /\ UNCHANGED <<disk, readOnly>>
           /\ readOnly => readOnly'
      BY <2>1, <2>3, <2>7, <2>8, <2>12, DrainAgrees DEF AInv
    <2>14. SessionCurrent'
      BY <2>13 DEF SessionCurrent
    <2>15. ~readOnly' /\ reconciled
             => LacksOnly(queue, known \cup checked)
      BY <1>2, <1>7, <2>2, <2>10, <2>11, <2>13
      DEF AInv, MirrorRecorded, LacksOnly
    <2>16. MirrorRecorded'
      <3>1. CASE session = NoSession
        BY <2>1, <2>13, <2>15, <3>1
        DEF MirrorRecorded, LacksOnly, Partial, Queued
      <3>2. CASE session # NoSession /\ ~readOnly'
        <4>1. updates' = <<>>
          <5>1. ~(session = NoSession \/ readOnly)
            BY <2>13, <3>2
          <5>2. ASSUME NEW old, NEW after, CommitFailed(old, after)
                PROVE  readOnly'
            BY <5>2 DEF CommitFailed
          <5>3. QED
            BY <2>1, <3>2, <5>1, <5>2 DEF Drained
        <4>2. Partial(updates') /\ Queued(updates') = {}
          BY <4>1 DEF Partial, Queued
        <4>3. disk'.confirmed = known \cup checked
          BY <2>13, <2>15, <3>2
        <4>4. QED
          BY <2>1, <4>2, <4>3
          DEF MirrorRecorded, LacksOnly, Partial, Queued
      <3>3. CASE readOnly'
        BY <3>3 DEF MirrorRecorded
      <3>4. QED
        BY <3>1, <3>2, <3>3
    <2>17. QED
      BY <1>5, <2>4, <2>5, <2>14, <2>16 DEF AInv
  <1>8. QED
    BY <1>6, <1>7

\* A refused packet latches the client read-only.
LEMMA OnMalformedAgrees ==
    ASSUME AInv, IInv', OnMalformed
    PROVE  AInv'
  <1>1. /\ Receive("Malformed")
        /\ readOnly' = TRUE
        /\ UNCHANGED <<session, authenticated, mirror, reconciled, link, server>>
    BY DEF OnMalformed, serverVars
  <1>2. /\ link = "joined"
        /\ \A i \in DOMAIN toClient' :
              /\ toClient'[i].kind # "RoomInfo"
              /\ ~Full(toClient'[i].kind)
    BY <1>1, JoinedReceive
  <1>3. InFlight' = InFlight
    <2>1. IInv /\ Receive("Malformed")
      BY <1>1 DEF AInv
    <2>2. InFlight = InFlight' \cup (IF "Malformed" = "RoomUpdate"
                                     THEN Head(toClient).checked ELSE {})
      BY <2>1, FlightTail
    <2>3. QED
      BY <2>2
  <1>4. QED
    BY <1>1, <1>2, <1>3
    DEF AInv, Greeted, Unopened, ServerKnown, SessionCurrent, MirrorRecorded,
        Full

\* The end of a connection and the end of the process.
LEMMA LostLinkAgrees ==
    ASSUME AInv, IInv',
           ConnectionClosed \/ Crash \/ LoseLink \/ PlayerReconnects \/ Rollback
    PROVE  AInv'
  <1>1. link' \in {"down", "broken"} /\ toClient' = <<>>
    <2>1. link = "down" \/ link = "broken" => toClient = <<>>
      BY DEF AInv, Greeted
    <2>2. QED
      BY <2>1 DEF ConnectionClosed, Crash, LoseLink, PlayerReconnects, Rollback
  <1>2. Greeted' /\ ServerKnown' /\ MirrorRecorded'
    BY <1>1 DEF Greeted, ServerKnown, MirrorRecorded
  <1>3. \/ /\ session' = NoSession
           /\ reconciled' = FALSE
           /\ authenticated' = FALSE
        \/ UNCHANGED <<disk, session, readOnly, authenticated, updates, reconciled>>
    BY DEF ConnectionClosed, Crash, LoseLink, PlayerReconnects, Rollback,
           clientVars
  <1>4. Unopened' /\ SessionCurrent'
    BY <1>3 DEF AInv, Unopened, SessionCurrent
  <1>5. QED
    BY <1>2, <1>4 DEF AInv

\* What the game and the server do while the connection lives.
LEMMA LiveLinkAgrees ==
    ASSUME AInv, IInv',
           \/ \E l \in Locations : Complete(l)
           \/ Connect \/ Join \/ ServerReceives \/ CheckedElsewhere \/ Malformed
    PROVE  AInv'
  <1>1. UNCHANGED <<disk, session, readOnly, authenticated, mirror, updates,
                    reconciled>>
    BY DEF Complete, Connect, Join, ServerReceives, CheckedElsewhere, Malformed,
           clientVars
  <1>2. Unopened' /\ SessionCurrent'
    BY <1>1 DEF AInv, Unopened, SessionCurrent
  <1>3. MirrorRecorded' \/ link' # link
    BY <1>1 DEF AInv, MirrorRecorded, LacksOnly, Partial, Queued
  <1>4. toClient \in Seq(Packet)
    BY DEF AInv, IInv, TypeOK
  <1>5. CASE \E l \in Locations : Complete(l)
    BY <1>1, <1>2, <1>3, <1>5, SameConnection DEF Complete, serverVars, AInv
  <1>6. CASE Connect
    BY <1>2, <1>6 DEF Connect, AInv, Greeted, ServerKnown, MirrorRecorded
  <1>7. CASE Join
    <2>1. link = "greeting" /\ toClient = <<>> /\ link' = "joined"
          /\ server' = server
      BY <1>7 DEF Join, serverVars
    <2>2. ~authenticated /\ ~authenticated'
      BY <1>1, <2>1 DEF AInv, Greeted
    <2>3. \E packet \in Packet :
             /\ toClient' = <<packet>>
             /\ packet.kind # "RoomInfo" /\ packet.kind # "RoomUpdate"
             /\ packet.kind = "Connected" => packet.checked = server
      <3>1. CASE toClient' = <<[kind |-> "Connected", checked |-> server]>>
        BY <3>1 DEF Packet, AInv, IInv, TypeOK
      <3>2. CASE \E kind \in {"Malformed", "Incompatible"} :
                    toClient' = <<[kind |-> kind]>>
        BY <3>2 DEF Packet
      <3>3. QED
        BY <1>7, <3>1, <3>2 DEF Join
    <2>4. PICK packet \in Packet :
             /\ toClient' = <<packet>>
             /\ packet.kind # "RoomInfo" /\ packet.kind # "RoomUpdate"
             /\ packet.kind = "Connected" => packet.checked = server
      BY <2>3
    <2>5. InFlight' = {}
      BY <2>4 DEF InFlight
    <2>6. Greeted'
      BY <2>1, <2>2, <2>4 DEF Greeted
    <2>7. ServerKnown'
      BY <2>1, <2>2, <2>4, <2>5 DEF ServerKnown
    <2>8. QED
      BY <1>2, <2>2, <2>6, <2>7 DEF AInv, MirrorRecorded
  <1>8. ASSUME NEW packet, toClient' = Append(toClient, packet),
               packet.kind \in {"RoomUpdate", "Malformed"},
               link = "joined", link' = link
        PROVE  /\ Greeted'
               /\ \A i \in DOMAIN toClient' :
                     toClient'[i].kind = "Connected"
                        => i \in DOMAIN toClient /\ toClient'[i] = toClient[i]
    <2>1. ASSUME NEW i \in DOMAIN toClient'
          PROVE  \/ i \in DOMAIN toClient /\ toClient'[i] = toClient[i]
                 \/ toClient'[i] = packet
      BY <1>4, <1>8
    <2>2. Greeted'
      BY <1>1, <1>8, <2>1 DEF AInv, Greeted, Full
    <2>3. QED
      BY <1>8, <2>1, <2>2
  <1>9. ASSUME NEW new, Announce(new), link' = link
        PROVE  Greeted' /\ ServerKnown'
    <2> DEFINE packet == [kind |-> "RoomUpdate", checked |-> new]
    <2>1. packet.kind = "RoomUpdate" /\ packet.checked = new
      OBVIOUS
    <2>2. server' = server \cup new
      BY <1>9 DEF Announce
    <2>3. CASE link = "joined" /\ new # {}
      <3>1. toClient' = Append(toClient, packet)
        BY <1>9, <2>3 DEF Announce
      <3> HIDE DEF packet
      <3>2. InFlight' = InFlight \cup new
        BY <2>1, <3>1, FlightAppend DEF AInv
      <3>3. /\ Greeted'
            /\ \A i \in DOMAIN toClient' :
                  toClient'[i].kind = "Connected"
                     => i \in DOMAIN toClient /\ toClient'[i] = toClient[i]
        BY <1>8, <1>9, <2>1, <2>3, <3>1
      <3>4. ServerKnown'
        BY <1>1, <1>9, <2>2, <3>2, <3>3 DEF AInv, ServerKnown
      <3>5. QED
        BY <3>3, <3>4
    <2>4. CASE ~(link = "joined" /\ new # {})
      <3>1. toClient' = toClient
        BY <1>9, <2>4 DEF Announce
      <3>2. CASE new = {}
        BY <1>1, <1>9, <2>2, <3>1, <3>2, SameConnection
      <3>3. CASE link # "joined"
        BY <1>1, <1>9, <3>1, <3>3 DEF AInv, Greeted, ServerKnown
      <3>4. QED
        BY <2>4, <3>2, <3>3
    <2>5. QED
      BY <2>3, <2>4
  <1>10. CASE ServerReceives
    BY <1>2, <1>3, <1>9, <1>10 DEF ServerReceives, AInv
  <1>11. CASE CheckedElsewhere
    <2>1. PICK l \in Locations : Announce({l})
      BY <1>11 DEF CheckedElsewhere
    <2>2. QED
      BY <1>2, <1>3, <1>9, <1>11, <2>1 DEF CheckedElsewhere, AInv
  <1>12. CASE Malformed
    <2> DEFINE packet == [kind |-> "Malformed"]
    <2>1. packet.kind = "Malformed"
      OBVIOUS
    <2>2. toClient' = Append(toClient, packet) /\ link = "joined"
          /\ link' = link /\ server' = server
      BY <1>12 DEF Malformed, serverVars
    <2> HIDE DEF packet
    <2>3. InFlight' = InFlight
      BY <2>1, <2>2, FlightAppend DEF AInv
    <2>4. /\ Greeted'
          /\ \A i \in DOMAIN toClient' :
                toClient'[i].kind = "Connected"
                   => i \in DOMAIN toClient /\ toClient'[i] = toClient[i]
      BY <1>8, <2>1, <2>2
    <2>5. ServerKnown'
      BY <1>1, <2>2, <2>3, <2>4 DEF AInv, ServerKnown
    <2>6. QED
      BY <1>2, <1>3, <2>2, <2>4, <2>5 DEF AInv
  <1>13. QED
    BY <1>5, <1>6, <1>7, <1>10, <1>11, <1>12

\* Every step keeps the agreement.
LEMMA StepAgrees ==
    ASSUME AInv, [Next]_vars
    PROVE  AInv'
  <1>1. IInv'
    BY StepInvariant DEF AInv
  <1>2. CASE \/ \E l \in Locations : ObserveLocal(l)
             \/ OtherCommit \/ HeartbeatRefused \/ CloseSession
             \/ RunTask \/ SendSync \/ RetryWindowElapses
    BY <1>1, <1>2, LocalStepAgrees
  <1>3. CASE Heartbeat
    BY <1>1, <1>3, HeartbeatAgrees
  <1>4. CASE OnRoomInfo \/ OnIncompatible
    BY <1>1, <1>4, UnauthenticatedAgrees
  <1>5. CASE OnConnected
    BY <1>1, <1>5, OnConnectedAgrees
  <1>6. CASE OnRoomUpdate
    BY <1>1, <1>6, OnRoomUpdateAgrees
  <1>7. CASE OnMalformed
    BY <1>1, <1>7, OnMalformedAgrees
  <1>8. CASE ConnectionClosed \/ Crash \/ LoseLink \/ PlayerReconnects \/ Rollback
    BY <1>1, <1>8, LostLinkAgrees
  <1>9. CASE \/ \E l \in Locations : Complete(l)
             \/ Connect \/ Join \/ ServerReceives \/ CheckedElsewhere \/ Malformed
    BY <1>1, <1>9, LiveLinkAgrees
  <1>10. CASE UNCHANGED vars
    <2>1. UNCHANGED <<disk, session, readOnly, authenticated, mirror, updates,
                      reconciled, link, toClient, server>>
      BY <1>10 DEF vars, clientVars, serverVars
    <2>2. QED
      BY <1>1, <2>1, SameConnection
      DEF AInv, Unopened, SessionCurrent, MirrorRecorded, LacksOnly, Partial,
          Queued
  <1>11. QED
    BY <1>2, <1>3, <1>4, <1>5, <1>6, <1>7, <1>8, <1>9, <1>10
    DEF Next, ClientStep, EnvironmentStep

-----------------------------------------------------------------------------

\* Once a connection has been reconciled, what the client counts as confirmed
\* and what is in flight to it is what the server holds, also after a server
\* that came back with less, after updates that arrived without a session and
\* after commits that failed (_queue_server_location_update,
\* _drain_location_server_updates).
THEOREM AgreementSafe == Spec => []ConfirmedMatchesServer
  <1>1. Init => AInv
    BY InitInvariant
    DEF Init, AInv, Greeted, Unopened, ServerKnown, SessionCurrent,
        MirrorRecorded
  <1>2. AInv /\ [Next]_vars => AInv'
    BY StepAgrees
  <1>3. AInv => ConfirmedMatchesServer
    <2>1. SUFFICES ASSUME AInv, link = "joined", authenticated, ~readOnly,
                          session # NoSession, reconciled
                   PROVE  session.confirmed \cup InFlight = server
      BY DEF ConfirmedMatchesServer
    <2>2. session = disk /\ Queued(updates) = {}
      BY <2>1 DEF AInv, SessionCurrent, Queued
    <2>3. disk.confirmed = mirror
      BY <2>1, <2>2 DEF AInv, MirrorRecorded, LacksOnly
    <2>4. QED
      BY <2>1, <2>2, <2>3 DEF AInv, ServerKnown
  <1>4. QED
    BY <1>1, <1>2, <1>3, PTL DEF Spec
=============================================================================
