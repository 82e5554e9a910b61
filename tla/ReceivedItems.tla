----------------------------- MODULE ReceivedItems -----------------------------
(***************************************************************************)
(* How the items the server has for the slot become the received-item      *)
(* journal of each native save: packets, CommonClient's own bookkeeping,   *)
(* the packet queue and the Sync requests of Jak3Context (client.py), and  *)
(* the index semantics of received_items.py.  What the journal then does   *)
(* to the game is the subject of ItemReconciliation.                       *)
(*                                                                         *)
(* An item stands for a whole network item: what tells two entries of the  *)
(* history apart.  The invalid ones are those outside the served range.    *)
(***************************************************************************)
EXTENDS Naturals, Sequences, SequencesExt

CONSTANTS
    Saves,     \* native saves bound to the slot
    NoSave,    \* no session
    Items,     \* network items
    Invalid,   \* those parse_received_items_packet rejects
    None,      \* no Sync was requested
    MaxItems,  \* bound: length of a history
    MaxMoves,  \* bound: sessions closed and saves loaded by the player
    MaxFaults  \* bound: lost links, failed commits, crashes, rollbacks

BoundAssumption ==
    MaxItems \in Nat /\ MaxMoves \in Nat /\ MaxFaults \in Nat
ItemAssumption == Invalid \subseteq Items /\ NoSave \notin Saves

Entry == [item : Items, applied : BOOLEAN]
Histories == BoundedSeq(Items, MaxItems)
Message == [kind : {"RoomInfo", "Connected", "ReceivedItems"},
            index : 0..MaxItems, items : Histories]

Greeting(kind) == [kind |-> kind, index |-> 0, items |-> <<>>]
Packet(index, items) ==
    [kind |-> "ReceivedItems", index |-> index, items |-> items]

\* What makes two Sync requests the same.  expected: the length of the open
\* journal, if one is open.
Request == [reason : {"binding", "gap", "conflict", "partial_overlap",
                      "packet_rejected", "server_reconnect"},
            index : 0..MaxItems, expected : SUBSET (0..MaxItems)]

VARIABLES
    \* the server
    history,       \* the items of the slot, oldest first
    discarded,     \* history: the histories that a rollback cut
    sendIndex,     \* what this connection was sent
    joined,        \* the connection has authenticated
    \* the connection
    link, down, up,
    \* the client
    count,         \* len(items_received) of CommonClient
    authenticated, \* authenticated_slot is not None
    queue,         \* _received_item_packets
    requested,     \* _item_sync_projection
    rejection,     \* _item_rejection_projection: the rejected position, if any
    syncs,         \* Sync tasks that have not run
    session,       \* the save of state_session
    journal,       \* durable: received_item_journal of each save
    moves, faults

serverVars == <<history, discarded, sendIndex, joined>>
linkVars == <<link, down, up>>
requestVars == <<requested, rejection, syncs>>
clientVars == <<count, authenticated, queue, requestVars, session, journal>>
boundVars == <<moves, faults>>
vars == <<serverVars, linkVars, clientVars, boundVars>>

ItemsOf(entries) == [n \in DOMAIN entries |-> entries[n].item]

TypeOK ==
    /\ history \in Histories /\ discarded \subseteq Histories
    /\ sendIndex \in 0..Len(history)
    /\ joined \in BOOLEAN /\ link \in BOOLEAN
    /\ joined => link
    /\ \A n \in DOMAIN down : down[n] \in Message
    /\ \A n \in DOMAIN up : up[n] \in {"Connect", "Sync"}
    /\ count \in 0..MaxItems
    /\ authenticated \in BOOLEAN
    /\ session # NoSave => authenticated
    /\ \A n \in DOMAIN queue :
         /\ queue[n].packet \in Message
         /\ Invalid \cap Range(queue[n].packet.items) = {}
         /\ queue[n].syncSent \in BOOLEAN
    /\ requested \in Request \cup {None}
    /\ rejection \in SUBSET (0..MaxItems)
    /\ \A n \in DOMAIN syncs : syncs[n] \in Request
    /\ session \in Saves \cup {NoSave}
    /\ \A s \in Saves : /\ \A n \in DOMAIN journal[s] : journal[s][n] \in Entry
                        /\ Invalid \cap Range(ItemsOf(journal[s])) = {}
    /\ moves \in 0..MaxMoves /\ faults \in 0..MaxFaults

Move == moves < MaxMoves /\ moves' = moves + 1 /\ UNCHANGED faults
Fault == faults < MaxFaults /\ faults' = faults + 1 /\ UNCHANGED moves

From(n) == SubSeq(history, n + 1, Len(history))

-----------------------------------------------------------------------------
(* The server and the connection.                                           *)

Gain ==
    /\ Len(history) < MaxItems
    /\ \E i \in Items : history' = Append(history, i)
    /\ UNCHANGED <<discarded, sendIndex, joined, linkVars, clientVars, boundVars>>

\* What is new for this connection.
Announce ==
    /\ joined
    /\ sendIndex < Len(history)
    /\ down' = Append(down, Packet(sendIndex, From(sendIndex)))
    /\ sendIndex' = Len(history)
    /\ UNCHANGED <<history, discarded, joined, link, up, clientVars, boundVars>>

\* The whole history, unless it is empty.
Whole == IF history = <<>> THEN <<>> ELSE <<Packet(0, history)>>

ServerJoins ==
    /\ up # <<>> /\ Head(up) = "Connect"
    /\ up' = Tail(up)
    /\ joined' = TRUE
    /\ sendIndex' = Len(history)
    /\ down' = down \o <<Greeting("Connected")>> \o Whole
    /\ UNCHANGED <<history, discarded, link, clientVars, boundVars>>

ServerSyncs ==
    /\ up # <<>> /\ Head(up) = "Sync"
    /\ up' = Tail(up)
    /\ sendIndex' = Len(history)
    /\ down' = down \o Whole
    /\ UNCHANGED <<history, discarded, joined, link, clientVars, boundVars>>

\* The server is started again from an older save.
Rollback ==
    /\ Fault
    /\ ~link
    /\ \E n \in 0..(Len(history) - 1) : history' = SubSeq(history, 1, n)
    /\ discarded' = discarded \cup {history}
    /\ sendIndex' = 0
    /\ UNCHANGED <<joined, linkVars, clientVars>>

Dial ==
    /\ ~link
    /\ link' = TRUE
    /\ down' = <<Greeting("RoomInfo")>>
    /\ up' = <<>>
    /\ UNCHANGED <<serverVars, clientVars, boundVars>>

\* The socket is lost and connection_closed resets CommonClient's state.
LoseLink ==
    /\ Fault
    /\ link
    /\ link' = FALSE /\ down' = <<>> /\ up' = <<>>
    /\ joined' = FALSE /\ sendIndex' = 0
    /\ count' = 0
    /\ UNCHANGED <<history, discarded, authenticated, queue, requestVars,
                   session, journal>>

-----------------------------------------------------------------------------
(* Sync requests.                                                           *)

Expected == IF session = NoSave THEN {} ELSE {Len(journal[session])}

\* _request_item_sync_once: no second task for the same request.
Asked(tasks, last, request, sent) ==
    IF last = request \/ sent THEN tasks ELSE Append(tasks, request)

RequestSync(reason, index, expected, sent) ==
    LET request == [reason |-> reason, index |-> index, expected |-> expected]
    IN  /\ requested' = request
        /\ syncs' = Asked(syncs, requested, request, sent)

\* _send_item_sync
RunSync ==
    /\ syncs # <<>>
    /\ syncs' = Tail(syncs)
    /\ IF link
       THEN up' = Append(up, "Sync") /\ UNCHANGED requested
       ELSE /\ requested' = IF requested = Head(syncs) THEN None ELSE requested
            /\ UNCHANGED up
    /\ UNCHANGED <<serverVars, link, down, count, authenticated, queue,
                   rejection, session, journal, boundVars>>

-----------------------------------------------------------------------------
(* Packets.                                                                 *)

Takes(kind) ==
    /\ down # <<>> /\ Head(down).kind = kind
    /\ down' = Tail(down)
    /\ UNCHANGED <<serverVars, link, boundVars>>

\* on_package; CommonClient then authenticates.
OnRoomInfo ==
    /\ Takes("RoomInfo")
    /\ queue' = <<>>
    /\ requested' = None
    /\ rejection' = {}
    /\ session' = NoSave
    /\ authenticated' = FALSE
    /\ up' = Append(up, "Connect")
    /\ UNCHANGED <<count, syncs, journal>>

OnConnected ==
    /\ Takes("Connected")
    /\ authenticated' = TRUE
    /\ IF session # NoSave
       THEN RequestSync("server_reconnect", 0, Expected, FALSE)
       ELSE UNCHANGED <<requested, syncs>>
    /\ UNCHANGED <<up, count, queue, rejection, session, journal>>

Rejects(p) == {p.index + n - 1 : n \in {m \in DOMAIN p.items :
                                          p.items[m] \in Invalid}}
First(positions) == {n \in positions : \A m \in positions : n <= m}

\* The latch leaves out the index of the packet.
AlreadyRejected(p) == rejection = First(Rejects(p))

\* _preprocess_received_items_packet rejects the whole packet before
\* CommonClient sees it, and asks for the history once.
OnInvalidItems ==
    LET p == Head(down)
    IN  /\ Takes("ReceivedItems")
        /\ Rejects(p) # {}
        /\ IF AlreadyRejected(p) THEN UNCHANGED requestVars
           ELSE /\ rejection' = First(Rejects(p))
                /\ RequestSync("packet_rejected", p.index, Expected, FALSE)
        /\ UNCHANGED <<up, count, authenticated, queue, session, journal>>

\* CommonClient replaces, extends, or asks for a Sync of its own; then
\* _observe_received_items queues the packet.
OnReceivedItems ==
    LET p == Head(down)
        missed == p.index # 0 /\ p.index # count
    IN  /\ Takes("ReceivedItems")
        /\ Rejects(p) = {}
        /\ count' = IF missed THEN count ELSE p.index + Len(p.items)
        /\ up' = IF missed THEN Append(up, "Sync") ELSE up
        /\ queue' = Append(queue, [packet |-> p, syncSent |-> missed])
        /\ IF p.index = 0 THEN requested' = None /\ rejection' = {}
           ELSE UNCHANGED <<requested, rejection>>
        /\ UNCHANGED <<authenticated, syncs, session, journal>>

-----------------------------------------------------------------------------
(* Sessions.                                                                *)

\* What _note_permanent_item_runtime asks for when a session was opened or a
\* native load completed.
NoteLifecycle(expected) ==
    IF queue = <<>> /\ rejection = {}
    THEN RequestSync("binding", 0, expected, FALSE)
    ELSE UNCHANGED <<requested, syncs>>

\* sync_persistence opens the session of the loaded save.
OpenSession(s) ==
    /\ authenticated
    /\ session = NoSave
    /\ session' = s
    /\ NoteLifecycle({Len(journal[s])})
    /\ UNCHANGED <<serverVars, linkVars, count, authenticated, queue, rejection,
                   journal, boundVars>>

NativeLoad ==
    /\ Move
    /\ session # NoSave
    /\ NoteLifecycle(Expected)
    /\ UNCHANGED <<serverVars, linkVars, count, authenticated, queue, rejection,
                   session, journal>>

\* The save is unloaded or the bridge is lost.
CloseSession ==
    /\ Move
    /\ session # NoSave
    /\ session' = NoSave
    /\ UNCHANGED <<serverVars, linkVars, count, authenticated, queue,
                   requestVars, journal>>

CrashClient ==
    /\ Fault
    /\ link' = FALSE /\ down' = <<>> /\ up' = <<>>
    /\ joined' = FALSE /\ sendIndex' = 0
    /\ count' = 0 /\ authenticated' = FALSE
    /\ queue' = <<>> /\ requested' = None /\ rejection' = {} /\ syncs' = <<>>
    /\ session' = NoSave
    /\ UNCHANGED <<history, discarded, journal>>

-----------------------------------------------------------------------------
(* apply_received_items_packet and the worker.                              *)

Pending(items) == [n \in DOMAIN items |-> [item |-> items[n], applied |-> FALSE]]

\* mutant: the whole history is pending again
ReplacedAnew(entries, items) == Pending(items)

\* _replace_canonical_history: an entry keeps its state where its item agrees.
Replaced(entries, items) ==
    [n \in DOMAIN items |->
        IF n \in DOMAIN entries /\ entries[n].item = items[n] THEN entries[n]
        ELSE [item |-> items[n], applied |-> FALSE]]


\* mutant: a packet beyond the journal is appended to it
OutcomeAcceptingGaps(entries, p) ==
    IF p.index = 0 THEN IF ItemsOf(entries) = p.items THEN "duplicate"
                        ELSE "replaced"
    ELSE IF p.index >= Len(entries) THEN "accepted"
    ELSE "duplicate"

Outcome(entries, p) ==
    LET last == p.index + Len(p.items)
    IN  IF p.index = 0
        THEN IF ItemsOf(entries) = p.items THEN "duplicate" ELSE "replaced"
        ELSE CASE p.index = Len(entries) -> "accepted"
               [] p.index > Len(entries) -> "gap"
               [] p.index < Len(entries) /\ last > Len(entries)
                    -> "partial_overlap"
               [] OTHER ->
                    IF SubSeq(ItemsOf(entries), p.index + 1, last) = p.items
                    THEN "duplicate" ELSE "conflict"

\* The journal after an accepted packet or a replay.
Recorded(entries, p) ==
    IF p.index = 0 THEN Replaced(entries, p.items)
    ELSE entries \o Pending(p.items)

\* _commit_received_items_packet, on what it changes.
Taken(state, p, sent) ==
    LET outcome == Outcome(state.entries, p)
        request == [reason |-> outcome, index |-> p.index,
                    expected |-> {Len(state.entries)}]
    IN  CASE outcome \in {"accepted", "replaced"} ->
               [state EXCEPT !.entries = Recorded(@, p), !.rejection = {}]
          [] outcome = "duplicate" -> state
          [] OTHER ->
               [state EXCEPT !.requested = request,
                             !.syncs = Asked(@, state.requested, request, sent)]

\* The worker has taken the first n packets; it does not wait in between.
AfterPackets[n \in 0 .. Len(queue)] ==
    IF n = 0 THEN [entries |-> journal[session], rejection |-> rejection,
                   requested |-> requested, syncs |-> syncs]
    ELSE Taken(AfterPackets[n - 1], queue[n].packet, queue[n].syncSent)

Keeps(state) ==
    /\ rejection' = state.rejection
    /\ requested' = state.requested
    /\ syncs' = state.syncs

WorkerRuns ==
    /\ session # NoSave
    /\ queue # <<>>
    /\ queue' = <<>>
    /\ LET state == AfterPackets[Len(queue)]
       IN  /\ journal' = [journal EXCEPT ![session] = state.entries]
           /\ Keeps(state)
    /\ UNCHANGED <<serverVars, linkVars, count, authenticated, session,
                   boundVars>>

\* The commit of the n-th packet fails, before or after the file was replaced:
\* that packet is gone, and the session closed.
WorkerFails ==
    /\ Fault
    /\ session # NoSave
    /\ \E n \in DOMAIN queue :
         LET before == AfterPackets[n - 1]
             p == queue[n].packet
         IN  /\ Outcome(before.entries, p) \in {"accepted", "replaced"}
             /\ Keeps(before)
             /\ queue' = SubSeq(queue, n + 1, Len(queue))
             /\ \E entries \in {before.entries, Recorded(before.entries, p)} :
                  journal' = [journal EXCEPT ![session] = entries]
    /\ session' = NoSave
    /\ UNCHANGED <<serverVars, linkVars, count, authenticated>>

\* mark_pending_items_applied after a reconciliation.
MarkApplied ==
    /\ session # NoSave
    /\ journal' = [journal EXCEPT ![session] =
                     [n \in DOMAIN @ |-> [@[n] EXCEPT !.applied = TRUE]]]
    /\ journal' # journal
    /\ UNCHANGED <<serverVars, linkVars, count, authenticated, queue,
                   requestVars, session, boundVars>>

-----------------------------------------------------------------------------
Init ==
    /\ history = <<>> /\ discarded = {} /\ sendIndex = 0 /\ joined = FALSE
    /\ link = FALSE /\ down = <<>> /\ up = <<>>
    /\ count = 0 /\ authenticated = FALSE
    /\ queue = <<>> /\ requested = None /\ rejection = {} /\ syncs = <<>>
    /\ session = NoSave
    /\ journal = [s \in Saves |-> <<>>]
    /\ moves = 0 /\ faults = 0

Next ==
    \/ Gain
    \/ Announce
    \/ ServerJoins
    \/ ServerSyncs
    \/ Rollback
    \/ Dial
    \/ LoseLink
    \/ RunSync
    \/ OnRoomInfo
    \/ OnConnected
    \/ OnInvalidItems
    \/ OnReceivedItems
    \/ \E s \in Saves : OpenSession(s)
    \/ NativeLoad
    \/ CloseSession
    \/ CrashClient
    \/ WorkerRuns
    \/ WorkerFails
    \/ MarkApplied

Spec == Init /\ [][Next]_vars

\* What the server and the client receive is handled in order.
Serve == ServerJoins \/ ServerSyncs
Handle == OnRoomInfo \/ OnConnected \/ OnInvalidItems \/ OnReceivedItems

\* The server answers and announces, the client reconnects and handles what it
\* receives, its tasks run, and a loaded save gets its session.
Fairness ==
    /\ WF_vars(Announce) /\ WF_vars(Serve)
    /\ WF_vars(Dial) /\ WF_vars(RunSync)
    /\ WF_vars(Handle)
    /\ WF_vars(\E s \in Saves : OpenSession(s))
    /\ WF_vars(WorkerRuns)

FairSpec == Spec /\ Fairness

-----------------------------------------------------------------------------
(* Properties.                                                              *)

\* The journal of a save never has a hole, a repetition or two items in the
\* wrong order: unless the server was rolled back it is the beginning of the
\* server's history (apply_received_items_packet, received_items.py:175).
\* After a rollback an increment may extend the journal of before, if the replay
\* was refused or went to another save; the next Sync replaces it.
JournalFromServer ==
    discarded = {} => \A s \in Saves : IsPrefix(ItemsOf(journal[s]), history)

\* While the server only adds to its history, an applied receipt stays where it
\* is and stays applied, through replays, gaps, failed commits and switches of
\* save (_replace_canonical_history, received_items.py:246).
AppliedKept ==
    [][discarded = {} =>
         \A s \in Saves : \A n \in DOMAIN journal[s] :
           journal[s][n].applied => /\ n \in DOMAIN journal'[s]
                                    /\ journal'[s][n] = journal[s][n]]_vars

HistoryRecorded ==
    session # NoSave /\ history # <<>> /\ Range(history) \cap Invalid = {}
        => ItemsOf(journal[session]) = history

Quiet == syncs = <<>> /\ up = <<>>

\* Everything the server has is in the journal of the open session in the end,
\* unless some of it is refused; a server whose history is empty says nothing
\* (_request_item_sync_once, client.py:2536).  One request per cause: the Syncs
\* come to an end, also when every answer is refused (_item_sync_projection,
\* _item_rejection_projection).
EventuallyRecorded == <>[](HistoryRecorded /\ Quiet)
=============================================================================
