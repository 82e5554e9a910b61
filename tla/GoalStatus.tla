------------------------------ MODULE GoalStatus ------------------------------
(***************************************************************************)
(* The goal of the slot: when the client takes it for completed, writes    *)
(* that into the state of the native save, and tells the Archipelago       *)
(* server (worlds/jak3/client.py, _temporary_goal_state to                 *)
(* _send_temporary_goal_status and their callers; server and socket are    *)
(* external, as the client uses them).                                     *)
(*                                                                         *)
(* LocationOutbox follows the locations of one save to the server.  Here   *)
(* there are several saves, bound to slots, among which the player         *)
(* switches while a status is being sent.                                  *)
(*                                                                         *)
(* Code that runs between two awaits is one action.  The client awaits     *)
(* between the creation of the task and its first instruction, and while   *)
(* the socket sends.                                                       *)
(***************************************************************************)
EXTENDS Integers, FiniteSets

CONSTANTS
    Saves,          \* native saves with a state of their own
    Slots,          \* slots of the multiworld
    SlotOf,         \* the slot the state of a save is bound to
    GoalLocations,  \* _MILESTONE_10_TEST_GOAL_LOCATIONS
    None,           \* no session, slot, task, projection or generation
    MaxFaults,      \* bound: crashes, lost links, failed sends, other commits
    MaxConnections  \* bound: connections to the server

SlotAssumption == SlotOf \in [Saves -> Slots] /\ None \notin Slots
BoundAssumption == MaxFaults \in Nat /\ MaxConnections \in Nat

VARIABLES
    disk,        \* the state file of each save
    session,     \* state_session: the save and its state, or None
    readOnly,    \* _location_read_only
    slot,        \* authenticated_slot
    generation,  \* _location_connection_generation
    armed,       \* _location_authenticated_server is the live server
    task,        \* _goal_send_task
    window,      \* _goal_last_send_projection is the current projection, and
                 \* LOCATION_RETRY_SECONDS have not passed since
    sentOn,      \* _goal_sent_connection_generation
    link,        \* down, greeting, greeted, joined, or broken unnoticed
    conn,        \* connections made so far
    faults,
    received,    \* history: what the server got on each connection
    failed,      \* history: sends that raised though the connection held
    succeeded    \* history: slots with a send that returned

clientVars == <<session, readOnly, slot, generation, armed, task, window,
                sentOn>>
serverVars == <<received, failed, succeeded>>
vars == <<disk, clientVars, link, conn, faults, serverVars>>

State == [checked: SUBSET GoalLocations, completed: BOOLEAN, sent: BOOLEAN]

\* Revisions are not counted.  stale: the file has a revision the session did
\* not write or does not know it wrote.
Session == [save: Saves, state: State, stale: BOOLEAN]

\* current: the projection it was created for is still that of the session,
\* which no commit has changed.  orphan: the session has been closed.
Task == [phase: {"created", "sending"}, save: Saves, generation: Nat,
         conn: Nat, current: BOOLEAN, orphan: BOOLEAN]

NoneAssumption == None \notin Session /\ None \notin Task

TypeOK ==
    /\ disk \in [Saves -> State]
    /\ session \in Session \cup {None}
    /\ readOnly \in BOOLEAN
    /\ slot \in Slots \cup {None}
    /\ generation \in Nat
    /\ armed \in BOOLEAN
    /\ task \in Task \cup {None}
    /\ window \in BOOLEAN
    /\ sentOn \in Nat \cup {None}
    /\ link \in {"down", "greeting", "greeted", "joined", "broken"}
    /\ conn \in 0 .. MaxConnections
    /\ faults \in 0 .. MaxFaults
    /\ received \in [1 .. MaxConnections -> Nat]
    /\ failed \in [1 .. MaxConnections -> Nat]
    /\ succeeded \subseteq Slots

Fault == faults < MaxFaults /\ faults' = faults + 1

-----------------------------------------------------------------------------
(* Commits.                                                                 *)

\* _temporary_goal_state
Completed(state) ==
    IF ~state.completed /\ GoalLocations \subseteq state.checked
    THEN [state EXCEPT !.completed = TRUE, !.sent = FALSE]
    ELSE state

\* session.commit(new)
Committed(new) ==
    /\ ~session.stale
    /\ disk' = [disk EXCEPT ![session.save] = new]
    /\ session' = [session EXCEPT !.state = new]
    /\ UNCHANGED faults

\* session.commit(new) raises, before the file was replaced or after.
CommitFailed(new) ==
    \/ /\ session.stale
       /\ UNCHANGED <<disk, session, faults>>
    \/ /\ ~session.stale /\ Fault
       /\ \/ UNCHANGED <<disk, session>>
          \/ /\ disk' = [disk EXCEPT ![session.save] = new]
             /\ session' = [session EXCEPT !.stale = TRUE]

\* What a commit makes of the task: the projection has a new revision.
Outdated(t) == IF t = None THEN None ELSE [t EXCEPT !.current = FALSE]

-----------------------------------------------------------------------------
(* The pump.                                                                *)

\* _temporary_goal_transport_ready of a session that is open
Ready(sess, auth, isArmed, latched) ==
    sess # None /\ sess.state.completed /\ isArmed /\ auth # None /\ ~latched

NewTask(sess, number) ==
    [phase |-> "created", save |-> sess.save, generation |-> number,
     conn |-> conn, current |-> TRUE, orphan |-> FALSE]

\* _pump_temporary_goal_status, of a client with the task t and the window w
Pumped(sess, ready, t, w, told, number) ==
    IF ready /\ told # number /\ t = None /\ ~w
    THEN task' = NewTask(sess, number) /\ window' = TRUE
    ELSE task' = t /\ window' = w

\* The pump after the commit, or without one.
Pump(t, w) ==
    Pumped(session', Ready(session', slot, armed, readOnly), t, w, sentOn,
           generation)

\* A session is closed while a task holds it.
Orphaned(t) ==
    IF t = None THEN None
    ELSE [t EXCEPT !.current = FALSE, !.orphan = TRUE]

-----------------------------------------------------------------------------
(* The game.                                                                *)

\* The state is replaced and the pump runs, or no commit is needed.
CommitAndPump(new) ==
    IF new = session.state
    THEN UNCHANGED <<disk, session, faults>> /\ Pump(task, window)
    ELSE Committed(new) /\ Pump(Outdated(task), FALSE)

\* _commit_goal_location_observation
ObserveLocal ==
    \E l \in GoalLocations :
        LET new == Completed([session.state EXCEPT !.checked = @ \cup {l}])
        IN /\ session # None /\ ~readOnly
           /\ \/ CommitAndPump(new) /\ UNCHANGED readOnly
              \/ /\ new # session.state
                 /\ CommitFailed(new)
                 /\ readOnly' = TRUE
                 /\ UNCHANGED <<task, window>>
           /\ UNCHANGED <<slot, generation, armed, sentOn, link, conn,
                          serverVars>>

\* sync_persistence with the descriptor of a save that is not the open one,
\* or none is open: open_live, refused for the save of another slot.
OpenSession ==
    /\ slot # None
    /\ \E save \in Saves :
        /\ session # None => session.save # save
        /\ session' = IF SlotOf[save] = slot
                      THEN [save |-> save, state |-> disk[save],
                            stale |-> FALSE]
                      ELSE None
    /\ task' = Orphaned(task)
    /\ window' = FALSE
    /\ UNCHANGED <<disk, readOnly, slot, generation, armed, sentOn, link, conn,
                   faults, serverVars>>

\* mutant: the heartbeat only pumps
HeartbeatPumps ==
    /\ slot # None /\ session # None
    /\ CommitAndPump(session.state)
    /\ UNCHANGED <<readOnly, slot, generation, armed, sentOn, link, conn,
                   serverVars>>

\* sync_persistence goes on with _refresh_temporary_goal_completion: the
\* locations may have come from the server.
Heartbeat ==
    /\ slot # None /\ session # None
    /\ LET new == Completed(session.state)
       IN \/ CommitAndPump(new)
          \/ /\ new # session.state
             /\ CommitFailed(new)
             /\ UNCHANGED <<task, window>>
    /\ UNCHANGED <<readOnly, slot, generation, armed, sentOn, link, conn,
                   serverVars>>

\* close_persistence: the native save is unloaded, the bridge is lost, or a
\* commit of the heartbeat failed.
CloseSession ==
    /\ session # None
    /\ session' = None
    /\ task' = Orphaned(task)
    /\ window' = FALSE
    /\ UNCHANGED <<disk, readOnly, slot, generation, armed, sentOn, link, conn,
                   faults, serverVars>>

\* A commit for items or receipts, which may raise once the file is replaced.
OtherCommit ==
    /\ session # None /\ ~session.stale
    /\ Fault
    /\ \/ /\ task' = Outdated(task) /\ window' = FALSE
          /\ UNCHANGED session
       \/ /\ session' = [session EXCEPT !.stale = TRUE]
          /\ UNCHANGED <<task, window>>
    /\ UNCHANGED <<disk, readOnly, slot, generation, armed, sentOn, link, conn,
                   serverVars>>

-----------------------------------------------------------------------------
(* The server.                                                              *)

\* _invalidate_location_transport
Invalidate ==
    /\ armed' = FALSE /\ task' = None /\ window' = FALSE /\ sentOn' = None

Connect ==
    /\ link = "down" /\ conn < MaxConnections
    /\ link' = "greeting" /\ conn' = conn + 1
    /\ UNCHANGED <<disk, clientVars, faults, serverVars>>

\* mutant: the session of the slot before stays open
OnRoomInfoOpen ==
    /\ link = "greeting"
    /\ link' = "greeted"
    /\ Invalidate
    /\ generation' = generation + 1
    /\ readOnly' = FALSE /\ slot' = None
    /\ UNCHANGED <<disk, session, conn, faults, serverVars>>

\* on_package("RoomInfo")
OnRoomInfo ==
    /\ link = "greeting"
    /\ link' = "greeted"
    /\ Invalidate
    /\ generation' = generation + 1
    /\ readOnly' = FALSE /\ slot' = None /\ session' = None
    /\ UNCHANGED <<disk, conn, faults, serverVars>>

\* on_package("Connected"): no session is open, so nothing is refreshed or
\* sent before the next heartbeat.
OnConnected ==
    /\ link = "greeted"
    /\ link' = "joined"
    /\ armed' = TRUE /\ sentOn' = None
    /\ generation' = generation + 2
    /\ slot' \in Slots
    /\ Pumped(session, Ready(session, slot', TRUE, readOnly), None,
              FALSE, None, generation')
    /\ UNCHANGED <<disk, session, readOnly, conn, faults, serverVars>>

\* on_package("RoomUpdate"): somebody else checked a location of the slot.
OnRoomUpdate ==
    \E l \in GoalLocations :
        LET new == [session.state EXCEPT !.checked = @ \cup {l}]
        IN /\ link = "joined" /\ session # None /\ ~readOnly
           /\ l \notin session.state.checked
           /\ \/ /\ Committed(new)
                 /\ task' = Outdated(task) /\ window' = FALSE
                 /\ UNCHANGED readOnly
              \/ /\ CommitFailed(new)
                 /\ readOnly' = TRUE
                 /\ UNCHANGED <<task, window>>
           /\ UNCHANGED <<slot, generation, armed, sentOn, link, conn,
                          serverVars>>

LoseLink ==
    /\ link \in {"greeting", "greeted", "joined"} /\ Fault
    /\ link' = "broken"
    /\ UNCHANGED <<disk, clientVars, conn, serverVars>>

\* connection_closed: the slot stays authenticated, the session open.
ConnectionClosed ==
    /\ link = "broken"
    /\ link' = "down"
    /\ Invalidate
    /\ generation' = generation + 1
    /\ UNCHANGED <<disk, session, readOnly, slot, conn, faults, serverVars>>

\* The player ends a connection on which the client is latched read-only, or
\* to connect to another slot.
PlayerDisconnects ==
    /\ link = "joined"
    /\ link' = "broken"
    /\ UNCHANGED <<disk, clientVars, conn, faults, serverVars>>

Crash ==
    /\ Fault
    /\ session' = None /\ readOnly' = FALSE /\ slot' = None
    /\ generation' = 0 /\ link' = "down"
    /\ Invalidate
    /\ UNCHANGED <<disk, conn, serverVars>>

-----------------------------------------------------------------------------
(* The task.                                                                *)

\* _send_temporary_goal_status up to socket.send
Begin ==
    /\ task # None /\ task.phase = "created"
    /\ LET eligible == /\ Ready(session, slot, armed, readOnly)
                       /\ task.current /\ task.generation = generation
       IN \/ /\ eligible
             /\ task' = [task EXCEPT !.phase = "sending"]
          \/ /\ ~eligible \/ link = "broken"
             /\ task' = None
    /\ UNCHANGED <<disk, session, readOnly, slot, generation, armed, window,
                   sentOn, link, conn, faults, serverVars>>

Sending == task # None /\ task.phase = "sending"

\* What was written reaches the server or not.
Delivered ==
    \/ /\ link = "joined" /\ task.conn = conn
       /\ received' = [received EXCEPT ![conn] = @ + 1]
    \/ link # "joined" /\ UNCHANGED received

\* session.commit(replace(state, goal_status_sent=True)) of the session the
\* task holds, which is closed, knows that the flag is set, or may fail.
FlagCommitted ==
    \/ /\ ~task.orphan => session.state.sent
       /\ UNCHANGED <<disk, session, faults, window>>
    \/ /\ ~task.orphan /\ ~session.state.sent
       /\ LET new == [session.state EXCEPT !.sent = TRUE]
          IN \/ Committed(new) /\ window' = FALSE
             \/ CommitFailed(new) /\ UNCHANGED window

\* The connection the status was sent for, if it is still the live one.
Marked == IF armed /\ generation = task.generation THEN generation ELSE sentOn

\* mutant: the connection counts as told once the flag is written
SentMarkedLate ==
    /\ Sending
    /\ Delivered
    /\ succeeded' = succeeded \cup {SlotOf[task.save]}
    /\ task' = None
    /\ FlagCommitted
    /\ sentOn' = IF session' # None /\ session'.state.sent /\ armed
                 THEN generation ELSE sentOn
    /\ UNCHANGED <<readOnly, slot, generation, armed, link, conn, failed>>

\* socket.send returns: the connection counts as told before the flag is
\* written.
Sent ==
    /\ Sending
    /\ Delivered
    /\ succeeded' = succeeded \cup {SlotOf[task.save]}
    /\ task' = None
    /\ sentOn' = Marked
    /\ FlagCommitted
    /\ UNCHANGED <<readOnly, slot, generation, armed, link, conn, failed>>

\* mutant: the flag is written whether or not the send raised
SendFailsFlagged ==
    /\ Sending /\ Fault
    /\ ~task.orphan /\ ~session.stale
    /\ disk' = [disk EXCEPT ![session.save].sent = TRUE]
    /\ session' = [session EXCEPT !.state.sent = TRUE]
    /\ failed' = [failed EXCEPT ![task.conn] = @ + 1]
    /\ task' = None /\ window' = FALSE
    /\ UNCHANGED <<readOnly, slot, generation, armed, sentOn, link, conn,
                   received, succeeded>>

\* socket.send raises, or the task is told that the socket is closed.
SendFails ==
    /\ Sending
    /\ IF link = "joined" /\ task.conn = conn
       THEN /\ Fault
            /\ failed' = [failed EXCEPT ![conn] = @ + 1]
       ELSE UNCHANGED <<faults, failed>>
    /\ Delivered \/ UNCHANGED received
    /\ task' = None
    /\ UNCHANGED <<disk, session, readOnly, slot, generation, armed, window,
                   sentOn, link, conn, succeeded>>

\* LOCATION_RETRY_SECONDS pass.
RetryWindowElapses ==
    /\ window
    /\ window' = FALSE
    /\ UNCHANGED <<disk, session, readOnly, slot, generation, armed, task,
                   sentOn, link, conn, faults, serverVars>>

-----------------------------------------------------------------------------

Init ==
    /\ disk = [save \in Saves |-> [checked |-> {}, completed |-> FALSE,
                                   sent |-> FALSE]]
    /\ session = None /\ readOnly = FALSE /\ slot = None /\ generation = 0
    /\ armed = FALSE /\ task = None /\ window = FALSE /\ sentOn = None
    /\ link = "down" /\ conn = 0 /\ faults = 0
    /\ received = [c \in 1 .. MaxConnections |-> 0]
    /\ failed = [c \in 1 .. MaxConnections |-> 0]
    /\ succeeded = {}

Next ==
    \/ ObserveLocal \/ OpenSession \/ Heartbeat \/ CloseSession \/ OtherCommit
    \/ Connect \/ OnRoomInfo \/ OnConnected \/ OnRoomUpdate \/ LoseLink
    \/ ConnectionClosed \/ PlayerDisconnects \/ Crash
    \/ Begin \/ Sent \/ SendFails \/ RetryWindowElapses

Spec == Init /\ [][Next]_vars

\* The heartbeat runs every few seconds, the event loop runs its tasks, a send
\* returns or raises, and time passes.
Fairness ==
    /\ WF_vars(Heartbeat)
    /\ WF_vars(Begin)
    /\ WF_vars(Sent \/ SendFails)
    /\ WF_vars(RetryWindowElapses)

FairSpec == Spec /\ Fairness

-----------------------------------------------------------------------------
(* Properties.                                                              *)

\* The server is told of a goal only when the state of a save of the very
\* slot that joined says so on disk, however saves and slots were switched
\* while the status was on its way.
ToldOnlyIfCompleted ==
    [][received' # received =>
         \E save \in Saves : SlotOf[save] = slot /\ disk[save].completed]_vars

\* One status per authenticated connection, failed sends aside, also when the
\* flag in the state cannot be written and when the player changes saves
\* (docs/development/milestone-10-acceptance.md: once per authenticated
\* connection).
OncePerConnection ==
    \A c \in 1 .. MaxConnections : received[c] <= 1 + failed[c]

\* goal_status_sent is on disk only if a send of a status for the slot of
\* that save has returned.
SentFlagTrue ==
    \A save \in Saves : disk[save].sent => SlotOf[save] \in succeeded

\* A completed goal has all its locations, and neither a switch of saves nor
\* a failed commit takes back the completion or the flag.
CompletionKept ==
    [][\A save \in Saves :
         /\ disk'[save].completed => GoalLocations \subseteq disk'[save].checked
         /\ disk[save].completed => disk'[save].completed
         /\ disk[save].sent => disk'[save].sent]_vars

\* A connection over which the slot is joined, with all goal locations in the
\* open state, whether the game or the server checked the last one, is told,
\* unless it is lost, the save is closed or the client cannot commit.
Told ==
    \A save \in Saves :
        (/\ session # None /\ link = "joined"
         /\ session.save = save /\ GoalLocations \subseteq session.state.checked)
        ~> (\/ link # "joined" \/ received[conn] > 0 \/ readOnly
            \/ session = None \/ session.save # save \/ session.stale)
=============================================================================
