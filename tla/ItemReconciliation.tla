-------------------------- MODULE ItemReconciliation --------------------------
(***************************************************************************)
(* How the permanent items of a ledger become native features: the item    *)
(* worker of Jak3Context (client.py), the operation lock and the command   *)
(* of BridgeProtocol (agents/protocol.py), and the command's evaluation in *)
(* GOAL (archipelago.gc, archipelago-items.gc), while the player loads     *)
(* other saves, the game rebuilds its features, and the bridge times out   *)
(* and reconnects.                                                         *)
(*                                                                         *)
(* A ledger is here the items with a pending receipt and those with an     *)
(* applied one; how packets become receipts is the subject of              *)
(* ReceivedItems.  A reply is matched to its command by identifier in the  *)
(* code; here a form knows whether somebody still waits for it.            *)
(*                                                                         *)
(* Code that runs between two awaits is one action.  Forms are evaluated   *)
(* in the order they were sent.                                            *)
(***************************************************************************)
EXTENDS Naturals, Sequences

CONSTANTS
    Saves,      \* native saves, by their identity
    Items,      \* permanent items
    NoSave,     \* no native save, no session
    None,       \* no snapshot, no reply, no packet, no projection
    MaxMoves,   \* bound: loads, rebuilds and other moves of the player
    MaxPackets, \* bound: packets of received items
    MaxFaults   \* bound: timeouts, failed commits, restarts...

ASSUME BoundAssumption ==
    MaxMoves \in Nat /\ MaxPackets \in Nat /\ MaxFaults \in Nat
ASSUME SentinelAssumption == NoSave \notin Saves

Ledger == [pending: SUBSET Items, applied: SUBSET Items]

\* permanent_item_target_mask
Target(entry) == entry.pending \cup entry.applied

Events == {"load", "rebuild"}

\* What a form's evaluation publishes and the client reads.
Reply == [loaded: Saves \cup {NoSave}, safe: BOOLEAN, features: SUBSET Items,
          events: SUBSET Events, result: {"ok", "applied", "unsafe", "failed"}]

\* status: the save of the session, as the heartbeat and the commands report
\* it.  awaited: its sender still waits for the reply.  origin: history, the
\* save whose ledger the target was computed from.
Form == [kind: {"hello", "ping", "command"}, status: Saves \cup {NoSave},
         target: SUBSET Items, awaited: BOOLEAN, origin: Saves \cup {NoSave}]

\* What a reconciliation is compared by.
Projection == [save: Saves \cup {NoSave}, target: SUBSET Items]

VARIABLES
    \* the GOAL runtime
    loaded,        \* the published native save
    restoring,     \* the save being restored
    bound,         \* ap-state-loaded and ap-state-bound
    greeted,       \* connection-ready
    calm,          \* the observed gameplay admits permanent items
    features,      \* ap-items-native-target-mask
    events,        \* diagnostic records the client has not ingested
    \* between GOAL and Python
    forms,         \* nREPL forms sent and not evaluated, in order
    reply,         \* the published answer to the form that is waited for
    \* the client
    ready,         \* bridge_ready
    authenticated, \* authenticated_slot is not None
    session,       \* the save of state_session
    lock,          \* the holder of _operation_lock
    last,          \* last_snapshot: the save and its safety
    worker,        \* the item worker task
    dirty,         \* _item_reconcile_dirty
    confirmed,     \* _item_confirmed_projection
    failed,        \* _item_failure_projection
    runtime,       \* safety in _item_runtime_projection
    packet,        \* _received_item_packets
    ledger,        \* durable: the ledger of each save
    \* bounds and history
    moves, packets, faults,
    granted        \* history: items a command has given to each save

goalVars == <<loaded, restoring, bound, greeted, calm, features, events>>
wireVars == <<forms, reply>>
itemVars == <<dirty, confirmed, failed, runtime>>
clientVars == <<ready, authenticated, session, lock, last, worker, itemVars,
                packet, ledger>>
countVars == <<moves, packets, faults, granted>>
vars == <<goalVars, wireVars, clientVars, countVars>>

\* "scheduled": created and not yet running.  "waiting": for the lock.
\* "sent": for the receipt.  current: state_session is still the session it
\* started with.  rebuilt: a rebuild was ingested since it started.
Worker == [pc: {"idle", "scheduled", "waiting", "sent"}, current: BOOLEAN,
           rebuilt: BOOLEAN, save: Saves \cup {NoSave},
           projection: Projection \cup {None}]

Packet == [kind: {"add", "replace"}, items: SUBSET Items]

TypeOK ==
    /\ loaded \in Saves \cup {NoSave}
    /\ restoring \in Saves \cup {NoSave}
    /\ bound \in BOOLEAN /\ greeted \in BOOLEAN /\ calm \in BOOLEAN
    /\ features \in SUBSET Items
    /\ events \in SUBSET Events
    /\ forms \in Seq(Form)
    /\ reply \in Reply \cup {None}
    /\ ready \in BOOLEAN /\ authenticated \in BOOLEAN
    /\ session \in Saves \cup {NoSave}
    /\ lock \in {"free", "hello", "ping", "command"}
    /\ last \in [loaded: Saves \cup {NoSave}, safe: BOOLEAN] \cup {None}
    /\ worker \in Worker
    /\ (worker.pc = "sent") = (lock = "command")
    /\ worker.current => worker.save = session
    /\ dirty \in BOOLEAN
    /\ confirmed \in Projection \cup {None}
    /\ failed \in Projection \cup {None}
    /\ runtime \in BOOLEAN \cup {None}
    /\ packet \in Packet \cup {None}
    /\ ledger \in [Saves -> Ledger]
    /\ moves \in Nat /\ packets \in Nat /\ faults \in Nat
    /\ granted \in [Saves -> SUBSET Items]

Fault == faults < MaxFaults /\ faults' = faults + 1

Idle == [pc |-> "idle", current |-> FALSE, rebuilt |-> FALSE, save |-> NoSave,
         projection |-> None]

-----------------------------------------------------------------------------
(* The game.                                                                *)

Move ==
    /\ moves < MaxMoves
    /\ moves' = moves + 1
    /\ UNCHANGED <<packets, faults, granted>>

\* ap3-read-native-save-tag!, then the native load rebuilds the features.
BeginLoad(s) ==
    /\ Move
    /\ restoring = NoSave
    /\ restoring' = s
    /\ loaded' = NoSave
    /\ bound' = FALSE
    /\ features' \in SUBSET Items
    /\ UNCHANGED <<greeted, calm, events, wireVars, clientVars>>

\* ap3-auto-save-done-code publishes the restored save.
FinishLoad ==
    /\ restoring # NoSave
    /\ loaded' = restoring
    /\ restoring' = NoSave
    /\ bound' = FALSE
    /\ events' = events \cup {"load"}
    /\ UNCHANGED <<greeted, calm, features, wireVars, clientVars, countVars>>

\* update-task-masks: a closed task node recomputes the native features.
Rebuild ==
    /\ Move
    /\ loaded # NoSave
    /\ features' \in SUBSET Items
    /\ events' = events \cup {"rebuild"}
    /\ UNCHANGED <<loaded, restoring, bound, greeted, calm, wireVars,
                   clientVars>>

\* A cutscene, a vehicle, a loading level... and its end.
Disturb ==
    /\ Move
    /\ calm
    /\ calm' = FALSE
    /\ UNCHANGED <<loaded, restoring, bound, greeted, features, events,
                   wireVars, clientVars>>

Settle ==
    /\ ~calm
    /\ calm' = TRUE
    /\ UNCHANGED <<loaded, restoring, bound, greeted, features, events,
                   wireVars, clientVars, countVars>>

\* The ring overflows or is reloaded before the client reads it.
LoseEvents ==
    /\ Fault
    /\ events # {}
    /\ events' = {}
    /\ UNCHANGED <<loaded, restoring, bound, greeted, calm, features, wireVars,
                   clientVars, moves, packets, granted>>

\* The game ends and is started again: ap3-init!.
RestartGame ==
    /\ Fault
    /\ loaded' = NoSave
    /\ restoring' = NoSave
    /\ bound' = FALSE
    /\ greeted' = FALSE
    /\ features' = {}
    /\ events' = {}
    /\ forms' = <<>>
    /\ UNCHANGED <<calm, reply, clientVars, moves, packets, granted>>
-----------------------------------------------------------------------------
(* Evaluation of the forms in GOAL.                                         *)

\* ap3-apply-sidecar-state!: an acknowledgement is for one exact descriptor.
SidecarMatches(status) == loaded # NoSave /\ status = loaded

\* ap-export-state!, as the sender of the form reads it; a record stays in the
\* ring until somebody has read it.
Publish(form, isBound, mask, result) ==
    IF form.awaited
    THEN /\ reply' = [loaded |-> loaded, safe |-> isBound /\ calm,
                      features |-> mask, events |-> events, result |-> result]
         /\ events' = {}
    ELSE UNCHANGED <<reply, events>>

Evaluates(kind) ==
    /\ forms # <<>>
    /\ Head(forms).kind = kind
    /\ forms' = Tail(forms)
    /\ UNCHANGED <<loaded, restoring, calm, clientVars, moves, packets, faults>>

\* ap3-client-hello-core!
EvaluateHello ==
    /\ Evaluates("hello")
    /\ greeted' = TRUE
    /\ bound' = SidecarMatches(Head(forms).status)
    /\ Publish(Head(forms), bound', features, "ok")
    /\ UNCHANGED <<features, granted>>

\* ap-ping!; a game that was not greeted answers with a failure, which is not
\* the pong that is waited for.
EvaluatePing ==
    /\ Evaluates("ping")
    /\ IF greeted
       THEN /\ bound' = SidecarMatches(Head(forms).status)
            /\ Publish(Head(forms), bound', features, "ok")
       ELSE UNCHANGED <<bound, reply, events>>
    /\ UNCHANGED <<greeted, features, granted>>

\* ap3-command-core! with ap-items-reconcile-native-target!: the gates are
\* refreshed before they are consulted.  A restarted game has another session,
\* and its reply may be taken for an older one.
EvaluateCommand ==
    LET form == Head(forms)
        admitted == greeted /\ SidecarMatches(form.status) /\ calm
    IN  /\ Evaluates("command")
        /\ bound' = IF greeted THEN SidecarMatches(form.status) ELSE bound
        /\ UNCHANGED greeted
        /\ \/ /\ ~greeted
              /\ \/ Publish(form, bound', features, "failed")
                 \/ UNCHANGED <<reply, events>>
              /\ UNCHANGED <<features, granted>>
           \/ /\ greeted /\ ~admitted
              /\ Publish(form, bound', features, "unsafe")
              /\ UNCHANGED <<features, granted>>
           \/ /\ admitted
              /\ features' = form.target
              /\ granted' = [granted EXCEPT ![loaded] = @ \cup form.target]
              /\ Publish(form, bound', features', "applied")

-----------------------------------------------------------------------------
(* The client: sessions and heartbeats.                                     *)

\* close_persistence, for the items.
ForgetSession ==
    /\ session' = NoSave
    /\ runtime' = None
    /\ confirmed' = None
    /\ failed' = None
    /\ dirty' = TRUE

\* mark_bridge_unavailable
Unavailable ==
    /\ ready' = FALSE
    /\ ForgetSession

Send(kind, status, target, origin) ==
    forms' = Append(forms, [kind |-> kind, status |-> status,
                            target |-> target, awaited |-> TRUE,
                            origin |-> origin])

\* BridgeProtocol.initialize on a new connection; a new protocol object has no
\* sidecar status yet.
Connect ==
    /\ ~ready
    /\ lock = "free"
    /\ worker.pc # "waiting"
    /\ lock' = "hello"
    /\ Send("hello", NoSave, {}, NoSave)
    /\ UNCHANGED <<goalVars, reply, ready, authenticated, session, last,
                   worker, itemVars, packet, ledger, countVars>>

\* BridgeProtocol.ping; the lock is fair, a waiting command goes first.
SendPing ==
    /\ ready
    /\ lock = "free"
    /\ worker.pc # "waiting"
    /\ lock' = "ping"
    /\ Send("ping", session, {}, NoSave)
    /\ UNCHANGED <<goalVars, reply, ready, authenticated, session, last,
                   worker, itemVars, packet, ledger, countVars>>

\* mutant: a target that disagrees with the ledger is not noticed
IgnoreReadback(wanted) == FALSE

\* native_target_mismatch of _note_permanent_item_runtime
Mismatch(wanted) == reply.features # Target(ledger[wanted])

\* _note_permanent_item_runtime, for a session that was just opened or stays
\* open.
NoteRuntime(wanted, opened, rebuilt) ==
    LET lifecycle == opened \/ runtime = None
        load == "load" \in reply.events
        mismatch == Mismatch(wanted)
        retry == \/ lifecycle
                 \/ load
                 \/ mismatch
                 \/ runtime = FALSE /\ reply.safe
    IN  /\ dirty' = (dirty \/ rebuilt \/ retry)
        /\ failed' = IF rebuilt \/ retry THEN None ELSE failed
        /\ confirmed' = IF lifecycle \/ load \/ mismatch THEN None
                        ELSE confirmed
        /\ runtime' = reply.safe

\* A pong or the hello is observed: its events are ingested, the session of
\* the loaded save is opened or switched, and the worker is scheduled.  The
\* descriptor also differs when the save has lost its eligibility.
Observe ==
    LET wanted == IF authenticated THEN reply.loaded ELSE NoSave
        rebuilt == session # NoSave /\ "rebuild" \in reply.events
    IN  /\ lock \in {"hello", "ping"}
        /\ reply # None
        /\ lock' = "free"
        /\ reply' = None
        /\ ready' = (ready \/ lock = "hello")
        /\ last' = [loaded |-> reply.loaded, safe |-> reply.safe]
        /\ \E switched \in BOOLEAN, refused \in BOOLEAN :
             LET opened == session # wanted \/ switched
                 closed == session # NoSave /\ opened
             IN  /\ switched => session # NoSave /\ session = wanted
                 /\ refused => wanted # NoSave
                 /\ IF switched \/ refused THEN Fault ELSE UNCHANGED faults
                 /\ session' = IF refused THEN NoSave ELSE wanted
                 /\ IF session' # NoSave THEN NoteRuntime(wanted, opened, rebuilt)
                    ELSE IF closed THEN ForgetSession
                    ELSE UNCHANGED itemVars
                 /\ worker' =
                      IF worker.pc = "idle"
                      THEN [Idle EXCEPT !.pc = IF session' # NoSave
                                               THEN "scheduled" ELSE "idle"]
                      ELSE [worker EXCEPT !.current = @ /\ ~closed /\ ~refused,
                                          !.rebuilt = @ \/ rebuilt]
        /\ UNCHANGED <<goalVars, forms, authenticated, packet, ledger, moves,
                       packets, granted>>

\* What was sent on the connection is evaluated later, or never.
Orphaned == [i \in DOMAIN forms |-> [forms[i] EXCEPT !.awaited = FALSE]]

\* The answer does not come in time; nobody will read it.
TimesOut ==
    /\ lock # "free"
    /\ lock' = "free"
    /\ reply' = None
    /\ events' = IF reply = None THEN events ELSE events \cup reply.events
    /\ forms' \in {Orphaned, <<>>}
    /\ Unavailable
    /\ worker' = IF lock = "command" THEN Idle
                 ELSE [worker EXCEPT !.current = FALSE]
    /\ UNCHANGED <<loaded, restoring, bound, greeted, calm, features,
                   authenticated, last, packet, ledger, moves, packets, granted>>

\* The game is slow, or the connection is lost.
TimesOutEarly ==
    /\ Fault
    /\ TimesOut

\* Nothing can answer any more.
TimesOutUnanswered ==
    /\ reply = None
    /\ \A i \in DOMAIN forms : ~forms[i].awaited
    /\ TimesOut
    /\ UNCHANGED faults

\* on_package: another room, or the same again.
OnRoomInfo ==
    /\ Fault
    /\ authenticated' = FALSE
    /\ packet' = None
    /\ ForgetSession
    /\ worker' = [worker EXCEPT !.current = FALSE]
    /\ UNCHANGED <<goalVars, wireVars, ready, lock, last, ledger, moves,
                   packets, granted>>

OnConnected ==
    /\ ~authenticated
    /\ authenticated' = TRUE
    /\ dirty' = TRUE
    /\ confirmed' = None
    /\ failed' = None
    /\ UNCHANGED <<goalVars, wireVars, ready, session, lock, last, worker,
                   runtime, packet, ledger, countVars>>

\* The client process ends and another is started.
CrashClient ==
    /\ Fault
    /\ ready' = FALSE /\ authenticated' = FALSE
    /\ session' = NoSave
    /\ lock' = "free"
    /\ last' = None
    /\ worker' = Idle
    /\ dirty' = FALSE /\ confirmed' = None /\ failed' = None /\ runtime' = None
    /\ packet' = None
    /\ reply' = None
    /\ events' = IF reply = None THEN events ELSE events \cup reply.events
    /\ forms' \in {Orphaned, <<>>}
    /\ UNCHANGED <<loaded, restoring, bound, greeted, calm, features, ledger,
                   moves, packets, granted>>
-----------------------------------------------------------------------------
(* The client: packets and the item worker.                                 *)

\* _observe_received_items
ReceivePacket ==
    /\ authenticated
    /\ packets < MaxPackets
    /\ packets' = packets + 1
    /\ packet = None
    /\ packet' \in Packet
    /\ worker' = IF worker.pc = "idle" THEN [Idle EXCEPT !.pc = "scheduled"]
                 ELSE worker
    /\ UNCHANGED <<goalVars, wireVars, ready, authenticated, session, lock,
                   last, itemVars, ledger, moves, faults, granted>>

\* apply_received_items_packet: more receipts, or the whole history again.
After(p, entry) ==
    IF p.kind = "add" THEN [entry EXCEPT !.pending = @ \cup p.items]
    ELSE [applied |-> entry.applied \cap p.items,
          pending |-> (entry.pending \cap p.items)
                        \cup (p.items \ entry.applied)]

Marked(entry) == [applied |-> Target(entry), pending |-> {}]

\* The mask and the projection are computed from the entry of the open session
\* before the lock is taken; on a closed connection the send fails.
Started(entry) ==
    [pc |-> IF lock = "free" /\ ready THEN "sent" ELSE "waiting",
     current |-> TRUE, rebuilt |-> FALSE, save |-> session,
     projection |-> [save |-> last.loaded, target |-> Target(entry)]]

\* _reconcile_permanent_items up to its command.
Reconcile(entry, changed) ==
    LET projection == Started(entry).projection
        settled == /\ ~dirty /\ ~changed /\ entry.pending = {}
                   /\ confirmed = projection
        refused == ~changed /\ failed = projection
        starts == last # None /\ last.safe /\ ~settled /\ ~refused
    IN  /\ worker' = IF starts THEN Started(entry) ELSE Idle
        /\ IF starts /\ Started(entry).pc = "sent"
           THEN /\ lock' = "command"
                /\ Send("command", session, Target(entry), session)
           ELSE UNCHANGED <<lock, forms>>

\* _run_item_worker and _commit_received_items_packet; a packet that changes
\* nothing is not committed.
WorkerRuns ==
    LET entry == IF packet = None THEN ledger[session]
                 ELSE After(packet, ledger[session])
        changed == entry # ledger[session]
    IN  /\ worker.pc = "scheduled"
        /\ session # NoSave
        /\ packet' = None
        /\ ledger' = [ledger EXCEPT ![session] = entry]
        /\ dirty' = (dirty \/ changed)
        /\ failed' = IF changed THEN None ELSE failed
        /\ Reconcile(entry, changed)
        /\ UNCHANGED <<goalVars, reply, ready, authenticated, session, last,
                       confirmed, runtime, countVars>>

WorkerStops ==
    /\ worker.pc = "scheduled"
    /\ session = NoSave
    /\ worker' = Idle
    /\ UNCHANGED <<goalVars, wireVars, ready, authenticated, session, lock,
                   last, itemVars, packet, ledger, countVars>>

\* mutant: the items of a packet whose commit failed are reconciled
WorkerFailsAndGoesOn ==
    /\ Fault
    /\ worker.pc = "scheduled"
    /\ session # NoSave
    /\ packet # None
    /\ packet' = None
    /\ Reconcile(After(packet, ledger[session]), TRUE)
    /\ UNCHANGED <<goalVars, reply, ready, authenticated, session, last,
                   itemVars, ledger, moves, packets, granted>>

\* The commit fails, before or after the file was replaced.  The packet is
\* dropped; the Sync of the next session brings it back.
WorkerFails ==
    /\ Fault
    /\ worker.pc = "scheduled"
    /\ session # NoSave
    /\ packet # None
    /\ After(packet, ledger[session]) # ledger[session]
    /\ ledger' \in {ledger, [ledger EXCEPT ![session] = After(packet, @)]}
    /\ Unavailable
    /\ worker' = Idle
    /\ UNCHANGED <<goalVars, wireVars, authenticated, lock, last, packet,
                   moves, packets, granted>>

\* The lock is free; the descriptor the command reports is read only now.
WorkerSends ==
    /\ worker.pc = "waiting"
    /\ lock = "free"
    /\ IF ready
       THEN /\ worker' = [worker EXCEPT !.pc = "sent"]
            /\ lock' = "command"
            /\ Send("command", session, worker.projection.target, worker.save)
            /\ UNCHANGED <<ready, session, itemVars>>
       ELSE /\ Unavailable
            /\ worker' = Idle
            /\ UNCHANGED <<lock, forms>>
    /\ UNCHANGED <<goalVars, reply, authenticated, last, packet, ledger,
                   countVars>>

\* The receipt is observed.  A load record is still there for the next pong.
Receipt ==
    /\ worker.pc = "sent"
    /\ reply # None
    /\ reply' = None
    /\ lock' = "free"
    /\ last' = [loaded |-> reply.loaded, safe |-> reply.safe]
    /\ events' \in {events, events \cup (reply.events \cap {"load"})}
    /\ UNCHANGED <<loaded, restoring, bound, greeted, calm, features, forms,
                   authenticated, packet, moves, packets, granted>>

\* The worker goes round again when a rebuild has raced its command.
Rebuilt == worker.rebuilt \/ (session # NoSave /\ "rebuild" \in reply.events)

WorkerGoesOn == worker' = IF Rebuilt THEN [Idle EXCEPT !.pc = "scheduled"]
                          ELSE Idle

\* mutant: the items are marked whatever the game answered
WorkerConfirmsAnyResult ==
    /\ Receipt
    /\ worker.current
    /\ ledger' = [ledger EXCEPT ![session] = Marked(@)]
    /\ confirmed' = worker.projection
    /\ dirty' = Rebuilt
    /\ failed' = None
    /\ WorkerGoesOn
    /\ UNCHANGED <<ready, session, runtime, faults>>

WorkerConfirms ==
    /\ Receipt
    /\ reply.result = "applied" /\ worker.current
    /\ ledger' = [ledger EXCEPT ![session] = Marked(@)]
    /\ confirmed' = worker.projection
    /\ dirty' = Rebuilt
    /\ failed' = None
    /\ WorkerGoesOn
    /\ UNCHANGED <<ready, session, runtime, faults>>

\* The native target changed and its commit failed, early or late.
WorkerFailsToConfirm ==
    /\ Fault
    /\ Receipt
    /\ reply.result = "applied" /\ worker.current
    /\ ledger[session].pending # {}
    /\ ledger' \in {ledger, [ledger EXCEPT ![session] = Marked(@)]}
    /\ Unavailable
    /\ worker' = Idle

\* Another session, an unsafe moment, or a failure of the native side.
WorkerDefers ==
    /\ Receipt
    /\ ~(reply.result = "applied" /\ worker.current)
    /\ dirty' = (dirty \/ reply.result # "failed" \/ Rebuilt)
    /\ failed' = IF Rebuilt THEN None
                 ELSE IF reply.result = "failed" /\ worker.current
                      THEN worker.projection ELSE failed
    /\ WorkerGoesOn
    /\ UNCHANGED <<ready, session, confirmed, runtime, ledger, faults>>

-----------------------------------------------------------------------------
Init ==
    /\ loaded = NoSave /\ restoring = NoSave
    /\ bound = FALSE /\ greeted = FALSE /\ calm = TRUE
    /\ features = {} /\ events = {}
    /\ forms = <<>> /\ reply = None
    /\ ready = FALSE /\ authenticated = FALSE /\ session = NoSave
    /\ lock = "free" /\ last = None
    /\ worker = Idle
    /\ dirty = FALSE /\ confirmed = None /\ failed = None /\ runtime = None
    /\ packet = None
    /\ ledger = [s \in Saves |-> [pending |-> {}, applied |-> {}]]
    /\ moves = 0 /\ packets = 0 /\ faults = 0
    /\ granted = [s \in Saves |-> {}]

WorkerSteps ==
    \/ WorkerRuns
    \/ WorkerStops
    \/ WorkerFails
    \/ WorkerSends
    \/ WorkerConfirms
    \/ WorkerFailsToConfirm
    \/ WorkerDefers

Next ==
    \/ \E s \in Saves : BeginLoad(s)
    \/ FinishLoad
    \/ Rebuild
    \/ Disturb
    \/ Settle
    \/ LoseEvents
    \/ RestartGame
    \/ EvaluateHello
    \/ EvaluatePing
    \/ EvaluateCommand
    \/ Connect
    \/ SendPing
    \/ Observe
    \/ TimesOutEarly
    \/ TimesOutUnanswered
    \/ OnRoomInfo
    \/ OnConnected
    \/ CrashClient
    \/ ReceivePacket
    \/ WorkerSteps

Spec == Init /\ [][Next]_vars

\* The steps of goalc, of the supervisor and of the item worker: one after the
\* other, so that no two of the same are ever possible.
Evaluate == EvaluateHello \/ EvaluatePing \/ EvaluateCommand
Supervise == Connect \/ SendPing \/ Observe
Work ==
    \/ WorkerRuns \/ WorkerStops
    \/ WorkerSends
    \/ WorkerConfirms \/ WorkerDefers

\* The game runs, evaluates what it is sent and comes back to calm; the
\* supervisor connects and pings; a wait ends with its reply or its timeout;
\* a task that can run runs.
Fairness ==
    /\ WF_vars(FinishLoad) /\ WF_vars(Settle)
    /\ WF_vars(Evaluate) /\ WF_vars(Supervise) /\ WF_vars(Work)
    /\ WF_vars(TimesOutUnanswered) /\ WF_vars(OnConnected)

FairSpec == Spec /\ Fairness

-----------------------------------------------------------------------------
(* Properties.                                                              *)

\* Durable before native, and never revoked behind its back: the command the
\* worker still waits for gives the game exactly the items of the ledger its
\* own file holds at that moment, whatever packets, failed commits and
\* switches came in between (_run_item_worker, _commit_received_items_packet).
CommandMatchesLedger ==
    [][forms # <<>> /\ EvaluateCommand /\ features' # features
         /\ Head(forms).awaited /\ Head(forms).origin = loaded
         => features' = Target(ledger[loaded])]_vars

\* A receipt is marked applied only for an item that a command has really
\* given to that same save: not after an unsafe answer, not for a session that
\* was opened meanwhile (mark_pending_items_applied, client.py:2441).
AppliedOnlyIfGranted ==
    \A s \in Saves : ledger[s].applied \subseteq granted[s]

\* The features of a save come from the ledger of that save and of no other:
\* "Receipt persistence precedes native reconciliation"
\* (docs/development/protocol-3.md:240).
FromOwnLedger ==
    [][forms # <<>> /\ EvaluateCommand /\ features' # features
         => Head(forms).origin = loaded]_vars

Reconciled ==
    loaded # NoSave /\ packet = None =>
        /\ features = Target(ledger[loaded])
        /\ ledger[loaded].pending = {}

\* After the last move and the last fault, the loaded save has the features of
\* its ledger and every receipt is marked applied.
EventuallyReconciled == <>[]Reconciled
=============================================================================
