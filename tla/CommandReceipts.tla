---------------------------- MODULE CommandReceipts ----------------------------
(***************************************************************************)
(* The identifiers and receipts of Protocol 3 commands: BridgeProtocol     *)
(* (agents/protocol.py) numbers its commands, the game (archipelago.gc)    *)
(* keeps a watermark and a ring of recent receipts, and both must agree    *)
(* over timeouts, lost forms, reconnections, restarts of the client and    *)
(* reloads of the bridge.                                                  *)
(*                                                                         *)
(* Forms are evaluated in the order they were sent.  The client holds      *)
(* _operation_lock from a form to its answer, so that the form it waits    *)
(* for is the last one in the queue, and it is answered when the queue is  *)
(* empty.  A form whose sender gave up stays in the queue, or is lost with *)
(* its connection.  Gameplay decides when a command is unsafe and when the *)
(* native features refuse it.                                              *)
(***************************************************************************)
EXTENDS Integers, Sequences

CONSTANTS
    Kinds,      \* kinds of receipt-bearing commands
    Forbidden,  \* those the game refuses: additive effects, unknown kinds
    Payloads,   \* 32-bit payloads
    Invalid,    \* payloads outside the range of their command
    RingLimit,  \* AP-RECEIPT-LIMIT, RECENT_RECEIPT_LIMIT
    MaxId,      \* WIRE_INT32_MAX
    MaxFaults,  \* bound: abandoned forms, restarts, reloads
    MaxHellos,  \* bound: protocols created
    None        \* no nonce, no command

ASSUME RingAssumption == RingLimit \in Nat \ {0}
ASSUME BoundAssumption == MaxId \in Nat /\ MaxFaults \in Nat /\ MaxHellos \in Nat
ASSUME NoneAssumption == None \notin Nat /\ None \notin [kind: Kinds, payload: Payloads]

Contents == [kind: Kinds, payload: Payloads]
Results == {"none", "ok", "applied", "already", "unsafe", "invalid", "failed"}

\* A nonce is the number of the protocol whose hello proposed it.
Nonces == Nat \cup {None}

Receipt == [id: Nat, content: Contents, result: Results]
Entry == [nonce: Nonces, id: Nat, content: Contents, result: Results]

\* nonce: the one a hello proposes, the one a command was numbered under.
\* auto: the identifier was chosen by the client, not by its caller.
Form == [kind: {"hello", "command", "disconnect"}, session: Nat, nonce: Nonces,
         id: Nat, content: Contents \cup {None}, auto: BOOLEAN]

VARIABLES
    \* the GOAL runtime
    clientSession, \* *ap3-client-session*
    gameNonce,     \* *ap3-session-nonce*
    greeted,       \* connection-ready
    watermark,     \* command-high-watermark
    ring,          \* the receipts, the oldest first
    target,        \* the content that took effect last
    last,          \* last-command-kind, -id and -result, as published
    \* between GOAL and Python
    forms,         \* nREPL forms sent and not evaluated, in order
    \* the client
    session,       \* the client process
    pc,            \* what BridgeProtocol waits for
    nonce,         \* session_nonce
    nextId,        \* next_command_id
    sent,          \* the command that is waited for
    \* bounds and history
    hellos, faults,
    effects,       \* history: the commands that took effect, in order
    recorded,      \* history: the receipts ever recorded
    transmitted    \* history: the commands the client chose an identifier for

goalVars == <<clientSession, gameNonce, greeted, watermark, ring, target, last>>
clientVars == <<session, pc, nonce, nextId, sent>>
historyVars == <<effects, recorded, transmitted>>
vars == <<goalVars, forms, clientVars, hellos, faults, historyVars>>

TypeOK ==
    /\ clientSession \in Nat
    /\ gameNonce \in Nonces
    /\ greeted \in BOOLEAN
    /\ watermark \in Nat \cup {-1}
    /\ ring \in Seq(Receipt) /\ Len(ring) <= RingLimit
    /\ target \in Contents \cup {None}
    /\ last \in [kind: {"none", "hello", "command", "disconnect"}, id: Nat \cup {-1},
                 command: Kinds \cup {None}, result: Results]
    /\ forms \in Seq(Form)
    /\ session \in Nat
    /\ pc \in {"down", "hello", "idle", "command"}
    /\ nonce \in Nonces
    /\ nextId \in Nat
    /\ sent \in [id: Nat, content: Contents] \cup {None}
    /\ hellos \in Nat /\ faults \in Nat
    /\ effects \in Seq([nonce: Nonces, id: Nat, content: Contents])
    /\ recorded \in SUBSET Entry
    /\ transmitted \in SUBSET [session: Nat, nonce: Nonces, id: Nat, content: Contents]

-----------------------------------------------------------------------------
(* The game.                                                               *)

Head0 == forms[1]
Evaluates(kind) ==
    /\ forms # <<>>
    /\ Head0.kind = kind
    /\ forms' = Tail(forms)
    /\ UNCHANGED <<clientVars, hellos, faults, transmitted>>

\* ap3-client-hello-core! of a compatible client.  The first hello after an
\* initialisation supplies the nonce; a later one retains it and the ring.
EvaluateHello ==
    /\ Evaluates("hello")
    /\ clientSession' = Head0.session
    /\ gameNonce' = IF gameNonce = None THEN Head0.nonce ELSE gameNonce
    /\ greeted' = TRUE
    /\ last' = [kind |-> "hello", id |-> -1, command |-> None, result |-> "ok"]
    /\ UNCHANGED <<watermark, ring, target, effects, recorded>>

Authentic(form) == form.session = clientSession /\ form.nonce = gameNonce

EvaluateDisconnect ==
    /\ Evaluates("disconnect")
    /\ LET accepted == greeted /\ Authentic(Head0)
       IN  /\ greeted' = (greeted /\ ~accepted)
           /\ last' = [kind |-> "disconnect", id |-> -1, command |-> None,
                       result |-> IF accepted THEN "ok" ELSE "failed"]
    /\ UNCHANGED <<clientSession, gameNonce, watermark, ring, target, effects, recorded>>

Answers(result) ==
    last' = [kind |-> "command", id |-> Head0.id, command |-> Head0.content.kind,
             result |-> result]

\* ap3-record-receipt!
RecordReceipt(result) ==
    LET receipt == [id |-> Head0.id, content |-> Head0.content, result |-> result]
        full == Len(ring) = RingLimit
    IN  /\ ring' = Append(IF full THEN Tail(ring) ELSE ring, receipt)
        /\ watermark' = Head0.id
        /\ recorded' = recorded \cup
               {[nonce |-> gameNonce, id |-> Head0.id, content |-> Head0.content,
                 result |-> result]}

Found(id) == {k \in DOMAIN ring : ring[k].id = id}

EvaluatesCommand ==
    /\ Evaluates("command")
    /\ UNCHANGED <<clientSession, gameNonce, greeted>>

\* Another client or another activation of the bridge.
RefuseStranger ==
    /\ EvaluatesCommand
    /\ ~Authentic(Head0)
    /\ Answers("failed")
    /\ UNCHANGED <<watermark, ring, target, effects, recorded>>

\* mutant: the content of a repeated command is not compared
AnswerDuplicateAnyContent ==
    /\ EvaluatesCommand
    /\ Authentic(Head0)
    /\ \E k \in Found(Head0.id) : Answers(ring[k].result)
    /\ UNCHANGED <<watermark, ring, target, effects, recorded>>

\* duplicate-receipt, duplicate-command-conflict
AnswerDuplicate ==
    /\ EvaluatesCommand
    /\ Authentic(Head0)
    /\ \E k \in Found(Head0.id) :
           Answers(IF ring[k].content = Head0.content THEN ring[k].result
                   ELSE "failed")
    /\ UNCHANGED <<watermark, ring, target, effects, recorded>>

\* mutant: only the ring is searched
IsNewInRing == Authentic(Head0) /\ Found(Head0.id) = {}
IsNew == Authentic(Head0) /\ Found(Head0.id) = {} /\ Head0.id > watermark

\* out-of-order-command-id
RefuseOld ==
    /\ EvaluatesCommand
    /\ Authentic(Head0) /\ Found(Head0.id) = {} /\ ~IsNew
    /\ Answers("failed")
    /\ UNCHANGED <<watermark, ring, target, effects, recorded>>

IsForbidden(content) == content.kind \in Forbidden
IsInvalid(content) == ~IsForbidden(content) /\ content.payload \in Invalid

\* additive-effect-forbidden, unknown-command, invalid-payload
RefuseContent ==
    /\ EvaluatesCommand
    /\ IsNew
    /\ LET content == Head0.content
           result == IF IsForbidden(content) THEN "failed" ELSE "invalid"
       IN  /\ IsForbidden(content) \/ IsInvalid(content)
           /\ Answers(result) /\ RecordReceipt(result)
    /\ UNCHANGED <<target, effects>>

Admissible == ~IsForbidden(Head0.content) /\ ~IsInvalid(Head0.content)

\* The save, its acknowledgement or the gameplay does not admit the command,
\* or the native features fail to take it.
Defer ==
    /\ EvaluatesCommand
    /\ IsNew /\ Admissible
    /\ \E result \in {"unsafe", "failed"} :
           /\ ~greeted => result = "unsafe"
           /\ Answers(result) /\ RecordReceipt(result)
    /\ UNCHANGED <<target, effects>>

Apply ==
    /\ EvaluatesCommand
    /\ IsNew /\ Admissible /\ greeted
    /\ LET result == IF target = Head0.content THEN "already" ELSE "applied"
       IN  /\ Answers(result) /\ RecordReceipt(result)
           /\ effects' = IF result = "already" THEN effects
                         ELSE Append(effects, [nonce |-> gameNonce, id |-> Head0.id,
                                               content |-> Head0.content])
    /\ target' = Head0.content

\* ap3-init!: the bridge is loaded again, or the game is restarted.
Reload ==
    /\ faults < MaxFaults /\ faults' = faults + 1
    /\ clientSession' = 0 /\ gameNonce' = None /\ greeted' = FALSE
    /\ watermark' = -1 /\ ring' = <<>> /\ target' = None
    /\ last' = [kind |-> "none", id |-> -1, command |-> None, result |-> "none"]
    /\ UNCHANGED <<forms, clientVars, hellos, historyVars>>

-----------------------------------------------------------------------------
(* The client.                                                             *)

Answered == forms = <<>>

\* initialize of a new BridgeProtocol, which proposes a new nonce.
SendHello ==
    /\ pc = "down" /\ hellos < MaxHellos
    /\ hellos' = hellos + 1
    /\ pc' = "hello" /\ nonce' = None /\ nextId' = 0 /\ sent' = None
    /\ forms' = Append(forms, [kind |-> "hello", session |-> session,
                               nonce |-> hellos, id |-> 0, content |-> None,
                               auto |-> FALSE])
    /\ UNCHANGED <<goalVars, session, faults, historyVars>>

\* mutant: each protocol numbers from the beginning
NextFromZero == 0

\* The identifier after the highest the snapshot still shows a receipt of.
NextFromReceipts ==
    IF ring = <<>> THEN last.id + 1
    ELSE (CHOOSE id \in {ring[k].id : k \in DOMAIN ring} :
              \A k \in DOMAIN ring : ring[k].id <= id) + 1

AcceptHello ==
    /\ pc = "hello" /\ Answered
    /\ last.kind = "hello" /\ last.result = "ok"
    /\ clientSession = session /\ greeted /\ gameNonce # None
    /\ pc' = "idle" /\ nonce' = gameNonce
    /\ nextId' = NextFromReceipts
    /\ UNCHANGED <<goalVars, forms, session, sent, hellos, faults, historyVars>>

Transmits(id, content, auto) ==
    /\ pc' = "command"
    /\ sent' = [id |-> id, content |-> content]
    /\ nextId' = IF id >= nextId THEN id + 1 ELSE nextId
    /\ forms' = Append(forms, [kind |-> "command", session |-> session,
                               nonce |-> nonce, id |-> id, content |-> content,
                               auto |-> auto])
    /\ UNCHANGED <<goalVars, session, nonce, hellos, faults, effects, recorded>>

\* send_command: the identifier is reserved before the form is written.
SendCommand ==
    /\ pc = "idle" /\ nextId <= MaxId
    /\ \E content \in Contents :
           /\ Transmits(nextId, content, TRUE)
           /\ transmitted' = transmitted \cup
                  {[session |-> session, nonce |-> nonce, id |-> nextId,
                    content |-> content]}

\* send_command with command_id: its caller repeats an identifier.
RepeatCommand ==
    /\ pc = "idle"
    /\ \E id \in 0 .. (nextId - 1), content \in Contents :
           Transmits(id, content, FALSE)
    /\ UNCHANGED transmitted

ReceiveReceipt ==
    /\ pc = "command" /\ Answered
    /\ last.kind = "command" /\ last.id = sent.id
    /\ last.command = sent.content.kind
    /\ pc' = "idle" /\ sent' = None
    /\ UNCHANGED <<goalVars, forms, session, nonce, nextId, hellos, faults, historyVars>>

\* The forms the connection still carried when it was closed: the last of
\* them may be lost with it.
Remaining == {SubSeq(forms, 1, k) : k \in 0 .. Len(forms)}

\* A timeout or a lost socket: mark_bridge_unavailable closes the connection.
Abandon ==
    /\ pc # "down"
    /\ faults < MaxFaults /\ faults' = faults + 1
    /\ pc' = "down" /\ sent' = None
    /\ forms' \in Remaining
    /\ UNCHANGED <<goalVars, session, nonce, nextId, hellos, historyVars>>

\* mutant: only the hello has a deadline
TimesOutHello ==
    /\ Answered /\ pc = "hello" /\ last.kind # "hello"
    /\ pc' = "down" /\ sent' = None
    /\ UNCHANGED <<goalVars, forms, session, nonce, nextId, hellos, faults, historyVars>>

\* The deadline of _wait_for, when the published answer is not the one.
TimesOut ==
    /\ Answered
    /\ \/ pc = "command" /\ last.kind # "command"
       \/ pc = "hello" /\ last.kind # "hello"
    /\ pc' = "down" /\ sent' = None
    /\ UNCHANGED <<goalVars, forms, session, nonce, nextId, hellos, faults, historyVars>>

\* disconnect, and the end of the process.
Stop ==
    /\ pc = "idle"
    /\ faults < MaxFaults /\ faults' = faults + 1
    /\ pc' = "down" /\ session' = session + 1
    /\ forms' = Append(forms, [kind |-> "disconnect", session |-> session,
                               nonce |-> nonce, id |-> 0, content |-> None,
                               auto |-> FALSE])
    /\ UNCHANGED <<goalVars, nonce, nextId, sent, hellos, historyVars>>

Crash ==
    /\ pc # "down"
    /\ faults < MaxFaults /\ faults' = faults + 1
    /\ pc' = "down" /\ sent' = None /\ session' = session + 1
    /\ forms' \in Remaining
    /\ UNCHANGED <<goalVars, nonce, nextId, hellos, historyVars>>

-----------------------------------------------------------------------------
Evaluate ==
    \/ EvaluateHello \/ EvaluateDisconnect
    \/ RefuseStranger \/ AnswerDuplicate \/ RefuseOld \/ RefuseContent
    \/ Defer \/ Apply

Next ==
    \/ Evaluate \/ Reload
    \/ SendHello \/ AcceptHello
    \/ SendCommand \/ RepeatCommand \/ ReceiveReceipt
    \/ Abandon \/ TimesOut \/ Stop \/ Crash

Init ==
    /\ clientSession = 0 /\ gameNonce = None /\ greeted = FALSE
    /\ watermark = -1 /\ ring = <<>> /\ target = None
    /\ last = [kind |-> "none", id |-> -1, command |-> None, result |-> "none"]
    /\ forms = <<>>
    /\ session = 1 /\ pc = "down" /\ nonce = None /\ nextId = 0 /\ sent = None
    /\ hellos = 0 /\ faults = 0
    /\ effects = <<>> /\ recorded = {} /\ transmitted = {}

Spec == Init /\ [][Next]_vars

\* goalc evaluates what it has; a wait ends with its answer or its deadline.
Fairness ==
    /\ WF_vars(Evaluate)
    /\ WF_vars(AcceptHello) /\ WF_vars(ReceiveReceipt) /\ WF_vars(TimesOut)

FairSpec == Spec /\ Fairness

-----------------------------------------------------------------------------
\* Within one activation of the bridge the commands that take effect do so in
\* the order of their identifiers, each at most once: neither a repetition, nor
\* a form evaluated late, nor a receipt that has left the ring brings one back.
AtMostOnce ==
    \A i, j \in DOMAIN effects :
        i < j /\ effects[i].nonce = effects[j].nonce => effects[i].id < effects[j].id

\* What send_command returns as applied is what the game recorded for that
\* identifier, with that very payload, in the activation it was sent to.
ReceiptTruthful ==
    [][ReceiveReceipt /\ last.result \in {"applied", "already"}
       => [nonce |-> nonce, id |-> sent.id, content |-> sent.content,
           result |-> last.result] \in recorded]_vars

\* The identifier the client chose for a command, however it was recomputed
\* after a reconnection, is above everything the game has seen when the command
\* arrives, so that the game takes it for a new one.
AutomaticIsNew ==
    \A k \in DOMAIN forms :
        forms[k].kind = "command" /\ forms[k].auto /\ forms[k].nonce = gameNonce
        => /\ forms[k].id > watermark
           /\ Found(forms[k].id) = {}

\* A wait for a receipt ends, so that _operation_lock is released.
WaitEnds == []<>(pc # "command")

\* send_command, "a later automatic command must never reuse this ID with new
\* content": two commands that one client numbered alike are the same.
NeverReused ==
    \A a, b \in transmitted :
        a.session = b.session /\ a.nonce = b.nonce /\ a.id = b.id
        => a.content = b.content
=============================================================================
