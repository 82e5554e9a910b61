------------------------------ MODULE SaveBinding ------------------------------
(***************************************************************************)
(* How a native save gets its identity: the client (client.py,             *)
(* agents/protocol.py) offers a fresh UUID while it is authenticated, the  *)
(* wrappers of the native save, load and initialisation (archipelago.gc)   *)
(* write it into a save without one, publish the descriptor of the game    *)
(* that is running when the memory card is done, and consume the offer.    *)
(*                                                                         *)
(* The memory card works while the heartbeat goes on, the client loses its *)
(* server or its bridge, the player leaves for another game, and the       *)
(* bridge is loaded again.                                                 *)
(*                                                                         *)
(* A game is known by its birth: starting without a save or making a new   *)
(* save begins another.  What the descriptor is then acknowledged with is  *)
(* in LocationObservation and ItemReconciliation.  The reload descriptor   *)
(* is written with the published one at each place and is not kept apart;  *)
(* eligibility and the native slot of the descriptor are left out.         *)
(***************************************************************************)
EXTENDS Naturals, Sequences

CONSTANTS
    Identities, \* UUIDs
    Slots,      \* native save slots
    None,       \* no identity, no operation, no save, no nonce
    Unobserved, \* whether a game may begin without a save before the bridge
                \* evaluated a form since the last new game
    Gap,        \* whether a form may be sent after server_auth named the slot and
                \* before the handler of RoomInfo
    MaxGames,   \* bound: games begun
    MaxOps,     \* bound: native operations
    MaxDrops,   \* bound: lost connections to the Archipelago server
    MaxFaults   \* bound: timeouts, reloads, restarts, failed operations

ASSUME BoundAssumption ==
    MaxGames \in Nat /\ MaxOps \in Nat /\ MaxDrops \in Nat /\ MaxFaults \in Nat
ASSUME WindowAssumption == Unobserved \in BOOLEAN /\ Gap \in BOOLEAN

Identity == Identities \cup {None}
Games == 0 .. MaxGames
Save == [game: Games, identity: Identity]

\* A native operation.  A load is "reading" until the card was read.
Operation == [kind: {"save", "reading", "load"}, slot: Slots, game: Games,
              identity: Identity, new: BOOLEAN]

\* What the snapshot of the last evaluated form says.
Snapshot == [accepted: BOOLEAN, loaded: BOOLEAN, identity: Identity,
             consumed: Identity, nonce: Nat \cup {None}]

\* A hello proposes the number of its protocol as nonce; a ping repeats the
\* nonce of the game.
Form == [kind: {"hello", "ping"}, nonce: Nat \cup {None}, offer: Identity,
         connected: BOOLEAN]

ASSUME NoneAssumption ==
    /\ None \notin Identities /\ None \notin Nat
    /\ None \notin Save /\ None \notin Operation /\ None \notin Snapshot

VARIABLES
    \* the native game
    running,    \* the game that is played
    bank,       \* the memory card
    op,         \* the auto-save process
    \* the GOAL runtime
    loaded,     \* save-loaded
    identity,   \* *ap3-native-save-identity*
    pending,    \* *ap3-pending-save-valid* and -identity*
    ready,      \* *ap3-saved-new-game-ready*
    proposed,   \* *ap3-proposed-save-identity*
    consumed,   \* *ap3-consumed-save-identity*
    fresh,      \* the last client contact is authenticated and recent
    gameNonce,  \* *ap3-session-nonce*
    snapshot,   \* the state file
    \* between GOAL and Python
    forms,      \* nREPL forms sent and not evaluated, in order
    \* the client
    pc,         \* "down", "idle", or "waiting" for an answer
    nonce,      \* session_nonce
    offer,      \* proposed_save_identity
    server,     \* the connection to the Archipelago server
    authenticated, \* authenticated_slot is not None
    \* bounds and history
    protocols, games, ops, drops, faults,
    created,    \* identities that were ever created
    named       \* history: which game was saved under which identity

nativeVars == <<running, bank, op, games, ops, named>>
goalVars == <<loaded, identity, pending, ready, proposed, consumed, fresh, gameNonce>>
clientVars == <<pc, nonce, offer, server, authenticated, protocols, drops, created>>
vars == <<nativeVars, goalVars, snapshot, forms, clientVars, faults>>

TypeOK ==
    /\ running \in Games
    /\ bank \in [Slots -> Save \cup {None}]
    /\ op \in Operation \cup {None}
    /\ loaded \in BOOLEAN /\ (loaded => identity # None)
    /\ identity \in Identity
    /\ pending \in Identity
    /\ (pending # None => op # None)
    /\ ready \in BOOLEAN
    /\ proposed \in Identity /\ consumed \in Identity
    /\ fresh \in BOOLEAN
    /\ gameNonce \in Nat \cup {None}
    /\ snapshot \in Snapshot \cup {None}
    /\ forms \in Seq(Form)
    /\ pc \in {"down", "idle", "waiting"}
    /\ nonce \in Nat \cup {None}
    /\ offer \in Identity
    /\ server \in {"down", "greeting", "joining", "joined"}
    /\ authenticated \in BOOLEAN
    /\ protocols \in Nat /\ games \in Nat /\ ops \in Nat /\ drops \in Nat
    /\ faults \in Nat
    /\ created \in SUBSET Identities
    /\ named \in SUBSET [identity: Identities, game: Games]

Fault == faults < MaxFaults /\ faults' = faults + 1

-----------------------------------------------------------------------------
(* The native operations and the wrappers around them.                     *)

\* ap3-save-identity-proposal-usable?
Usable == gameNonce # None /\ fresh /\ proposed # None

Native(kind, where, game, what, new) ==
    /\ op = None /\ ops < MaxOps /\ ops' = ops + 1
    /\ op' = [kind |-> kind, slot |-> where, game |-> game, identity |-> what,
              new |-> new]

\* ap3-append-native-save-tag!: the save is tagged and staged, or the
\* descriptor is withdrawn because it goes to the card without a tag.
Tagged(what) ==
    /\ ready' = FALSE
    /\ pending' = what
    /\ loaded' = (loaded /\ what # None)
    /\ identity' = IF what = None THEN None ELSE identity
    /\ UNCHANGED <<proposed, consumed, fresh, gameNonce>>

\* A new game never inherits the identity that is published.
SaveNewGame(where) ==
    /\ games < MaxGames /\ games' = games + 1
    /\ \E what \in {IF Usable THEN proposed ELSE None, None} :
           /\ Native("save", where, games + 1, what, TRUE)
           /\ Tagged(what)
    /\ UNCHANGED <<running, bank, named, snapshot, forms, clientVars, faults>>

\* A later save keeps its identity; one without it takes the offer.
SaveGame(where) ==
    /\ LET own == IF identity # None THEN identity
                  ELSE IF Usable THEN proposed ELSE None
       IN  \E what \in {own, None} :
               /\ Native("save", where, running, what, FALSE)
               /\ Tagged(what)
    /\ UNCHANGED <<running, bank, games, named, snapshot, forms, clientVars, faults>>

\* ap3-auto-save-restore-code: nothing but diagnostics before the card is read.
Restore(where) ==
    /\ bank[where] # None
    /\ Native("reading", where, bank[where].game, bank[where].identity, FALSE)
    /\ UNCHANGED <<running, bank, games, named, goalVars, snapshot, forms,
                   clientVars, faults>>

\* ap3-load-game-wrapper: mc-load succeeded.  The descriptor is withdrawn and
\* the tag of the loaded save staged, if it has one.
LoadGame ==
    /\ op # None /\ op.kind = "reading"
    /\ op' = [op EXCEPT !.kind = "load"]
    /\ running' = op.game
    /\ loaded' = FALSE /\ identity' = None /\ ready' = FALSE
    /\ pending' = op.identity
    /\ UNCHANGED <<bank, games, ops, named, proposed, consumed, fresh, gameNonce,
                   snapshot, forms, clientVars, faults>>

\* ap3-publish-pending-native-save!: an offer that is published is consumed.
Publish ==
    IF pending = None
    THEN UNCHANGED <<loaded, identity, proposed, consumed>>
    ELSE /\ loaded' = TRUE /\ identity' = pending
         /\ consumed' = IF proposed = pending THEN pending ELSE consumed
         /\ proposed' = IF proposed = pending THEN None ELSE proposed

\* ap3-auto-save-done-code: the descriptor is published before native done
\* tells progress, which begins the new game.  After a new game native done
\* may not come back to the wrapper, which then cannot release its guard.
Done ==
    /\ op # None /\ op.kind # "reading"
    /\ Publish
    /\ op' = None /\ pending' = None
    /\ bank' = IF op.kind = "load" THEN bank
               ELSE [bank EXCEPT ![op.slot] = [game |-> op.game,
                                               identity |-> op.identity]]
    /\ named' = IF op.kind = "load" \/ op.identity = None THEN named
                ELSE named \cup {[identity |-> op.identity, game |-> op.game]}
    /\ running' = IF op.new THEN op.game ELSE running
    /\ \/ ready' = FALSE
       \/ op.new /\ pending # None /\ ready' = TRUE
    /\ UNCHANGED <<games, ops, fresh, gameNonce, snapshot, forms, clientVars, faults>>

\* mutant: a failed operation publishes what was staged
ErrorPublishing ==
    /\ op # None
    /\ Fault
    /\ op' = None /\ pending' = None /\ ready' = FALSE
    /\ Publish
    /\ UNCHANGED <<running, bank, games, ops, named, fresh, gameNonce, snapshot,
                   forms, clientVars>>

\* ap3-auto-save-error-code
Error ==
    /\ op # None
    /\ Fault
    /\ op' = None /\ pending' = None /\ ready' = FALSE
    /\ UNCHANGED <<running, bank, games, ops, named, loaded, identity, proposed,
                   consumed, fresh, gameNonce, snapshot, forms, clientVars>>

\* ap3-game-info-initialize-wrapper without a save: an unsaved game begins.
StartUnsaved ==
    /\ op = None
    /\ ready => Unobserved
    /\ games < MaxGames /\ games' = games + 1 /\ running' = games + 1
    /\ IF ready /\ loaded THEN UNCHANGED <<loaded, identity, ready>>
       ELSE loaded' = FALSE /\ identity' = None /\ ready' = FALSE
    /\ UNCHANGED <<bank, op, ops, named, pending, proposed, consumed, fresh,
                   gameNonce, snapshot, forms, clientVars, faults>>

\* Five seconds without a client.
Expire ==
    /\ fresh
    /\ Fault
    /\ fresh' = FALSE
    /\ UNCHANGED <<nativeVars, loaded, identity, pending, ready, proposed, consumed,
                   gameNonce, snapshot, forms, clientVars>>

\* ap3-init! of a bridge that is loaded again: the descriptor and the pending
\* operation stay, the client has to say hello again.
ReloadBridge ==
    /\ Fault
    /\ proposed' = None /\ consumed' = None /\ fresh' = FALSE /\ gameNonce' = None
    /\ snapshot' = None
    /\ UNCHANGED <<nativeVars, loaded, identity, pending, ready, forms, clientVars>>

\* gk ends and is started again; a save it was writing may be on the card.
RestartGame ==
    /\ games < MaxGames /\ games' = games + 1 /\ running' = games + 1
    /\ Fault
    /\ op' = None /\ pending' = None /\ ready' = FALSE
    /\ loaded' = FALSE /\ identity' = None
    /\ proposed' = None /\ consumed' = None /\ fresh' = FALSE /\ gameNonce' = None
    /\ \/ UNCHANGED <<bank, named>>
       \/ /\ op # None /\ op.kind = "save"
          /\ bank' = [bank EXCEPT ![op.slot] = [game |-> op.game,
                                                identity |-> op.identity]]
          /\ named' = IF op.identity = None THEN named
                      ELSE named \cup {[identity |-> op.identity, game |-> op.game]}
    /\ snapshot' = None
    /\ UNCHANGED <<ops, forms, clientVars>>

-----------------------------------------------------------------------------
(* The forms of the client.                                                *)

\* mutant: the acknowledgement of the consumption is not consulted
OfferedAnew(form) ==
    IF form.connected /\ form.offer # None /\ form.offer # identity
    THEN form.offer ELSE None

\* ap3-update-proposed-save-identity!, then ap3-update-client-state!.
Offered(form) ==
    IF form.connected /\ form.offer # None /\ form.offer # identity
       /\ form.offer # consumed
    THEN form.offer ELSE None

\* Every evaluation exports a snapshot; a dead auto-save process of a new game
\* is noticed then.
Evaluate ==
    /\ forms # <<>>
    /\ forms' = Tail(forms)
    /\ LET form == forms[1]
           accepted == form.kind = "hello" \/ (gameNonce # None /\ form.nonce = gameNonce)
       IN  /\ IF accepted
              THEN proposed' = Offered(form) /\ fresh' = form.connected
              ELSE UNCHANGED <<proposed, fresh>>
           /\ gameNonce' = IF form.kind = "hello" /\ gameNonce = None
                           THEN form.nonce ELSE gameNonce
           /\ snapshot' = [accepted |-> accepted, loaded |-> loaded,
                           identity |-> identity, consumed |-> consumed,
                           nonce |-> gameNonce']
    /\ ready' = (ready /\ op # None)
    /\ UNCHANGED <<nativeVars, loaded, identity, pending, consumed, clientVars, faults>>

-----------------------------------------------------------------------------
(* The client.                                                             *)

\* client_status is AP_CONNECTED: there is a socket and a name to log in with.
Status == server \in {"joining", "joined"} \/ (Gap /\ server = "greeting")

\* create_authorized_save_identity: fresh entropy, authorized on disk first.
Creates(what) == what \in Identities \ created /\ created' = created \cup {what}

OffersAnother == \E what \in Identities : Creates(what) /\ offer' = what

Sends(kind, number, what) ==
    /\ forms' = Append(forms, [kind |-> kind, nonce |-> number, offer |-> what,
                               connected |-> Status])
    /\ pc' = "waiting"

\* connect_repl: another BridgeProtocol, which knows nothing of the last.
Connect ==
    /\ pc = "down"
    /\ protocols' = protocols + 1
    /\ nonce' = None
    /\ \E what \in Identity :
           /\ IF authenticated THEN Creates(what)
              ELSE what = None /\ UNCHANGED created
           /\ offer' = what
           /\ Sends("hello", protocols, what)
    /\ UNCHANGED <<nativeVars, goalVars, snapshot, server, authenticated, drops, faults>>

Ping ==
    /\ pc = "idle"
    /\ Sends("ping", nonce, offer)
    /\ UNCHANGED <<nativeVars, goalVars, snapshot, nonce, offer, server,
                   authenticated, protocols, drops, created, faults>>

\* mutant: only the live descriptor tells that the offer is spent
SpentDescriptor ==
    /\ offer # None
    /\ snapshot.loaded /\ snapshot.identity = offer

\* _observe_snapshot: the offer is spent.
Spent ==
    /\ offer # None
    /\ \/ snapshot.consumed = offer
       \/ snapshot.loaded /\ snapshot.identity = offer

Answered == pc = "waiting" /\ forms = <<>>

Observe ==
    /\ Answered /\ snapshot # None /\ snapshot.accepted
    /\ pc' = "idle" /\ nonce' = snapshot.nonce
    /\ IF Spent THEN OffersAnother ELSE UNCHANGED <<offer, created>>
    /\ UNCHANGED <<nativeVars, goalVars, snapshot, forms, server, authenticated,
                   protocols, drops, faults>>

\* The deadline of a form that was refused, or of one the game is late with.
Refused ==
    /\ Answered /\ (snapshot # None => ~snapshot.accepted)
    /\ pc' = "down"
    /\ UNCHANGED <<nativeVars, goalVars, snapshot, forms, nonce, offer, server,
                   authenticated, protocols, drops, created, faults>>

TimesOut ==
    /\ pc = "waiting" /\ Fault
    /\ pc' = "down"
    /\ UNCHANGED <<nativeVars, goalVars, snapshot, forms, nonce, offer, server,
                   authenticated, protocols, drops, created>>

\* connection_closed: the name is forgotten, the authentication is not.
ServerLost ==
    /\ server # "down" /\ drops < MaxDrops /\ drops' = drops + 1
    /\ server' = "down"
    /\ UNCHANGED <<nativeVars, goalVars, snapshot, forms, pc, nonce, offer,
                   authenticated, protocols, created, faults>>

\* server_auth runs before the handler of RoomInfo.
ServerGreets ==
    /\ server = "down"
    /\ server' = "greeting"
    /\ UNCHANGED <<nativeVars, goalVars, snapshot, forms, pc, nonce, offer,
                   authenticated, protocols, drops, created, faults>>

OnRoomInfo ==
    /\ server = "greeting"
    /\ server' = "joining" /\ authenticated' = FALSE
    /\ offer' = None
    /\ UNCHANGED <<nativeVars, goalVars, snapshot, forms, pc, nonce, protocols,
                   drops, created, faults>>

OnConnected ==
    /\ server = "joining"
    /\ server' = "joined" /\ authenticated' = TRUE
    /\ IF pc = "down" THEN UNCHANGED <<offer, created>>
       ELSE OffersAnother
    /\ UNCHANGED <<nativeVars, goalVars, snapshot, forms, pc, nonce, protocols,
                   drops, faults>>

-----------------------------------------------------------------------------
Play ==
    \/ \E where \in Slots : SaveNewGame(where) \/ SaveGame(where) \/ Restore(where)
    \/ LoadGame \/ Done \/ Error \/ StartUnsaved

Next ==
    \/ Play \/ Expire \/ ReloadBridge \/ RestartGame
    \/ Evaluate
    \/ Connect \/ Ping \/ Observe \/ Refused \/ TimesOut
    \/ ServerLost \/ ServerGreets \/ OnRoomInfo \/ OnConnected

Init ==
    /\ running = 0 /\ bank = [where \in Slots |-> None] /\ op = None
    /\ loaded = FALSE /\ identity = None /\ pending = None /\ ready = FALSE
    /\ proposed = None /\ consumed = None /\ fresh = FALSE /\ gameNonce = None
    /\ snapshot = None /\ forms = <<>>
    /\ pc = "down" /\ nonce = None /\ offer = None
    /\ server = "down" /\ authenticated = FALSE
    /\ protocols = 0 /\ games = 0 /\ ops = 0 /\ drops = 0 /\ faults = 0
    /\ created = {} /\ named = {}

Spec == Init /\ [][Next]_vars

\* The supervisor's loop, the game and the connection to the server go on.
Fairness ==
    /\ WF_vars(Evaluate) /\ WF_vars(Connect) /\ WF_vars(Ping)
    /\ WF_vars(Observe) /\ WF_vars(Refused)
    /\ WF_vars(ServerGreets) /\ WF_vars(OnRoomInfo) /\ WF_vars(OnConnected)

FairSpec == Spec /\ Fairness

-----------------------------------------------------------------------------
\* protocol-3, "Two new saves cannot share one proposal": an identity on the
\* memory card belongs to one game for ever, whatever was staged, consumed,
\* offered again or lost meanwhile.
OneGamePerIdentity ==
    \A a, b \in named : a.identity = b.identity => a.game = b.game

\* The published descriptor is that of the game that is being played, so that
\* what is observed there is never attributed to another save.
DescriptorIsRunning ==
    loaded => [identity |-> identity, game |-> running] \in named

\* While the client is logged in it always comes back to having a fresh offer in
\* the game's hands (or there is no identity left in the model).
OfferReturns ==
    []<>(Usable \/ created = Identities)
=============================================================================
