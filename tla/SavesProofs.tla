----------------------------- MODULE SavesProofs -----------------------------
(***************************************************************************)
(* Two arguments about native saves.                                       *)
(*                                                                         *)
(* An identity names one game, and the published descriptor is that of the *)
(* game being played, for any set of identities and of native slots and    *)
(* any bounds, provided that a new game is observed before it is left and  *)
(* that no form is sent between the naming of the slot and RoomInfo.       *)
(* Without either condition TLC refutes it.                                *)
(*                                                                         *)
(* An offer reaches the game in forms that are evaluated in order, so the  *)
(* argument is about the queue: an identity the game knows is only at its  *)
(* head, because the client never returns to an offer it has replaced; and *)
(* as long as another form with it would be accepted, the game remembers   *)
(* that it is consumed.                                                    *)
(*                                                                         *)
(* The status of the goal is safe for any saves, slots and goal locations  *)
(* and any bounds on faults and connections: that part follows last, about *)
(* the instance G.                                                         *)
(***************************************************************************)
EXTENDS Saves, TLAPS

Observed == Unobserved = FALSE /\ Gap = FALSE

Names == {entry.identity : entry \in named}
Entry(what, game) == [identity |-> what, game |-> game]

\* The game was offered it, stages it or has written it.
Known(u) ==
    \/ u = proposed
    \/ op # None /\ op.identity = u
    \/ u \in Names

-----------------------------------------------------------------------------
(* The game.                                                                *)

\* What is staged for an operation, and whose game it is.
Staging ==
    op # None =>
        /\ op.kind = "reading" => pending = None
        /\ op.kind # "reading" => /\ pending = op.identity
                                  /\ pending = None => ~loaded
        /\ op.kind # "save" /\ op.identity # None
              => Entry(op.identity, op.game) \in named
        /\ op.kind = "load" => op.game = running
        /\ op.kind = "save" /\ ~op.new => op.game = running
        /\ op.kind = "save" /\ op.identity \in Names
              => Entry(op.identity, op.game) \in named
        /\ op.new => op.kind = "save"

\* What was ever published was written.
Written ==
    /\ identity # None => loaded
    /\ \A where \in Slots :
          bank[where] # None /\ bank[where].identity # None
             => Entry(bank[where].identity, bank[where].game) \in named
    /\ consumed # None => consumed \in Names
    /\ proposed \notin Names

-----------------------------------------------------------------------------
(* The queue.                                                               *)

\* A nonce is the number of one hello, and returns to no other activation.
NoncesOnce ==
    /\ pc = "idle" => forms = <<>>
    /\ snapshot # None => snapshot.nonce = gameNonce
    /\ gameNonce # None => gameNonce < protocols
    /\ nonce # None => nonce < protocols
    /\ \A k \in DOMAIN forms :
          /\ forms[k].nonce # None => forms[k].nonce < protocols
          /\ forms[k].kind = "hello" =>
                /\ forms[k].nonce # None
                /\ forms[k].nonce # gameNonce
                /\ \A j \in DOMAIN forms : forms[j].nonce = forms[k].nonce => j = k

\* Every identity there is was created.
AllCreated ==
    /\ offer # None => offer \in created
    /\ \A k \in DOMAIN forms : forms[k].offer # None => forms[k].offer \in created
    /\ \A u \in Identities : Known(u) => u \in created

\* The client does not return to an offer, ...
InRuns ==
    /\ \A j, k, l \in DOMAIN forms :
          j < k /\ k < l /\ forms[j].offer = forms[l].offer /\ forms[j].offer # None
             => forms[k].offer = forms[j].offer
    /\ \A j, k \in DOMAIN forms :
          j < k /\ forms[j].offer = offer /\ offer # None => forms[k].offer = offer

\* ... a hello is the first with its own, ...
HelloFirst ==
    \A k \in DOMAIN forms :
        forms[k].kind = "hello" /\ forms[k].offer # None =>
            /\ ~Known(forms[k].offer)
            /\ \A j \in DOMAIN forms : j < k => forms[j].offer # forms[k].offer

\* ... and an offer that was made without a server is not made with one again.
Disconnected ==
    /\ \A j, k \in DOMAIN forms :
          j < k /\ forms[j].offer = forms[k].offer /\ forms[j].offer # None
             => (forms[k].connected => forms[j].connected)
    /\ \A j \in DOMAIN forms :
          forms[j].offer = offer /\ offer # None /\ Status => forms[j].connected

\* What the game knows is at the head of the queue, ...
KnownFirst ==
    \A u \in Identities : Known(u) =>
        /\ \A k \in DOMAIN forms : forms[k].offer = u => forms[1].offer = u
        /\ u = offer /\ forms # <<>> => forms[1].offer = u

\* ... and the game has been offered nothing else since.
LastOffer ==
    \A u \in Identities :
        Known(u) /\ (u = offer \/ \E k \in DOMAIN forms : forms[k].offer = u)
           => proposed \in {None, u}

-----------------------------------------------------------------------------
(* Another form with the identity would be accepted.                        *)

Accepts(form) ==
    form.kind = "hello" \/ (gameNonce # None /\ form.nonce = gameNonce)

\* One is in the queue, ...
Queued(u) ==
    \E k \in DOMAIN forms :
        forms[k].offer = u /\ forms[k].connected /\ Accepts(forms[k])

\* ... or the client, whose last form was or will be accepted, may send one.
Current ==
    \/ pc = "idle" /\ gameNonce # None /\ nonce = gameNonce
    \/ pc = "waiting" /\ forms = <<>> /\ snapshot # None /\ snapshot.accepted
    \/ pc = "waiting" /\ forms # <<>> /\ Accepts(forms[Len(forms)])

Offerable(u) == Queued(u) \/ (offer = u /\ Status /\ Current)

\* Then a written identity is remembered as consumed, ...
Remembered == \A u \in Names : Offerable(u) => consumed = u

\* ... and one that is written for the first time will be.
WillBeConsumed ==
    op # None /\ op.identity # None /\ op.identity \notin Names
    /\ Offerable(op.identity)
        => proposed = op.identity

GameInv == Staging /\ Written /\ DescriptorIsRunning /\ OneGamePerIdentity
QueueInv ==
    /\ NoncesOnce /\ AllCreated
    /\ InRuns /\ HelloFirst /\ Disconnected /\ KnownFirst /\ LastOffer

BInv == TypeOK /\ GameInv /\ QueueInv /\ Remembered /\ WillBeConsumed

-----------------------------------------------------------------------------
LEMMA InitHolds == Init => BInv
  <1>1. SUFFICES ASSUME Init PROVE BInv
    OBVIOUS
  <1>2. TypeOK
    <2>1. loaded \in BOOLEAN /\ ready \in BOOLEAN /\ fresh \in BOOLEAN
          /\ authenticated \in BOOLEAN
      BY <1>1 DEF Init
    <2>2. QED
      BY <1>1, <2>1, BoundAssumption DEF Init, TypeOK, Games, Identity
  <1>6. GameInv
    BY <1>1, NoneAssumption
    DEF Init, GameInv, Staging, Written, DescriptorIsRunning,
        OneGamePerIdentity, Names
  <1>3. QueueInv
    BY <1>1, NoneAssumption
    DEF Init, QueueInv, NoncesOnce, AllCreated, InRuns, HelloFirst, Disconnected,
        KnownFirst, LastOffer, Known, Names
  <1>4. Remembered /\ WillBeConsumed
    BY <1>1 DEF Init, Remembered, WillBeConsumed, Names
  <1>5. QED
    BY <1>2, <1>3, <1>4, <1>6 DEF BInv

-----------------------------------------------------------------------------
(* The types.                                                               *)

\* What a native operation leaves alone.
LEMMA NativeType ==
    ASSUME TypeOK, NEW kind \in {"save", "reading", "load"}, NEW where \in Slots,
           NEW game \in Games, NEW what \in Identity, NEW new \in BOOLEAN,
           Native(kind, where, game, what, new)
    PROVE  op' \in Operation /\ op' # None /\ ops' \in Nat
  BY NoneAssumption DEF TypeOK, Native, Operation

LEMMA GamesType == games \in Nat /\ games < MaxGames => games + 1 \in Games
  BY BoundAssumption DEF Games

LEMMA GameTypes == TypeOK /\ (Play \/ Expire \/ ReloadBridge \/ RestartGame) => TypeOK'
  <1>. SUFFICES ASSUME TypeOK, Play \/ Expire \/ ReloadBridge \/ RestartGame
                PROVE  TypeOK'
    OBVIOUS
  <1>1. ASSUME NEW where \in Slots, SaveNewGame(where) PROVE TypeOK'
    <2>1. PICK what \in {IF Usable THEN proposed ELSE None, None} :
              Native("save", where, games + 1, what, TRUE) /\ Tagged(what)
      BY <1>1 DEF SaveNewGame
    <2>2. what \in Identity /\ games + 1 \in Games /\ games' \in Nat
      BY <1>1, GamesType DEF SaveNewGame, TypeOK, Identity
    <2>3. op' \in Operation /\ op' # None /\ ops' \in Nat
      BY <2>1, <2>2, NativeType
    <2>4. loaded' \in BOOLEAN /\ ready' \in BOOLEAN /\ (loaded' => identity' # None)
      BY <2>1 DEF Tagged, TypeOK
    <2>5. pending' \in Identity /\ identity' \in Identity
      BY <2>1, <2>2 DEF Tagged, TypeOK, Identity
    <2>6. QED
      BY <1>1, <2>1, <2>2, <2>3, <2>4, <2>5 DEF SaveNewGame, TypeOK, Tagged, clientVars
  <1>2. ASSUME NEW where \in Slots, SaveGame(where) PROVE TypeOK'
    <2>1. PICK what \in Identity : Native("save", where, running, what, FALSE) /\ Tagged(what)
      BY <1>2 DEF SaveGame, TypeOK, Identity
    <2>2. op' \in Operation /\ op' # None /\ ops' \in Nat
      BY <2>1, NativeType DEF TypeOK
    <2>3. loaded' \in BOOLEAN /\ ready' \in BOOLEAN /\ (loaded' => identity' # None)
      BY <2>1 DEF Tagged, TypeOK
    <2>4. pending' \in Identity /\ identity' \in Identity
      BY <2>1 DEF Tagged, TypeOK, Identity
    <2>5. QED
      BY <1>2, <2>1, <2>2, <2>3, <2>4 DEF SaveGame, TypeOK, Tagged, clientVars
  <1>3. ASSUME NEW where \in Slots, Restore(where) PROVE TypeOK'
    <2>1. bank[where].game \in Games /\ bank[where].identity \in Identity
      BY <1>3 DEF Restore, TypeOK, Save
    <2>2. op' \in Operation /\ op' # None /\ ops' \in Nat
      BY <1>3, <2>1, NativeType DEF Restore
    <2>3. QED
      BY <1>3, <2>2 DEF Restore, TypeOK, goalVars, clientVars
  <1>4. ASSUME LoadGame PROVE TypeOK'
    <2>1. op \in Operation /\ op # None
      BY <1>4 DEF LoadGame, TypeOK
    <2>2. op' \in Operation /\ op' # None /\ running' \in Games /\ pending' \in Identity
      BY <1>4, <2>1, NoneAssumption DEF LoadGame, Operation
    <2>3. /\ loaded' \in BOOLEAN /\ ready' \in BOOLEAN /\ (loaded' => identity' # None)
          /\ identity' \in Identity /\ op' # None
      BY <1>4, <2>2, NoneAssumption DEF LoadGame, Operation, Identity
    <2>4. UNCHANGED <<bank, games, ops, named, proposed, consumed, fresh, gameNonce,
                      snapshot, forms, clientVars, faults>>
      BY <1>4 DEF LoadGame
    <2>5. QED
      BY <2>2, <2>3, <2>4 DEF TypeOK, clientVars
  <1>5. ASSUME Done PROVE TypeOK'
    <2>1. op \in Operation
      BY <1>5 DEF Done, TypeOK
    <2>6. op.slot \in Slots /\ op.game \in Games
          /\ [game |-> op.game, identity |-> op.identity] \in Save
      BY <1>5, <2>1 DEF Done, Operation, Save
    <2>2. bank' \in [Slots -> Save \cup {None}] /\ running' \in Games
      BY <1>5, <2>6 DEF Done, TypeOK
    <2>5. named' \in SUBSET [identity: Identities, game: Games]
      BY <1>5, <2>1 DEF Done, TypeOK, Operation, Identity
    <2>3. /\ loaded' \in BOOLEAN /\ (loaded' => identity' # None)
          /\ identity' \in Identity /\ proposed' \in Identity /\ consumed' \in Identity
      BY <1>5 DEF Done, Publish, TypeOK, Identity
    <2>7. ready' \in BOOLEAN /\ op' = None /\ pending' = None
      BY <1>5 DEF Done, TypeOK
    <2>8. UNCHANGED <<games, ops, fresh, gameNonce, snapshot, forms, clientVars,
                      faults>>
      BY <1>5 DEF Done
    <2>4. QED
      BY <2>2, <2>3, <2>5, <2>7, <2>8 DEF TypeOK, clientVars, Identity
  <1>6. ASSUME Error \/ Expire \/ ReloadBridge PROVE TypeOK'
    <2>0. ready' \in {ready, FALSE} /\ fresh' \in {fresh, FALSE}
          /\ loaded' = loaded /\ identity' = identity
      BY <1>6 DEF Error, Expire, ReloadBridge
    <2>1. loaded' \in BOOLEAN /\ ready' \in BOOLEAN /\ fresh' \in BOOLEAN
          /\ (loaded' => identity' # None)
      BY <2>0 DEF TypeOK
    <2>2. CASE Error
      BY <2>1, <2>2 DEF Error, Fault, TypeOK, clientVars, Identity
    <2>3. CASE Expire
      BY <2>1, <2>3 DEF Expire, Fault, TypeOK, nativeVars, clientVars
    <2>4. CASE ReloadBridge
      BY <2>1, <2>4 DEF ReloadBridge, Fault, TypeOK, nativeVars, clientVars, Identity
    <2>5. QED
      BY <1>6, <2>2, <2>3, <2>4
  <1>7. ASSUME StartUnsaved PROVE TypeOK'
    <2>1. running' \in Games /\ games' \in Nat
      BY <1>7, GamesType DEF StartUnsaved, TypeOK
    <2>2. loaded' \in BOOLEAN /\ ready' \in BOOLEAN /\ identity' \in Identity
          /\ (loaded' => identity' # None)
      BY <1>7 DEF StartUnsaved, TypeOK, Identity
    <2>3. QED
      BY <1>7, <2>1, <2>2 DEF StartUnsaved, TypeOK, clientVars
  <1>8. ASSUME RestartGame PROVE TypeOK'
    <2>1. running' \in Games /\ games' \in Nat
      BY <1>8, GamesType DEF RestartGame, TypeOK
    <2>2. op # None => op \in Operation
      BY DEF TypeOK
    <2>3. bank' \in [Slots -> Save \cup {None}]
          /\ named' \in SUBSET [identity: Identities, game: Games]
      BY <1>8, <2>2 DEF RestartGame, TypeOK, Operation, Save, Identity
    <2>4. loaded' \in BOOLEAN /\ ready' \in BOOLEAN /\ fresh' \in BOOLEAN
          /\ (loaded' => identity' # None)
      BY <1>8 DEF RestartGame
    <2>5. QED
      BY <1>8, <2>1, <2>3, <2>4 DEF RestartGame, Fault, TypeOK, clientVars, Identity
  <1>9. QED
    BY <1>1, <1>2, <1>3, <1>4, <1>5, <1>6, <1>7, <1>8 DEF Play

LEMMA EvaluateType == TypeOK /\ Evaluate => TypeOK'
  <1>. SUFFICES ASSUME TypeOK, Evaluate PROVE TypeOK'
    OBVIOUS
  <1>1. forms[1] \in Form /\ forms' \in Seq(Form)
    BY DEF Evaluate, TypeOK
  <1>2. Offered(forms[1]) \in Identity
    BY <1>1 DEF Offered, Form, Identity
  <1>3. proposed' \in Identity /\ fresh' \in BOOLEAN /\ gameNonce' \in Nat \cup {None}
        /\ snapshot' \in Snapshot
    BY <1>1, <1>2 DEF Evaluate, TypeOK, Form, Snapshot
  <1>4. QED
    BY <1>1, <1>3 DEF Evaluate, TypeOK, nativeVars, clientVars

LEMMA ClientTypes ==
    TypeOK /\ (Connect \/ Ping \/ Observe \/ Refused \/ TimesOut \/ ServerLost
               \/ ServerGreets \/ OnRoomInfo \/ OnConnected) => TypeOK'
  <1>. SUFFICES ASSUME TypeOK,
                       Connect \/ Ping \/ Observe \/ Refused \/ TimesOut
                       \/ ServerLost \/ ServerGreets \/ OnRoomInfo \/ OnConnected
                PROVE  TypeOK'
    OBVIOUS
  <1>0. ASSUME NEW kind \in {"hello", "ping"}, NEW number \in Nat \cup {None},
               NEW what \in Identity, Sends(kind, number, what)
        PROVE  forms' \in Seq(Form) /\ pc' = "waiting"
    BY <1>0 DEF Sends, Form, Status, TypeOK
  <1>1. CASE Connect
    <2>1. PICK what \in Identity :
              /\ IF authenticated THEN Creates(what)
                 ELSE what = None /\ UNCHANGED created
              /\ offer' = what
              /\ Sends("hello", protocols, what)
      BY <1>1 DEF Connect
    <2>2. forms' \in Seq(Form) /\ pc' = "waiting"
      BY <1>0, <2>1 DEF TypeOK
    <2>3. created' \in SUBSET Identities
      BY <2>1 DEF Creates, TypeOK
    <2>4. QED
      BY <1>1, <2>1, <2>2, <2>3 DEF Connect, TypeOK, nativeVars, goalVars
  <1>2. CASE Ping
    <2>1. forms' \in Seq(Form) /\ pc' = "waiting"
      BY <1>0, <1>2 DEF Ping, TypeOK
    <2>2. QED
      BY <1>2, <2>1 DEF Ping, TypeOK, nativeVars, goalVars
  <1>3. OffersAnother => offer' \in Identity /\ created' \in SUBSET Identities
    BY DEF OffersAnother, Creates, TypeOK, Identity
  <1>4. CASE Observe
    <2>1. nonce' \in Nat \cup {None}
      BY <1>4 DEF Observe, TypeOK, Snapshot
    <2>2. QED
      BY <1>3, <1>4, <2>1 DEF Observe, TypeOK, nativeVars, goalVars
  <1>5. CASE OnConnected
    BY <1>3, <1>5 DEF OnConnected, TypeOK, nativeVars, goalVars
  <1>6. CASE Refused \/ TimesOut \/ ServerLost \/ ServerGreets \/ OnRoomInfo
    <2>1. authenticated' \in BOOLEAN /\ offer' \in Identity
      BY <1>6 DEF Refused, TimesOut, ServerLost, ServerGreets, OnRoomInfo, TypeOK, Identity
    <2>2. UNCHANGED <<nativeVars, goalVars, snapshot, forms, nonce, protocols, created>>
      BY <1>6 DEF Refused, TimesOut, ServerLost, ServerGreets, OnRoomInfo
    <2>3. /\ pc' \in {"down", "idle", "waiting"}
          /\ server' \in {"down", "greeting", "joining", "joined"}
          /\ drops' \in Nat /\ faults' \in Nat
      BY <1>6 DEF Refused, TimesOut, Fault, ServerLost, ServerGreets, OnRoomInfo, TypeOK
    <2>4. QED
      BY <2>1, <2>2, <2>3 DEF TypeOK, nativeVars, goalVars
  <1>7. QED
    BY <1>1, <1>2, <1>4, <1>5, <1>6

-----------------------------------------------------------------------------
(* The game.                                                                *)

\* Entries of one identity are of one game.
LEMMA EntryFacts ==
    ASSUME NEW u, NEW g
    PROVE  Entry(u, g).identity = u /\ Entry(u, g).game = g
  BY DEF Entry

LEMMA NamesOf == \A u, g : Entry(u, g) \in named => u \in Names
  BY DEF Entry, Names

LEMMA NamesType == TypeOK => Names \subseteq Identities /\ None \notin Names
  BY NoneAssumption DEF TypeOK, Names

\* A save that goes to the card under the published identity, under the offer,
\* or without one.
LEMMA Staged ==
    ASSUME TypeOK, GameInv, NEW where \in Slots, NEW game \in Games,
           NEW what \in Identity, NEW new \in BOOLEAN,
           Native("save", where, game, what, new), Tagged(what),
           UNCHANGED <<running, bank, named>>,
           new \/ game = running,
           what \in Names => Entry(what, game) \in named
    PROVE  GameInv'
  <1>1. /\ op'.kind = "save" /\ op'.game = game /\ op'.identity = what /\ op'.new = new
        /\ pending' = what
        /\ Names' = Names
    BY DEF Native, Tagged, Names
  <1>2. what = None => ~loaded' /\ identity' = None
    BY DEF Tagged
  <1>3. what # None => identity' = identity /\ (loaded' <=> loaded)
    BY DEF Tagged
  <1>4. Staging'
    BY <1>1, <1>2 DEF Staging, Entry
  <1>5. Written'
    BY <1>1, <1>2, <1>3 DEF GameInv, Written, Tagged, Entry
  <1>6. DescriptorIsRunning' /\ OneGamePerIdentity'
    BY <1>2, <1>3 DEF GameInv, DescriptorIsRunning, OneGamePerIdentity
  <1>7. QED
    BY <1>4, <1>5, <1>6 DEF GameInv

\* The offer the game would take names no game yet.
LEMMA OfferUnnamed ==
    ASSUME TypeOK, GameInv
    PROVE  (IF Usable THEN proposed ELSE None) \in Identity \ Names
  BY NamesType DEF GameInv, Written, TypeOK, Identity

LEMMA PublishedNamed ==
    ASSUME TypeOK, GameInv, identity # None
    PROVE  loaded /\ Entry(identity, running) \in named
  BY DEF GameInv, Written, DescriptorIsRunning, Entry

\* The memory card is done.  What it has written, or what a load has read, is
\* the identity that is published and consumed.
LEMMA DoneKept ==
    ASSUME TypeOK, GameInv, Done
    PROVE  GameInv' /\ Names' = Names \cup ({op.identity} \ {None})
  <1>1. /\ op \in Operation /\ op # None /\ op.kind \in {"save", "load"}
        /\ pending = op.identity /\ op' = None /\ pending' = None
        /\ pending = None => ~loaded
    BY DEF Done, TypeOK, Operation, GameInv, Staging
  <1>2. op.identity # None => Entry(op.identity, op.game) \in named'
    <2>1. CASE op.kind = "load"
      BY <2>1 DEF Done, GameInv, Staging
    <2>2. CASE op.kind = "save"
      BY <2>2 DEF Done, Entry
    <2>3. QED
      BY <1>1, <2>1, <2>2
  <1>3. /\ named \subseteq named'
        /\ \A entry \in named' : entry \in named
                                 \/ /\ op.kind = "save" /\ op.identity # None
                                    /\ entry = Entry(op.identity, op.game)
    BY <1>1 DEF Done, Entry
  <1>4. Names' = Names \cup ({op.identity} \ {None})
    <2>1. \A u \in Names' : u \in Names \/ (u = op.identity /\ u # None)
      BY <1>3 DEF Names, Entry
    <2>2. Names \subseteq Names'
      BY <1>3 DEF Names
    <2>3. op.identity # None => op.identity \in Names'
      BY <1>2 DEF Names, Entry
    <2>4. QED
      BY <2>1, <2>2, <2>3
  <1>5. running' = op.game \/ (pending = None /\ running' = running)
        \/ (op.kind = "save" /\ ~op.new /\ running' = running)
    BY <1>1 DEF Done, GameInv, Staging
  <1>6. running' = op.game \/ pending = None
    BY <1>1 DEF Done, GameInv, Staging
  <1>7. DescriptorIsRunning' /\ (identity' # None => loaded')
    <2>1. CASE pending = None
      BY <1>1, <2>1 DEF Done, Publish, GameInv, Written, DescriptorIsRunning
    <2>2. CASE pending # None
      BY <1>1, <1>2, <1>6, <2>2 DEF Done, Publish, DescriptorIsRunning, Entry
    <2>3. QED
      BY <2>1, <2>2
  <1>8. OneGamePerIdentity'
    <2>1. \A entry \in named : entry.identity = op.identity /\ op.kind = "save"
                                  => entry.game = op.game
      <3>1. SUFFICES ASSUME NEW entry \in named, entry.identity = op.identity,
                            op.kind = "save"
                     PROVE  entry.game = op.game
        OBVIOUS
      <3>2. Entry(op.identity, op.game) \in named
        BY <3>1 DEF GameInv, Staging, Names, Done
      <3>3. QED
        BY <3>1, <3>2, EntryFacts DEF GameInv, OneGamePerIdentity
    <2>2. \A a \in named' : a.identity = op.identity /\ op.kind = "save"
                               => a.game = op.game
      BY <1>3, <2>1, EntryFacts
    <2>3. QED
      BY <1>3, <2>2, EntryFacts DEF GameInv, OneGamePerIdentity
  <1>9. Written'
    <2>1. \A where \in Slots :
             bank'[where] # None /\ bank'[where].identity # None
                => Entry(bank'[where].identity, bank'[where].game) \in named'
      <3>1. SUFFICES ASSUME NEW where \in Slots,
                            bank'[where] # None /\ bank'[where].identity # None
                     PROVE  Entry(bank'[where].identity, bank'[where].game) \in named'
        OBVIOUS
      <3>2. CASE bank'[where] = bank[where]
        BY <1>3, <3>1, <3>2 DEF GameInv, Written
      <3>3. CASE bank'[where] = [game |-> op.game, identity |-> op.identity]
        BY <1>2, <3>1, <3>3
      <3>4. QED
        BY <3>2, <3>3 DEF Done, TypeOK
    <2>2. consumed' # None => consumed' \in Names'
      BY <1>1, <1>4 DEF Done, Publish, GameInv, Written
    <2>3. proposed' \notin Names'
      <3>1. None \notin Names'
        BY <1>4, NamesType
      <3>2. \/ proposed' = None
            \/ proposed' = proposed /\ (op.identity = None \/ proposed # op.identity)
        BY <1>1 DEF Done, Publish
      <3>3. QED
        BY <1>4, <3>1, <3>2 DEF GameInv, Written
    <2>4. QED
      BY <1>7, <2>1, <2>2, <2>3 DEF Written
  <1>10. Staging'
    BY <1>1 DEF Staging
  <1>11. QED
    BY <1>4, <1>7, <1>8, <1>9, <1>10 DEF GameInv

\* The game is started again; what it was writing may be on the card.
LEMMA RestartKept ==
    ASSUME TypeOK, GameInv, RestartGame
    PROVE  GameInv' /\ Names' \subseteq Names \cup (IF op # None THEN {op.identity} ELSE {})
  <1>1. op' = None /\ loaded' = FALSE /\ identity' = None /\ proposed' = None
        /\ consumed' = None
    BY DEF RestartGame
  <1>2. CASE UNCHANGED <<bank, named>>
    <2>1. Names' = Names
      BY <1>2 DEF Names
    <2>2. None \notin Names'
      BY <2>1, NamesType
    <2>3. QED
      BY <1>1, <1>2, <2>1, <2>2
      DEF GameInv, Staging, Written, DescriptorIsRunning, OneGamePerIdentity
  <1>3. CASE ~UNCHANGED <<bank, named>>
    <2>1. /\ op # None /\ op.kind = "save"
          /\ bank' = [bank EXCEPT ![op.slot] = [game |-> op.game,
                                                identity |-> op.identity]]
          /\ named' = IF op.identity = None THEN named
                      ELSE named \cup {Entry(op.identity, op.game)}
      BY <1>3 DEF RestartGame, Entry
    <2>2. named \subseteq named'
          /\ (op.identity # None => Entry(op.identity, op.game) \in named')
      BY <2>1
    <2>3. Names' \subseteq Names \cup ({op.identity} \ {None})
      BY <2>1 DEF Names, Entry
    <2>4. None \notin Names'
      BY <2>3, NamesType
    <2>5. OneGamePerIdentity'
      <3>1. \A entry \in named : entry.identity = op.identity => entry.game = op.game
        <4>1. SUFFICES ASSUME NEW entry \in named, entry.identity = op.identity
                       PROVE  entry.game = op.game
          OBVIOUS
        <4>2. Entry(op.identity, op.game) \in named
          BY <2>1, <4>1 DEF GameInv, Staging, Names
        <4>3. QED
          BY <4>1, <4>2, EntryFacts DEF GameInv, OneGamePerIdentity
      <3>2. QED
        BY <2>1, <3>1, EntryFacts DEF GameInv, OneGamePerIdentity
    <2>6. \A where \in Slots :
             bank'[where] # None /\ bank'[where].identity # None
                => Entry(bank'[where].identity, bank'[where].game) \in named'
      <3>1. SUFFICES ASSUME NEW where \in Slots,
                            bank'[where] # None /\ bank'[where].identity # None
                     PROVE  Entry(bank'[where].identity, bank'[where].game) \in named'
        OBVIOUS
      <3>2. CASE bank'[where] = bank[where]
        BY <2>2, <3>1, <3>2 DEF GameInv, Written
      <3>3. CASE bank'[where] = [game |-> op.game, identity |-> op.identity]
        BY <2>2, <3>1, <3>3
      <3>4. QED
        BY <2>1, <3>2, <3>3 DEF TypeOK
    <2>7. QED
      BY <1>1, <2>1, <2>3, <2>4, <2>5, <2>6
      DEF GameInv, Staging, Written, DescriptorIsRunning
  <1>4. QED
    BY <1>2, <1>3

\* Without another save on the card, what is published stays that of the
\* running game.
LEMMA OtherKept ==
    ASSUME TypeOK, GameInv, Observed,
           \/ \E where \in Slots : Restore(where)
           \/ LoadGame \/ Error \/ StartUnsaved \/ Expire \/ ReloadBridge
    PROVE  GameInv' /\ named' = named
  <1>1. Names' = Names /\ named' = named /\ bank' = bank
    BY DEF Restore, LoadGame, Error, StartUnsaved, Expire, ReloadBridge, nativeVars, Names
  <1>2. None \notin Names
    BY NamesType
  <1>3. OneGamePerIdentity'
    BY <1>1 DEF GameInv, OneGamePerIdentity
  <1>4. Written'
    <2>1. proposed' \in {proposed, None} /\ consumed' \in {consumed, None}
      BY DEF Restore, LoadGame, Error, StartUnsaved, Expire, ReloadBridge, goalVars
    <2>2. identity' # None => loaded'
      BY DEF Restore, LoadGame, Error, StartUnsaved, Expire, ReloadBridge, goalVars,
         GameInv, Written
    <2>3. QED
      BY <1>1, <1>2, <2>1, <2>2 DEF GameInv, Written
  <1>5. DescriptorIsRunning'
    <2>1. loaded' => loaded /\ identity' = identity /\ running' = running
      BY DEF Restore, LoadGame, Error, StartUnsaved, Expire, ReloadBridge, goalVars,
         nativeVars, Observed
    <2>2. QED
      BY <1>1, <2>1 DEF GameInv, DescriptorIsRunning
  <1>6. Staging'
    <2>1. CASE \E where \in Slots : Restore(where)
      <3>1. PICK where \in Slots : Restore(where)
        BY <2>1
      <3>2. op = None /\ op'.kind = "reading" /\ op'.new = FALSE /\ bank[where] # None
            /\ op'.identity = bank[where].identity /\ op'.game = bank[where].game
            /\ pending' = pending
        BY <3>1 DEF Restore, Native, goalVars
      <3>3. pending = None
        BY <3>2 DEF TypeOK
      <3>4. QED
        BY <1>1, <3>2, <3>3 DEF Staging, GameInv, Written
    <2>2. CASE LoadGame
      <3>1. op \in Operation /\ op # None /\ op.kind = "reading" /\ op.new = FALSE
        BY <2>2 DEF LoadGame, GameInv, Staging, TypeOK, Operation
      <3>2. op' = [op EXCEPT !.kind = "load"] /\ running' = op.game
            /\ pending' = op.identity /\ loaded' = FALSE
        BY <2>2 DEF LoadGame
      <3>3. /\ op'.kind = "load" /\ op'.identity = op.identity /\ op'.game = op.game
            /\ op'.new = FALSE
        BY <3>1, <3>2 DEF Operation
      <3>4. QED
        BY <1>1, <3>1, <3>2, <3>3 DEF Staging, GameInv
    <2>3. CASE Error \/ StartUnsaved
      BY <2>3 DEF Error, StartUnsaved, Staging
    <2>4. CASE Expire \/ ReloadBridge
      BY <1>1, <2>4 DEF Expire, ReloadBridge, nativeVars, GameInv, Staging
    <2>5. QED
      BY <2>1, <2>2, <2>3, <2>4
  <1>7. QED
    BY <1>1, <1>3, <1>4, <1>5, <1>6 DEF GameInv

\* A form changes the offer only; it is not of a written save, which would be
\* remembered as consumed.
LEMMA EvaluateKept ==
    ASSUME TypeOK, GameInv, QueueInv, Remembered, Evaluate
    PROVE  GameInv' /\ Names' = Names
  <1>1. forms # <<>> /\ 1 \in DOMAIN forms /\ forms[1] \in Form
    BY DEF Evaluate, TypeOK
  <1>2. Names' = Names /\ UNCHANGED <<running, bank, op, named, loaded, identity,
                                      pending, consumed>>
    BY DEF Evaluate, nativeVars, Names
  <1>3. proposed' \notin Names
    <2>1. proposed' = proposed \/ (Accepts(forms[1]) /\ proposed' = Offered(forms[1]))
      BY DEF Evaluate, Accepts
    <2>2. ASSUME Accepts(forms[1]), Offered(forms[1]) \in Names PROVE FALSE
      <3>1. /\ Offered(forms[1]) # None
            /\ Offered(forms[1]) = forms[1].offer
            /\ forms[1].connected /\ forms[1].offer # consumed
        BY <2>2, NamesType DEF Offered
      <3>2. Queued(forms[1].offer)
        BY <1>1, <2>2, <3>1 DEF Queued
      <3>3. QED
        BY <2>2, <3>1, <3>2 DEF Remembered, Offerable
    <2>3. QED
      BY <2>1, <2>2 DEF GameInv, Written
  <1>4. QED
    BY <1>2, <1>3 DEF GameInv, Staging, Written, DescriptorIsRunning, OneGamePerIdentity

-----------------------------------------------------------------------------
(* A step of the game leaves the queue and the client alone.                *)

\* Its activation goes on, or it begins another without a snapshot.
Resets == snapshot' = None /\ gameNonce' = None

LEMMA QueueRests ==
    ASSUME TypeOK, QueueInv, UNCHANGED <<forms, clientVars>>,
           UNCHANGED <<snapshot, gameNonce>> \/ Resets,
           proposed' \in {proposed, None},
           \A u \in Identities : Known(u)' => Known(u)
    PROVE  QueueInv'
  <1>1. UNCHANGED <<forms, pc, nonce, offer, server, authenticated, protocols, created>>
    BY DEF clientVars
  <1>2. NoncesOnce'
    BY <1>1 DEF QueueInv, NoncesOnce, Resets
  <1>3. AllCreated'
    BY <1>1 DEF QueueInv, AllCreated
  <1>4. InRuns' /\ Disconnected'
    BY <1>1 DEF QueueInv, InRuns, Disconnected, Status
  <1>5. HelloFirst'
    <2>1. \A k \in DOMAIN forms : forms[k].offer \in Identity
      <3>1. forms \in Seq(Form)
        BY DEF TypeOK
      <3>2. \A k \in DOMAIN forms : forms[k] \in Form
        BY <3>1
      <3>3. QED
        BY <3>2 DEF Form
    <2>2. QED
      BY <1>1, <2>1 DEF QueueInv, HelloFirst, Identity
  <1>6. KnownFirst'
    BY <1>1 DEF QueueInv, KnownFirst
  <1>7. LastOffer'
    BY <1>1 DEF QueueInv, LastOffer
  <1>8. QED
    BY <1>2, <1>3, <1>4, <1>5, <1>6, <1>7 DEF QueueInv

LEMMA OfferableRests ==
    ASSUME UNCHANGED <<forms, clientVars, snapshot, gameNonce>>, NEW u
    PROVE  Offerable(u)' <=> Offerable(u)
  BY DEF Offerable, Queued, Current, Accepts, Status, clientVars

\* Of an activation that has just begun, only a hello is accepted, and that
\* offers nothing the game has known.
LEMMA NothingKnownIsOfferable ==
    ASSUME TypeOK, QueueInv, UNCHANGED <<forms, clientVars>>, Resets,
           NEW u \in Identities, Known(u)
    PROVE  ~Offerable(u)'
  <1>1. UNCHANGED <<forms, pc, nonce, offer, server>>
    BY DEF clientVars
  <1>2. u # None
    BY NoneAssumption
  <1>3. \A k \in DOMAIN forms : Accepts(forms[k])' => forms[k].kind = "hello"
    BY <1>1 DEF Accepts, Resets
  <1>4. \A k \in DOMAIN forms : forms[k].kind = "hello" => forms[k].offer # u
    BY <1>2 DEF QueueInv, HelloFirst
  <1>5. ~Queued(u)'
    BY <1>1, <1>3, <1>4 DEF Queued, Accepts
  <1>6. ASSUME offer = u, Current' PROVE FALSE
    <2>1. forms # <<>> /\ Accepts(forms[Len(forms)])'
      BY <1>1, <1>6 DEF Current, Accepts, Resets
    <2>2. Len(forms) \in Nat /\ Len(forms) >= 1 /\ DOMAIN forms = 1 .. Len(forms)
      BY <2>1 DEF TypeOK
    <2>3. forms[Len(forms)].kind = "hello"
      BY <1>3, <2>1, <2>2
    <2>4. forms[1].offer = u
      BY <1>6, <2>1 DEF QueueInv, KnownFirst
    <2>5. forms[Len(forms)].offer = u
      <3>1. CASE Len(forms) = 1
        BY <2>4, <3>1
      <3>2. CASE Len(forms) > 1
        BY <1>2, <1>6, <2>2, <2>4, <3>2 DEF QueueInv, InRuns
      <3>3. QED
        BY <2>2, <3>1, <3>2
    <2>6. QED
      BY <1>4, <2>2, <2>3, <2>5
  <1>7. QED
    BY <1>1, <1>5, <1>6 DEF Offerable

\* What every operation has in common: no form, no name but the staged one.
LEMMA OperationKept ==
    ASSUME BInv, GameInv', UNCHANGED <<forms, clientVars, snapshot, gameNonce>>,
           \A u \in Identities : Known(u)' => Known(u),
           proposed' = proposed, consumed' = consumed, Names' = Names,
           op' # None /\ op'.identity # None /\ op'.identity \notin Names
              => op'.identity = proposed \/ (op # None /\ op.identity = op'.identity)
    PROVE  QueueInv' /\ Remembered' /\ WillBeConsumed'
  <1>1. QueueInv'
    BY QueueRests DEF BInv
  <1>2. Remembered'
    BY OfferableRests DEF BInv, Remembered
  <1>3. WillBeConsumed'
    BY OfferableRests DEF BInv, WillBeConsumed
  <1>4. QED
    BY <1>1, <1>2, <1>3

LEMMA OperationStep ==
    ASSUME BInv, Observed, NEW where \in Slots,
           SaveNewGame(where) \/ SaveGame(where) \/ Restore(where)
    PROVE  BInv'
  <1>0. TypeOK'
    BY GameTypes DEF BInv, Play
  <1>1. CASE SaveNewGame(where)
    <2>1. PICK what \in {IF Usable THEN proposed ELSE None, None} :
              Native("save", where, games + 1, what, TRUE) /\ Tagged(what)
      BY <1>1 DEF SaveNewGame
    <2>2. what \in Identity \ Names /\ games + 1 \in Games
      BY <1>1, <2>1, OfferUnnamed, NamesType, GamesType DEF SaveNewGame, BInv, TypeOK, Identity
    <2>3. UNCHANGED <<running, bank, named>>
      BY <1>1 DEF SaveNewGame
    <2>4. GameInv'
      BY <2>1, <2>2, <2>3, Staged DEF BInv
    <2>5. /\ UNCHANGED <<forms, clientVars, snapshot, gameNonce, proposed, consumed>>
          /\ Names' = Names /\ op'.identity = what /\ what \in {proposed, None}
      BY <1>1, <2>1 DEF SaveNewGame, Tagged, Names, Native
    <2>6. \A u \in Identities : Known(u)' => Known(u)
      BY <2>5, NoneAssumption DEF Known
    <2>7. QED
      BY <1>0, <2>4, <2>5, <2>6, OperationKept DEF BInv
  <1>2. CASE SaveGame(where)
    <2>1. PICK what \in {IF identity # None THEN identity
                         ELSE IF Usable THEN proposed ELSE None, None} :
              Native("save", where, running, what, FALSE) /\ Tagged(what)
      BY <1>2 DEF SaveGame
    <2>2. what \in Identity /\ (what \in Names => Entry(what, running) \in named)
      <3>1. CASE what = identity /\ identity # None
        BY <3>1, PublishedNamed DEF BInv, TypeOK
      <3>2. CASE what \in {IF Usable THEN proposed ELSE None, None}
        BY <3>2, OfferUnnamed, NamesType DEF BInv, Identity
      <3>3. QED
        BY <2>1, <3>1, <3>2
    <2>3. UNCHANGED <<running, bank, named>> /\ running \in Games
      BY <1>2 DEF SaveGame, BInv, TypeOK
    <2>4. GameInv'
      BY <2>1, <2>2, <2>3, Staged DEF BInv
    <2>5. /\ UNCHANGED <<forms, clientVars, snapshot, gameNonce, proposed, consumed>>
          /\ Names' = Names /\ op'.identity = what /\ what \in {identity, proposed, None}
      BY <1>2, <2>1 DEF SaveGame, Tagged, Names, Native
    <2>6. what \in {proposed, None} \/ what \in Names
      BY <2>5, PublishedNamed, NamesOf DEF BInv
    <2>7. \A u \in Identities : Known(u)' => Known(u)
      BY <2>5, <2>6, NoneAssumption DEF Known
    <2>8. QED
      BY <1>0, <2>4, <2>5, <2>6, <2>7, OperationKept DEF BInv
  <1>3. CASE Restore(where)
    <2>1. GameInv' /\ named' = named
      BY <1>3, OtherKept DEF BInv
    <2>2. /\ UNCHANGED <<forms, clientVars, snapshot, gameNonce, proposed, consumed>>
          /\ op'.identity = bank[where].identity /\ bank[where] # None
      BY <1>3 DEF Restore, Native, goalVars
    <2>3. Names' = Names
      BY <2>1 DEF Names
    <2>4. op'.identity # None => op'.identity \in Names
      BY <2>2, NamesOf DEF BInv, GameInv, Written
    <2>5. \A u \in Identities : Known(u)' => Known(u)
      BY <2>2, <2>3, <2>4, NoneAssumption DEF Known
    <2>6. QED
      BY <1>0, <2>1, <2>2, <2>3, <2>4, <2>5, OperationKept DEF BInv
  <1>4. QED
    BY <1>1, <1>2, <1>3

\* The descriptor of a loaded save, of another game or of none.
LEMMA OtherStep ==
    ASSUME BInv, Observed, LoadGame \/ Error \/ StartUnsaved \/ Expire
    PROVE  BInv'
  <1>1. TypeOK'
    BY GameTypes DEF BInv, Play
  <1>2. GameInv' /\ Names' = Names
    BY OtherKept DEF BInv, Names
  <1>3. /\ UNCHANGED <<forms, clientVars, snapshot, gameNonce, proposed, consumed>>
        /\ op' # None => op # None /\ op'.identity = op.identity
    <2>1. CASE LoadGame
      <3>1. op \in Operation /\ op # None
        BY <2>1 DEF LoadGame, BInv, TypeOK
      <3>2. op' = [op EXCEPT !.kind = "load"]
        BY <2>1 DEF LoadGame
      <3>3. op'.identity = op.identity
        BY <3>1, <3>2 DEF Operation
      <3>4. QED
        BY <2>1, <3>1, <3>3 DEF LoadGame
    <2>2. CASE Error \/ StartUnsaved \/ Expire
      BY <2>2 DEF Error, StartUnsaved, Expire, nativeVars
    <2>3. QED
      BY <2>1, <2>2
  <1>4. \A u \in Identities : Known(u)' => Known(u)
    BY <1>2, <1>3 DEF Known
  <1>5. QED
    BY <1>1, <1>2, <1>3, <1>4, OperationKept DEF BInv

\* A new name is consumed, and no other one that could be offered again is
\* forgotten for it.
LEMMA DoneStep ==
    ASSUME BInv, Done
    PROVE  BInv'
  <1>1. TypeOK'
    BY GameTypes DEF BInv, Play
  <1>2. GameInv' /\ Names' = Names \cup ({op.identity} \ {None})
    BY DoneKept DEF BInv
  <1>3. /\ UNCHANGED <<forms, clientVars, snapshot, gameNonce>> /\ op' = None
        /\ op \in Operation /\ op # None /\ pending = op.identity
    BY DEF Done, BInv, TypeOK, Operation, GameInv, Staging
  <1>4. \/ proposed' = proposed /\ consumed' = consumed
           /\ (op.identity = None \/ proposed # op.identity)
        \/ proposed' = None /\ consumed' = op.identity /\ proposed = op.identity
           /\ op.identity # None
    BY <1>3 DEF Done, Publish
  <1>5. \A u \in Identities : Known(u)' => Known(u)
    <2>1. SUFFICES ASSUME NEW u \in Identities, Known(u)' PROVE Known(u)
      OBVIOUS
    <2>2. u # None
      BY NoneAssumption
    <2>3. u = proposed' \/ u \in Names'
      BY <1>3, <2>1 DEF Known
    <2>4. QED
      BY <1>2, <1>3, <1>4, <2>2, <2>3 DEF Known
  <1>6. QueueInv'
    BY <1>3, <1>4, <1>5, QueueRests DEF BInv
  <1>7. Remembered'
    <2>1. SUFFICES ASSUME NEW u \in Names', Offerable(u)' PROVE consumed' = u
      BY DEF Remembered
    <2>2. Offerable(u) /\ u \in Identities /\ u # None
      BY <1>1, <1>3, <2>1, OfferableRests, NoneAssumption DEF TypeOK, Names
    <2>3. CASE u \in Names
      <3>1. consumed = u /\ Known(u)
        BY <2>2, <2>3 DEF BInv, Remembered, Known
      <3>2. u = offer \/ \E k \in DOMAIN forms : forms[k].offer = u
        BY <2>2 DEF Offerable, Queued
      <3>3. proposed \in {None, u}
        BY <2>2, <3>1, <3>2 DEF BInv, QueueInv, LastOffer
      <3>4. QED
        BY <1>4, <3>1, <3>3
    <2>4. CASE u \notin Names
      <3>1. u = op.identity
        BY <1>2, <2>1, <2>4
      <3>2. proposed = u
        BY <1>3, <2>2, <2>4, <3>1 DEF BInv, WillBeConsumed
      <3>3. QED
        BY <1>4, <2>2, <3>1, <3>2
    <2>5. QED
      BY <2>3, <2>4
  <1>8. WillBeConsumed'
    BY <1>3 DEF WillBeConsumed
  <1>9. QED
    BY <1>1, <1>2, <1>6, <1>7, <1>8 DEF BInv

LEMMA ResetStep ==
    ASSUME BInv, Observed, ReloadBridge \/ RestartGame
    PROVE  BInv'
  <1>1. TypeOK'
    BY GameTypes DEF BInv
  <1>2. /\ UNCHANGED <<forms, clientVars>> /\ Resets /\ proposed' = None
        /\ op' # None => op' = op
    BY DEF ReloadBridge, RestartGame, Resets, nativeVars
  <1>3. GameInv' /\ Names' \subseteq Names \cup (IF op # None THEN {op.identity} ELSE {})
    <2>1. CASE ReloadBridge
      BY <2>1, OtherKept DEF BInv, Names
    <2>2. CASE RestartGame
      BY <2>2, RestartKept DEF BInv
    <2>3. QED
      BY <2>1, <2>2
  <1>4. \A u \in Identities : Known(u)' => Known(u)
    BY <1>2, <1>3, NoneAssumption DEF Known
  <1>5. QueueInv'
    BY <1>2, <1>4, QueueRests DEF BInv
  <1>6. \A u \in Identities : Known(u)' => ~Offerable(u)'
    BY <1>2, <1>4, NothingKnownIsOfferable DEF BInv
  <1>7. Remembered'
    <2>1. \A u \in Names' : u \in Identities /\ Known(u)'
      BY <1>1 DEF TypeOK, Names, Known
    <2>2. QED
      BY <1>6, <2>1 DEF Remembered
  <1>8. WillBeConsumed'
    <2>1. \A u : op' # None /\ op'.identity = u /\ u # None => u \in Identities /\ Known(u)'
      BY <1>1 DEF TypeOK, Operation, Identity, Known
    <2>2. QED
      BY <1>6, <2>1 DEF WillBeConsumed
  <1>9. QED
    BY <1>1, <1>3, <1>5, <1>7, <1>8 DEF BInv

-----------------------------------------------------------------------------
(* The game evaluates the head of the queue.                                *)

Shifted ==
    /\ Len(forms) \in Nat /\ Len(forms) >= 1 /\ DOMAIN forms = 1 .. Len(forms)
    /\ Len(forms') = Len(forms) - 1 /\ DOMAIN forms' = 1 .. Len(forms) - 1
    /\ \A k \in DOMAIN forms' : k + 1 \in DOMAIN forms /\ forms'[k] = forms[k + 1]
    /\ (forms' = <<>>) <=> (Len(forms) = 1)
    /\ forms[1] \in Form

\* What one evaluation changes.
Answers ==
    /\ UNCHANGED <<op, named, identity, loaded, consumed, pc, nonce, offer,
                   server, authenticated, protocols, created>>
    /\ Names' = Names
    /\ IF Accepts(forms[1]) THEN proposed' = Offered(forms[1])
       ELSE proposed' = proposed
    /\ \/ gameNonce' = gameNonce
       \/ forms[1].kind = "hello" /\ gameNonce' = forms[1].nonce
    /\ snapshot' # None /\ snapshot'.nonce = gameNonce'
    /\ snapshot'.accepted <=> Accepts(forms[1])

LEMMA HeadFacts ==
    ASSUME TypeOK, Evaluate
    PROVE  Shifted
  <1>1. forms # <<>> /\ forms \in Seq(Form) /\ forms' = Tail(forms)
    BY DEF Evaluate, TypeOK
  <1>2. Len(forms) \in Nat /\ Len(forms) >= 1 /\ DOMAIN forms = 1 .. Len(forms)
    BY <1>1
  <1>3. Len(forms') = Len(forms) - 1 /\ DOMAIN forms' = 1 .. Len(forms) - 1
        /\ \A k \in DOMAIN forms' : k + 1 \in DOMAIN forms /\ forms'[k] = forms[k + 1]
    BY <1>1
  <1>4. forms' = <<>> <=> Len(forms) = 1
    <2>1. forms' \in Seq(Form)
      BY <1>1
    <2>2. QED
      BY <1>2, <1>3, <2>1
  <1>5. forms[1] \in Form
    BY <1>1, <1>2
  <1>6. QED
    BY <1>2, <1>3, <1>4, <1>5 DEF Shifted

LEMMA EvaluateFacts ==
    ASSUME TypeOK, Evaluate
    PROVE  Answers
  <1>1. snapshot' = [accepted |-> Accepts(forms[1]), loaded |-> loaded,
                     identity |-> identity, consumed |-> consumed,
                     nonce |-> gameNonce']
    BY DEF Evaluate, Accepts
  <1>2. snapshot' \in Snapshot
    <2>1. Accepts(forms[1]) \in BOOLEAN
      BY DEF Accepts
    <2>2. loaded \in BOOLEAN /\ identity \in Identity /\ consumed \in Identity
          /\ gameNonce' \in Nat \cup {None}
      BY EvaluateType DEF TypeOK
    <2>3. QED
      BY <1>1, <2>1, <2>2 DEF Snapshot
  <1>3. snapshot' # None
    BY <1>2, NoneAssumption
  <1>4. QED
    <2>1. snapshot'.nonce = gameNonce' /\ snapshot'.accepted = Accepts(forms[1])
      BY <1>1
    <2>2. UNCHANGED <<op, named, identity, loaded, consumed, pc, nonce, offer,
                      server, authenticated, protocols, created>>
      BY DEF Evaluate, nativeVars, clientVars
    <2>3. Names' = Names
      BY <2>2 DEF Names
    <2>4. /\ IF Accepts(forms[1]) THEN proposed' = Offered(forms[1])
             ELSE proposed' = proposed
          /\ \/ gameNonce' = gameNonce
             \/ forms[1].kind = "hello" /\ gameNonce' = forms[1].nonce
      BY DEF Evaluate, Accepts
    <2>5. QED
      BY <1>3, <2>1, <2>2, <2>3, <2>4 DEF Answers

\* The only identity the game learns is that of the form.
LEMMA Learns ==
    ASSUME BInv, Evaluate, NEW u \in Identities, Known(u)'
    PROVE  Known(u) \/ (u = forms[1].offer /\ Accepts(forms[1]) /\ proposed' = u)
  <1>1. u # None
    BY NoneAssumption
  <1>2. QED
    BY <1>1, EvaluateFacts DEF BInv, Known, Offered, Answers

\* What it knows and may see again, it sees now.
LEMMA AtHead ==
    ASSUME BInv, Evaluate, NEW u \in Identities, Known(u) \/ u = forms[1].offer,
           u = offer \/ \E k \in DOMAIN forms : forms[k].offer = u
    PROVE  forms[1].offer = u
  BY DEF BInv, QueueInv, KnownFirst, Evaluate

LEMMA EvaluateQueue ==
    ASSUME BInv, Evaluate
    PROVE  QueueInv'
  <1>. Shifted /\ Answers
    BY HeadFacts, EvaluateFacts DEF BInv
  <1>. USE DEF Shifted, Answers
  <1>0. TypeOK /\ NoncesOnce /\ AllCreated /\ InRuns /\ HelloFirst /\ Disconnected
        /\ KnownFirst /\ LastOffer
    BY DEF BInv, QueueInv
  <1>1. NoncesOnce'
    <2>1. pc # "idle" /\ forms # <<>>
      BY <1>0 DEF NoncesOnce
    <2>2. gameNonce' # None => gameNonce' < protocols
      BY <1>0 DEF NoncesOnce
    <2>3. ASSUME NEW k \in DOMAIN forms'
          PROVE  /\ forms'[k].nonce # None => forms'[k].nonce < protocols
                 /\ forms'[k].kind = "hello" =>
                       /\ forms'[k].nonce # None
                       /\ forms'[k].nonce # gameNonce'
                       /\ \A j \in DOMAIN forms' : forms'[j].nonce = forms'[k].nonce => j = k
      BY <1>0, <2>3 DEF NoncesOnce
    <2>4. QED
      BY <1>0, <2>1, <2>2, <2>3 DEF NoncesOnce
  <1>2. AllCreated'
    <2>1. \A k \in DOMAIN forms' : forms'[k].offer # None => forms'[k].offer \in created
      BY <1>0 DEF AllCreated
    <2>2. \A u \in Identities : Known(u)' => u \in created
      <3>1. SUFFICES ASSUME NEW u \in Identities, Known(u)' PROVE u \in created
        OBVIOUS
      <3>2. u # None /\ 1 \in DOMAIN forms
        BY NoneAssumption
      <3>3. QED
        BY <1>0, <3>1, <3>2, Learns DEF AllCreated
    <2>3. QED
      BY <1>0, <2>1, <2>2 DEF AllCreated
  <1>3. InRuns'
    <2>1. ASSUME NEW j \in DOMAIN forms', NEW k \in DOMAIN forms', NEW l \in DOMAIN forms',
                 j < k, k < l, forms'[j].offer = forms'[l].offer, forms'[j].offer # None
          PROVE  forms'[k].offer = forms'[j].offer
      BY <1>0, <2>1 DEF InRuns
    <2>2. ASSUME NEW j \in DOMAIN forms', NEW k \in DOMAIN forms',
                 j < k, forms'[j].offer = offer, offer # None
          PROVE  forms'[k].offer = offer
      BY <1>0, <2>2 DEF InRuns
    <2>3. QED
      BY <2>1, <2>2 DEF InRuns
  <1>4. HelloFirst'
    <2>1. SUFFICES ASSUME NEW k \in DOMAIN forms', forms'[k].kind = "hello",
                          forms'[k].offer # None
                   PROVE  /\ ~(forms'[k].offer = proposed')
                          /\ ~(op' # None /\ op'.identity = forms'[k].offer)
                          /\ ~(forms'[k].offer \in Names')
                          /\ \A j \in DOMAIN forms' : j < k => forms'[j].offer # forms'[k].offer
      BY DEF HelloFirst, Known
    <2>2. /\ k + 1 \in DOMAIN forms /\ forms[k + 1].kind = "hello"
          /\ forms[k + 1].offer # None /\ forms'[k].offer = forms[k + 1].offer
          /\ 1 < k + 1 /\ 1 \in DOMAIN forms
      BY <2>1
    <2>3. ~Known(forms[k + 1].offer) /\ forms[1].offer # forms[k + 1].offer
      BY <1>0, <2>2 DEF HelloFirst
    <2>4. proposed' # forms[k + 1].offer
      BY <2>2, <2>3 DEF Known, Offered
    <2>5. \A j \in DOMAIN forms' : j < k => forms'[j].offer # forms'[k].offer
      BY <1>0, <2>2 DEF HelloFirst
    <2>6. QED
      BY <2>2, <2>3, <2>4, <2>5 DEF Known
  <1>5. Disconnected'
    <2>1. ASSUME NEW j \in DOMAIN forms', NEW k \in DOMAIN forms', j < k,
                 forms'[j].offer = forms'[k].offer, forms'[j].offer # None,
                 forms'[k].connected
          PROVE  forms'[j].connected
      BY <1>0, <2>1 DEF Disconnected
    <2>2. ASSUME NEW j \in DOMAIN forms', forms'[j].offer = offer, offer # None, Status
          PROVE  forms'[j].connected
      BY <1>0, <2>2 DEF Disconnected
    <2>3. QED
      BY <2>1, <2>2 DEF Disconnected, Status
  <1>6. ASSUME NEW u \in Identities, Known(u)'
        PROVE  /\ \A k \in DOMAIN forms' : forms'[k].offer = u => forms'[1].offer = u
               /\ u = offer /\ forms' # <<>> => forms'[1].offer = u
               /\ (u = offer \/ \E k \in DOMAIN forms' : forms'[k].offer = u)
                     => proposed' \in {None, u}
    <2>1. u # None /\ (Known(u) \/ u = forms[1].offer)
      BY <1>6, Learns, NoneAssumption
    <2>2. (u = offer \/ \E k \in DOMAIN forms' : forms'[k].offer = u)
             => forms[1].offer = u
      BY <2>1, AtHead
    <2>3. ASSUME NEW k \in DOMAIN forms', forms'[k].offer = u
          PROVE  forms'[1].offer = u
      <3>1. forms[1].offer = u /\ forms[k + 1].offer = u
        BY <2>2, <2>3
      <3>2. CASE k = 1
        BY <2>3, <3>2
      <3>3. CASE k > 1
        <4>1. 1 \in DOMAIN forms /\ 2 \in DOMAIN forms /\ k + 1 \in DOMAIN forms /\ k + 1 > 2
              /\ k \in Nat
          BY <3>3
        <4>2. forms[2].offer = u
          BY <1>0, <2>1, <3>1, <4>1 DEF InRuns
        <4>3. QED
          BY <3>3, <4>2
      <3>4. QED
        BY <3>2, <3>3
    <2>4. ASSUME u = offer, forms' # <<>> PROVE forms'[1].offer = u
      <3>1. 1 \in DOMAIN forms /\ 2 \in DOMAIN forms /\ 1 \in DOMAIN forms'
        BY <2>4
      <3>2. forms[2].offer = u
        BY <1>0, <2>1, <2>2, <2>4, <3>1 DEF InRuns
      <3>3. QED
        BY <3>1, <3>2
    <2>5. ASSUME u = offer \/ \E k \in DOMAIN forms' : forms'[k].offer = u
          PROVE  proposed' \in {None, u}
      <3>1. forms[1].offer = u /\ 1 \in DOMAIN forms
        BY <2>2, <2>5
      <3>2. CASE Accepts(forms[1])
        BY <3>1, <3>2 DEF Offered
      <3>3. CASE ~Accepts(forms[1])
        <4>1. Known(u)
          BY <1>6, <3>3, Learns
        <4>2. QED
          BY <1>0, <3>1, <3>3, <4>1 DEF LastOffer
      <3>4. QED
        BY <3>2, <3>3
    <2>6. QED
      BY <2>3, <2>4, <2>5
  <1>7. KnownFirst' /\ LastOffer'
    BY <1>6 DEF KnownFirst, LastOffer
  <1>8. QED
    BY <1>1, <1>2, <1>3, <1>4, <1>5, <1>7 DEF QueueInv

\* What is accepted afterwards would be before: a nonce that begins an
\* activation is that of one form.
LEMMA AcceptedBefore ==
    ASSUME BInv, Evaluate, NEW k \in DOMAIN forms',
           forms'[k].kind = "hello" \/ (gameNonce' # None /\ forms'[k].nonce = gameNonce')
    PROVE  Accepts(forms[k + 1])
  <1>1. /\ k + 1 \in DOMAIN forms /\ 1 \in DOMAIN forms /\ forms'[k] = forms[k + 1]
        /\ k \in Nat /\ k >= 1
    BY HeadFacts DEF BInv, Shifted
  <1>2. CASE forms[k + 1].kind = "hello"
    BY <1>2 DEF Accepts
  <1>3. CASE forms[k + 1].kind # "hello"
    <2>1. gameNonce' # None /\ forms[k + 1].nonce = gameNonce'
      BY <1>1, <1>3
    <2>2. ~(forms[1].kind = "hello" /\ gameNonce' = forms[1].nonce)
      BY <1>1, <2>1 DEF BInv, QueueInv, NoncesOnce
    <2>3. gameNonce' = gameNonce
      BY <2>2, EvaluateFacts DEF BInv, Answers
    <2>4. QED
      BY <2>1, <2>3 DEF Accepts
  <1>4. QED
    BY <1>2, <1>3

LEMMA OfferableBefore ==
    ASSUME BInv, Evaluate, NEW u \in Identities, Offerable(u)'
    PROVE  Offerable(u)
  <1>. Shifted /\ Answers
    BY HeadFacts, EvaluateFacts DEF BInv
  <1>1. CASE Queued(u)'
    <2>1. PICK k \in DOMAIN forms' :
              /\ forms'[k].offer = u /\ forms'[k].connected
              /\ forms'[k].kind = "hello"
                 \/ (gameNonce' # None /\ forms'[k].nonce = gameNonce')
      BY <1>1 DEF Queued, Accepts
    <2>2. Accepts(forms[k + 1])
      BY <2>1, AcceptedBefore
    <2>3. QED
      BY <2>1, <2>2 DEF Offerable, Queued, Shifted
  <1>2. CASE offer' = u /\ Status' /\ Current'
    <2>1. pc # "idle"
      BY DEF BInv, QueueInv, NoncesOnce, Evaluate
    <2>2. CASE forms' = <<>>
      <3>1. pc = "waiting" /\ Accepts(forms[1]) /\ Len(forms) = 1
        BY <1>2, <2>1, <2>2 DEF Current, Answers, Shifted
      <3>2. QED
        BY <1>2, <3>1 DEF Offerable, Current, Answers, Status, Evaluate
    <2>3. CASE forms' # <<>>
      <3>1. /\ Len(forms') \in DOMAIN forms' /\ Len(forms') + 1 = Len(forms)
        BY <2>3 DEF Shifted
      <3>2. /\ pc = "waiting"
            /\ forms'[Len(forms')].kind = "hello"
               \/ (gameNonce' # None /\ forms'[Len(forms')].nonce = gameNonce')
        BY <1>2, <2>1, <2>3 DEF Current, Answers, Accepts
      <3>3. Accepts(forms[Len(forms)])
        BY <3>1, <3>2, AcceptedBefore
      <3>4. QED
        BY <1>2, <3>2, <3>3 DEF Offerable, Current, Answers, Status, Evaluate
    <2>4. QED
      BY <2>2, <2>3
  <1>3. QED
    BY <1>1, <1>2 DEF Offerable

\* A staged identity that can be offered again is still offered, as the form is
\* of that identity and was made with a server.
LEMMA EvaluateStep ==
    ASSUME BInv, Evaluate
    PROVE  BInv'
  <1>. Shifted /\ Answers
    BY HeadFacts, EvaluateFacts DEF BInv
  <1>1. TypeOK' /\ GameInv' /\ QueueInv'
    BY EvaluateType, EvaluateKept, EvaluateQueue DEF BInv
  <1>2. Remembered'
    <2>1. SUFFICES ASSUME NEW u \in Names', Offerable(u)' PROVE consumed' = u
      BY DEF Remembered
    <2>2. u \in Names /\ u \in Identities
      BY NamesType DEF BInv, Answers
    <2>3. QED
      BY <2>1, <2>2, OfferableBefore DEF BInv, Remembered, Answers
  <1>3. WillBeConsumed'
    <2>1. SUFFICES ASSUME NEW u \in Identities, op # None, op.identity = u, u \notin Names,
                          Offerable(u)'
                   PROVE  proposed' = u
      <3>1. op # None /\ op.identity # None => op.identity \in Identities
        BY DEF BInv, TypeOK, Operation, Identity
      <3>2. QED
        BY <3>1 DEF WillBeConsumed, Answers
    <2>2. proposed = u /\ u # None
      BY <2>1, OfferableBefore, NoneAssumption DEF BInv, WillBeConsumed
    <2>3. offer = u \/ \E k \in DOMAIN forms' : forms'[k].offer = u
      BY <2>1 DEF Offerable, Queued, Answers
    <2>4. forms[1].offer = u
      BY <2>2, <2>3, AtHead DEF Known, Shifted
    <2>5. forms[1].connected
      <3>1. CASE Queued(u)'
        <4>1. PICK k \in DOMAIN forms' : forms'[k].offer = u /\ forms'[k].connected
          BY <3>1 DEF Queued
        <4>2. 1 \in DOMAIN forms /\ k + 1 \in DOMAIN forms /\ 1 < k + 1
              /\ forms[k + 1].offer = u /\ forms[k + 1].connected
          BY <4>1 DEF Shifted
        <4>3. QED
          BY <2>2, <2>4, <4>2 DEF BInv, QueueInv, Disconnected
      <3>2. CASE offer' = u /\ Status'
        BY <2>2, <2>4, <3>2 DEF BInv, QueueInv, Disconnected, Answers, Status, Shifted
      <3>3. QED
        BY <2>1, <3>1, <3>2 DEF Offerable
    <2>6. u # identity
      BY <2>1, <2>2, PublishedNamed, NamesOf DEF BInv
    <2>7. u # consumed
      BY <2>1, <2>2 DEF BInv, GameInv, Written
    <2>8. QED
      BY <2>2, <2>4, <2>5, <2>6, <2>7 DEF Answers, Offered
  <1>4. QED
    BY <1>1, <1>2, <1>3 DEF BInv

-----------------------------------------------------------------------------
(* The client moves.                                                        *)

LEMMA GameRests ==
    ASSUME TypeOK, UNCHANGED <<nativeVars, goalVars, snapshot>>
    PROVE  /\ GameInv => GameInv'
           /\ Names' = Names
           /\ UNCHANGED <<op, proposed, consumed, gameNonce, snapshot>>
           /\ \A u : Known(u)' <=> Known(u)
  <1>1. UNCHANGED <<running, bank, op, named, loaded, identity, pending, proposed,
                    consumed, gameNonce, snapshot>>
    BY DEF nativeVars, goalVars
  <1>2. Names' = Names
    BY <1>1 DEF Names
  <1>3. GameInv => GameInv'
    BY <1>1, <1>2
    DEF GameInv, Staging, Written, DescriptorIsRunning, OneGamePerIdentity
  <1>4. QED
    BY <1>1, <1>2, <1>3 DEF Known

\* Nothing the game knows can be offered that could not be before.
NoMoreOfferable ==
    \A u \in Identities : Known(u) /\ Offerable(u)' => Offerable(u)

LEMMA RemembersStill ==
    ASSUME BInv, UNCHANGED <<nativeVars, goalVars, snapshot>>, NoMoreOfferable
    PROVE  Remembered' /\ WillBeConsumed'
  <1>1. Names' = Names /\ UNCHANGED <<op, proposed, consumed>>
    BY GameRests DEF BInv
  <1>2. Remembered'
    <2>1. \A u \in Names : u \in Identities /\ Known(u)
      BY NamesType DEF BInv, Known
    <2>2. QED
      BY <1>1, <2>1 DEF BInv, Remembered, NoMoreOfferable
  <1>3. WillBeConsumed'
    <2>1. SUFFICES ASSUME NEW u \in Identities, op # None, op.identity = u, u \notin Names,
                          Offerable(u)'
                   PROVE  proposed = u
      <3>1. op # None /\ op.identity # None => op.identity \in Identities
        BY DEF BInv, TypeOK, Operation, Identity
      <3>2. QED
        BY <1>1, <3>1 DEF WillBeConsumed
    <2>2. Offerable(u) /\ u # None
      BY <2>1, NoneAssumption DEF NoMoreOfferable, Known
    <2>3. QED
      BY <2>1, <2>2 DEF BInv, WillBeConsumed
  <1>4. QED
    BY <1>2, <1>3

\* A step without a form: the offer is kept, forgotten or replaced by a new one.
LEMMA QuietStep ==
    ASSUME BInv, TypeOK', UNCHANGED <<nativeVars, goalVars, snapshot, forms, protocols>>,
           \/ offer' \in {offer, None} /\ created' = created
           \/ offer' \in Identities \ created /\ created' = created \cup {offer'},
           offer' = offer /\ offer # None
              => (Status' => Status) /\ (Status' /\ Current' => Current),
           pc' = "idle" => forms = <<>>,
           nonce' # None => nonce' < protocols
    PROVE  BInv'
  <1>1. /\ NoncesOnce /\ AllCreated /\ InRuns /\ HelloFirst /\ Disconnected
        /\ KnownFirst /\ LastOffer
        /\ UNCHANGED <<op, proposed, consumed, gameNonce, snapshot>> /\ Names' = Names
        /\ GameInv' /\ \A u : Known(u)' <=> Known(u)
    BY GameRests DEF BInv, QueueInv
  <1>2. \A u \in Identities : offer' = u => u = offer \/ u \notin created
    BY NoneAssumption
  <1>3. \A u \in Identities : offer' = u /\ Known(u) => u = offer
    BY <1>1, <1>2 DEF AllCreated
  <1>4. \A u \in Identities, k \in DOMAIN forms :
           offer' = u /\ forms[k].offer = u => u = offer
    BY <1>1, <1>2, NoneAssumption DEF AllCreated
  <1>5. offer' # None => offer' \in Identities
    BY DEF TypeOK, Identity
  <1>6. NoncesOnce'
    BY <1>1 DEF NoncesOnce
  <1>7. AllCreated'
    BY <1>1 DEF AllCreated
  <1>8. InRuns'
    BY <1>1, <1>4, <1>5 DEF InRuns
  <1>9. HelloFirst'
    BY <1>1 DEF HelloFirst, Known
  <1>10. Disconnected'
    <2>1. ASSUME NEW j \in DOMAIN forms, forms[j].offer = offer', offer' # None, Status'
          PROVE  forms[j].connected
      <3>1. offer' = offer
        BY <1>4, <1>5, <2>1
      <3>2. QED
        BY <1>1, <2>1, <3>1 DEF Disconnected
    <2>2. QED
      BY <1>1, <2>1 DEF Disconnected
  <1>11. KnownFirst' /\ LastOffer'
    BY <1>1, <1>3 DEF KnownFirst, LastOffer
  <1>12. NoMoreOfferable
    <2>1. SUFFICES ASSUME NEW u \in Identities, Known(u), Offerable(u)' PROVE Offerable(u)
      BY DEF NoMoreOfferable
    <2>2. CASE Queued(u)'
      BY <1>1, <2>2 DEF Offerable, Queued, Accepts
    <2>3. CASE offer' = u /\ Status' /\ Current'
      <3>1. offer = u /\ u # None
        BY <1>3, <2>1, <2>3, NoneAssumption
      <3>2. QED
        BY <2>3, <3>1 DEF Offerable
    <2>4. QED
      BY <2>1, <2>2, <2>3 DEF Offerable
  <1>13. Remembered' /\ WillBeConsumed'
    BY <1>12, RemembersStill
  <1>14. QED
    BY <1>1, <1>6, <1>7, <1>8, <1>9, <1>10, <1>11, <1>13 DEF BInv, QueueInv

LEMMA AnotherOffer ==
    OffersAnother => offer' \in Identities \ created /\ created' = created \cup {offer'}
  BY DEF OffersAnother, Creates

LEMMA QuietSteps ==
    ASSUME BInv, Observed,
           Observe \/ Refused \/ TimesOut \/ ServerLost \/ ServerGreets
           \/ OnRoomInfo \/ OnConnected
    PROVE  BInv'
  <1>1. TypeOK'
    BY ClientTypes DEF BInv
  <1>2. UNCHANGED <<nativeVars, goalVars, snapshot, forms, protocols>>
    BY DEF Observe, Refused, TimesOut, ServerLost, ServerGreets, OnRoomInfo, OnConnected
  <1>3. \/ offer' \in {offer, None} /\ created' = created
        \/ offer' \in Identities \ created /\ created' = created \cup {offer'}
    BY AnotherOffer DEF Observe, Refused, TimesOut, ServerLost, ServerGreets,
       OnRoomInfo, OnConnected
  <1>4. (pc' = "idle" => forms = <<>>) /\ (nonce' # None => nonce' < protocols)
    BY DEF Observe, Answered, Refused, TimesOut, ServerLost, ServerGreets, OnRoomInfo,
       OnConnected, BInv, QueueInv, NoncesOnce
  <1>5. ASSUME offer' = offer, offer # None
        PROVE  (Status' => Status) /\ (Status' /\ Current' => Current)
    <2>1. gameNonce' = gameNonce /\ forms' = forms /\ snapshot' = snapshot
      BY <1>2 DEF goalVars
    <2>2. CASE Observe
      BY <2>1, <2>2 DEF Observe, Answered, Current, Status
    <2>3. CASE Refused \/ TimesOut
      BY <2>3 DEF Refused, TimesOut, Current, Status
    <2>4. CASE ServerLost \/ ServerGreets
      BY <2>4 DEF ServerLost, ServerGreets, Status, Observed
    <2>5. CASE OnRoomInfo
      BY <1>5, <2>5 DEF OnRoomInfo
    <2>6. CASE OnConnected
      BY <2>1, <2>6 DEF OnConnected, Current, Accepts, Status
    <2>7. QED
      BY <2>2, <2>3, <2>4, <2>5, <2>6
  <1>6. QED
    BY <1>1, <1>2, <1>3, <1>4, <1>5, QuietStep

\* The client pings with an empty queue.
LEMMA PingStep ==
    ASSUME BInv, Ping
    PROVE  BInv'
  <1>1. /\ NoncesOnce /\ AllCreated /\ LastOffer /\ TypeOK'
        /\ UNCHANGED <<op, proposed, consumed, gameNonce, snapshot>> /\ Names' = Names
        /\ GameInv' /\ \A u : Known(u)' <=> Known(u)
        /\ UNCHANGED <<nonce, offer, server, protocols, created>>
    BY GameRests, ClientTypes DEF BInv, QueueInv, Ping
  <1>2. forms = <<>> /\ pc = "idle" /\ pc' = "waiting"
    BY <1>1 DEF Ping, Sends, NoncesOnce
  <1>3. forms' = <<[kind |-> "ping", nonce |-> nonce, offer |-> offer, connected |-> Status]>>
    BY <1>2 DEF Ping, Sends
  <1>4. /\ DOMAIN forms' = {1} /\ Len(forms') = 1 /\ forms' # <<>>
        /\ forms'[1].kind = "ping" /\ forms'[1].nonce = nonce /\ forms'[1].offer = offer
        /\ forms'[1].connected = Status
    BY <1>3
  <1>5. Status' = Status
    BY <1>1 DEF Status
  <1>6. NoncesOnce'
    BY <1>1, <1>2, <1>4 DEF NoncesOnce
  <1>7. AllCreated'
    BY <1>1, <1>4 DEF AllCreated
  <1>8. InRuns' /\ HelloFirst' /\ KnownFirst'
    BY <1>1, <1>4 DEF InRuns, HelloFirst, KnownFirst
  <1>9. Disconnected'
    BY <1>1, <1>4, <1>5 DEF Disconnected
  <1>10. LastOffer'
    BY <1>1, <1>4 DEF LastOffer
  <1>11. NoMoreOfferable
    <2>1. SUFFICES ASSUME NEW u \in Identities, Offerable(u)' PROVE Offerable(u)
      BY DEF NoMoreOfferable
    <2>2. CASE Queued(u)'
      BY <1>1, <1>2, <1>4, <2>2 DEF Offerable, Queued, Accepts, Current
    <2>3. CASE offer' = u /\ Status' /\ Current'
      BY <1>1, <1>2, <1>4, <1>5, <2>3 DEF Offerable, Accepts, Current
    <2>4. QED
      BY <2>1, <2>2, <2>3 DEF Offerable
  <1>12. Remembered' /\ WillBeConsumed'
    BY <1>11, RemembersStill DEF Ping
  <1>13. QED
    BY <1>1, <1>6, <1>7, <1>8, <1>9, <1>10, <1>12 DEF BInv, QueueInv

\* Another protocol comes with an identity nobody has seen, or without one.
LEMMA ConnectStep ==
    ASSUME BInv, Connect
    PROVE  BInv'
  <1>1. /\ NoncesOnce /\ AllCreated /\ InRuns /\ HelloFirst /\ Disconnected
        /\ KnownFirst /\ LastOffer /\ TypeOK'
        /\ UNCHANGED <<op, proposed, consumed, gameNonce, snapshot>> /\ Names' = Names
        /\ GameInv' /\ \A u : Known(u)' <=> Known(u)
        /\ protocols' = protocols + 1 /\ protocols \in Nat
        /\ nonce' = None /\ server' = server
    BY GameRests, ClientTypes DEF BInv, QueueInv, Connect, TypeOK
  <1>2. PICK what \in Identity :
            /\ IF authenticated THEN Creates(what)
               ELSE what = None /\ UNCHANGED created
            /\ offer' = what
            /\ Sends("hello", protocols, what)
    BY DEF Connect
  <1>3. \/ what = None /\ created' = created
        \/ what \in Identities \ created /\ created' = created \cup {what}
    BY <1>2 DEF Creates
  <1>4. DEFINE n == Len(forms)
  <1>5. /\ n \in Nat /\ DOMAIN forms = 1 .. n /\ DOMAIN forms' = 1 .. (n + 1)
        /\ \A k \in DOMAIN forms : forms'[k] = forms[k]
        /\ forms'[n + 1].kind = "hello" /\ forms'[n + 1].nonce = protocols
        /\ forms'[n + 1].offer = what /\ forms'[n + 1].connected = Status
        /\ forms' # <<>> /\ pc' = "waiting"
    <2>1. /\ forms \in Seq(Form) /\ pc' = "waiting"
          /\ forms' = Append(forms, [kind |-> "hello", nonce |-> protocols, offer |-> what,
                                     connected |-> Status])
      BY <1>2 DEF Sends, BInv, TypeOK
    <2>2. QED
      BY <2>1
  <1>6. \A k \in DOMAIN forms' : k \in DOMAIN forms \/ k = n + 1
    BY <1>5
  <1>7. what # None => \A k \in DOMAIN forms : forms[k].offer # what
    BY <1>1, <1>3 DEF AllCreated
  <1>8. \A u \in Identities : Known(u) => u # what
    BY <1>1, <1>3, NoneAssumption DEF AllCreated
  <1>9. NoncesOnce'
    <2>1. \A k \in DOMAIN forms : forms[k].nonce \in Nat \cup {None}
      <3>1. forms \in Seq(Form)
        BY DEF BInv, TypeOK
      <3>2. \A k \in DOMAIN forms : forms[k] \in Form
        BY <3>1
      <3>3. QED
        BY <3>2 DEF Form
    <2>2. gameNonce \in Nat \cup {None}
      BY DEF BInv, TypeOK
    <2>3. protocols # None /\ protocols # gameNonce
          /\ \A k \in DOMAIN forms : forms[k].nonce # protocols
      BY <1>1, <2>1, <2>2, NoneAssumption DEF NoncesOnce
    <2>4. ASSUME NEW k \in DOMAIN forms'
          PROVE  /\ forms'[k].nonce # None => forms'[k].nonce < protocols'
                 /\ forms'[k].kind = "hello" =>
                       /\ forms'[k].nonce # None
                       /\ forms'[k].nonce # gameNonce'
                       /\ \A j \in DOMAIN forms' : forms'[j].nonce = forms'[k].nonce => j = k
      <3>1. CASE k = n + 1
        BY <1>1, <1>5, <1>6, <2>3, <3>1
      <3>2. CASE k \in DOMAIN forms
        BY <1>1, <1>5, <1>6, <2>1, <2>3, <3>2 DEF NoncesOnce
      <3>3. QED
        BY <1>6, <3>1, <3>2
    <2>5. gameNonce' # None => gameNonce' < protocols'
      BY <1>1, <2>2 DEF NoncesOnce
    <2>6. QED
      BY <1>1, <1>5, <2>4, <2>5 DEF NoncesOnce
  <1>10. AllCreated'
    BY <1>1, <1>2, <1>3, <1>5, <1>6 DEF AllCreated
  <1>11. InRuns'
    <2>1. ASSUME NEW j \in DOMAIN forms', NEW k \in DOMAIN forms', NEW l \in DOMAIN forms',
                 j < k, k < l, forms'[j].offer = forms'[l].offer, forms'[j].offer # None
          PROVE  forms'[k].offer = forms'[j].offer
      <3>1. j \in DOMAIN forms /\ k \in DOMAIN forms
        BY <1>5, <2>1
      <3>2. l \in DOMAIN forms
        BY <1>5, <1>6, <1>7, <2>1, <3>1
      <3>3. QED
        BY <1>1, <1>5, <2>1, <3>1, <3>2 DEF InRuns
    <2>2. ASSUME NEW j \in DOMAIN forms', NEW k \in DOMAIN forms',
                 j < k, forms'[j].offer = offer', offer' # None
          PROVE  FALSE
      BY <1>2, <1>5, <1>7, <2>2
    <2>3. QED
      BY <2>1, <2>2 DEF InRuns
  <1>12. HelloFirst'
    <2>1. SUFFICES ASSUME NEW k \in DOMAIN forms', forms'[k].kind = "hello",
                          forms'[k].offer # None
                   PROVE  /\ ~(forms'[k].offer = proposed')
                          /\ ~(op' # None /\ op'.identity = forms'[k].offer)
                          /\ ~(forms'[k].offer \in Names')
                          /\ \A j \in DOMAIN forms' : j < k => forms'[j].offer # forms'[k].offer
      BY DEF HelloFirst, Known
    <2>2. CASE k \in DOMAIN forms
      BY <1>1, <1>5, <2>1, <2>2 DEF HelloFirst, Known
    <2>3. CASE k = n + 1
      <3>1. what # None /\ forms'[k].offer = what /\ what \in Identities
        BY <1>3, <1>5, <2>1, <2>3
      <3>2. ~Known(what)
        BY <1>8, <3>1
      <3>3. QED
        BY <1>1, <1>5, <1>6, <1>7, <2>3, <3>1, <3>2 DEF Known
    <2>4. QED
      BY <1>6, <2>2, <2>3
  <1>13. Disconnected'
    <2>1. ASSUME NEW j \in DOMAIN forms', NEW k \in DOMAIN forms', j < k,
                 forms'[j].offer = forms'[k].offer, forms'[j].offer # None,
                 forms'[k].connected
          PROVE  forms'[j].connected
      <3>1. j \in DOMAIN forms
        BY <1>5, <2>1
      <3>2. k \in DOMAIN forms
        BY <1>5, <1>6, <1>7, <2>1, <3>1
      <3>3. QED
        BY <1>1, <1>5, <2>1, <3>1, <3>2 DEF Disconnected
    <2>2. ASSUME NEW j \in DOMAIN forms', forms'[j].offer = offer', offer' # None, Status'
          PROVE  forms'[j].connected
      <3>1. j = n + 1
        BY <1>2, <1>5, <1>6, <1>7, <2>2
      <3>2. Status
        BY <1>1, <2>2 DEF Status
      <3>3. QED
        BY <1>5, <3>1, <3>2
    <2>3. QED
      BY <2>1, <2>2 DEF Disconnected
  <1>14. KnownFirst'
    <2>1. SUFFICES ASSUME NEW u \in Identities, Known(u)
                   PROVE  /\ \A k \in DOMAIN forms' : forms'[k].offer = u => forms'[1].offer = u
                          /\ ~(u = offer')
      BY <1>1 DEF KnownFirst
    <2>2. ASSUME NEW k \in DOMAIN forms', forms'[k].offer = u PROVE forms'[1].offer = u
      <3>1. k \in DOMAIN forms /\ 1 \in DOMAIN forms /\ forms[k].offer = u
        BY <1>5, <1>6, <1>8, <2>1, <2>2
      <3>2. QED
        BY <1>1, <1>5, <2>1, <3>1 DEF KnownFirst
    <2>3. QED
      BY <1>2, <1>8, <2>1, <2>2
  <1>15. LastOffer'
    <2>1. SUFFICES ASSUME NEW u \in Identities, Known(u),
                          u = offer' \/ \E k \in DOMAIN forms' : forms'[k].offer = u
                   PROVE  proposed \in {None, u}
      BY <1>1 DEF LastOffer
    <2>2. PICK k \in DOMAIN forms' : forms'[k].offer = u
      BY <1>2, <1>8, <2>1
    <2>3. k \in DOMAIN forms /\ forms[k].offer = u
      BY <1>5, <1>6, <1>8, <2>1, <2>2
    <2>4. QED
      BY <1>1, <2>1, <2>3 DEF LastOffer
  <1>16. NoMoreOfferable
    <2>1. SUFFICES ASSUME NEW u \in Identities, Known(u), Offerable(u)' PROVE Offerable(u)
      BY DEF NoMoreOfferable
    <2>2. u # what /\ Queued(u)'
      BY <1>2, <1>8, <2>1 DEF Offerable
    <2>3. PICK k \in DOMAIN forms' :
              /\ forms'[k].offer = u /\ forms'[k].connected
              /\ forms'[k].kind = "hello"
                 \/ (gameNonce' # None /\ forms'[k].nonce = gameNonce')
      BY <2>2 DEF Queued, Accepts
    <2>4. k \in DOMAIN forms
      BY <1>5, <1>6, <2>2, <2>3
    <2>5. QED
      BY <1>1, <1>5, <2>3, <2>4 DEF Offerable, Queued, Accepts
  <1>17. Remembered' /\ WillBeConsumed'
    BY <1>16, RemembersStill DEF Connect
  <1>18. QED
    BY <1>1, <1>9, <1>10, <1>11, <1>12, <1>13, <1>14, <1>15, <1>17 DEF BInv, QueueInv

-----------------------------------------------------------------------------
(* The theorems.                                                            *)

LEMMA Inductive == Observed /\ BInv /\ [Next]_vars => BInv'
  <1>1. SUFFICES ASSUME Observed, BInv, [Next]_vars PROVE BInv'
    OBVIOUS
  <1>2. ASSUME NEW where \in Slots, SaveNewGame(where) \/ SaveGame(where) \/ Restore(where)
        PROVE  BInv'
    BY <1>1, <1>2, OperationStep
  <1>3. CASE LoadGame \/ Error \/ StartUnsaved \/ Expire
    BY <1>1, <1>3, OtherStep
  <1>4. CASE Done
    BY <1>1, <1>4, DoneStep
  <1>5. CASE ReloadBridge \/ RestartGame
    BY <1>1, <1>5, ResetStep
  <1>6. CASE Evaluate
    BY <1>1, <1>6, EvaluateStep
  <1>7. CASE Connect
    BY <1>1, <1>7, ConnectStep
  <1>8. CASE Ping
    BY <1>1, <1>8, PingStep
  <1>9. CASE Observe \/ Refused \/ TimesOut \/ ServerLost \/ ServerGreets
             \/ OnRoomInfo \/ OnConnected
    BY <1>1, <1>9, QuietSteps
  <1>10. CASE UNCHANGED vars
    <2>1. UNCHANGED <<nativeVars, goalVars, snapshot, forms, pc, nonce, offer, server,
                      protocols, created, authenticated, drops, faults>>
      BY <1>10 DEF vars, clientVars
    <2>2. TypeOK'
      BY <1>1, <2>1 DEF BInv, TypeOK, nativeVars, goalVars
    <2>3. Status' = Status /\ (Current' <=> Current)
      BY <2>1 DEF Status, Current, Accepts, goalVars
    <2>4. (pc' = "idle" => forms = <<>>) /\ (nonce' # None => nonce' < protocols)
      BY <1>1, <2>1 DEF BInv, QueueInv, NoncesOnce
    <2>5. QED
      BY <1>1, <2>1, <2>2, <2>3, <2>4, QuietStep
  <1>11. QED
    BY <1>1, <1>2, <1>3, <1>4, <1>5, <1>6, <1>7, <1>8, <1>9, <1>10 DEF Next, Play

\* The inductive invariant: what the game knows is at the head of the queue, and
\* a written identity that may be offered again is remembered as consumed.
THEOREM Invariant == Observed /\ Spec => []BInv
  <1>1. SUFFICES ASSUME Observed PROVE Spec => []BInv
    OBVIOUS
  <1>2. BInv /\ [Next]_vars => BInv'
    BY <1>1, Inductive
  <1>3. QED
    BY <1>2, InitHolds, PTL DEF Spec

\* A published descriptor has an identity, and nothing is staged without an
\* operation.
THEOREM TypeCorrect == Observed /\ Spec => []TypeOK
  <1>1. BInv => TypeOK
    BY DEF BInv
  <1>2. QED
    BY <1>1, Invariant, PTL

\* Two new saves never share one identity, whatever was staged, failed, lost,
\* evaluated late or offered again (archipelago.gc, ap3-update-proposed-save-identity!
\* and ap3-publish-pending-native-save!; protocol.py, _observe_snapshot).
THEOREM NamesOneGame == Observed /\ Spec => []OneGamePerIdentity
  <1>1. BInv => OneGamePerIdentity
    BY DEF BInv, GameInv
  <1>2. QED
    BY <1>1, Invariant, PTL

\* What the bridge publishes is the save of the game being played, through loads,
\* new games, failed operations, reloads and restarts (archipelago.gc, the
\* wrappers of the native auto-save).
THEOREM PublishedIsRunning == Observed /\ Spec => []DescriptorIsRunning
  <1>1. BInv => DescriptorIsRunning
    BY DEF BInv, GameInv
  <1>2. QED
    BY <1>1, Invariant, PTL

-----------------------------------------------------------------------------
(* The status of the goal.                                                  *)

(* The invariants of the runs are not inductive: that a connection is told *)
(* once rests on the task belonging to the live connection, and that only  *)
(* a completed slot is told on how the file, the session and the task, all *)
(* of which may be of different saves, hang together.                      *)

\* The session against its file, which may be ahead of a stale session.
SessionFollowsFile ==
    session # None =>
        /\ slot # None /\ PlayerOf[session.save] = slot
        /\ ~session.stale => session.state = disk[session.save]
        /\ session.state.completed => disk[session.save].completed
        /\ session.state.sent => disk[session.save].sent
        /\ session.state.completed => GoalLocations \subseteq session.state.checked
        /\ session.state.sent => session.state.completed

FileSound ==
    \A save \in Saves :
        /\ disk[save].completed => GoalLocations \subseteq disk[save].checked
        /\ disk[save].sent => disk[save].completed

\* Between the greeting of the server and its acceptance of a slot nothing is
\* open and nothing under way.
QuietGreeting ==
    link = "greeted" => slot = None /\ session = None /\ task = None

\* The task of a joined connection was created for it, and nothing has been
\* told on it before.
TaskOfConnection ==
    task # None =>
        /\ disk[task.save].completed
        /\ ~task.orphan => session # None /\ session.save = task.save
        /\ link = "joined" =>
             /\ task.conn = conn /\ task.generation = generation /\ armed
             /\ sentOn # generation
             /\ PlayerOf[task.save] = slot

Counted ==
    /\ link # "down" => conn \in 1 .. MaxConnections
    /\ \A c \in 1 .. MaxConnections : c > conn => received[c] = 0
    /\ link \in {"greeting", "greeted"} => received[conn] = 0
    /\ link = "joined" /\ sentOn # generation => received[conn] <= failed[conn]

GoalInv ==
    /\ G!TypeOK
    /\ SessionFollowsFile
    /\ FileSound
    /\ QuietGreeting
    /\ TaskOfConnection
    /\ Counted
    /\ OncePerConnection
    /\ SentFlagTrue

-----------------------------------------------------------------------------
(* The operators.                                                           *)

\* Completion changes no location and no flag but sent, which it resets
\* (_temporary_goal_state).
LEMMA CompletedFacts ==
    ASSUME NEW s \in G!State
    PROVE  /\ G!Completed(s) \in G!State
           /\ G!Completed(s).checked = s.checked
           /\ s.completed => G!Completed(s) = s
           /\ G!Completed(s).sent => s.sent
           /\ s.completed => G!Completed(s).completed
           /\ G!Completed(s).completed => s.completed \/ GoalLocations \subseteq s.checked
BY DEF G!Completed, G!State

LEMMA CheckedFacts ==
    ASSUME NEW s \in G!State, NEW l \in GoalLocations
    PROVE  /\ [s EXCEPT !.checked = @ \cup {l}] \in G!State
           /\ s.checked \subseteq [s EXCEPT !.checked = @ \cup {l}].checked
           /\ [s EXCEPT !.checked = @ \cup {l}].completed = s.completed
           /\ [s EXCEPT !.checked = @ \cup {l}].sent = s.sent
BY DEF G!State

\* A commit, whether it returns or raises, leaves the save of the session and
\* the files of other saves alone.
LEMMA CommitFacts ==
    ASSUME G!TypeOK, session # None, NEW new \in G!State,
           G!Committed(new) \/ G!CommitFailed(new)
    PROVE  /\ disk' \in [Saves -> G!State]
           /\ session' \in G!Session /\ session' # None
           /\ session'.save = session.save
           /\ failures' \in 0 .. MaxFailures
           /\ \/ disk' = disk /\ session' = session
              \/ /\ ~session.stale
                 /\ disk' = [disk EXCEPT ![session.save] = new]
                 /\ \/ session'.state = new /\ ~session'.stale
                    \/ session'.state = session.state /\ session'.stale
<1>1. session \in G!Session
  BY DEF G!TypeOK
<1>2. \A st \in G!State, b \in BOOLEAN :
        /\ [session EXCEPT !.state = st] \in G!Session
        /\ [session EXCEPT !.stale = b] \in G!Session
        /\ [session EXCEPT !.state = st].save = session.save
        /\ [session EXCEPT !.stale = b].save = session.save
        /\ [session EXCEPT !.state = st].state = st
        /\ [session EXCEPT !.state = st].stale = session.stale
        /\ [session EXCEPT !.stale = b].state = session.state
        /\ [session EXCEPT !.stale = b].stale = b
  BY <1>1 DEF G!Session
<1>3. CASE G!Committed(new)
  BY <1>1, <1>2, <1>3, GoalAssumption DEF G!TypeOK, G!Committed, G!Session,
     G!NoneAssumption
<1>4. CASE G!CommitFailed(new)
  <2>1. failures' \in 0 .. MaxFailures
    BY <1>4, GoalAssumption DEF G!TypeOK, G!CommitFailed, G!Fault, G!BoundAssumption
  <2>2. CASE disk' = disk /\ session' = session
    BY <1>1, <2>1, <2>2, GoalAssumption DEF G!TypeOK, G!Session, G!NoneAssumption
  <2>3. CASE /\ ~session.stale
             /\ disk' = [disk EXCEPT ![session.save] = new]
             /\ session' = [session EXCEPT !.stale = TRUE]
    BY <1>1, <1>2, <2>1, <2>3, GoalAssumption DEF G!TypeOK, G!Session, G!NoneAssumption
  <2> QED BY <1>4, <2>2, <2>3 DEF G!CommitFailed
<1> QED BY <1>3, <1>4

\* What a commit may write: nothing completed, sent or checked is taken back,
\* a completed goal has its locations, and a flag newly set is true.
Extends(new) ==
    /\ new \in G!State
    /\ session.state.checked \subseteq new.checked
    /\ session.state.completed => new.completed
    /\ session.state.sent => new.sent
    /\ new.completed => GoalLocations \subseteq new.checked
    /\ new.sent => new.completed
    /\ new.sent => session.state.sent \/ PlayerOf[session.save] \in succeeded'

Kept ==
    \A save \in Saves :
        /\ disk[save].completed => disk'[save].completed
        /\ disk[save].sent => disk'[save].sent

LEMMA CommitStep ==
    ASSUME GoalInv, session # None, NEW new, Extends(new),
           G!Committed(new) \/ G!CommitFailed(new),
           slot' = slot, succeeded \subseteq succeeded'
    PROVE  SessionFollowsFile' /\ FileSound' /\ SentFlagTrue' /\ Kept
<1>1. /\ session \in G!Session /\ session.save \in Saves /\ new \in G!State
      /\ session.state \in G!State
      /\ disk \in [Saves -> G!State] /\ G!TypeOK
  BY DEF GoalInv, G!TypeOK, G!Session, Extends
<1>2. /\ session' # None /\ session'.save = session.save
      /\ \/ disk' = disk /\ session' = session
         \/ /\ ~session.stale
            /\ disk' = [disk EXCEPT ![session.save] = new]
            /\ \/ session'.state = new /\ ~session'.stale
               \/ session'.state = session.state /\ session'.stale
  BY <1>1, CommitFacts
<1>3. CASE disk' = disk /\ session' = session
  BY <1>1, <1>3 DEF GoalInv, SessionFollowsFile, FileSound, SentFlagTrue, G!SentFlagTrue,
     Kept
<1>4. CASE /\ ~session.stale
           /\ disk' = [disk EXCEPT ![session.save] = new]
           /\ \/ session'.state = new /\ ~session'.stale
              \/ session'.state = session.state /\ session'.stale
  <2>1. session.state = disk[session.save]
    BY <1>4 DEF GoalInv, SessionFollowsFile
  <2>2. /\ disk'[session.save] = new
        /\ \A save \in Saves : save # session.save => disk'[save] = disk[save]
    BY <1>1, <1>4
  <2>3. SessionFollowsFile'
    BY <1>1, <1>2, <1>4, <2>1, <2>2
       DEF GoalInv, SessionFollowsFile, Extends
  <2>4. FileSound'
    BY <1>1, <2>2 DEF GoalInv, FileSound, Extends
  <2>5. SentFlagTrue'
    BY <1>1, <2>1, <2>2 DEF GoalInv, SentFlagTrue, G!SentFlagTrue, Extends
  <2>6. Kept
    BY <1>1, <2>1, <2>2 DEF Kept, Extends
  <2> QED BY <2>3, <2>4, <2>5, <2>6
<1> QED BY <1>2, <1>3, <1>4

\* The session is as it was, or none, or none of the actions above changed it.
LEMMA TaskFacts ==
    ASSUME NEW t \in G!Task
    PROVE  /\ G!Outdated(t) \in G!Task /\ G!Orphaned(t) \in G!Task
           /\ t # None /\ G!Outdated(t) # None /\ G!Orphaned(t) # None
           /\ G!Outdated(t).save = t.save /\ G!Orphaned(t).save = t.save
           /\ G!Outdated(t).conn = t.conn /\ G!Orphaned(t).conn = t.conn
           /\ G!Outdated(t).generation = t.generation
           /\ G!Orphaned(t).generation = t.generation
           /\ G!Outdated(t).orphan = t.orphan /\ G!Orphaned(t).orphan = TRUE
<1>1. t # None
  BY GoalAssumption DEF G!NoneAssumption
<1> QED BY <1>1, GoalAssumption DEF G!Outdated, G!Orphaned, G!Task, G!NoneAssumption

\* A task that the pump creates is for the session and the connection of the
\* moment, on which nothing has been told.
LEMMA PumpFacts ==
    ASSUME NEW sess \in G!Session, NEW can \in BOOLEAN,
           NEW t \in G!Task \cup {None}, NEW w \in BOOLEAN, NEW told,
           NEW number \in Nat, conn \in Nat,
           G!Pumped(sess, can, t, w, told, number)
    PROVE  /\ task' \in G!Task \cup {None}
           /\ window' \in BOOLEAN
           /\ \/ task' = t
              \/ /\ can /\ told # number
                 /\ task'.save = sess.save /\ task'.generation = number
                 /\ task'.conn = conn /\ ~task'.orphan
<1>1. /\ G!NewTask(sess, number) \in G!Task
      /\ G!NewTask(sess, number).save = sess.save
      /\ G!NewTask(sess, number).generation = number
      /\ G!NewTask(sess, number).conn = conn
      /\ ~G!NewTask(sess, number).orphan
  BY DEF G!NewTask, G!Task, G!Session
<1> QED BY <1>1 DEF G!Pumped

-----------------------------------------------------------------------------
(* The steps.                                                               *)

\* Nothing but the commit, the task and its window changes.
OnlyClient ==
    UNCHANGED <<slot, generation, armed, sentOn, link, conn, received, failed,
                succeeded>>

\* The task after a commit, a pump or neither.
TaskStep ==
    \/ task' = task
    \/ task # None /\ task' = G!Outdated(task)
    \/ /\ task' \in G!Task
       /\ task'.save = session.save /\ task'.generation = generation
       /\ task'.conn = conn /\ ~task'.orphan
       /\ session'.state.completed /\ armed /\ sentOn # generation

LEMMA ClientStep ==
    ASSUME GoalInv, session # None, NEW new, Extends(new), OnlyClient,
           \/ G!Committed(new) \/ G!CommitFailed(new)
           \/ new = session.state /\ UNCHANGED <<disk, session, failures>>,
           TaskStep, window' \in BOOLEAN, readOnly' \in BOOLEAN
    PROVE  GoalInv' /\ Kept
<1>1. /\ G!TypeOK /\ session \in G!Session /\ session.save \in Saves
      /\ new \in G!State
  BY DEF GoalInv, G!TypeOK, G!Session, Extends
<1>2. /\ disk' \in [Saves -> G!State]
      /\ session' \in G!Session /\ session' # None
      /\ session'.save = session.save
      /\ failures' \in 0 .. MaxFailures
  BY <1>1, CommitFacts, GoalAssumption DEF G!TypeOK, G!NoneAssumption
<1>3. SessionFollowsFile' /\ FileSound' /\ SentFlagTrue' /\ Kept
  <2>1. CASE G!Committed(new) \/ G!CommitFailed(new)
    BY <2>1, CommitStep DEF OnlyClient
  <2>2. CASE UNCHANGED <<disk, session, failures>>
    BY <2>2 DEF OnlyClient, GoalInv, SessionFollowsFile, FileSound, SentFlagTrue,
       G!SentFlagTrue,
                Kept
  <2> QED BY <2>1, <2>2
<1>4. task' \in G!Task \cup {None}
  BY <1>1, TaskFacts DEF G!TypeOK, TaskStep
<1>5. G!TypeOK'
  BY <1>1, <1>2, <1>4 DEF OnlyClient, G!TypeOK
<1>6. QuietGreeting'
  BY <1>1 DEF GoalInv, QuietGreeting, OnlyClient
<1>7. TaskOfConnection'
  <2>1. CASE task # None /\ (task' = task \/ task' = G!Outdated(task))
    <3>1. /\ task \in G!Task
          /\ task'.save = task.save /\ task'.conn = task.conn
          /\ task'.generation = task.generation
          /\ task'.orphan = task.orphan
      BY <1>1, <2>1, TaskFacts DEF G!TypeOK
    <3>2. disk'[task.save].completed
      BY <1>3, <2>1, <3>1 DEF GoalInv, TaskOfConnection, Kept, G!Task
    <3>3. ~task.orphan => session.save = task.save
      BY <2>1 DEF GoalInv, TaskOfConnection
    <3> QED BY <1>2, <2>1, <3>1, <3>2, <3>3
            DEF GoalInv, TaskOfConnection, OnlyClient
  <2>2. CASE /\ task' \in G!Task
             /\ task'.save = session.save /\ task'.generation = generation
             /\ task'.conn = conn /\ ~task'.orphan
             /\ session'.state.completed /\ armed /\ sentOn # generation
    BY <1>2, <1>3, <2>2
       DEF GoalInv, SessionFollowsFile, TaskOfConnection, OnlyClient
  <2>3. CASE task' = None
    BY <2>3 DEF TaskOfConnection
  <2> QED BY <2>1, <2>2, <2>3 DEF TaskStep
<1>8. Counted' /\ OncePerConnection'
  BY DEF GoalInv, Counted, OncePerConnection, G!OncePerConnection, OnlyClient
<1> QED BY <1>3, <1>5, <1>6, <1>7, <1>8 DEF GoalInv

LEMMA CommitAndPumpStep ==
    ASSUME GoalInv, session # None, NEW new, Extends(new), OnlyClient,
           G!CommitAndPump(new), readOnly' \in BOOLEAN
    PROVE  GoalInv' /\ Kept
<1>1. /\ G!TypeOK /\ session \in G!Session /\ new \in G!State
      /\ task \in G!Task \cup {None} /\ generation \in Nat /\ conn \in Nat
      /\ window \in BOOLEAN
  BY GoalAssumption DEF GoalInv, G!TypeOK, Extends, G!BoundAssumption
<1>2. /\ session' \in G!Session /\ session'.save = session.save
      /\ session' # None
  <2>1. CASE new = session.state
    BY <1>1, <2>1 DEF G!CommitAndPump
  <2>2. CASE new # session.state
    BY <1>1, <2>2, CommitFacts DEF G!CommitAndPump
  <2> QED BY <2>1, <2>2
<1> DEFINE R == G!Ready(session', slot, armed, readOnly)
<1>3. R \in BOOLEAN /\ (R => session'.state.completed /\ armed)
  BY DEF G!Ready
<1> DEFINE T == IF new = session.state THEN task ELSE G!Outdated(task)
           W == IF new = session.state THEN window ELSE FALSE
<1>4. G!Pumped(session', R, T, W, sentOn, generation)
  <2>1. CASE new = session.state
    BY <2>1 DEF G!CommitAndPump, G!Pump
  <2>2. CASE new # session.state
    BY <2>2 DEF G!CommitAndPump, G!Pump
  <2> QED BY <2>1, <2>2
<1>7. /\ T \in G!Task \cup {None} /\ W \in BOOLEAN
      /\ T = task \/ (task # None /\ T = G!Outdated(task))
  <2>1. G!Outdated(task) \in G!Task \cup {None}
    BY <1>1, TaskFacts DEF G!Outdated
  <2>2. task = None => G!Outdated(task) = task
    BY DEF G!Outdated
  <2>3. W \in BOOLEAN
    BY <1>1, Zenon
  <2>4. T \in G!Task \cup {None}
    BY <1>1, <2>1, Zenon
  <2>5. T = task \/ (task # None /\ T = G!Outdated(task))
    BY <2>2
  <2> QED BY <2>3, <2>4, <2>5
<1> HIDE DEF R, T, W
<1>5. TaskStep /\ window' \in BOOLEAN
  <2>1. /\ task' \in G!Task \cup {None}
        /\ window' \in BOOLEAN
        /\ \/ task' = T
           \/ /\ R /\ sentOn # generation
              /\ task'.save = session'.save /\ task'.generation = generation
              /\ task'.conn = conn /\ ~task'.orphan
    BY <1>1, <1>2, <1>3, <1>4, <1>7, PumpFacts
  <2>2. task' = T \/ task' \in G!Task
    BY <1>4, <2>1, <1>2, <1>1 DEF G!Pumped, G!NewTask, G!Task, G!Session
  <2> QED BY <1>2, <1>3, <1>7, <2>1, <2>2 DEF TaskStep
<1>6. \/ G!Committed(new)
      \/ new = session.state /\ UNCHANGED <<disk, session, failures>>
  BY DEF G!CommitAndPump
<1> QED BY <1>5, <1>6, ClientStep

ToldStep ==
    received' # received =>
        \E save \in Saves : PlayerOf[save] = slot /\ disk[save].completed

LEMMA ObserveLocalStep ==
    ASSUME GoalInv, G!ObserveLocal
    PROVE  GoalInv' /\ Kept /\ received' = received
<1>1. PICK l \in GoalLocations :
        LET new == G!Completed([session.state EXCEPT !.checked = @ \cup {l}])
        IN /\ session # None /\ ~readOnly
           /\ \/ G!CommitAndPump(new) /\ UNCHANGED readOnly
              \/ /\ new # session.state
                 /\ G!CommitFailed(new)
                 /\ readOnly' = TRUE
                 /\ UNCHANGED <<task, window>>
           /\ UNCHANGED <<slot, generation, armed, sentOn, link, conn,
                          G!serverVars>>
  BY DEF G!ObserveLocal
<1> DEFINE seen == [session.state EXCEPT !.checked = @ \cup {l}]
           new == G!Completed(seen)
<1>2. /\ session # None /\ session \in G!Session /\ session.state \in G!State
      /\ seen \in G!State
      /\ readOnly \in BOOLEAN /\ window \in BOOLEAN
  BY <1>1, CheckedFacts DEF GoalInv, G!TypeOK, G!Session
<1>3. Extends(new)
  <2>1. /\ session.state.checked \subseteq seen.checked
        /\ seen.completed = session.state.completed
        /\ seen.sent = session.state.sent
    BY <1>2, CheckedFacts
  <2> HIDE DEF seen
  <2>2. /\ new \in G!State /\ new.checked = seen.checked
        /\ seen.completed => new = seen
        /\ new.sent => seen.sent
        /\ new.completed => seen.completed \/ GoalLocations \subseteq seen.checked
    BY <1>2, CompletedFacts
  <2> HIDE DEF new
  <2> QED BY <1>2, <2>1, <2>2 DEF GoalInv, SessionFollowsFile, Extends
<1>4. OnlyClient /\ received' = received
  BY <1>1, <1>2 DEF GoalInv, G!TypeOK, OnlyClient, G!serverVars
<1>5. CASE G!CommitAndPump(new) /\ UNCHANGED readOnly
  BY <1>2, <1>3, <1>4, <1>5, CommitAndPumpStep
<1>6. CASE G!CommitFailed(new) /\ readOnly' = TRUE /\ UNCHANGED <<task, window>>
  <2>1. TaskStep /\ window' \in BOOLEAN /\ readOnly' \in BOOLEAN
    BY <1>2, <1>6 DEF TaskStep
  <2> QED BY <1>2, <1>3, <1>4, <1>6, <2>1, ClientStep
<1> QED BY <1>1, <1>4, <1>5, <1>6

LEMMA HeartbeatStep ==
    ASSUME GoalInv, G!Heartbeat
    PROVE  GoalInv' /\ Kept /\ received' = received
<1> DEFINE new == G!Completed(session.state)
<1>2. /\ session # None /\ session \in G!Session /\ session.state \in G!State
      /\ readOnly \in BOOLEAN /\ window \in BOOLEAN
  BY DEF G!Heartbeat, GoalInv, G!TypeOK, G!Session
<1>3. Extends(new)
  BY <1>2, CompletedFacts DEF GoalInv, SessionFollowsFile, Extends
<1>4. OnlyClient /\ received' = received /\ readOnly' \in BOOLEAN
  BY <1>2 DEF G!Heartbeat, OnlyClient, G!serverVars
<1>5. CASE G!CommitAndPump(new)
  BY <1>2, <1>3, <1>4, <1>5, CommitAndPumpStep
<1>6. CASE G!CommitFailed(new) /\ UNCHANGED <<task, window>>
  <2>1. TaskStep /\ window' \in BOOLEAN
    BY <1>2, <1>6 DEF TaskStep
  <2> QED BY <1>2, <1>3, <1>4, <1>6, <2>1, ClientStep
<1> QED BY <1>4, <1>5, <1>6 DEF G!Heartbeat

LEMMA RoomUpdateStep ==
    ASSUME GoalInv, G!OnRoomUpdate
    PROVE  GoalInv' /\ Kept /\ received' = received
<1>1. PICK l \in GoalLocations :
        LET new == [session.state EXCEPT !.checked = @ \cup {l}]
        IN /\ link = "joined" /\ session # None /\ ~readOnly
           /\ l \notin session.state.checked
           /\ \/ /\ G!Committed(new)
                 /\ task' = G!Outdated(task) /\ window' = FALSE
                 /\ UNCHANGED readOnly
              \/ /\ G!CommitFailed(new)
                 /\ readOnly' = TRUE
                 /\ UNCHANGED <<task, window>>
           /\ UNCHANGED <<slot, generation, armed, sentOn, link, conn,
                          G!serverVars>>
  BY DEF G!OnRoomUpdate
<1> DEFINE new == [session.state EXCEPT !.checked = @ \cup {l}]
<1>2. /\ session # None /\ session \in G!Session /\ session.state \in G!State
      /\ readOnly \in BOOLEAN /\ window \in BOOLEAN
  BY <1>1 DEF GoalInv, G!TypeOK, G!Session
<1>3. Extends(new)
  BY <1>2, CheckedFacts DEF GoalInv, SessionFollowsFile, Extends
<1>4. OnlyClient /\ received' = received
  BY <1>1 DEF OnlyClient, G!serverVars
<1>5. task = None => G!Outdated(task) = task
  BY DEF G!Outdated
<1>6. TaskStep /\ window' \in BOOLEAN /\ readOnly' \in BOOLEAN
  BY <1>1, <1>2, <1>5 DEF TaskStep
<1>7. G!Committed(new) \/ G!CommitFailed(new)
  BY <1>1
<1> HIDE DEF new
<1> QED BY <1>2, <1>3, <1>4, <1>6, <1>7, ClientStep

LEMMA SessionSteps ==
    ASSUME GoalInv, G!OtherCommit \/ G!OpenSession \/ G!CloseSession
    PROVE  GoalInv' /\ Kept /\ received' = received
<1>1. G!TypeOK /\ window \in BOOLEAN
  BY DEF GoalInv, G!TypeOK
<1>2. CASE G!OtherCommit
  <2>1. /\ session # None /\ session \in G!Session /\ disk' = disk
        /\ failures' \in 0 .. MaxFailures /\ received' = received
        /\ session' \in G!Session /\ session' # None
        /\ session'.save = session.save /\ session'.state = session.state
        /\ session'.stale = session.stale \/ session'.stale
        /\ window' \in BOOLEAN
    <3>1. /\ session # None /\ session \in G!Session /\ disk' = disk
          /\ received' = received /\ window' \in BOOLEAN
          /\ session' = session \/ session' = [session EXCEPT !.stale = TRUE]
      BY <1>1, <1>2 DEF G!OtherCommit, G!TypeOK, G!serverVars
    <3>2. failures' \in 0 .. MaxFailures
      BY <1>1, <1>2, GoalAssumption DEF G!OtherCommit, G!TypeOK, G!Fault,
         G!BoundAssumption
    <3>3. CASE session' = session
      BY <3>1, <3>2, <3>3
    <3>4. CASE session' = [session EXCEPT !.stale = TRUE]
      <4>1. /\ session' \in G!Session
            /\ session'.save = session.save /\ session'.state = session.state
            /\ session'.stale
        BY <3>1, <3>4 DEF G!Session
      <4> QED BY <3>1, <3>2, <4>1, GoalAssumption DEF G!NoneAssumption
    <3> QED BY <3>1, <3>3, <3>4
  <2>2. task' = task \/ (task # None /\ task' = G!Outdated(task))
    BY <1>2 DEF G!OtherCommit, G!Outdated
  <2>3. /\ task' \in G!Task \cup {None}
        /\ task = None => task' = None
        /\ task # None => /\ task'.save = task.save /\ task'.conn = task.conn
                          /\ task'.generation = task.generation
                          /\ task'.orphan = task.orphan
    BY <1>1, <2>2, TaskFacts DEF G!TypeOK
  <2>4. G!TypeOK'
    BY <1>1, <1>2, <2>1, <2>3 DEF G!OtherCommit, G!TypeOK, G!serverVars
  <2>5. SessionFollowsFile' /\ FileSound' /\ SentFlagTrue' /\ Kept
    BY <1>2, <2>1 DEF G!OtherCommit, G!serverVars, GoalInv, SessionFollowsFile,
                      FileSound, SentFlagTrue, G!SentFlagTrue, Kept
  <2>6. TaskOfConnection' /\ QuietGreeting'
    BY <1>2, <2>1, <2>3 DEF G!OtherCommit, G!serverVars, GoalInv, TaskOfConnection,
                            QuietGreeting
  <2>7. Counted' /\ OncePerConnection'
    BY <1>2 DEF G!OtherCommit, G!serverVars, GoalInv, Counted, OncePerConnection,
       G!OncePerConnection
  <2> QED BY <2>1, <2>4, <2>5, <2>6, <2>7 DEF GoalInv
<1>3. CASE G!OpenSession \/ G!CloseSession
  <2>1. /\ task' = G!Orphaned(task) /\ window' = FALSE
        /\ slot # None \/ session # None
        /\ UNCHANGED <<disk, readOnly, slot, generation, armed, sentOn, link,
                       conn, failures, received, failed, succeeded>>
    BY <1>3 DEF G!OpenSession, G!CloseSession, G!serverVars
  <2>2. /\ session' \in G!Session \cup {None}
        /\ session' # None =>
             /\ session'.save \in Saves
             /\ PlayerOf[session'.save] = slot /\ slot # None
             /\ session'.state = disk[session'.save]
    <3>1. CASE G!OpenSession
      <4>1. PICK save \in Saves :
              session' = IF PlayerOf[save] = slot
                         THEN [save |-> save, state |-> disk[save],
                               stale |-> FALSE]
                         ELSE None
        BY <3>1 DEF G!OpenSession
      <4>2. disk[save] \in G!State /\ slot # None
        BY <1>1, <3>1 DEF G!OpenSession, G!TypeOK
      <4> QED BY <4>1, <4>2 DEF G!Session
    <3>2. CASE G!CloseSession
      BY <3>2 DEF G!CloseSession
    <3> QED BY <1>3, <3>1, <3>2
  <2>3. /\ task' \in G!Task \cup {None}
        /\ task = None => task' = None
        /\ task # None => /\ task'.save = task.save /\ task'.conn = task.conn
                          /\ task'.generation = task.generation
                          /\ task'.orphan
    BY <1>1, <2>1, TaskFacts DEF G!TypeOK, G!Orphaned
  <2>4. G!TypeOK'
    BY <1>1, <2>1, <2>2, <2>3 DEF G!TypeOK
  <2>5. SessionFollowsFile' /\ FileSound' /\ SentFlagTrue' /\ Kept
    BY <2>1, <2>2 DEF GoalInv, SessionFollowsFile, FileSound, SentFlagTrue,
       G!SentFlagTrue, Kept
  <2>6. TaskOfConnection' /\ QuietGreeting'
    BY <2>1, <2>2, <2>3 DEF GoalInv, TaskOfConnection, QuietGreeting
  <2>7. Counted' /\ OncePerConnection'
    BY <2>1 DEF GoalInv, Counted, OncePerConnection, G!OncePerConnection
  <2> QED BY <2>1, <2>4, <2>5, <2>6, <2>7 DEF GoalInv
<1> QED BY <1>2, <1>3

LEMMA LinkSteps ==
    ASSUME GoalInv,
           \/ G!Connect \/ G!OnRoomInfo \/ G!OnConnected \/ G!LoseLink
           \/ G!ConnectionClosed \/ G!PlayerDisconnects \/ G!Crash
    PROVE  GoalInv' /\ Kept /\ received' = received
<1>1. /\ G!TypeOK /\ conn \in Nat /\ generation \in Nat
      /\ disk' = disk /\ received' = received /\ failed' = failed
      /\ succeeded' = succeeded
  <2>1. G!TypeOK /\ conn \in Nat /\ generation \in Nat
    BY GoalAssumption DEF GoalInv, G!TypeOK, G!BoundAssumption
  <2>2. disk' = disk
    BY DEF G!Connect, G!OnRoomInfo, G!OnConnected, G!LoseLink, G!ConnectionClosed,
           G!PlayerDisconnects, G!Crash
  <2>3. UNCHANGED G!serverVars
    BY DEF G!Connect, G!OnRoomInfo, G!OnConnected, G!LoseLink, G!ConnectionClosed,
           G!PlayerDisconnects, G!Crash
  <2> QED BY <2>1, <2>2, <2>3 DEF G!serverVars
<1>2. FileSound' /\ SentFlagTrue' /\ Kept /\ OncePerConnection'
  BY <1>1 DEF GoalInv, FileSound, SentFlagTrue, G!SentFlagTrue, Kept, OncePerConnection,
     G!OncePerConnection
<1>3. CASE G!Connect
  <2>1. /\ link = "down" /\ link' = "greeting" /\ conn' = conn + 1
        /\ conn' \in 1 .. MaxConnections
        /\ UNCHANGED <<disk, session, readOnly, slot, generation, armed, task,
                       window, sentOn, failures, received, failed, succeeded>>
    BY <1>1, <1>3, GoalAssumption
       DEF G!Connect, G!TypeOK, G!clientVars, G!serverVars, G!BoundAssumption
  <2>2. G!TypeOK' /\ SessionFollowsFile' /\ QuietGreeting' /\ TaskOfConnection'
    BY <1>1, <2>1 DEF GoalInv, G!TypeOK, SessionFollowsFile, QuietGreeting,
                      TaskOfConnection
  <2>3. Counted'
    BY <1>1, <2>1 DEF GoalInv, Counted
  <2> QED BY <1>1, <1>2, <2>2, <2>3 DEF GoalInv
<1>4. CASE G!OnRoomInfo
  <2>1. /\ link = "greeting" /\ link' = "greeted" /\ task' = None
        /\ armed' = FALSE /\ window' = FALSE /\ sentOn' = None
        /\ slot' = None /\ session' = None /\ readOnly' = FALSE
        /\ generation' \in Nat
        /\ UNCHANGED <<disk, conn, failures, received, failed, succeeded>>
    BY <1>1, <1>4 DEF G!OnRoomInfo, G!Invalidate, G!serverVars
  <2>2. G!TypeOK' /\ SessionFollowsFile' /\ QuietGreeting' /\ TaskOfConnection'
    BY <1>1, <2>1 DEF G!TypeOK, SessionFollowsFile, QuietGreeting,
                      TaskOfConnection
  <2>3. Counted'
    BY <1>1, <2>1 DEF GoalInv, Counted
  <2> QED BY <1>1, <1>2, <2>2, <2>3 DEF GoalInv
<1>5. CASE G!OnConnected
  <2>1. /\ link = "greeted" /\ session = None
    BY <1>5 DEF G!OnConnected, GoalInv, QuietGreeting
  <2>2. /\ link' = "joined" /\ task' = None /\ window' = FALSE
        /\ armed' = TRUE /\ sentOn' = None /\ slot' \in Players
        /\ generation' \in Nat
        /\ UNCHANGED <<disk, session, readOnly, conn, failures, received, failed,
                       succeeded>>
    BY <1>1, <1>5, <2>1 DEF G!OnConnected, G!Pumped, G!Ready, G!serverVars
  <2>3. G!TypeOK' /\ SessionFollowsFile' /\ QuietGreeting' /\ TaskOfConnection'
    BY <1>1, <2>1, <2>2 DEF G!TypeOK, SessionFollowsFile, QuietGreeting,
                            TaskOfConnection
  <2>4. Counted'
    BY <1>1, <2>1, <2>2 DEF GoalInv, Counted, G!TypeOK
  <2> QED BY <1>1, <1>2, <2>3, <2>4 DEF GoalInv
<1>6. CASE G!LoseLink \/ G!PlayerDisconnects
  <2>1. /\ link # "down" /\ link' = "broken"
        /\ UNCHANGED <<disk, session, readOnly, slot, generation, armed, task,
                       window, sentOn, conn, received, failed, succeeded>>
    BY <1>6 DEF G!LoseLink, G!PlayerDisconnects, G!clientVars, G!serverVars
  <2>2. failures' \in 0 .. MaxFailures
    BY <1>1, <1>6, GoalAssumption
       DEF G!LoseLink, G!PlayerDisconnects, G!Fault, G!TypeOK, G!BoundAssumption
  <2>3. G!TypeOK' /\ SessionFollowsFile' /\ QuietGreeting' /\ TaskOfConnection'
    BY <1>1, <2>1, <2>2 DEF GoalInv, G!TypeOK, SessionFollowsFile, QuietGreeting,
                            TaskOfConnection
  <2>4. Counted'
    BY <1>1, <2>1 DEF GoalInv, Counted
  <2> QED BY <1>1, <1>2, <2>3, <2>4 DEF GoalInv
<1>7. CASE G!ConnectionClosed \/ G!Crash
  <2>1. /\ link' = "down" /\ task' = None /\ armed' = FALSE
        /\ window' = FALSE /\ sentOn' = None
        /\ UNCHANGED <<disk, conn, received, failed, succeeded>>
    BY <1>7 DEF G!ConnectionClosed, G!Crash, G!Invalidate, G!serverVars
  <2>2. /\ \/ UNCHANGED <<session, slot, readOnly>>
           \/ session' = None /\ slot' = None /\ readOnly' = FALSE
        /\ generation' \in Nat
    BY <1>1, <1>7 DEF G!ConnectionClosed, G!Crash
  <2>3. failures' \in 0 .. MaxFailures
    BY <1>1, <1>7, GoalAssumption
       DEF G!ConnectionClosed, G!Crash, G!Fault, G!TypeOK, G!BoundAssumption
  <2>4. G!TypeOK' /\ SessionFollowsFile' /\ QuietGreeting' /\ TaskOfConnection'
    BY <1>1, <2>1, <2>2, <2>3
       DEF GoalInv, G!TypeOK, SessionFollowsFile, QuietGreeting, TaskOfConnection
  <2>5. Counted'
    BY <1>1, <2>1 DEF GoalInv, Counted
  <2> QED BY <1>1, <1>2, <2>4, <2>5 DEF GoalInv
<1> QED BY <1>3, <1>4, <1>5, <1>6, <1>7

LEMMA TaskSteps ==
    ASSUME GoalInv, G!Begin \/ G!RetryWindowElapses
    PROVE  GoalInv' /\ Kept /\ received' = received
<1>1. /\ G!TypeOK
      /\ UNCHANGED <<disk, session, readOnly, slot, generation, armed, sentOn,
                     link, conn, failures, received, failed, succeeded>>
  BY DEF GoalInv, G!Begin, G!RetryWindowElapses, G!serverVars
<1>2. /\ window' \in BOOLEAN
      /\ task' \in G!Task \cup {None}
      /\ \/ task' = None
         \/ /\ task # None
            /\ task'.save = task.save /\ task'.conn = task.conn
            /\ task'.generation = task.generation
            /\ task'.orphan = task.orphan
  <2>1. CASE G!Begin
    <3>1. window' = window /\ task # None
      BY <2>1 DEF G!Begin
    <3>2. task' = None \/ task' = [task EXCEPT !.phase = "sending"]
      BY <2>1 DEF G!Begin
    <3> QED BY <1>1, <3>1, <3>2 DEF G!TypeOK, G!Task
  <2>2. CASE G!RetryWindowElapses
    BY <1>1, <2>2 DEF G!RetryWindowElapses, G!TypeOK
  <2> QED BY <2>1, <2>2
<1>3. G!TypeOK'
  BY <1>1, <1>2 DEF G!TypeOK
<1>4. SessionFollowsFile' /\ FileSound' /\ SentFlagTrue' /\ Kept
  BY <1>1 DEF GoalInv, SessionFollowsFile, FileSound, SentFlagTrue, G!SentFlagTrue, Kept
<1>5. TaskOfConnection' /\ QuietGreeting'
  BY <1>1, <1>2 DEF GoalInv, TaskOfConnection, QuietGreeting
<1>6. Counted' /\ OncePerConnection'
  BY <1>1 DEF GoalInv, Counted, OncePerConnection, G!OncePerConnection
<1> QED BY <1>1, <1>3, <1>4, <1>5, <1>6 DEF GoalInv

\* What the send made of the connection: nothing was received, or it is the
\* connection the task was created for, which had not been told before.
LEMMA DeliveredFacts ==
    ASSUME GoalInv, task # None, G!Delivered
    PROVE  /\ received' \in [1 .. MaxConnections -> Nat]
           /\ link # "joined" => received' = received
           /\ link = "joined" =>
                /\ conn \in 1 .. MaxConnections
                /\ received[conn] <= failed[conn]
                /\ received'[conn] = received[conn] + 1
                /\ \A c \in 1 .. MaxConnections :
                     c # conn => received'[c] = received[c]
           /\ ToldStep
<1>1. /\ received \in [1 .. MaxConnections -> Nat]
      /\ task \in G!Task /\ task.save \in Saves
  BY DEF GoalInv, G!TypeOK, G!Task
<1>2. CASE link = "joined"
  <2>1. /\ conn \in 1 .. MaxConnections
        /\ received[conn] <= failed[conn]
    BY <1>2 DEF GoalInv, Counted, TaskOfConnection
  <2>2. received' = [received EXCEPT ![conn] = @ + 1]
    BY <1>2 DEF G!Delivered
  <2>3. PlayerOf[task.save] = slot /\ disk[task.save].completed
    BY <1>2 DEF GoalInv, TaskOfConnection
  <2>4. received' \in [1 .. MaxConnections -> Nat]
    BY <1>1, <2>1, <2>2
  <2>5. /\ received'[conn] = received[conn] + 1
        /\ \A c \in 1 .. MaxConnections : c # conn => received'[c] = received[c]
    BY <1>1, <2>1, <2>2
  <2> QED BY <1>1, <1>2, <2>1, <2>3, <2>4, <2>5 DEF ToldStep
<1>3. CASE link # "joined"
  BY <1>1, <1>3 DEF G!Delivered, ToldStep
<1> QED BY <1>2, <1>3

LEMMA SendFailsStep ==
    ASSUME GoalInv, G!SendFails
    PROVE  GoalInv' /\ Kept /\ ToldStep
<1>1. /\ G!TypeOK /\ task # None /\ task' = None
      /\ UNCHANGED <<disk, session, readOnly, slot, generation, armed, window,
                     sentOn, link, conn, succeeded>>
  BY DEF GoalInv, G!SendFails, G!Sending
<1>2. /\ received \in [1 .. MaxConnections -> Nat]
      /\ failed \in [1 .. MaxConnections -> Nat]
      /\ conn \in Nat
  BY GoalAssumption DEF GoalInv, G!TypeOK, G!BoundAssumption
<1>3. /\ failed' \in [1 .. MaxConnections -> Nat]
      /\ failures' \in 0 .. MaxFailures
      /\ link # "joined" => failed' = failed
      /\ link = "joined" =>
           /\ conn \in 1 .. MaxConnections
           /\ failed'[conn] = failed[conn] + 1
           /\ \A c \in 1 .. MaxConnections : c # conn => failed'[c] = failed[c]
  <2>1. CASE link = "joined"
    <3>1. /\ task.conn = conn /\ conn \in 1 .. MaxConnections
      BY <1>1, <2>1 DEF GoalInv, TaskOfConnection, Counted
    <3>2. G!Fault /\ failed' = [failed EXCEPT ![conn] = @ + 1]
      BY <2>1, <3>1 DEF G!SendFails
    <3>3. failures' \in 0 .. MaxFailures
      BY <1>1, <3>2, GoalAssumption DEF G!TypeOK, G!Fault, G!BoundAssumption
    <3>4. /\ failed' \in [1 .. MaxConnections -> Nat]
          /\ failed'[conn] = failed[conn] + 1
          /\ \A c \in 1 .. MaxConnections : c # conn => failed'[c] = failed[c]
      BY <1>2, <3>1, <3>2
    <3> QED BY <2>1, <3>1, <3>3, <3>4
  <2>2. CASE link # "joined"
    BY <1>1, <1>2, <2>2 DEF G!SendFails, G!TypeOK
  <2> QED BY <2>1, <2>2
<1>4. /\ received' \in [1 .. MaxConnections -> Nat]
      /\ link # "joined" => received' = received
      /\ link = "joined" =>
           /\ received[conn] <= failed[conn]
           /\ received'[conn] \in {received[conn], received[conn] + 1}
           /\ \A c \in 1 .. MaxConnections : c # conn => received'[c] = received[c]
      /\ ToldStep
  <2>1. CASE G!Delivered
    BY <1>1, <2>1, DeliveredFacts
  <2>2. CASE received' = received
    BY <1>1, <1>2, <2>2 DEF GoalInv, Counted, TaskOfConnection, ToldStep
  <2> QED BY <2>1, <2>2 DEF G!SendFails
<1>5. G!TypeOK'
  BY <1>1, <1>3, <1>4 DEF G!TypeOK
<1>6. SessionFollowsFile' /\ FileSound' /\ SentFlagTrue' /\ Kept
  BY <1>1 DEF GoalInv, SessionFollowsFile, FileSound, SentFlagTrue, G!SentFlagTrue, Kept
<1>7. TaskOfConnection' /\ QuietGreeting'
  BY <1>1 DEF GoalInv, TaskOfConnection, QuietGreeting
<1>8. Counted'
  <2>1. CASE link = "joined"
    BY <1>1, <1>2, <1>3, <1>4, <2>1 DEF GoalInv, Counted
  <2>2. CASE link # "joined"
    BY <1>1, <1>3, <1>4, <2>2 DEF GoalInv, Counted
  <2> QED BY <2>1, <2>2
<1>9. OncePerConnection'
  <2>1. CASE link = "joined"
    BY <1>2, <1>3, <1>4, <2>1 DEF GoalInv, OncePerConnection, G!OncePerConnection
  <2>2. CASE link # "joined"
    BY <1>3, <1>4, <2>2 DEF GoalInv, OncePerConnection, G!OncePerConnection
  <2> QED BY <2>1, <2>2
<1> QED BY <1>4, <1>5, <1>6, <1>7, <1>8, <1>9 DEF GoalInv

LEMMA SentStep ==
    ASSUME GoalInv, G!Sent
    PROVE  GoalInv' /\ Kept /\ ToldStep
<1>1. /\ G!TypeOK /\ task # None /\ task' = None /\ G!Delivered /\ G!FlagCommitted
      /\ task \in G!Task /\ task.save \in Saves
      /\ succeeded' = succeeded \cup {PlayerOf[task.save]}
      /\ succeeded' \subseteq Players
      /\ sentOn' = G!Marked
      /\ UNCHANGED <<readOnly, slot, generation, armed, link, conn, failed>>
  BY GoalAssumption DEF GoalInv, G!TypeOK, G!Task, G!Sent, G!Sending, G!SlotAssumption
<1>2. /\ received \in [1 .. MaxConnections -> Nat]
      /\ failed \in [1 .. MaxConnections -> Nat]
      /\ conn \in Nat
      /\ sentOn' \in Nat \cup {None}
      /\ link = "joined" => sentOn' = generation
  BY <1>1, GoalAssumption DEF GoalInv, G!TypeOK, G!Marked, TaskOfConnection,
     G!BoundAssumption
<1>3. /\ session' \in G!Session \cup {None}
      /\ disk' \in [Saves -> G!State]
      /\ failures' \in 0 .. MaxFailures /\ window' \in BOOLEAN
      /\ SessionFollowsFile' /\ FileSound' /\ SentFlagTrue' /\ Kept
      /\ link = "greeted" => session' = None
  <2>1. CASE UNCHANGED <<disk, session, failures, window>>
    <3>1. SessionFollowsFile' /\ FileSound' /\ SentFlagTrue' /\ Kept
      BY <1>1, <2>1 DEF GoalInv, SessionFollowsFile, FileSound, SentFlagTrue,
         G!SentFlagTrue, Kept
    <3> QED BY <1>1, <2>1, <3>1 DEF G!TypeOK, GoalInv, QuietGreeting
  <2>2. CASE /\ ~task.orphan
             /\ LET new == [session.state EXCEPT !.sent = TRUE]
                IN \/ G!Committed(new) /\ window' = FALSE
                   \/ G!CommitFailed(new) /\ UNCHANGED window
    <3> DEFINE new == [session.state EXCEPT !.sent = TRUE]
    <3>1. /\ session # None /\ session \in G!Session /\ session.state \in G!State
          /\ session.save = task.save
      BY <1>1, <2>2 DEF GoalInv, G!TypeOK, TaskOfConnection, G!Session
    <3>2. /\ new \in G!State /\ new.checked = session.state.checked
          /\ new.completed = session.state.completed /\ new.sent
      BY <3>1 DEF G!State
    <3>3. ~session.stale => session.state.completed
      BY <1>1, <3>1 DEF GoalInv, SessionFollowsFile, TaskOfConnection
    <3>4. ~session.stale => Extends(new)
      BY <1>1, <3>1, <3>2, <3>3 DEF GoalInv, SessionFollowsFile, Extends
    <3>9. session.stale => UNCHANGED <<disk, session, failures>>
      BY <2>2 DEF G!Committed, G!CommitFailed
    <3>5. (G!Committed(new) \/ G!CommitFailed(new)) /\ window' \in BOOLEAN
      BY <1>1, <2>2 DEF G!TypeOK
    <3> HIDE DEF new
    <3>6. /\ disk' \in [Saves -> G!State] /\ session' \in G!Session
          /\ failures' \in 0 .. MaxFailures
      BY <1>1, <3>1, <3>2, <3>5, CommitFacts
    <3>7. SessionFollowsFile' /\ FileSound' /\ SentFlagTrue' /\ Kept
      <4>1. CASE session.stale
        BY <1>1, <3>9, <4>1
           DEF GoalInv, SessionFollowsFile, FileSound, SentFlagTrue, G!SentFlagTrue,
              Kept
      <4>2. CASE ~session.stale
        BY <1>1, <3>1, <3>4, <3>5, <4>2, CommitStep
      <4> QED BY <4>1, <4>2
    <3>8. link # "greeted"
      BY <3>1 DEF GoalInv, QuietGreeting
    <3> QED BY <3>5, <3>6, <3>7, <3>8
  <2> QED BY <1>1, <2>1, <2>2 DEF G!FlagCommitted
<1>4. /\ received' \in [1 .. MaxConnections -> Nat]
      /\ link # "joined" => received' = received
      /\ link = "joined" =>
           /\ conn \in 1 .. MaxConnections
           /\ received[conn] <= failed[conn]
           /\ received'[conn] = received[conn] + 1
           /\ \A c \in 1 .. MaxConnections : c # conn => received'[c] = received[c]
      /\ ToldStep
  BY <1>1, DeliveredFacts
<1>5. G!TypeOK'
  BY <1>1, <1>2, <1>3, <1>4 DEF G!TypeOK
<1>6. TaskOfConnection' /\ QuietGreeting'
  BY <1>1, <1>3 DEF GoalInv, TaskOfConnection, QuietGreeting
<1>7. Counted'
  <2>1. CASE link = "joined"
    BY <1>1, <1>2, <1>4, <2>1 DEF GoalInv, Counted
  <2>2. CASE link # "joined"
    BY <1>1, <1>4, <2>2 DEF GoalInv, Counted
  <2> QED BY <2>1, <2>2
<1>8. OncePerConnection'
  <2>1. CASE link = "joined"
    BY <1>1, <1>2, <1>4, <2>1 DEF GoalInv, OncePerConnection, G!OncePerConnection
  <2>2. CASE link # "joined"
    BY <1>1, <1>4, <2>2 DEF GoalInv, OncePerConnection, G!OncePerConnection
  <2> QED BY <2>1, <2>2
<1> QED BY <1>3, <1>4, <1>5, <1>6, <1>7, <1>8 DEF GoalInv

-----------------------------------------------------------------------------
(* The theorems.                                                            *)

LEMMA InitStep == G!Init => GoalInv
<1> SUFFICES ASSUME G!Init PROVE GoalInv
  OBVIOUS
<1>1. G!TypeOK
  <2>1. /\ disk \in [Saves -> G!State]
        /\ failures \in 0 .. MaxFailures /\ conn \in 0 .. MaxConnections
    BY GoalAssumption DEF G!Init, G!State, G!BoundAssumption
  <2> QED BY <2>1 DEF G!Init, G!TypeOK
<1>2. SessionFollowsFile /\ FileSound /\ QuietGreeting /\ TaskOfConnection
  BY DEF G!Init, SessionFollowsFile, FileSound, QuietGreeting, TaskOfConnection
<1>3. Counted /\ OncePerConnection
  BY DEF G!Init, Counted, OncePerConnection, G!OncePerConnection
<1>4. SentFlagTrue
  BY DEF G!Init, SentFlagTrue, G!SentFlagTrue
<1> QED BY <1>1, <1>2, <1>3, <1>4 DEF GoalInv

LEMMA NextStep == GoalInv /\ [G!Next]_(G!vars) => GoalInv' /\ Kept /\ ToldStep
<1> SUFFICES ASSUME GoalInv, [G!Next]_(G!vars) PROVE GoalInv' /\ Kept /\ ToldStep
  OBVIOUS
<1>1. CASE G!ObserveLocal \/ G!Heartbeat \/ G!OnRoomUpdate
  BY <1>1, ObserveLocalStep, HeartbeatStep, RoomUpdateStep DEF ToldStep
<1>2. CASE G!OtherCommit \/ G!OpenSession \/ G!CloseSession
  BY <1>2, SessionSteps DEF ToldStep
<1>3. CASE \/ G!Connect \/ G!OnRoomInfo \/ G!OnConnected \/ G!LoseLink
           \/ G!ConnectionClosed \/ G!PlayerDisconnects \/ G!Crash
  BY <1>3, LinkSteps DEF ToldStep
<1>4. CASE G!Begin \/ G!RetryWindowElapses
  BY <1>4, TaskSteps DEF ToldStep
<1>5. CASE G!Sent
  BY <1>5, SentStep
<1>6. CASE G!SendFails
  BY <1>6, SendFailsStep
<1>7. CASE UNCHANGED G!vars
  <2>1. UNCHANGED <<disk, session, readOnly, slot, generation, armed, task,
                    window, sentOn, link, conn, failures, received, failed,
                    succeeded>>
    BY <1>7 DEF G!vars, G!clientVars, G!serverVars
  <2>2. G!TypeOK' /\ QuietGreeting' /\ TaskOfConnection'
    BY <2>1 DEF GoalInv, G!TypeOK, QuietGreeting, TaskOfConnection
  <2>3. SessionFollowsFile' /\ FileSound' /\ SentFlagTrue' /\ Kept
    BY <2>1 DEF GoalInv, SessionFollowsFile, FileSound, SentFlagTrue, G!SentFlagTrue,
       Kept
  <2>4. Counted' /\ OncePerConnection' /\ ToldStep
    BY <2>1 DEF GoalInv, Counted, OncePerConnection, G!OncePerConnection, ToldStep
  <2> QED BY <2>2, <2>3, <2>4 DEF GoalInv
<1> QED BY <1>1, <1>2, <1>3, <1>4, <1>5, <1>6, <1>7 DEF G!Next

\* Every reachable state satisfies the inductive invariant.
THEOREM GoalInvariant == G!Spec => []GoalInv
<1> QED BY InitStep, NextStep, PTL DEF G!Spec

\* Every variable keeps its type, the bounded counters their bounds.
THEOREM GoalTypes == G!Spec => []G!TypeOK
<1>1. GoalInv => G!TypeOK
  BY DEF GoalInv
<1> QED BY <1>1, GoalInvariant, PTL

\* However saves and slots are switched while a status is on its way, a
\* connection carries one status and one more for each send that raised.
THEOREM ToldOnce == G!Spec => []OncePerConnection
<1>1. GoalInv => OncePerConnection
  BY DEF GoalInv
<1> QED BY <1>1, GoalInvariant, PTL

\* goal_status_sent is on the disk of a save only if a send for its slot has
\* returned.
THEOREM FlagTrue == G!Spec => []SentFlagTrue
<1>1. GoalInv => SentFlagTrue
  BY DEF GoalInv
<1> QED BY <1>1, GoalInvariant, PTL

\* The server hears of a goal only if a save of the joined slot has it
\* completed on disk.
THEOREM ToldTrue == G!Spec => ToldOnlyIfCompleted
<1>1. GoalInv /\ [G!Next]_(G!vars) =>
        [received' # received =>
           \E save \in Saves : PlayerOf[save] = slot /\ disk[save].completed]_(G!vars)
  BY NextStep DEF ToldStep
<1> QED BY <1>1, GoalInvariant, PTL DEF G!Spec, ToldOnlyIfCompleted,
   G!ToldOnlyIfCompleted

\* No step takes back a completion or a flag on disk, or completes a goal with
\* a location missing.
THEOREM NothingTakenBack == G!Spec => G!CompletionKept
<1>1. GoalInv /\ [G!Next]_(G!vars) =>
        [\A save \in Saves :
           /\ disk'[save].completed => GoalLocations \subseteq disk'[save].checked
           /\ disk[save].completed => disk'[save].completed
           /\ disk[save].sent => disk'[save].sent]_(G!vars)
  BY NextStep DEF Kept, GoalInv, FileSound
<1> QED BY <1>1, GoalInvariant, PTL DEF G!Spec, G!CompletionKept
=============================================================================
