# A TLA+ model of the Jak 3 Archipelago client and bridge

The program connects a running Jak 3 (OpenGOAL, `gk`) to an Archipelago
multiworld. A Python client (`src/worlds/jak3/client.py`) talks to the
Archipelago server over a websocket and to the game through the compiler's nREPL
(`goalc`); GOAL modules in the game (`src/mod/opengoal/goal_src/jak3/pc/features/`)
evaluate its forms and publish a snapshot file that the client polls. The state
that must not be lost, checked locations and received items, belongs to Python,
in one checksummed sidecar per native save.

The properties below are about that path: a location completed in the game is
recorded durably and reaches the server; an item of the server is recorded
durably and reaches the game; each for the native save it belongs to.

## 1. Inventory

| component | state | operations | interacts with |
|---|---|---|---|
| **GOAL control plane** `archipelago.gc` | published save descriptor, pending auto-save operation, proposal and consumed identity, sidecar acknowledgement, session nonce, ring of eight receipts | hello, ping, query, command, disconnect; wrappers of the native auto-save | evaluates the client's forms; exports the snapshot; calls the modules below |
| **location observer** `archipelago-locations.gc` | descriptor identity, observed and pending flags, last publication of each location | observe on export, reward observation, acknowledge, clear | diagnostic ring, native tasks |
| **diagnostic ring** `archipelago-diagnostics.gc` | 128 records, next sequence, activation generation, dropped count | emit, acknowledge, reload | every GOAL module; drained by snapshots |
| **item features** `archipelago-items.gc` | native feature bits | reconcile to a target mask | command handler |
| **reward wrapper** `archipelago-rewards.gc` | a reported flag | replaces `eval-game-task-cmd!`, suppresses the item of one reward node | location observer, item reconciliation |
| **BridgeProtocol** `agents/protocol.py` | last snapshot, nonce, next command id, operation lock, acknowledgement pending, proposed identity | initialize, ping, query, send_command, observe snapshot, acknowledge | `agents/repl_client.py`, `Jak3Context` callbacks |
| **Jak3Context: locations** `client.py`, `location_outbox.py` | session ledger, mirror of the server, update queue, reservation, send task, retry window, read-only latch | commit an observation, drain updates, reserve, send, retry | server packets, sessions, ring records |
| **Jak3Context: items** `client.py`, `received_items.py` | packet queue, Sync projection, rejection latch, worker, dirty flag, confirmed and failed projections | queue, commit, request Sync, reconcile, schedule | server packets, sessions, BridgeProtocol |
| **Jak3Context: sessions** `client.py` | open session, descriptor, authenticated slot | sync_persistence, close_persistence, mark_bridge_unavailable | heartbeat, state repository |
| **state repository** `persistence.py` | primary, backup, quarantine, authorization record, writer lease | open_live, commit, close, create authorization | file system |
| **supervisor** `client.py` | bridge_ready, reconnect events, activation generations | connect_repl, auto_start, heartbeat, shutdown | repl, BridgeProtocol, sessions |
| **launcher** `agents/launcher.py`, `bridge_manifest.py` | install lock directory, installed files, reload marker, processes | install, roll back, launch | file system, the standalone installer |
| **diagnostics** `agents/diagnostics.py` | session files, marker, capacity lock, archives, drained sequence | initialize, emit, rotate, fall back, report, export, close | file system, other clients, the ring |
| **state file** `archipelago.gc`, `protocol.py` | the snapshot, rewritten in place | export, parse | nothing locks it |
| **goal status** `client.py` | completion, flag, send task, retry window | complete, pump, send | sessions, server |
| **slot data, options** | none | pure functions | server |
| **tables, world generation, tools, tests** | none at run time | | |

What makes it hard:

* Two programs that share no memory: forms are queued, evaluated later or
  never; answers are read from a file; a form whose sender gave up is still
  evaluated.
* The player loads another save at any moment, and everything the client holds
  for the old one (session, mask, queued record, acknowledgement) becomes stale.
* asyncio: the heartbeat, the item worker, the outbox task and the packet
  handlers interleave at every `await`; state read before one is used after it.
* Crashes of either side, failed commits that did or did not reach the disk,
  lost sockets, servers restarted from an older save.
* Several processes on one file system: clients that share a diagnostics
  directory, two installers, two openers of one ledger.
* Retries that must end: resending, republishing, Sync requests.

`PROJECT.json` lists each of these at its line, with the properties that would
catch it going wrong, or the reason why none does.

### What makes each component correct

| component | it is correct when |
|---|---|
| location outbox | only durable locations are sent; after a reconciliation confirmed is what the server holds; nothing checked is forgotten; everything arrives |
| location observation | the game offers a location until it is committed for its own save, and a record leaves the ring committed |
| state repository | a reported commit survives; one ledger per save; only the authorized slot writes |
| received items | journals are beginnings of the server's history; applied receipts stay; every item is recorded; Sync requests end |
| item reconciliation | an awaited command carries the durable ledger; a receipt is applied only when the game was given it; features and ledger agree in the end |
| commands and receipts | a command takes effect once; what the client reports applied was applied; the wait for a receipt ends |
| state file | a snapshot is one export, whole; an answer is younger than its question |
| save binding | an identity names one game for ever; the published descriptor is that of the running game; the offer comes back |
| goal status | the server is told once per connection, only of a completed goal of the joined slot, and is told |
| lock directory | two live processes are never both inside; nobody waits for ever |
| installation and activation | a stale module leaves the reload marker; a ready bridge runs the client's own release; the client gets ready |
| diagnostic storage | the capacity holds; nothing of a live session is deleted; deaths are reported, and truthfully |
| diagnostic drain | a record leaves the ring logged; rings are told apart; holes are reported; the ring empties |

## 2. Modules

| module | models | scope |
|---|---|---|
| `LocationDelivery` | what the outbox promises | abstract specification |
| `LocationOutbox` | `location_outbox.py`, the location half of `Jak3Context`, socket and server | one save, one slot |
| `LocationObservation` | `archipelago-locations.gc`, the ring, acknowledgements, `_ingest_goal_events`, sessions | several saves |
| `StateStore` | `persistence.py` | several writers, one save |
| `ReceivedItems` | `received_items.py`, packet queue, Sync requests | several saves, one slot |
| `ItemReconciliation` | item worker, operation lock, command, features | several saves |
| `CommandReceipts` | numbering in `protocol.py`, hello, command core and receipt ring in `archipelago.gc` | client restarts, bridge reloads |
| `SnapshotFile` | `ap-export-state!`, `parse_snapshot_text`, the polling of `_ping` and `_query` | several attaches |
| `SaveBinding` | native save wrappers, tag 900, the offer of identities on both sides | several games and saves |
| `GoalStatus` | `_temporary_goal_state` to `_send_temporary_goal_status` and their callers | several saves and slots |
| `InterprocessLock` | `interprocess_directory_lock` | several processes and hosts |
| `BridgeActivation` | `launcher.py`, `connect_repl`, `auto_start_opengoal` | two installers, one game |
| `Items` | item reconciliation and received items side by side | their promises |
| `Protocol` | commands and state file side by side | their promises |
| `Installation` | lock directory and activation side by side | their promises |
| `Saves` | save binding and goal status side by side | their promises |
| `DiagnosticStorage` | the files of `DiagnosticSession` | several clients and hosts |
| `DiagnosticDrain` | ring, export, drain and acknowledgement of diagnostics | client and game restarts |
| `Diagnostics` | the files and the drain side by side | their promises |
| `*Proofs` | | theorems, section 5 |
| `MC*` | instances for TLC | |

The modules cut the system at durable state and at promises. `StateStore`
justifies what the others take as one step, a commit that leaves the old or the
new ledger. `LocationObservation` ends where a record is committed;
`LocationOutbox` starts there, and its `ObserveLocal` is the commit.
`ReceivedItems` ends at the journal; `ItemReconciliation` starts from it, with a
ledger of two sets (items with a pending receipt, items with an applied one).
`CommandReceipts` takes what the game published as read whole, which is what
`SnapshotFile` shows; `BridgeActivation` and `DiagnosticStorage` take their lock
in one step, which is what `InterprocessLock` shows. `SaveBinding` ends with the
published descriptor that `LocationObservation` and `ItemReconciliation` start
from.

In all of them **code between two awaits is one action**, so that the
interleavings are those of the asyncio loop; the game is a concurrent process
whose handlers are atomic, as goalc evaluates one form at a time. Where
processes share files, each call that reaches the file system is a step of its
own. "mutant" operators are faulty variants of the definition below them; no
action uses them. They show that a property depends on the code: replacing the
definition by its mutant breaks the property it is listed with.

**Modules of two models.** `Items`, `Protocol`, `Installation`, `Saves` and
`Diagnostics` extend one specification and instantiate another, which share no
variable; what both promise has one definition there, used by the runs and by the
proofs. In `MCItems`, `MCProtocol`, `MCInstallation` and the run `diagnostics` a
variable `part`, chosen in the initial state and never changed, says which of them
moves; the other rests in its initial state. The states explored are then the sum
of the two and not the product, each invariant is that of its own module, and each
fairness condition is stated of the part that moves. The runs `save_binding`,
`goal` and `storage` move one of the two only.

### LocationOutbox

`session` is the ledger in memory and `disk` the one in the primary file; they
differ only when `stale`: a commit failed after the rename
(`CommitFailed` chooses early or late), after which `RevisionCurrent` refuses
every later commit until the session is reopened. `Heartbeat` is the whole of
`sync_persistence` for locations: open the session, drain the queued server
updates, pump the outbox. `task` is the outbox task between its creation and its
first instruction, `Send` what it does when it runs: reserve, check, write.
`Receive` and the `On...` actions are `on_package` with the packet validation in
front of it. The server and the socket are external, in the smallest form that
can lose, delay and regress: `LoseLink`, `Rollback`, `CheckedElsewhere`.

### LocationObservation

`observer` and `ring` are the two GOAL objects. `Export` is
`ap-locations-observe!`, called by every snapshot. A record names a sequence and
a location and nothing else, as in the code; the save it was observed in is not
in it. `Observe` is one poll of the snapshot: records are ingested in order, the
acknowledgement of the longest committed prefix is scheduled, and then
`sync_persistence` selects the session. `TakeReward` is all that is modelled of
the reward wrapper, its immediate observation. `SendAck` is a form without an answer.
Reloading a module (`ReloadDiagnostics`, `ReloadLocations`) gives the ring
another activation generation or clears the observer.

### StateStore

Each step is one rename or one decision: a commit is `BeginCommit` (compare the
revision), `ReplaceBackup`, `ReplacePrimary`, `Report`; opening may quarantine,
restore, create and bind. `Crash`, `CommitFails` and `DamageFile` can come
between any two. The slot of a writer stands for everything a binding is
compared with.

### ItemReconciliation

A form carries the descriptor its sender reported (`status`), the target, and two
things the code has implicitly: whether somebody still waits for the answer
(`awaited`; in the code a command identifier or a ping sequence that no longer
matches) and the save whose ledger the target came from (`origin`). The worker is
`scheduled`, `waiting` for `_operation_lock`, or `sent`; what it computed before
the lock is in `worker`, what it reads after it is read in `WorkerSends`.
`Observe` is a pong or the hello: events, session, `_note_permanent_item_runtime`
in that order. `switched` is a descriptor that differs only in eligibility,
`refused` a session that does not open. A manual reconnect is not modelled apart:
it is `TimesOutEarly`.

### ReceivedItems

`down` and `up` are the two directions of the connection. CommonClient's handling
of `ReceivedItems`, including the Sync it sends by itself, is in
`OnReceivedItems`. The worker commits every queued packet without waiting in
between, so `WorkerRuns` folds `Taken` over the queue; `WorkerFails` stops at a
packet whose commit fails. `Request` is what makes two Sync requests the same, a
projection that is forgotten only when a whole history arrives.

### CommandReceipts

The queue of forms, the game's watermark, its receipts and the last result it
published, and a client that is down, waits for a hello or for a receipt, or is
free. A nonce is the number of the protocol whose hello proposed it. `Evaluate` is
one form: a hello that keeps or begins an activation, every branch of the command
core (repeated, conflicting, expired, forbidden, invalid, unsafe, failed,
applied), a disconnect. `SendCommand` chooses its identifier or is given one;
`Abandon`, `TimesOut`, `Stop` and `Crash` end a wait in the four ways it can end;
`Reload` begins the game's module anew. Gameplay's verdicts are a choice.

### SnapshotFile

The file is a sequence of lines, written one after the other while the client
reads it in pieces; only the last line is two items, since a number with its last
digit missing is still a number. `MaxOverlap` is how many exports may begin while
one read goes on. What the client polls for (the hello's answer, the pong, a
query) is in `client`; `Poll` parses, refuses or takes.

### SaveBinding

A game has a birth, a save the game and identity in it. `Play` is what the player
can do at a memory card (save, load, begin a new game, in the order of the native
process: staged, done, failed, expired); `Evaluate` is a form with an offer;
`Observe` consumes and rotates the offer. `named` collects every pair of identity
and game ever written, so that a double use is seen however late.

### GoalStatus

`disk` is the state of each save, `session` the open one with the flag of a failed
commit, `task` the send task, created or sending, with the flags of what has
changed under it (its projection is still current; its session was closed). Link
states follow the connection from down over greeted to joined, and "broken
unnoticed". What the server got and which sends returned are history variables.

### InterprocessLock

Each call on the file system is a step: mkdir, open, write, compare, unlink,
rmdir. An acquisition may die before any of them. `Lapse` passes a lease; `Reuse`
gives a dead owner's process number to another process. Four switches say what is
assumed of the system: `Identified` (start times can be read), `Serial`
(recoveries do not overlap), `LongPause`, `Patient`.

### BridgeActivation

The installers plan, write the marker, replace file by file, and roll back; the
client launches, attaches, builds, probes, loads each module, takes a baseline of
the activation generations, proves that they advanced, clears the marker and says
hello. A module in the game has a release; a snapshot shows the contract only.
`Crash`, `GameExits`, `Lost` and `WriteFails` can come between any two steps.

### DiagnosticStorage

Every session runs through publish, report, reserve, protect, prune and check
under the capacity lock, then writes, renews its marker, exports, falls back or
dies. A log within one segment of its quota may regain what its rotation dropped
(`Rotating`), which the reservation in the marker does not know; the slack in
`WithinCapacity` is exactly that.

### DiagnosticDrain

A record is its ring and its number. The ring begins anew when its module is
loaded (another activation) or the game is started (the first activation again).
Between the client and the ring are the snapshot, which may be older than the
connection, and acknowledgements, which may arrive late. `source` is what the log
tells rings apart by. A hello is accepted only once a snapshot shows a nonce
(`Greets`): a connection ready without one would take the ring of the next game
for its own. The run has two rings; four rings of one client without faults or
malformed exports (1.0 million states, no run) show the same.

## 3. Runs

| run | instance | distinct states | shows |
|---|---|---|---|
| `outbox` | 2 locations, 3 faults, 2 packets each way | 165,443 | durable before sent; agreement with the server; `LocationDelivery` implemented; every location delivered |
| `observation` | 2 saves, 2 locations (one by the reward wrapper), ring of 2, 3 records, 1 fault | 1,347,370 | offered until committed for that save; records leave the ring committed |
| `observation_saves` | the same | violation | finding 1 |
| `state_store` | 2 writers, 2 slots, 2 updates, 3 faults, 2 damaged files | 69,525 | commits survive; one instance; nothing undone; authorized writes |
| `items` | 2 saves, 1 item, 2 moves, 1 packet, 1 fault; histories of 2 over 2 items, one of them refused | 237,100 | applied only if granted; awaited commands carry the durable ledger; journals from the server; applied receipts kept; both settle |
| `items_own_ledger` | 2 saves, 2 moves, 1 packet, no fault | violation | finding 2 |
| `protocol` | 2 payloads, ring of 1, identifiers 0 and 1, 2 hellos, 1 fault; 1 attach, 3 operations, 1 reload, 2 overlapping exports | 389,538 | at most once; automatic identifiers are new; receipts are truthful; snapshots whole; answers fresh; waits end |
| `save_binding` | 1 slot, 2 identities, 3 games, 2 operations, 1 lost connection, 1 fault | 579,540 | one game per identity; the descriptor is the running game's; the offer comes back |
| `goal` | 3 saves of 2 slots, 2 goal locations, 2 connections, 2 faults | 417,606 | once per connection; the flag is true; told only if completed; told |
| `storage` | 2 sessions of one host, segments of 2 units, 1 fault | 906,351 | capacity; live files kept; exports whole; deaths reported |
| `diagnostics` | ring of 3, 4 records, 2 rings, 2 clients, 1 fault; 2 sessions with one segment each, no fault | 205,618 | logged before acknowledged; the log is true; the ring drains; sessions proceed |
| `installation` | 3 acquisitions, one on another host; 4 modules, 2 releases, with and without a new contract, 2 attempts, 3 faults | 404,499 | mutual exclusion; the reload obligation; ready is current; attempts end |

**Why the bounds are enough to be interesting.** A fault is spent on one event of
a kind the module lists (crash, lost link, failed commit, reload, ...). Two saves
are what a stale session needs; two locations what a partial batch and a partial
confirmation need; a ring of two overflows with the third record, a ring of one
receipt forgets with the second command; two clients are what a lock, a lease or
a marker needs. Larger instances were run without an error: `observation` with
two faults (6,984,379 states); `items` with two packets and three network items
(723,027), three moves of the features (2,203,291) and two faults of the journal
(2,469,071, with symmetry); `protocol` with three payloads, one of them invalid,
and two attaches (2,188,673), its commands with two faults (1,182,367, with
symmetry), its state file with two reloads (5,175,157); `save_binding` with three
identities (1,976,929), and with two slots and three operations (3,892,663, with
symmetry); `goal` with three faults (1,156,361); `storage` with two faults
(8,563,540); `diagnostics` with
a fault of the storage (483,607), its drain with two faults (2,558,847) and with
three rings (2,435,673). Symmetry is used without liveness
only. Deadlock is not checked where the bounds let the system come to rest.

The type invariants are conjuncts of the inductive invariants, proved (section 5)
for all thirteen modules of the system, and in no run.

**Findings.**

1. *A location is committed to the wrong save* (`observation_saves`). A record
   does not name its save and the ring survives a load; a record of A whose
   acknowledgement was lost, or that was published while no session was open, is
   committed to B's ledger when B's session is open, and sent to the server.
2. *A command with another save's items* (`items_own_ledger`). The worker
   computes the mask, then waits for the lock the heartbeat holds; the pong
   switches the session; the command goes out with the old mask and the new
   acknowledgement. The next heartbeat reads the difference back and repairs it,
   which is why `ItemsSettle` holds all the same.

**Limits.** What the properties do not say, because TLC refutes it when a switch
or a bound of the module is changed as given here:

| module | change | what fails |
|---|---|---|
| `StateStore` | check `FirstBindingFresh` | a sidecar left unbound by a crash is bound at the next open whatever the save's eligibility is by then |
| `ReceivedItems` | drop `discarded = {}` in `JournalFromServer` | after a server rollback an increment may extend a journal that still holds the old history, if the replay was refused or recorded for another save; the next Sync replaces it |
| `LocationObservation` | `LocationOrder` longer than `Capacity` | an export overflows the ring and acknowledges what was pushed out; the code has 8 locations and 128 records |
| `CommandReceipts` | check `NeverReused` | an identifier given by the caller after an abandoned form may be chosen again with another payload; the game answers it as a conflict |
| `SaveBinding` | `Gap = TRUE` | a form sent after the slot is named and before RoomInfo is handled offers an identity that is consumed twice |
| `SaveBinding` | `Unobserved = TRUE` | a new game before the bridge has evaluated a form leaves the descriptor of the game before |
| `InterprocessLock` | `Serial = FALSE` or `LongPause = TRUE` | two recoveries, or a recovery and a slow owner, both enter |
| `BridgeActivation` | `"tool"` among the installers, or `BuildFails = TRUE` | a stale module without a marker |
| `DiagnosticStorage` | check `HardCapacity` | rotation after the marker was written exceeds the capacity |
| `DiagnosticStorage` | two hosts | with two locks the capacity is exceeded, a session that starts between another's `Protect` and `Prune` loses its files, and an archive is cleaned up while it is written |
| `DiagnosticStorage` | check `CleanReportedClean`, `ReportedOnce` | a session on the console cannot remove its marker; two sessions report the same death |
| `DiagnosticDrain` | `Interrupts = TRUE` | a connection that ends before its hello hides a restart of the game, and an old sequence acknowledges new records |
| `SnapshotFile` | `ReloadsWhileReading = TRUE` | the revision begins anew under the reader, so that two exports make one snapshot |
| `SnapshotFile` | `MaxOverlap = Base - 1` (base 3, two attaches, one load) | a reader that began at revision 1 takes the first digit of a later revision, whose rest is not written yet, for the end of what it read; with the code's numerals that takes nine exports during one read |

## 4. Fairness

* `LocationOutbox`: handlers, tasks and timers of the client are run by the
  asyncio loop; `ObserveLocal` because GOAL republishes what is not committed on
  every export and the heartbeat polls; reconnecting by CommonClient's
  auto-reconnect; the server answers. The player's own reconnect after a refusal
  is not fair, hence the second disjunct of `EventuallyDelivered`.
* `ItemReconciliation`: the game evaluates what is queued and comes back to calm;
  the supervisor loop connects and pings; each wait ends, with its reply or with
  the deadline of `_wait_for`; the worker, once it can run, runs. A fair lock is
  in the guards (`SendPing` lets a waiting worker go first), as `asyncio.Lock` is
  first-in first-out.
* `ReceivedItems`: the server announces and answers, CommonClient dials, packets
  are handled in order, tasks run, a loaded save gets its session.
* `CommandReceipts`, `SnapshotFile`: goalc evaluates, the game writes the next
  line, the client polls and its deadlines pass.
* `SaveBinding`: the same, and the server accepts a login; the player owes
  nothing.
* `GoalStatus`: the heartbeat, the send task, a send that returns or raises, the
  retry window.
* `InterprocessLock`: every live acquisition takes its next step, leases lapse.
* `BridgeActivation`: the client's installation and its connection loop go on.
* `DiagnosticStorage`: a session proceeds (weak), and whoever polls the capacity
  lock gets it if it is free again and again (strong: it is polled every 25 ms,
  while others take and release it).
* `DiagnosticDrain`: the client attaches and the game evaluates (weak); `Export`
  and `Drain` are strong, since a lost connection disables them between the polls.

Nothing is assumed of faults, moves or other players; they are finite by their
bounds.


## 5. Proofs

Eight modules, one argument for each component: an inductive invariant, proved of
the initial states and action by action, from which the properties follow. They
hold for any sets of locations, saves, payloads, writers, acquisitions and
sessions and any bounds; what is assumed of the constants is in the `ASSUME`s of
each module (sentinels are none of the values they stand beside, bounds are
natural numbers, the sessions are finitely many) and, where it says something of
the system, in the last column.

| module | theorem | property | assumes |
|---|---|---|---|
| `LocationOutboxProofs` | `Invariant`, `TypeCorrect` | `IInv`, `TypeOK` | |
| | `PartitionSafe`, `ConfirmationSafe` | `LedgerPartition`, `ConfirmedOnlyByServer` | |
| | `DurableSafe` | `DurableBeforeSent` | |
| | `NothingForgotten` | `CheckedMonotonic` | |
| | `Implements` | `ImplementsDelivery` | |
| | `AgreementSafe` | `ConfirmedMatchesServer` | |
| `LocationObservationProofs` | `Invariant`, `TypeCorrect` | `OInv`, `TypeOK` | one export fits the ring |
| | `OfferedSafe` | `OfferedUntilCommitted` | |
| | `RecordsSafe` | `RecordsLeaveCommitted` | |
| `StateStoreProofs` | `Invariant`, `TypeCorrect` | `SInv`, `TypeOK` | |
| | `NeverRecreated` | `OneInstance` | |
| | `Durable` | `CommittedSurvives` | |
| | `OnlyGrows` | `NothingUndone` | |
| | `OnlyItsSlot` | `OnlyAuthorizedWrites` | |
| `ProtocolProofs` | `Invariant`, `TypeCorrect` | `CInv`, `TypeOK` of the commands | the ring holds a receipt |
| | `EffectsOnce` | `AtMostOnce` | |
| | `ChosenIsNew` | `AutomaticIsNew` | |
| | `Truthful` | `ReceiptTruthful` | |
| | `SnapshotInvariant`, `SnapshotTypes` | `SnapshotInv`, `TypeOK` of the state file | `Readable`: during one read fewer than `Base - 1` exports begin, and no load is one of them |
| | `WholeExport`, `ContentOfOne` | `OneExport`, `OneContent` | `Readable` |
| | `FreshAnswer` | `AnswerFresh` | `Readable` |
| `SavesProofs` | `GoalInvariant`, `GoalTypes` | `GoalInv`, `TypeOK` of the goal | |
| | `ToldOnce` | `OncePerConnection` | |
| | `FlagTrue` | `SentFlagTrue` | |
| | `ToldTrue` | `ToldOnlyIfCompleted` | |
| | `NothingTakenBack` | `CompletionKept` | |
| | `Invariant`, `TypeCorrect` | `BInv`, `TypeOK` of the binding | `Observed`: `Unobserved = FALSE` and `Gap = FALSE` |
| | `NamesOneGame` | `OneGamePerIdentity` | `Observed` |
| | `PublishedIsRunning` | `DescriptorIsRunning` | `Observed` |
| `InstallationProofs` | `TypeCorrect` | `TypeOK` of the lock | |
| | `MutuallyExclusive` | `MutualExclusion` | recoveries do not overlap, no owner outlasts the lease |
| | `BridgeTypeCorrect` | `TypeOK` of the activation | |
| | `BridgeInvariant` | `BridgeInv` | `OwnInstaller`: only the client installs, a completed compilation has built what is installed |
| | `ObligationKept` | `Obligation` | `OwnInstaller` |
| | `ReadyCurrent` | `ReadyIsCurrent` | `OwnInstaller` |
| `ItemsProofs` | `Invariant`, `TypeCorrect` | `IInv`, `TypeOK` of the reconciliation | |
| | `AppliedSafe` | `AppliedOnlyIfGranted` | |
| | `CommandSafe` | `CommandMatchesLedger` | |
| | `JournalInvariant`, `JournalTypes` | `JournalInv`, `TypeOK` of received items | |
| | `JournalTrue` | `JournalFromServer` | |
| | `AppliedStaysSafe` | `AppliedKept` | |
| `DiagnosticsProofs` | `StorageInvariant`, `StorageTypes` | `RInv`, `TypeOK` of the files | |
| | `DeathsAreReported` | `DeathsReported` | |
| | `ExportsAreWhole` | `ExportedWhole` | `OneLock`: all sessions run on one host |
| | `LiveFilesKept` | `LiveKept` | `OneLock` |
| | `CapacityKept` | `WithinCapacity` | `OneLock` |
| | `DrainInvariant`, `DrainTypes` | `DInv`, `TypeOK` of the drain | `Uninterrupted`: `Interrupts = FALSE`, a connection lasts until its hello is answered |
| | `LogIsTrue` | `LogTrue` | `Uninterrupted` |
| | `AcknowledgedSafe` | `AcknowledgedLogged` | `Uninterrupted` |

**Why the invariants are what they are.** None of the properties is inductive
alone.

* *Outbox.* `DurableBeforeSent` needs that the session holds nothing the file
  lacks when a batch is reserved, and so that failed commits are accounted for:
  the session is the file's ledger unless it is stale, and then the file only has
  more (`SessionFollowsFile`). `ConfirmedOnlyByServer` needs the same of
  everything on its way into the ledger: packets, queued updates and the mirror
  carry only what the server has held (`ServerProvenance`).
* *Refinement.* The step that costs is the drain, which applies several updates
  and may stop at one whose commit fails. It is one abstract acknowledgement
  because only the first update of the queue can be a full one (`FullFirst`).
* *Agreement.* The set passes through three hands, packets, mirror and queue; the
  invariant says of each what it lacks. The mirror lacks what is in flight
  (`ServerKnown`), the file what is queued (`MirrorRecorded`), and an open session
  of a client that is not read-only has nothing queued (`SessionCurrent`).
* *Observation.* What an acknowledgement covers is followed from the ring to the
  snapshot, from there to the ledger, and from there to the acknowledgement
  (`SnapshotCovers`, `AcksCovered` for the observed save; `SnapshotHolds`,
  `AcksCommitted` for the ring, which does not know saves). A step of the game
  only moves forward: it publishes under higher sequences, drops records, or
  begins another generation, so that what is known of an older acknowledgement
  stays true. This needs that an export does not push out its own records, the
  assumption on `Capacity`.
* *State store.* A commit is followed rename by rename (`Committing`), so that
  after any crash backup and primary are two consecutive states (`FilesOrdered`).
  `Undamaged` and `DamagedOnce` say how far a reported commit may lie behind, with
  no damaged file and with one; with two there is nothing to say.
* *Commands.* A chosen identifier is above the watermark when it is evaluated
  (`Above`), because it was above every identifier queued before it (`InOrder`)
  and the ring a hello shows ends with the watermark (`RingOrdered`), which is
  what the client chooses above. That a nonce never returns follows from the order
  of the hellos. What a client reads is of its own command because that is the
  last form of the queue until it is answered (`Awaited`), and the answer to a
  repetition is of this activation because the ring is (`RingRecorded`).
* *State file.* A line that was read stands at its place in the text of some
  export, of a later one the later it was read (`Collected`), and revisions of the
  exports begun during a read follow one another (`Succession`). If the number on
  the last line is the one on the first, the exports they are of are the same: a
  whole number differs, and one without its last digit has lost too much to be as
  great, as long as fewer than `Base - 1` exports lie between (lemma `Digits`).
  So is every line between them, and the text is that export's, whole (`OneText`,
  `WholeRead`). This is where both parts of `Readable` are used; section 3 shows
  what happens without either.
* *Freshness.* Only a pong names the form it answers, so that an answer is
  fresh must come from the dialog. Until its form is evaluated no
  export since it was sent passes for its answer (`Pending`): a hello has a session
  the game cannot have yet (`Known`, `OnPath`), a ping a heartbeat above the game's
  (`Counted`), a query a revision above the last one, because between two
  operations nothing is on its way (`AtRest`). That rests on the operation before:
  after its answer only a load exports (`Served`), which answers nothing.
* *Goal.* A task of a joined connection was created for it, and before anything
  was told on it (`TaskOfConnection`); what the server got on a connection without
  a recorded success are sends that raised after they had left (`Counted`).
* *Lock.* Whoever may remove the directory without another look has no owner to
  remove (`NoRobbery`), since what was judged stale is over (`OldEnded`,
  `ObservedEnded`); this is where the two conditions are used.
* *Activation.* Without the marker the built objects and the live modules are the
  installed ones (`UnmarkedKnown`). That the marker may be removed needs what the
  client knows of the game by then: an unforced greeting means no marker
  (`MarkerForces`), a compilation is completed for the client's own sources only
  (`CompiledOwn`, `CompiledFirst`), and generations that differ from those read
  before the load are evidence of a load of the installed sources (`Evidence`); a
  sibling has no generation, but loading the control module takes its flag away.
  Section 3 shows both ways out of `OwnInstaller`.
* *Save binding.* The forms of the queue are evaluated in order, the client never
  returns to an offer it has replaced (`InRuns`), and what the game has written is
  offered at the head at most (`KnownFirst`, `LastOffer`). So a game is given an
  identity no other has, as long as what is written and would be offered again is
  remembered as consumed: `Remembered` says it is, and `WillBeConsumed` says of a
  first write under way that it will be. The two conditions of `Observed` exclude
  the two ways out of this, which section 3 shows.
* *Items.* What the worker will mark is followed from the plan to the answer. The
  target it read stays that of its ledger until it is done (`PlanHolds`: nothing
  else writes a ledger while a command is planned, since packets wait for the
  worker); the form that is waited for carries it, and reports the planned session
  as long as that is open (`CommandAsPlanned`); so what an awaited "applied"
  answers has been given to that save (`AnswerTrue`). That an answer is the
  worker's own rests on `OneWaits`: the lock has one holder, who waits for one
  form.
* *Journal.* That a journal is a beginning of the history needs only that packets
  are pieces of it (`OfHistory`). That a replay of the whole history does not cut
  a journal short, which would take applied receipts back, needs their order: no
  packet ends before one that came earlier (`Forwards`) or before what any save
  has recorded (`Ahead`), although packets wait in a queue that outlives the
  connection and a save may be opened long after they were sent. The worker takes
  its whole queue in one step; what it computes packet by packet is a recursive
  function (`AfterPackets`). The lemma `Unfolds` shows that such a function exists
  and has the value of its equation, and `WorkerInOrder` what holds after every
  packet, both by the least counterexample (`Least`, which rests on the
  well-foundedness of strict inclusion among finite sets: the library's induction
  theorems take an operator, which the provers cannot instantiate).

* *Deaths.* A session that has published its marker is known by it until somebody
  has counted the report (`PublishedKnown`), and what somebody is about to report
  was gone, asleep or without files when its marker was judged (`ClaimsTrue`).
  This needs no lock and holds on any hosts.
* *Live files.* Deciding what to spare and deleting the rest are separate steps.
  A session that renews its lease has a fresh marker, or has no file yet
  (`MarkedOrEmpty`); so what is about to be deleted is of no such session
  (`Spares`), because none can publish its marker, and so come to have files, while
  another holds the lock. An archive being written is that of the holder
  (`ZipsHeld`), so nobody cleans up meanwhile. This is what `OneLock` is for.
* *Capacity.* The admission reads the reservations, decides what to spare, deletes,
  and counts the files; writing and renewing go on in between without the lock. A
  marker reserves at least what its session's log may still grow, unless the log
  was rotated since, which `Rotating` allows for (`Reserved`). What a holder has
  read stays enough (`ReadEnough`): a log that grows after the reading needs less
  and is counted larger, and nobody is admitted in between. So when the decision
  falls, files and growth of all the admitted fit, and `Room`, in which a log that
  is written counts with its whole quota, less what rotation may have freed,
  holds from decision to decision. The sums are folds over finite sets; what is
  needed of them (`SumPlus`, `SumLeq`, `SumPart`, `SumConstant`, ...) is proved
  from the definition of the fold by the least counterexample, as for the journal.
* *Drain.* The number of a ring less its activation is the same for all rings of
  one run of the game (`Game`), which lets a snapshot, an acknowledgement and the
  client's source be placed: all that is on a connection is of the present run
  (`RingsKnown`, `SnapshotHolds`, `Current`), and of the present ring if the
  activations agree. Then what an acknowledgement names is logged (`AcksCover`),
  and what the mark of the client passes over is logged or of another ring
  (`SourceHolds`). A connection that ends before its hello is answered leaves a
  source of another run behind, which is where `Uninterrupted` is used.

TLC found `CInv` (files) true of every state of the run `storage`, and `DInv`
(drain) of every state of an instance with three rings (3,353,987), before they
were proved.

**Only model-checked**: all liveness (fairness and `ENABLED` are out of the
prover's reach). Every safety property of a passing run is proved.

## 6. Not modelled, and why

* *Liveness of the acknowledgement path* of locations: each export publishes again
  under higher sequences, which the model bounds; that an acknowledgement catches
  up would be an assumption about the bound. The safety side is proved.
* *Overlapping recoveries of a lock's owner record* (`diagnostics.py:943`): the
  lock's exclusion is stated for recoveries that do not overlap; section 3 says
  what TLC finds otherwise.
* `persistence.py`: schema checks, the read-only inspection, and
  `StateSession.bind` and `switch`, which the client does not call. A contract
  that does not match behaves as a slot that does not.
* `diagnostics.py`: a session with no writable directory at all, a marker that
  cannot be written at close or renewal, envelopes and redaction, the merged
  export's contents.
* *Reward wrapper*: its effects are `TakeReward` in `LocationObservation` and the
  suspension in `ItemReconciliation`; its shape checks compare a table of the
  engine that is not in this repository.
* *Slot data and options*: one supported profile is accepted or refused; nothing
  is computed and no state is kept.
* *Tables, world generation, canonical JSON, overlay, developer and release
  tools*: sequential and without state at run time.
* Formatting, hashing, wording and logging: data the properties do not tell
  apart.

## 7. What is left

1. Composition at the promises: `StateStore` as the implementation of the one-step
   commit the other modules take, `InterprocessLock` of the one-step lock.
2. `StateSession.bind` and `switch`, when a caller appears.
