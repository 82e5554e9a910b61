--------------------------- MODULE DiagnosticDrain ---------------------------
(***************************************************************************)
(* How the diagnostic records of the game get into the client's event log: *)
(* the ring of archipelago-diagnostics.gc, the snapshot that exports it,   *)
(* and the drain that logs each record, acknowledges it, and notices that  *)
(* the ring is another one (agents/protocol.py, _observe_goal_diagnostics, *)
(* _drain_goal_acknowledgements; agents/diagnostics.py, ingest_goal_events,*)
(* emit; client.py, _ingest_goal_events, connect_repl).                    *)
(*                                                                         *)
(* A ring begins anew when its module is loaded again, which counts an     *)
(* activation, and when the game is started again, which counts from one.  *)
(* Sequence numbers start from zero in each.  The client must not take a   *)
(* record of the new ring for one it has logged, nor the reverse.          *)
(*                                                                         *)
(* LocationObservation follows the location records on the same way to     *)
(* the ledger; here a record is no more than its ring and its number.      *)
(***************************************************************************)
EXTENDS Integers, FiniteSets, FiniteSetsExt

CONSTANTS
    Capacity,    \* AP-DIAGNOSTIC-RING-CAPACITY
    None,        \* no value in a dictionary, no snapshot, no acknowledgement
    Interrupts,  \* whether a connection may end before its hello is answered
    Malforms,    \* whether an export may be malformed
    MaxNext,     \* bound: records of one ring
    MaxRings,    \* bound: rings
    MaxClients,  \* bound: runs of the client
    MaxAcks,     \* bound: acknowledgements on their way
    MaxFaults    \* bound: restarts of the client, lost connections, failed writes

CapacityAssumption == Capacity \in Nat /\ Capacity > 2
KindAssumption == Interrupts \in BOOLEAN /\ Malforms \in BOOLEAN
NoneAssumption == None \notin Int
BoundAssumption ==
    /\ MaxNext \in Nat /\ MaxNext > 1 /\ MaxRings \in Nat \ {0}
    /\ MaxClients \in Nat \ {0} /\ MaxAcks \in Nat /\ MaxFaults \in Nat

VARIABLES
    \* the game
    ring,      \* *ap-diagnostic-ring*, its activation generation and identity
    nonce,     \* the game-session nonce: the ring of the first hello, or None
    \* between them
    snapshot,  \* what the client's state file holds
    acks,      \* acknowledgement forms sent and not evaluated
    greeted,   \* the hello of this connection has been evaluated
    \* the client
    client,    \* which run of it
    conn,      \* the connection: off, hello sent, or ready
    known,     \* _goal_game_session_nonce
    state,     \* _goal_source_state
    last,      \* _last_goal_sequence
    source,    \* _goal_source_generation
    pending,   \* _goal_ack_pending
    console,   \* nothing can be written any more
    log,       \* the records logged, with the run and source generation
    holes,     \* the numbers reported as missing
    faults

gameVars == <<ring, nonce>>
wireVars == <<snapshot, acks, greeted>>
clientVars == <<client, conn, known, state, last, source, pending, console>>
vars == <<gameVars, wireVars, clientVars, log, holes, faults>>

Numbers == 0 .. MaxNext - 1
Rings == 1 .. MaxRings
Ring == [id : Rings, activation : Rings, next : 2 .. MaxNext,
         kept : SUBSET Numbers, sticky : SUBSET {0, 1}]
Snapshot == [ring : Rings, activation : Rings, next : 2 .. MaxNext,
             events : SUBSET Numbers, nonce : Rings \cup {None},
             malformed : BOOLEAN]
Ack == [activation : Rings, number : Numbers]
Source == [channel : {-1, 1}, activation : Rings \cup {None},
           next : Nat \cup {None}]
NoSource == [channel |-> None, activation |-> None, next |-> None]

TypeOK ==
    /\ ring \in Ring /\ snapshot \in Snapshot \cup {None}
    /\ Cardinality(ring.kept) + Cardinality(ring.sticky) <= Capacity
    /\ nonce \in Rings \cup {None} /\ known \in Rings \cup {None}
    /\ acks \subseteq Ack /\ greeted \in BOOLEAN
    /\ pending \in Ack \cup {None}
    /\ client \in 1 .. MaxClients /\ conn \in {"off", "hello", "ready"}
    /\ state \in Source \cup {NoSource}
    /\ last \in Numbers \cup {-1} /\ source \in Nat /\ console \in BOOLEAN
    /\ log \subseteq [client : 1 .. MaxClients, source : Nat, ring : Rings,
                      number : Numbers]
    /\ holes \subseteq [client : 1 .. MaxClients, source : Nat,
                        number : Numbers]
    /\ faults \in 0 .. MaxFaults

Fault == faults < MaxFaults /\ faults' = faults + 1

-----------------------------------------------------------------------------
(* The game.                                                                *)

\* The module's initialisation: the first two records are kept apart until
\* they are acknowledged.
NewRing(activation) ==
    [id |-> ring.id + 1, activation |-> activation, next |-> 2, kept |-> {},
     sticky |-> {0, 1}]

\* ap-diagnostic-ring-emit!: a full ring drops its oldest record.
Emitted(r) ==
    LET room == IF Cardinality(r.kept) = Capacity - Cardinality(r.sticky)
                THEN r.kept \ {Min(r.kept)} ELSE r.kept
    IN [r EXCEPT !.kept = room \cup {r.next}, !.next = @ + 1]

\* ap-diagnostic-ring-export!
Exported(r, session) ==
    [ring |-> r.id, activation |-> r.activation, next |-> r.next,
     events |-> r.sticky \cup r.kept, nonce |-> session, malformed |-> FALSE]

Emit ==
    /\ ring.next < MaxNext
    /\ ring' = Emitted(ring)
    /\ UNCHANGED <<nonce, wireVars, clientVars, log, holes, faults>>

\* A form evaluated in the game ends with an export.
Export ==
    /\ conn # "off"
    /\ \/ snapshot' = Exported(ring, nonce) /\ UNCHANGED faults
       \/ /\ Malforms /\ Fault
          /\ snapshot' = [Exported(ring, nonce) EXCEPT !.malformed = TRUE]
    /\ UNCHANGED <<gameVars, acks, greeted, clientVars, log, holes>>

\* ap-client-hello!: the first one gives the game its nonce; later ones
\* keep it.  It leaves a record of its own.
EvaluateHello ==
    /\ conn = "hello" /\ ~greeted /\ ring.next < MaxNext
    /\ nonce' = IF nonce = None THEN ring.id ELSE nonce
    /\ ring' = Emitted(ring)
    /\ snapshot' = Exported(ring', nonce')
    /\ greeted' = TRUE
    /\ UNCHANGED <<acks, clientVars, log, holes, faults>>

\* ap-diagnostic-ring-ack!
Acknowledged(r, a) ==
    IF a.activation # r.activation THEN r
    ELSE [r EXCEPT !.kept = {n \in @ : n > a.number},
                   !.sticky = {n \in @ : n > a.number}]

EvaluateAck ==
    \E a \in acks :
        /\ acks' = acks \ {a}
        /\ ring' = Acknowledged(ring, a)
        /\ UNCHANGED <<nonce, snapshot, greeted, clientVars, log, holes,
                       faults>>

\* Somebody loads the module again while the game runs, alone or after the
\* control module, which then has no nonce; a hello that loses its nonce is
\* never accepted, and its connection ends.
Reload ==
    /\ ring.id < MaxRings
    /\ ring' = NewRing(ring.activation + 1)
    /\ nonce' \in {nonce, None}
    /\ greeted /\ conn = "hello" /\ ~Interrupts => nonce' # None
    /\ UNCHANGED <<wireVars, clientVars, log, holes, faults>>

\* The game ends, the forms in it are lost, and is started again; it writes
\* to the state file only once it has been told of it.
Off ==
    /\ conn' = "off" /\ greeted' = FALSE /\ acks' = {} /\ pending' = None

Restart ==
    /\ ring.id < MaxRings
    /\ Interrupts \/ conn # "hello"
    /\ ring' = NewRing(1)
    /\ nonce' = None
    /\ Off
    /\ UNCHANGED <<snapshot, client, known, state, last, source, console, log,
                   holes, faults>>

-----------------------------------------------------------------------------
(* The client.                                                              *)

\* reset_goal_source, DiagnosticSession.reset_goal_event_source
Reset ==
    last' = -1 /\ source' = source + 1 /\ state' = NoSource

\* connect_repl: the game is told of the state file, which is read once.  A
\* game with another nonce than the one last greeted is another game.
Attach ==
    /\ conn = "off"
    /\ snapshot' = Exported(ring, nonce)
    /\ conn' = "hello"
    /\ IF known # None /\ nonce # known
       THEN Reset ELSE UNCHANGED <<last, source, state>>
    /\ UNCHANGED <<gameVars, acks, greeted, client, known, pending, console,
                   log, holes, faults>>

\* connect_repl: this module or all of them do not match, are loaded, and
\* seen to be new.
AttachLoading ==
    /\ conn = "off" /\ ring.id < MaxRings
    /\ ring' = NewRing(ring.activation + 1)
    /\ nonce' \in {nonce, None}
    /\ snapshot' = Exported(ring', nonce')
    /\ conn' = "hello"
    /\ Reset
    /\ UNCHANGED <<acks, greeted, client, known, pending, console, log,
                   holes, faults>>

\* The records the sink may log: those before a location whose commit fails.
Prefixes(events) ==
    {events} \cup {{e \in events : e < n} : n \in events}

\* mutant: the acknowledgement covers what could not be written
HighestRead(events, written, mark) ==
    IF events = {} THEN None ELSE Max(events)

\* mutant: what was logged before is not acknowledged again
HighestWritten(events, written, mark) ==
    IF written = {} THEN None ELSE Max(written)

\* ingest_goal_events: duplicates are acknowledged again, and the records
\* that were written; nothing beyond the first that was not.
Highest(events, written, mark) ==
    LET done == {e \in events : e <= mark} \cup written
    IN IF done = {} THEN None ELSE Max(done)

\* ingest_goal_events: the numbers between two records logged in succession
Missing(written, mark) ==
    {n \in Numbers : /\ n \notin written /\ n > mark
                     /\ mark >= 0 \/ \E e \in written : e < n
                     /\ \E e \in written : n < e}

\* _observe_goal_diagnostics: activation, number and channel
Changed(s) ==
    \/ state.activation # None /\ s.activation # state.activation
    \/ state.next # None /\ s.next < state.next
    \/ state.channel = -1

\* _schedule_goal_acknowledgement
Scheduled(activation, number) ==
    IF number = None THEN pending
    ELSE IF pending # None /\ pending.activation = activation
    THEN [pending EXCEPT !.number = IF @ > number THEN @ ELSE number]
    ELSE [activation |-> activation, number |-> number]

\* mutant: the records are logged under the generation before
LoggedAs(written) ==
    {[client |-> client, source |-> source, ring |-> snapshot.ring,
      number |-> n] : n \in written}

\* What emit writes of the records; once on the console, nothing.
Logged(written) ==
    {[client |-> client, source |-> source', ring |-> snapshot.ring,
      number |-> n] : n \in written}

\* initialize, connect_repl: a hello is accepted once a snapshot shows a
\* nonce, which the client keeps.
Greets ==
    IF conn = "hello" /\ greeted /\ snapshot.nonce # None
    THEN conn' = "ready" /\ known' = snapshot.nonce
    ELSE UNCHANGED <<conn, known>>

\* _observe_snapshot of a valid diagnostic section.  Every record is logged
\* before the next is looked at; a write that fails ends the batch.
Drain ==
    /\ conn # "off" /\ snapshot # None /\ ~snapshot.malformed
    /\ LET changed == Changed(snapshot)
           mark == IF changed THEN -1 ELSE last
           new == {e \in snapshot.events : e > mark}
       IN \E written \in IF console THEN {{}} ELSE Prefixes(new) :
            /\ source' = IF changed THEN source + 1 ELSE source
            /\ last' = IF written = {} THEN mark ELSE Max(written)
            /\ \/ written = new /\ UNCHANGED <<faults, console>>
               \/ console /\ UNCHANGED <<faults, console>>
               \/ written # new /\ ~console /\ Fault /\ console' \in BOOLEAN
            /\ log' = log \cup Logged(written)
            /\ holes' = holes \cup
                {[client |-> client, source |-> source', number |-> n]
                    : n \in Missing(written, mark)}
            /\ pending' = Scheduled(snapshot.activation,
                                    Highest(snapshot.events, written, mark))
    /\ state' = [channel |-> 1, activation |-> snapshot.activation,
                 next |-> snapshot.next]
    /\ Greets
    /\ UNCHANGED <<gameVars, wireVars, client>>

\* _observe_goal_diagnostics: a malformed section is noted and left alone.
Refuse ==
    /\ conn # "off" /\ snapshot # None /\ snapshot.malformed
    /\ state' = [state EXCEPT !.channel = -1]
    /\ Greets
    /\ UNCHANGED <<gameVars, wireVars, client, last, source, pending, console,
                   log, holes, faults>>

\* _drain_goal_acknowledgements: sent without waiting for its evaluation;
\* the form may get lost.
SendAck ==
    /\ conn # "off" /\ pending # None
    /\ pending' = None
    /\ \/ /\ Cardinality(acks) < MaxAcks
          /\ acks' = acks \cup {pending}
          /\ UNCHANGED faults
       \/ Fault /\ UNCHANGED acks
    /\ UNCHANGED <<gameVars, snapshot, greeted, client, conn, known, state,
                   last, source, console, log, holes>>

\* The connection ends; _goal_source_state and the log's mark survive it.
Disconnect ==
    /\ conn # "off" /\ Fault
    /\ Interrupts \/ conn = "ready"
    /\ Off
    /\ UNCHANGED <<gameVars, snapshot, client, known, state, last, source,
                   console, log, holes>>

\* The client ends and another one starts, with files of its own.
RestartClient ==
    /\ client < MaxClients /\ Fault
    /\ client' = client + 1
    /\ Off
    /\ known' = None /\ state' = NoSource /\ last' = -1 /\ source' = 0
    /\ console' = FALSE
    /\ UNCHANGED <<gameVars, snapshot, log, holes>>

-----------------------------------------------------------------------------

Init ==
    /\ ring = [id |-> 1, activation |-> 1, next |-> 2, kept |-> {},
               sticky |-> {0, 1}]
    /\ nonce = None /\ snapshot = None /\ acks = {} /\ greeted = FALSE
    /\ client = 1 /\ conn = "off" /\ known = None /\ state = NoSource
    /\ last = -1 /\ source = 0 /\ pending = None /\ console = FALSE
    /\ log = {} /\ holes = {} /\ faults = 0

Next ==
    \/ Emit \/ Export \/ EvaluateHello \/ EvaluateAck \/ Reload \/ Restart
    \/ Attach \/ AttachLoading \/ Drain \/ Refuse \/ SendAck \/ Disconnect
    \/ RestartClient

Spec == Init /\ [][Next]_vars

\* The supervisor connects and pings, a snapshot is read after each form, the
\* game evaluates what it is sent, and the drain sends what is pending.
FairSpec ==
    /\ Spec
    /\ WF_vars(Attach) /\ WF_vars(EvaluateHello) /\ SF_vars(Export)
    /\ SF_vars(Drain) /\ WF_vars(SendAck) /\ WF_vars(EvaluateAck)

-----------------------------------------------------------------------------
(* Properties.                                                              *)

InRing == ring.sticky \cup ring.kept

LoggedNumbers(id) == {e.number : e \in {x \in log : x.ring = id}}

\* A record leaves the ring for an acknowledgement only once some client has
\* logged it, though the ring may have begun anew since the records were
\* read and the writes of a batch may have failed in the middle
\* (ingest_goal_events, ap-diagnostic-ring-ack!).
AcknowledgedLogged ==
    [][ring'.id = ring.id /\ ring'.next = ring.next
       => \A n \in InRing \ (ring'.sticky \cup ring'.kept) :
            n \in LoggedNumbers(ring.id)]_vars

\* Within one run of the client, a source generation and a number name one
\* record: the records of two rings are told apart
\* (diagnostic-architecture.md:70-74, reset_goal_event_source).
Unambiguous ==
    \A x, y \in log :
        x.client = y.client /\ x.source = y.source /\ x.number = y.number
        => x = y

\* Between two logged records of a source generation none is missing that
\* was not reported as missing (diagnostics.goal.gap).
HolesReported ==
    \A x, y \in log :
        x.client = y.client /\ x.source = y.source =>
        \A n \in x.number + 1 .. y.number - 1 :
            \/ [x EXCEPT !.number = n] \in log
            \/ [client |-> x.client, source |-> x.source, number |-> n]
                \in holes

\* The log tells the records of the rings apart, and tells what is missing.
LogTrue == Unambiguous /\ HolesReported

\* A source generation is counted for another ring only
\* (diagnostic-architecture.md:71: "whenever that producer is intentionally
\* reloaded and its new diagnostic activation generation is visible").
OneGeneration ==
    \A x, y \in log :
        x.client = y.client /\ x.ring = y.ring => x.source = y.source

\* Once the game emits nothing more and the faults are over, every record has
\* left its ring, or nothing can be written: nothing at the head of the ring
\* is refused for ever.
Drained == <>[](InRing = {} \/ console)
=============================================================================
