----------------------------- MODULE SnapshotFile -----------------------------
(***************************************************************************)
(* The state file the game writes and the client polls.  The game rewrites *)
(* it in place at every export, line by line (ap-export-state! in          *)
(* archipelago.gc); the client reads it with no lock, in as many pieces as *)
(* there are reads until the end of the file, and takes what it read for a *)
(* snapshot if the revisions of the first and the last line agree          *)
(* (parse_snapshot_text in worlds/jak3/agents/protocol.py).                *)
(*                                                                         *)
(* A file is a sequence of lines.  The last line is two items, since a     *)
(* reader may see it with the last digit of its number missing; where      *)
(* other lines are cut makes no difference to what follows.                *)
(***************************************************************************)
EXTENDS Integers, Sequences

CONSTANTS
    Base,         \* of the numerals, ten in the code
    None,         \* no session, reader, snapshot or answer
    MaxSessions,  \* bound: attaches of the client
    MaxForms,     \* bound: operations of the client
    MaxReloads,   \* bound: loads of the bridge module
    MaxOverlap,   \* exports that may begin while one read is going on
    ReloadsWhileReading  \* whether a load of the module may be one of them

BoundAssumption ==
    /\ Base \in Nat \ {0, 1} /\ MaxOverlap \in Nat
    /\ MaxSessions \in Nat /\ MaxForms \in Nat /\ MaxReloads \in Nat
    /\ ReloadsWhileReading \in BOOLEAN

VARIABLES
    file,      \* what the state file holds
    unwritten, \* what the game has still to write of the export under way
    game,      \* the runtime record of the bridge
    reloads,
    forms,     \* nREPL forms not yet evaluated
    client,    \* the protocol object of the client and its operation
    asked,     \* operations begun so far
    reader,    \* the read under way
    exported,  \* history: exports begun so far
    log,       \* history: the game as each of them has it
    sentAt,    \* history: exports begun when the form was sent
    observed   \* history: the snapshot read last, with its lines

gameVars == <<file, unwritten, game, exported, log>>
vars == <<gameVars, reloads, forms, client, asked, reader, sentAt, observed>>

Keys == {"begin", "heartbeat", "answer", "count", "event", "end", "digit"}
Required == {"heartbeat", "answer", "count"}
Game == [revision: Nat, session: 0 .. MaxSessions, heartbeat: Int,
         answer: {"none", "hello", "pong", "query", "refused"}]
Phases == {"closed", "path", "hello", "idle", "before", "ping", "query"}

TypeOK ==
    /\ \A s \in {file, unwritten} :
         \A i \in DOMAIN s : s[i].key \in Keys /\ s[i].of \in 1 .. exported
    /\ game \in Game
    /\ reloads \in 0 .. MaxReloads
    /\ \A i \in DOMAIN forms : forms[i].session \in 1 .. MaxSessions
    /\ client.phase \in Phases /\ client.session \in 0 .. MaxSessions
    /\ client.next \in Nat /\ client.previous \in Int /\ client.last \in Int
    /\ asked \in 0 .. MaxForms
    /\ reader # None => reader.begun \in 0 .. exported
    /\ exported = Len(log) /\ sentAt \in 0 .. exported

-----------------------------------------------------------------------------
(* Writing.                                                                 *)

Line(key, value, number) == [key |-> key, value |-> value, of |-> number]

\* What ap-export-state! prints of the game g, in the export with that
\* number, with that many diagnostic records in the ring.
Text(g, number, records) ==
    <<Line("begin", g.revision, number),
      Line("heartbeat", g.heartbeat, number),
      Line("answer", <<g.session, g.answer>>, number),
      Line("count", records, number)>>
    \o [i \in 1 .. records |-> Line("event", i, number)]
    \o <<Line("end", g.revision \div Base, number),
         Line("digit", g.revision % Base, number)>>

Writing == unwritten # <<>>
MayOverlap == reader # None => exported - reader.begun < MaxOverlap

\* ap-export-state!, up to the truncation of the file; the form that called
\* it goes on once all is written.
Export(g) ==
    /\ ~Writing /\ MayOverlap
    /\ exported' = exported + 1
    /\ file' = <<>>
    /\ game' = [g EXCEPT !.revision = @ + 1]
    /\ log' = Append(log, game')
    /\ \E records \in 0 .. 1 : unwritten' = Text(game', exported', records)

\* The runtime flushes some of what was printed.
Write ==
    /\ Writing
    /\ file' = Append(file, Head(unwritten))
    /\ unwritten' = Tail(unwritten)
    /\ UNCHANGED <<game, reloads, forms, client, asked, reader, exported, log,
                   sentAt, observed>>

\* ap-ping! of a client with the session of the game
Ponged(form) ==
    IF form.session = game.session /\ form.sequence >= game.heartbeat
    THEN [game EXCEPT !.heartbeat = form.sequence, !.answer = "pong"]
    ELSE [game EXCEPT !.answer = "refused"]

\* ap-set-state-path!, ap-client-hello!, ap-ping!, ap-query-state!
AfterForm(form) ==
    CASE form.kind = "path" -> game
      [] form.kind = "hello" ->
           [game EXCEPT !.session = form.session, !.heartbeat = -1,
                        !.answer = "hello"]
      [] form.kind = "ping" -> Ponged(form)
      [] form.kind = "query" ->
           [game EXCEPT !.answer = IF form.session = game.session
                                   THEN "query" ELSE "refused"]

\* goalc evaluates the forms in the order they were sent.
Evaluate ==
    /\ forms # <<>>
    /\ forms' = Tail(forms)
    /\ Export(AfterForm(Head(forms)))
    /\ UNCHANGED <<reloads, client, asked, reader, sentAt, observed>>

Fresh == [revision |-> 0, session |-> 0, heartbeat |-> -1, answer |-> "none"]

\* ap3-init!: the revisions begin anew.
Reload ==
    /\ reloads < MaxReloads
    /\ ReloadsWhileReading \/ reader = None
    /\ Export(Fresh)
    /\ reloads' = reloads + 1
    /\ UNCHANGED <<forms, client, asked, reader, sentAt, observed>>

-----------------------------------------------------------------------------
(* Parsing.                                                                 *)

\* The number on the last line of the text, perhaps without its last digit;
\* a number with no digit at all is none.
LastNumber(text) ==
    LET n == Len(text)
    IN IF text[n].key = "digit" /\ text[n - 1].key = "end"
       THEN text[n - 1].value * Base + text[n].value
       ELSE IF text[n].key = "end" /\ text[n].value > 0
            THEN text[n].value ELSE None

\* mutant: the last line is there
FramedLoosely(text) ==
    /\ Len(text) >= 2 /\ text[1].key = "begin"
    /\ LastNumber(text) # None

\* The revisions of the first and the last line agree.
Framed(text) ==
    /\ Len(text) >= 2 /\ text[1].key = "begin"
    /\ LastNumber(text) = text[1].value

\* The lines between the first and the last.
Inner(text) ==
    {i \in 2 .. Len(text) - 1 : ~(i = Len(text) - 1 /\ text[i].key = "end"
                                  /\ text[i + 1].key = "digit")}

KeysUnique(text) ==
    \A i, j \in Inner(text) :
        text[i].key = text[j].key /\ i # j =>
            text[i].key = "event" /\ text[i].value # text[j].value

\* parse_snapshot_text accepts the text.
Accepted(text) ==
    /\ Framed(text)
    /\ \A i \in Inner(text) : text[i].key # "digit"
    /\ KeysUnique(text)
    /\ Required \subseteq {text[i].key : i \in Inner(text)}

Field(text, key) ==
    text[CHOOSE i \in Inner(text) : text[i].key = key].value

\* The records announced are there.  A section that is not whole is dropped,
\* and the snapshot kept.
RecordsWhole(text) ==
    \A r \in 1 .. Field(text, "count") :
        \E i \in Inner(text) : text[i].key = "event" /\ text[i].value = r

\* parse_snapshot_text, and the lines it came from
Snapshot(text) ==
    [revision |-> text[1].value,
     heartbeat |-> Field(text, "heartbeat"),
     session |-> Field(text, "answer")[1],
     answer |-> Field(text, "answer")[2],
     malformed |-> ~RecordsWhole(text),
     exports |-> {text[i].of : i \in DOMAIN text}]

-----------------------------------------------------------------------------
(* Reading.                                                                 *)

\* _ping reads once before it sends, _wait_for reads until it is answered.
Polling == client.phase \in {"path", "hello", "before", "ping", "query"}

StartRead ==
    /\ Polling /\ reader = None
    /\ reader' = [text |-> <<>>, begun |-> exported]
    /\ UNCHANGED <<gameVars, reloads, forms, client, asked, sentAt, observed>>

\* One read of the operating system returns what is there beyond what has
\* been read, of whatever export it is by now.
ReadMore ==
    /\ reader # None
    /\ Len(file) > Len(reader.text)
    /\ reader' = [reader EXCEPT !.text =
                    @ \o SubSeq(file, Len(@) + 1, Len(file))]
    /\ UNCHANGED <<gameVars, reloads, forms, client, asked, sentAt, observed>>

\* The file has no more, or nothing at all.
AtEnd == reader # None /\ Len(file) <= Len(reader.text)
Read == Snapshot(reader.text)

\* The predicates of initialize, _ping and _query.
Answers(snap) ==
    CASE client.phase = "path" -> TRUE
      [] client.phase = "hello" ->
           snap.session = client.session /\ snap.answer = "hello"
      [] client.phase = "ping" ->
           /\ snap.session = client.session /\ snap.answer = "pong"
           /\ snap.heartbeat = client.next
           /\ snap.revision > client.previous
      [] client.phase = "query" ->
           /\ snap.answer = "query"
           /\ snap.revision > client.previous

Observe ==
    observed' = [snapshot |-> Read, phase |-> client.phase,
                  taken |-> Answers(Read)]

Form(kind, sequence) ==
    [kind |-> kind, session |-> client.session, sequence |-> sequence]

Sends(form) ==
    /\ forms' = Append(forms, form)
    /\ sentAt' = exported

\* read_snapshot at the start of _ping, and the form
SendPing ==
    /\ client.phase = "before" /\ AtEnd
    /\ client' = [client EXCEPT !.phase = "ping",
                    !.previous = IF Accepted(reader.text) THEN Read.revision
                                 ELSE client.last]
    /\ reader' = None
    /\ Sends(Form("ping", client.next))
    /\ UNCHANGED <<gameVars, reloads, asked, observed>>

\* The operation ends, or the attach goes on with the hello.
Advance ==
    /\ client' = [client EXCEPT
         !.last = Read.revision,
         !.phase = IF client.phase = "path" THEN "hello" ELSE "idle",
         !.next = CASE client.phase = "hello" -> Read.heartbeat + 1
                    [] client.phase = "ping" -> @ + 1
                    [] OTHER -> @]
    /\ IF client.phase = "path" THEN Sends(Form("hello", 0))
       ELSE UNCHANGED <<forms, sentAt>>

\* One turn of _wait_for
Poll ==
    /\ client.phase \in {"path", "hello", "ping", "query"} /\ AtEnd
    /\ reader' = None
    /\ IF ~Accepted(reader.text)
       THEN UNCHANGED <<client, forms, sentAt, observed>>
       ELSE /\ Observe
            /\ \/ Answers(Read) /\ Advance
               \/ /\ ~Answers(Read)
                  /\ client' = [client EXCEPT !.last = Read.revision]
                  /\ UNCHANGED <<forms, sentAt>>
    /\ UNCHANGED <<gameVars, reloads, asked>>

-----------------------------------------------------------------------------
(* The client.                                                              *)

\* initialize of a new protocol object: the file of the last one is removed,
\* which the operating system refuses while the game has it open.
Attach ==
    /\ client.phase = "closed" /\ client.session < MaxSessions /\ ~Writing
    /\ client' = [client EXCEPT !.phase = "path", !.session = @ + 1,
                                !.next = 0, !.previous = -1, !.last = -1]
    /\ file' = <<>>
    /\ forms' = Append(forms, [kind |-> "path", session |-> client'.session,
                               sequence |-> 0])
    /\ sentAt' = exported
    /\ UNCHANGED <<unwritten, game, exported, log, reloads, asked, reader,
                   observed>>

Ping ==
    /\ client.phase = "idle" /\ asked < MaxForms
    /\ asked' = asked + 1
    /\ client' = [client EXCEPT !.phase = "before"]
    /\ UNCHANGED <<gameVars, reloads, forms, reader, sentAt, observed>>

\* mutant: the revision the answer must exceed is not taken from what was read
QueryAnew ==
    /\ client.phase = "idle" /\ asked < MaxForms
    /\ asked' = asked + 1
    /\ client' = [client EXCEPT !.phase = "query", !.previous = -1]
    /\ Sends(Form("query", 0))
    /\ UNCHANGED <<gameVars, reloads, reader, observed>>

\* _query
Query ==
    /\ client.phase = "idle" /\ asked < MaxForms
    /\ asked' = asked + 1
    /\ client' = [client EXCEPT !.phase = "query", !.previous = client.last]
    /\ Sends(Form("query", 0))
    /\ UNCHANGED <<gameVars, reloads, reader, observed>>

\* command_timeout passes, or the connection is lost: the protocol object is
\* dropped, its forms are evaluated all the same.
TimesOut ==
    /\ client.phase \in Phases \ {"closed"} /\ reader = None
    /\ client' = [client EXCEPT !.phase = "closed"]
    /\ UNCHANGED <<gameVars, reloads, forms, asked, reader, sentAt, observed>>

-----------------------------------------------------------------------------

\* The module has been loaded; its first export is written or under way.
Init ==
    /\ exported = 1
    /\ game = [Fresh EXCEPT !.revision = 1] /\ log = <<game>>
    /\ file = <<>> /\ unwritten = Text(game, 1, 0)
    /\ reloads = 0 /\ forms = <<>> /\ asked = 0
    /\ client = [phase |-> "closed", session |-> 0, next |-> 0,
                 previous |-> -1, last |-> -1]
    /\ reader = None /\ sentAt = 0 /\ observed = None

Next ==
    \/ Write \/ Evaluate \/ Reload
    \/ StartRead \/ ReadMore \/ SendPing \/ Poll
    \/ Attach \/ Ping \/ Query \/ TimesOut

Spec == Init /\ [][Next]_vars

\* The game runs, and the client polls every poll_interval.
FairSpec ==
    /\ Spec
    /\ WF_vars(Write) /\ WF_vars(Evaluate)
    /\ WF_vars(StartRead) /\ WF_vars(ReadMore)
    /\ WF_vars(SendPing) /\ WF_vars(Poll)

-----------------------------------------------------------------------------
(* Properties.                                                              *)

\* A snapshot the client observes is one export of the game, whole, however
\* the game rewrote the file while it was read
\* (docs/development/protocol-3.md: matching snapshot_begin and snapshot_end
\* revisions reject torn reads).
OneExport ==
    observed # None =>
        \E e \in 1 .. exported :
            observed.snapshot.exports = {e} /\ ~observed.snapshot.malformed

\* The fields of an observed snapshot are those of one export.
OneContent ==
    observed # None =>
        \E e \in 1 .. exported :
            \A field \in {"revision", "session", "heartbeat", "answer"} :
                observed.snapshot[field] = log[e][field]

\* What _ping and _query return was exported after they sent their form, also
\* when the answer of an earlier form, or of an earlier attach, comes late.
AnswerFresh ==
    [][observed' # observed /\ observed'.taken /\ observed'.phase # "path" =>
         \A e \in observed'.snapshot.exports : e > sentAt]_vars

\* A ping to the game the client has said hello to is answered, unless the
\* client gives up or the game is reloaded.
Answered ==
    []<>(client.phase # "ping" \/ game.session # client.session)
=============================================================================
