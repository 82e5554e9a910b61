-------------------------- MODULE DiagnosticStorage --------------------------
(***************************************************************************)
(* The support files of concurrent clients (agents/diagnostics.py,         *)
(* DiagnosticSession): where a session writes, what it may delete, and how *)
(* a later session learns that an earlier one died.                        *)
(*                                                                         *)
(* A session publishes a marker that reserves the growth its logs may      *)
(* still have, reports the markers of sessions that are gone, and is       *)
(* admitted to file storage if everything kept plus everything reserved    *)
(* fits the managed capacity.  A failed write moves it to temporary        *)
(* storage, a second one to the console.  An export adds an archive.       *)
(* Admission, fallback and export delete old files and decide under one    *)
(* capacity lock of the host; writing, renewing the marker and reporting   *)
(* take no lock and happen in between.                                     *)
(*                                                                         *)
(* A session is one run of the client.  Its three logs are one log, its    *)
(* size counted in units: an entry that does not start another unit leaves *)
(* it as it is.  The lock is that of InterprocessLock, here with its       *)
(* promise.  A session neither of whose directories can be created keeps   *)
(* no file and is no session here.                                         *)
(***************************************************************************)
EXTENDS Integers, FiniteSets, Functions

CONSTANTS
    Sessions,   \* runs of the client
    Hosts,      \* machines that share the primary directory
    Host,       \* where each session runs
    NoMarker,   \* no marker file
    Free,       \* nobody holds the capacity lock
    Segment,    \* segment_bytes, in units
    Segments,   \* backups_per_artifact + 1
    Cap,        \* managed_bytes, in units
    MaxFaults   \* bound: failed writes, timeouts, lapsed leases, reused PIDs

Dirs == {"primary", "temporary"}
Quota == Segments * Segment

ASSUME HostAssumption == Host \in [Sessions -> Hosts] /\ IsFiniteSet(Sessions)
\* DiagnosticPolicy.validate
ASSUME PolicyAssumption ==
    /\ Segment \in Nat \ {0} /\ Segments \in Nat \ {0} /\ MaxFaults \in Nat
    /\ Cap \in Nat /\ Quota <= Cap

Files == Sessions \X Dirs \X {"log", "bundle"}
MarkerFiles == Sessions \X Dirs
NoFile == <<>>

VARIABLES
    \* on disk
    disk,     \* size of every managed file
    marker,   \* the session markers
    zips,     \* archives not yet published (.zip.tmp)
    lock,     \* the capacity lock of each host, with what its holder has read
    \* each session
    pc,       \* how far it is
    home,     \* the directory of its current logs
    console,  \* storage_mode is "console"
    failing,  \* a write failed and the fallback waits for the lock
    seen,     \* markers it has still to look at
    claim,    \* the marker it has reported and not yet removed
    \* what has happened
    reports,  \* how often each session was reported, as clean or unclean
    admitted, \* sessions whose reservation has been checked
    lapsed,   \* sessions that ran on without renewing their lease
    reused,   \* dead sessions whose process number runs again
    faults

diskVars == <<disk, marker, zips, lock>>
sessionVars == <<pc, home, console, failing, seen, claim>>
pastVars == <<reports, admitted, lapsed, reused>>
vars == <<diskVars, sessionVars, pastVars, faults>>

Marker == [clean : BOOLEAN, active : BOOLEAN, fresh : BOOLEAN,
           reserved : 0 .. Quota]
Job == [owner : Sessions, op : {"admit", "fallback", "export"},
        step : {"reserve", "protect", "prune", "check"},
        reserved : Nat, kept : SUBSET Sessions]

ASSUME SentinelAssumption == NoMarker \notin Marker /\ Free \notin Job

Gone == {"absent", "closed", "dead"}
Steps == {"created", "published", "reporting", "cleaning", "checking",
          "running"}

TypeOK ==
    /\ disk \in [Files -> 0 .. Quota]
    /\ marker \in [MarkerFiles -> Marker \cup {NoMarker}]
    /\ zips \subseteq MarkerFiles
    /\ lock \in [Hosts -> Job \cup {Free}]
    /\ \A h \in Hosts : lock[h] # Free => Host[lock[h].owner] = h
    /\ pc \in [Sessions -> Gone \cup Steps]
    /\ home \in [Sessions -> Dirs]
    /\ console \in [Sessions -> BOOLEAN] /\ failing \in [Sessions -> BOOLEAN]
    /\ seen \in [Sessions -> SUBSET MarkerFiles]
    /\ claim \in [Sessions -> MarkerFiles \cup {NoFile}]
    /\ reports \in [Sessions -> [clean : Nat, unclean : Nat]]
    /\ \A S \in {admitted, lapsed, reused} : S \subseteq Sessions
    /\ faults \in 0 .. MaxFaults

Fault == faults < MaxFaults /\ faults' = faults + 1

-----------------------------------------------------------------------------
(* What one session sees of the others.                                     *)

Alive(s) == pc[s] \notin Gone

\* The primary directory is shared, a temporary one belongs to its host.
Visible(s, t, dir) == dir = "primary" \/ Host[s] = Host[t]

\* _marker_is_live: the lease, and the process where it can be inspected
Live(s, f) ==
    /\ marker[f] # NoMarker
    /\ ~marker[f].clean /\ marker[f].active
    /\ marker[f].fresh
    /\ Host[s] # Host[f[1]] \/ Alive(f[1]) \/ f[1] \in reused

LiveMarkers(s) == {f \in MarkerFiles : Visible(s, f[1], f[2]) /\ Live(s, f)}

Bytes(files) == FoldFunctionOnSet(+, 0, disk, files)

\* _managed_usage_bytes
Usage(s) == Bytes({a \in Files : Visible(s, a[1], a[2])})

\* _future_active_log_growth
Growth(s) == Quota - disk[<<s, home[s], "log">>]

\* mutant: only the session's own growth is reserved
OwnReservation(s) == IF console[s] THEN 0 ELSE Growth(s)

\* _live_reserved_growth
Reservations(s) ==
    FoldFunctionOnSet(+, 0, [f \in LiveMarkers(s) |-> marker[f].reserved],
                      LiveMarkers(s))
    + IF <<s, home[s]>> \in LiveMarkers(s) \/ console[s] THEN 0 ELSE Growth(s)

\* _protected_artifacts, by the session the files belong to
Protected(s) == {s} \cup {f[1] : f \in LiveMarkers(s)}

\* _write_marker of the session's current directory
Written(s, clean, active) ==
    [marker EXCEPT ![<<s, home[s]>>] =
        [clean |-> clean, active |-> active, fresh |-> TRUE,
         reserved |-> IF active THEN Growth(s) ELSE 0]]

\* refresh_session_marker(force=True)
Renewed(s) == IF console[s] THEN marker ELSE Written(s, FALSE, TRUE)

Holds(s, ops) ==
    lock[Host[s]] # Free /\ lock[Host[s]].owner = s /\ lock[Host[s]].op \in ops
LockFree(s) == lock[Host[s]] = Free
Take(s, op) ==
    lock' = [lock EXCEPT ![Host[s]] =
        [owner |-> s, op |-> op, step |-> "reserve", reserved |-> 0,
         kept |-> {}]]
Released(s) == [lock EXCEPT ![Host[s]] = Free]
Advance(s, step, reserved, kept) ==
    lock' = [lock EXCEPT ![Host[s]].step = step,
                         ![Host[s]].reserved = reserved,
                         ![Host[s]].kept = kept]

\* The thread that starts the session; a fallback holds the write lock.
Runs(s, step) ==
    pc[s] = step /\ ~failing[s] /\ ~Holds(s, {"admit", "fallback"})

-----------------------------------------------------------------------------
(* Starting: DiagnosticSession.create and initialize.                       *)

\* create: the first directory in which the three files can be touched.
Create(s) ==
    /\ pc[s] = "absent"
    /\ \/ home' = [home EXCEPT ![s] = "primary"] /\ UNCHANGED faults
       \/ home' = [home EXCEPT ![s] = "temporary"] /\ Fault
    /\ pc' = [pc EXCEPT ![s] = "created"]
    /\ UNCHANGED <<diskVars, console, failing, seen, claim, pastVars>>

\* mutant: the marker is published without waiting for a decision
PublishUnlocked(s) ==
    /\ Runs(s, "created")
    /\ pc' = [pc EXCEPT ![s] = "published"]
    /\ marker' = Written(s, FALSE, TRUE)
    /\ UNCHANGED <<disk, zips, lock, home, console, failing, seen, claim,
                   pastVars, faults>>

\* initialize: the full reservation is published under the capacity lock.
Publish(s) ==
    /\ Runs(s, "created") /\ LockFree(s)
    /\ pc' = [pc EXCEPT ![s] = "published"]
    /\ marker' = Written(s, FALSE, TRUE)
    /\ UNCHANGED <<disk, zips, lock, home, console, failing, seen, claim,
                   pastVars, faults>>

\* initialize: the marker cannot be written, or the lock is not had in time.
PublishFails(s) ==
    /\ Runs(s, "created") /\ Fault
    /\ pc' = [pc EXCEPT ![s] = "published"]
    /\ IF home[s] = "primary"
       THEN failing' = [failing EXCEPT ![s] = TRUE] /\ UNCHANGED console
       ELSE console' = [console EXCEPT ![s] = TRUE] /\ UNCHANGED failing
    /\ UNCHANGED <<diskVars, home, seen, claim, pastVars>>

\* _report_prior_markers lists the markers of others ...
ListMarkers(s) ==
    /\ Runs(s, "published")
    /\ pc' = [pc EXCEPT ![s] = "reporting"]
    /\ seen' = [seen EXCEPT ![s] =
        IF console[s] THEN {}
        ELSE {f \in MarkerFiles : /\ f[1] # s /\ marker[f] # NoMarker
                                  /\ Visible(s, f[1], f[2])}]
    /\ UNCHANGED <<diskVars, home, console, failing, claim, pastVars, faults>>

\* ... reads each of them and reports it unless its session is alive; on the
\* console the report is not written ...
Report(s) ==
    \E f \in seen[s] :
        /\ Runs(s, "reporting") /\ claim[s] = NoFile
        /\ seen' = [seen EXCEPT ![s] = @ \ {f}]
        /\ IF marker[f] = NoMarker \/ Live(s, f)
           THEN UNCHANGED <<claim, reports>>
           ELSE /\ claim' = [claim EXCEPT ![s] = f]
                /\ reports' =
                    IF console[s] THEN reports
                    ELSE IF marker[f].clean
                    THEN [reports EXCEPT ![f[1]].clean = @ + 1]
                    ELSE [reports EXCEPT ![f[1]].unclean = @ + 1]
        /\ UNCHANGED <<diskVars, pc, home, console, failing, admitted, lapsed,
                       reused, faults>>

\* ... and removes it.
RemoveMarker(s) ==
    /\ Runs(s, "reporting") /\ claim[s] # NoFile
    /\ marker' = [marker EXCEPT ![claim[s]] = NoMarker]
    /\ claim' = [claim EXCEPT ![s] = NoFile]
    /\ UNCHANGED <<disk, zips, lock, pc, home, console, failing, seen,
                   pastVars, faults>>

EndReports(s) ==
    /\ Runs(s, "reporting") /\ claim[s] = NoFile /\ seen[s] = {}
    /\ pc' = [pc EXCEPT ![s] = "cleaning"]
    /\ UNCHANGED <<diskVars, home, console, failing, seen, claim, pastVars,
                   faults>>

\* mutant: unpublished archives are removed without the lock
CleanUnlocked(s) ==
    /\ Runs(s, "cleaning")
    /\ pc' = [pc EXCEPT ![s] = "checking"]
    /\ zips' = {z \in zips : ~Visible(s, z[1], z[2])}
    /\ UNCHANGED <<disk, marker, lock, home, console, failing, seen, claim,
                   pastVars, faults>>

\* _cleanup_orphaned_support_temps
Clean(s) ==
    /\ Runs(s, "cleaning")
    /\ pc' = [pc EXCEPT ![s] = "checking"]
    /\ IF console[s] THEN UNCHANGED zips
       ELSE /\ LockFree(s)
            /\ zips' = {z \in zips : ~Visible(s, z[1], z[2])}
    /\ UNCHANGED <<disk, marker, lock, home, console, failing, seen, claim,
                   pastVars, faults>>

\* initialize: the capacity check, unless the session is on the console.
BeginAdmission(s) ==
    /\ Runs(s, "checking") /\ LockFree(s) /\ ~console[s]
    /\ marker' = Renewed(s)
    /\ Take(s, "admit")
    /\ UNCHANGED <<disk, zips, sessionVars, pastVars, faults>>

StartOnConsole(s) ==
    /\ Runs(s, "checking") /\ console[s]
    /\ pc' = [pc EXCEPT ![s] = "running"]
    /\ UNCHANGED <<diskVars, home, console, failing, seen, claim, pastVars,
                   faults>>

\* initialize: the lock is not had in time.
AdmissionTimesOut(s) ==
    /\ Runs(s, "checking") /\ ~LockFree(s) /\ ~console[s] /\ Fault
    /\ marker' = Written(s, TRUE, FALSE)
    /\ console' = [console EXCEPT ![s] = TRUE]
    /\ pc' = [pc EXCEPT ![s] = "running"]
    /\ UNCHANGED <<disk, zips, lock, home, failing, seen, claim, pastVars>>

-----------------------------------------------------------------------------
(* Writing, and what a failed write leads to.                               *)

Writes(s) ==
    /\ pc[s] \in Steps \ {"created"} /\ ~console[s] /\ ~failing[s]
    /\ ~Holds(s, {"admit", "fallback"})

\* _append_bytes, _rotate: a full log loses its oldest segment.
Grown(size) == IF size < Quota THEN size + 1 ELSE size - Segment + 1

Append(s) ==
    /\ Writes(s)
    /\ disk' = [disk EXCEPT ![<<s, home[s], "log">>] = Grown(@)]
    /\ UNCHANGED <<marker, zips, lock, sessionVars, pastVars, faults>>

\* refresh_session_marker, by an event or by the heartbeat
Refresh(s) ==
    /\ Writes(s) /\ marker[<<s, home[s]>>] # Renewed(s)[<<s, home[s]>>]
    /\ marker' = Renewed(s)
    /\ UNCHANGED <<disk, zips, lock, sessionVars, pastVars, faults>>

\* _append_bytes fails: temporary storage is given up at once, the primary
\* directory once the capacity lock is had.
WriteFails(s) ==
    /\ Writes(s) /\ Fault
    /\ IF home[s] = "temporary"
       THEN console' = [console EXCEPT ![s] = TRUE] /\ UNCHANGED failing
       ELSE failing' = [failing EXCEPT ![s] = TRUE] /\ UNCHANGED console
    /\ UNCHANGED <<diskVars, pc, home, seen, claim, pastVars>>

\* mutant: the old marker is removed and no new one written
BeginFallbackUnmarked(s) ==
    /\ Alive(s) /\ failing[s] /\ LockFree(s)
    /\ home' = [home EXCEPT ![s] = "temporary"]
    /\ marker' = [marker EXCEPT ![<<s, "primary">>] = NoMarker]
    /\ Take(s, "fallback")
    /\ UNCHANGED <<disk, zips, pc, console, failing, seen, claim, pastVars,
                   faults>>

\* _activate_fallback: the logs move, and the marker with them.
BeginFallback(s) ==
    /\ Alive(s) /\ failing[s] /\ LockFree(s)
    /\ home' = [home EXCEPT ![s] = "temporary"]
    /\ marker' = [marker EXCEPT
        ![<<s, "primary">>] = NoMarker,
        ![<<s, "temporary">>] =
            [clean |-> FALSE, active |-> TRUE, fresh |-> TRUE,
             reserved |-> Quota - disk[<<s, "temporary", "log">>]]]
    /\ Take(s, "fallback")
    /\ UNCHANGED <<disk, zips, pc, console, failing, seen, claim, pastVars,
                   faults>>

\* _activate_fallback: the lock is not had in time, the directory cannot be
\* made, or the marker cannot be written (the failed write was the fault).
FallbackFails(s) ==
    /\ Alive(s) /\ failing[s] /\ ~Holds(s, {"fallback"})
    /\ \/ UNCHANGED home
       \/ LockFree(s) /\ home' = [home EXCEPT ![s] = "temporary"]
    /\ console' = [console EXCEPT ![s] = TRUE]
    /\ failing' = [failing EXCEPT ![s] = FALSE]
    /\ UNCHANGED <<diskVars, pc, seen, claim, pastVars, faults>>

-----------------------------------------------------------------------------
(* Exporting: export_bundle, in a thread of its own.  One archive in each   *)
(* directory is enough.                                                     *)

BeginExport(s) ==
    /\ pc[s] = "running" /\ ~failing[s] /\ LockFree(s)
    /\ disk[<<s, home[s], "bundle">>] = 0
    /\ marker' = Renewed(s)
    /\ zips' = zips \cup {<<s, home[s]>>}
    /\ Take(s, "export")
    /\ UNCHANGED <<disk, sessionVars, pastVars, faults>>

\* The archive cannot be written, or the lock is not had in time: primary
\* storage is given up before the second attempt.
ExportFails(s) ==
    /\ pc[s] = "running" /\ ~failing[s] /\ Fault
    /\ \/ /\ Holds(s, {"export"}) /\ lock[Host[s]].step = "reserve"
          /\ lock' = Released(s)
          /\ zips' = {z \in zips : z[1] # s}
       \/ /\ ~LockFree(s) /\ lock[Host[s]].owner # s
          /\ UNCHANGED <<lock, zips>>
    /\ failing' = [failing EXCEPT ![s] = (home[s] = "primary" /\ ~console[s])]
    /\ UNCHANGED <<disk, marker, pc, home, console, seen, claim, pastVars>>

-----------------------------------------------------------------------------
(* Under the capacity lock: what is reserved is read before anything is     *)
(* deleted and before the files are counted.                                *)

JobAt(s, step) ==
    Alive(s) /\ Holds(s, {"admit", "fallback", "export"})
    /\ lock[Host[s]].step = step

Archive(s) == IF lock[Host[s]].op = "export" THEN 1 ELSE 0

ReadReservations(s) ==
    /\ JobAt(s, "reserve")
    /\ Advance(s, "protect", Archive(s) + Reservations(s), {})
    /\ UNCHANGED <<disk, marker, zips, sessionVars, pastVars, faults>>

\* _prune_retention decides what it may delete ...
Protect(s) ==
    /\ JobAt(s, "protect")
    /\ Advance(s, "prune", lock[Host[s]].reserved, Protected(s))
    /\ UNCHANGED <<disk, marker, zips, sessionVars, pastVars, faults>>

\* ... and deletes what is too old or of too many sessions, which may be
\* any of it, and then the oldest until everything fits.  Its own event may
\* fail to be written while this very session holds the lock.
Prune(s) ==
    /\ JobAt(s, "prune")
    /\ Advance(s, "check", lock[Host[s]].reserved, {})
    /\ LET candidates == {a \in Files : /\ Visible(s, a[1], a[2])
                                        /\ a[1] \notin lock[Host[s]].kept
                                        /\ disk[a] > 0}
       IN \E removed \in IF console[s] THEN {{}} ELSE SUBSET candidates :
            /\ \/ console[s]
               \/ removed = candidates
               \/ Usage(s) - Bytes(removed) + lock[Host[s]].reserved <= Cap
            /\ disk' = [a \in Files |-> IF a \in removed THEN 0 ELSE disk[a]]
            /\ \/ UNCHANGED <<console, faults>>
               \/ /\ removed # {} /\ ~Holds(s, {"export"}) /\ Fault
                  /\ console' = [console EXCEPT ![s] = TRUE]
    /\ UNCHANGED <<marker, zips, pc, home, failing, seen, claim, pastVars>>

Fits(s) == Usage(s) + lock[Host[s]].reserved <= Cap

\* The session keeps writing files, or withdraws its marker and stops.
Decide(s) ==
    /\ JobAt(s, "check") /\ ~Holds(s, {"export"})
    /\ lock' = Released(s)
    /\ failing' = [failing EXCEPT ![s] = FALSE]
    /\ pc' = IF Holds(s, {"admit"}) THEN [pc EXCEPT ![s] = "running"] ELSE pc
    /\ IF Fits(s)
       THEN admitted' = admitted \cup {s} /\ UNCHANGED <<marker, console>>
       ELSE /\ marker' = IF console[s] THEN marker ELSE Written(s, TRUE, FALSE)
            /\ console' = [console EXCEPT ![s] = TRUE]
            /\ UNCHANGED admitted
    /\ UNCHANGED <<disk, zips, home, seen, claim, reports, lapsed, reused,
                   faults>>

\* mutant: a refused archive leaves the lock held
DecideExportHeld(s) ==
    /\ JobAt(s, "check") /\ Holds(s, {"export"}) /\ Fits(s)
    /\ lock' = Released(s)
    /\ \E z \in zips :
        /\ z[1] = s
        /\ zips' = zips \ {z}
        /\ disk' = [disk EXCEPT ![<<s, z[2], "bundle">>] = 1]
    /\ UNCHANGED <<marker, sessionVars, pastVars, faults>>

\* The archive is published under its name, or refused and removed.  It is
\* where the session's logs were when the export began.
DecideExport(s) ==
    /\ JobAt(s, "check") /\ Holds(s, {"export"})
    /\ lock' = Released(s)
    /\ zips' = {z \in zips : z[1] # s}
    /\ disk' = [a \in Files |->
        IF a[1] = s /\ a[3] = "bundle" /\ <<s, a[2]>> \in zips /\ Fits(s)
        THEN 1 ELSE disk[a]]
    /\ UNCHANGED <<marker, sessionVars, pastVars, faults>>

-----------------------------------------------------------------------------
(* Ending, and what happens outside.                                        *)

\* close(clean=True); on the console no marker is written.
Close(s) ==
    /\ Runs(s, "running") /\ ~Holds(s, {"export"})
    /\ pc' = [pc EXCEPT ![s] = "closed"]
    /\ marker' = IF console[s] THEN marker ELSE Written(s, TRUE, FALSE)
    /\ UNCHANGED <<disk, zips, lock, home, console, failing, seen, claim,
                   pastVars, faults>>

\* The process dies; whoever waits for its lock finds the owner dead.
Crash(s) ==
    /\ Alive(s)
    /\ pc' = [pc EXCEPT ![s] = "dead"]
    /\ lock' = IF Holds(s, {"admit", "fallback", "export"})
               THEN Released(s) ELSE lock
    /\ failing' = [failing EXCEPT ![s] = FALSE]
    /\ seen' = [seen EXCEPT ![s] = {}]
    /\ claim' = [claim EXCEPT ![s] = NoFile]
    /\ UNCHANGED <<disk, marker, zips, home, console, pastVars, faults>>

\* The lease of a marker that nobody renews any more runs out.
Expire(s) ==
    /\ ~Alive(s)
    /\ \E dir \in Dirs :
        LET f == <<s, dir>> IN
        /\ marker[f] # NoMarker /\ marker[f].fresh
        /\ marker' = [marker EXCEPT ![f].fresh = FALSE]
    /\ UNCHANGED <<disk, zips, lock, sessionVars, pastVars, faults>>

\* The machine sleeps for longer than the lease.
Lapse(s) ==
    /\ Alive(s) /\ Fault
    /\ LET f == <<s, home[s]>> IN
        /\ marker[f] # NoMarker /\ marker[f].fresh
        /\ marker' = [marker EXCEPT ![f].fresh = FALSE]
    /\ lapsed' = lapsed \cup {s}
    /\ UNCHANGED <<disk, zips, lock, sessionVars, reports, admitted, reused>>

\* Another process gets the number of a dead session.
Reuse(s) ==
    /\ pc[s] = "dead" /\ s \notin reused /\ Fault
    /\ reused' = reused \cup {s}
    /\ UNCHANGED <<diskVars, sessionVars, reports, admitted, lapsed>>

-----------------------------------------------------------------------------

Init ==
    /\ disk = [a \in Files |-> 0]
    /\ marker = [f \in MarkerFiles |-> NoMarker]
    /\ zips = {} /\ lock = [h \in Hosts |-> Free]
    /\ pc = [s \in Sessions |-> "absent"]
    /\ home = [s \in Sessions |-> "primary"]
    /\ console = [s \in Sessions |-> FALSE]
    /\ failing = [s \in Sessions |-> FALSE]
    /\ seen = [s \in Sessions |-> {}]
    /\ claim = [s \in Sessions |-> NoFile]
    /\ reports = [s \in Sessions |-> [clean |-> 0, unclean |-> 0]]
    /\ admitted = {} /\ lapsed = {} /\ reused = {} /\ faults = 0

\* A thread that needs the capacity lock tries every 25 milliseconds.
Acquires(s) ==
    Publish(s) \/ Clean(s) \/ BeginAdmission(s) \/ BeginFallback(s)

\* What the code does by itself once it has begun.
Proceeds(s) ==
    \/ ListMarkers(s) \/ Report(s) \/ RemoveMarker(s) \/ EndReports(s)
    \/ StartOnConsole(s) \/ ReadReservations(s) \/ Protect(s) \/ Prune(s)
    \/ Decide(s) \/ DecideExport(s)

Happens(s) ==
    \/ Create(s) \/ PublishFails(s) \/ AdmissionTimesOut(s)
    \/ Append(s) \/ Refresh(s) \/ WriteFails(s) \/ FallbackFails(s)
    \/ BeginExport(s) \/ ExportFails(s) \/ Close(s)
    \/ Crash(s) \/ Expire(s) \/ Lapse(s) \/ Reuse(s)

Next == \E s \in Sessions : Acquires(s) \/ Proceeds(s) \/ Happens(s)

Spec == Init /\ [][Next]_vars

\* A thread takes its next step in the end, or its process dies; a lock that
\* is free again and again is found free by whoever polls it.
FairSpec ==
    /\ Spec
    /\ \A s \in Sessions : WF_vars(Proceeds(s)) /\ SF_vars(Acquires(s))

-----------------------------------------------------------------------------
(* Properties.                                                              *)

\* A log within one segment of its quota may have lost its oldest segment
\* after the session's marker last said how much it may grow.
Rotating == {a \in Files : a[3] = "log" /\ disk[a] > Quota - Segment}

\* The managed files of the sessions whose reservation was checked stay
\* within managed_bytes, whatever the sessions write and export at the same
\* time, up to the part of one segment each rotating log may regain, as long
\* as every session renews its lease (initialize, export_bundle).
WithinCapacity ==
    lapsed = {} => Bytes({a \in Files : a[1] \in admitted})
        <= Cap + (Segment - 1) * Cardinality(Rotating)

\* The same without that allowance (diagnostics.py:2305-2308).
HardCapacity == Bytes({a \in Files : a[1] \in admitted}) <= Cap

\* Nothing a running session has written or exported is deleted by another
\* one, though deciding and deleting are separate steps and sessions start
\* and move in between (_protected_artifacts, initialize).
LiveKept ==
    [][\A a \in Files :
        disk'[a] = 0 /\ disk[a] > 0
        => \/ a[1] \in lapsed \/ console[a[1]] \/ ~Alive(a[1])]_vars

\* An archive being written is there when its export publishes it: only
\* those of ended exports are cleaned up (_cleanup_orphaned_support_temps).
ExportedWhole ==
    \A s \in Sessions :
        Holds(s, {"export"}) => \E dir \in Dirs : <<s, dir>> \in zips

\* A session is reported as having died only if it did, or if it slept over
\* its lease, or gave up its files before it ended (_report_prior_markers).
ReportedTrue ==
    \A s \in Sessions :
        reports[s].unclean > 0
        => pc[s] = "dead" \/ s \in lapsed \/ console[s]

\* A session that died is known by its marker until somebody has reported
\* it, unless the report was lost with the storage of the reporting session,
\* or the session had been refused storage and withdrawn its marker.
DeathKnown ==
    \A s \in Sessions :
        pc[s] = "dead" /\ ~console[s] /\ s \in admitted
        => \/ reports[s].unclean > 0
           \/ \E dir \in Dirs : marker[<<s, dir>>] # NoMarker
           \/ \E t \in Sessions : t # s /\ console[t]

\* What is reported of a session is true, and a death does not go unreported.
DeathsReported == ReportedTrue /\ DeathKnown

\* A session that ended cleanly, and never slept over its lease, is not
\* reported as having died: the marker distinguishes the two
\* (diagnostic-architecture.md:151).
CleanReportedClean ==
    \A s \in Sessions \ lapsed : pc[s] = "closed" => reports[s].unclean = 0

\* A session is reported once (diagnostic-architecture.md:159).
ReportedOnce ==
    \A s \in Sessions : reports[s].clean + reports[s].unclean <= 1

\* Whoever starts gets ready, moves to the console, or dies in the end,
\* whatever the others are doing when they die (initialize, _activate_fallback).
StartsFinish ==
    <>[](\A s \in Sessions : pc[s] \in Gone \cup {"running"})

\* Whoever needs the capacity lock gets on with it.
LockPasses == \A h \in Hosts : []<>(lock[h] = Free)
=============================================================================
