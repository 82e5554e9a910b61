--------------------------- MODULE BridgeActivation ---------------------------
(***************************************************************************)
(* How the packaged GOAL modules reach the running game: the installation  *)
(* replaces the source files under a lock and leaves a reload marker       *)
(* (agents/launcher.py, tools/install_opengoal_bridge.ps1), the client     *)
(* starts the game, compiles, loads the modules over nREPL, and clears the *)
(* marker once a snapshot proves that each of them came alive (client.py,  *)
(* connect_repl, auto_start_opengoal, protocol_supervisor).                *)
(*                                                                         *)
(* Processes die between any two of these steps, a replacement fails and   *)
(* is rolled back, a form completes without the module having been loaded, *)
(* the game restarts from what was built before, and somebody else         *)
(* installs another release meanwhile.                                     *)
(*                                                                         *)
(* A source is known by its release; a snapshot tells only the contract of *)
(* its release, the activation generations and flags.  The lock directory  *)
(* is that of InterprocessLock, here with its promise.  The startup        *)
(* overlay, the manifest, the bootstrap types and the project file are     *)
(* replaced with the modules and not told apart from them.                 *)
(***************************************************************************)
EXTENDS Naturals

CONSTANTS
    Siblings,   \* how many modules are loaded after control and diagnostics
    Releases,   \* releases of the bridge sources
    Contract,   \* the contract each release states
    None,       \* nothing installed, nothing loaded, nothing read
    Installers, \* "client", and "tool" where the standalone installer is used
    BuildFails, \* whether a compilation may leave the old objects behind
    MaxAttempts,\* bound: attempts before auto_start_opengoal returns (30)
    MaxFaults,  \* bound: faults of any kind
    MaxInstalls \* bound: runs of the standalone installer

Modules == 1 .. Siblings + 2
Control == 1
Diagnostics == 2

ReleaseAssumption == None \notin Releases /\ Contract \in [Releases -> Nat]
InstallerAssumption ==
    /\ {"client"} \subseteq Installers /\ Installers \subseteq {"client", "tool"}
    /\ None \notin Installers
BoundAssumption ==
    /\ Siblings \in Nat /\ BuildFails \in BOOLEAN
    /\ MaxAttempts \in Nat \ {0} /\ MaxFaults \in Nat /\ MaxInstalls \in Nat

Sources == [Modules -> Releases \cup {None}]

Installing == {"plan", "mark", "write", "rollback"}
Connecting == {"launch", "attach", "build", "probe", "diagnose", "load",
               "baseline", "prove", "clear", "hello"}

VARIABLES
    \* on disk
    files,    \* the installed modules
    marker,   \* the reload marker
    lock,     \* who holds the install lock
    built,    \* what a starting game loads
    \* the installers
    pc,       \* what each of them does
    release,  \* the release each of them carries
    due,      \* modules it has still to replace or to restore
    original, \* what it found
    \* the game
    running,
    live,     \* the modules in memory
    active,   \* siblings whose activation flag is set
    gen,      \* *ap3-activation-generation*
    dgen,     \* *ap-diagnostic-activation-generation*
    \* the client
    attached, \* the compiler is attached to this game
    force,    \* bridge_source_reload_required
    compiled, \* compile_completed
    pre,      \* the generations read before the reload
    next,     \* the module to be loaded
    again,    \* the second load after a baseline
    attempts, \* attempts of this auto_start_opengoal
    ready,    \* bridge_ready
    faults, installs

diskVars == <<files, marker, lock, built>>
installVars == <<pc, release, due, original>>
gameVars == <<running, live, active, gen, dgen>>
memoryVars == <<attached, force, compiled, pre, next, again, attempts, ready>>
vars == <<diskVars, installVars, gameVars, memoryVars, faults, installs>>

TypeOK ==
    /\ files \in Sources /\ built \in Sources /\ live \in Sources
    /\ marker \in BOOLEAN
    /\ lock \in Installers \cup {None}
    /\ pc \in [Installers -> Installing \cup Connecting
                             \cup {"idle", "wait", "retry", "ready", "incompatible"}]
    /\ \A i \in Installers : pc[i] \in Installing => lock = i
    /\ release \in [Installers -> Releases]
    /\ due \in [Installers -> SUBSET Modules]
    /\ original \in [Installers -> Sources]
    /\ running \in BOOLEAN /\ (attached => running)
    /\ active \in SUBSET Modules
    /\ gen \in Nat /\ dgen \in Nat
    /\ attached \in BOOLEAN /\ force \in BOOLEAN /\ compiled \in BOOLEAN
    /\ pre \in [bridge: Nat, diagnostic: Nat] \cup {None}
    /\ next \in 1 .. Siblings + 3 /\ again \in BOOLEAN /\ attempts \in 0 .. MaxAttempts
    /\ ready \in BOOLEAN /\ (ready <=> pc["client"] = "ready")
    /\ faults \in Nat /\ installs \in Nat

Fault == faults < MaxFaults /\ faults' = faults + 1

Goes(i, to) == pc' = [pc EXCEPT ![i] = to]

-----------------------------------------------------------------------------
(* The installation, _install_packaged_bridge_locked.                      *)

Rest == UNCHANGED <<built, gameVars, memoryVars, release>>

Acquire(i) ==
    /\ pc[i] = "idle"
    /\ lock = None
    /\ lock' = i
    /\ Goes(i, "plan")
    /\ IF i = "tool" THEN installs < MaxInstalls /\ installs' = installs + 1
       ELSE UNCHANGED installs
    /\ UNCHANGED <<files, marker, due, original, faults>>
    /\ Rest

\* Leaving the lock the client notes whether there is a marker.
Installed(i) ==
    /\ lock' = None
    /\ Goes(i, IF i = "client" THEN "launch" ELSE "idle")
    /\ force' = IF i = "client" THEN marker' ELSE force

Plan(i) ==
    /\ pc[i] = "plan"
    /\ original' = [original EXCEPT ![i] = files]
    /\ due' = [due EXCEPT ![i] = {m \in Modules : files[m] # release[i]}]
    /\ UNCHANGED marker
    /\ IF due'[i] = {} THEN Installed(i)
       ELSE Goes(i, "mark") /\ UNCHANGED <<lock, force>>
    /\ UNCHANGED <<files, built, gameVars, release, faults, installs, attached,
                   compiled, pre, next, again, attempts, ready>>

\* mutant: the files are replaced before the obligation is persisted
MarkLater(i) ==
    /\ pc[i] = "mark"
    /\ Goes(i, "write")
    /\ UNCHANGED <<files, marker, lock, due, original, faults, installs>>
    /\ Rest

\* The obligation is persisted before any source is replaced.
Mark(i) ==
    /\ pc[i] = "mark"
    /\ marker' = TRUE
    /\ Goes(i, "write")
    /\ UNCHANGED <<files, lock, due, original, faults, installs>>
    /\ Rest

First(S) == CHOOSE m \in S : \A n \in S : m <= n

\* _atomic_write of the next module, in manifest order.
Write(i) ==
    /\ pc[i] = "write"
    /\ due[i] # {}
    /\ files' = [files EXCEPT ![First(due[i])] = release[i]]
    /\ due' = [due EXCEPT ![i] = @ \ {First(@)}]
    /\ UNCHANGED <<pc, marker, lock, original, faults, installs>>
    /\ Rest

WriteFails(i) ==
    /\ pc[i] = "write"
    /\ due[i] # {}
    /\ Fault
    /\ Goes(i, "rollback")
    /\ due' = [due EXCEPT ![i] = {m \in Modules : original[i][m] # release[i]}]
    /\ UNCHANGED <<files, marker, lock, original, installs>>
    /\ Rest

Finish(i) ==
    /\ pc[i] = "write"
    /\ due[i] = {}
    /\ UNCHANGED marker
    /\ Installed(i)
    /\ UNCHANGED <<files, built, gameVars, release, due, original, faults, installs,
                   attached, compiled, pre, next, again, attempts, ready>>

\* One file is put back; one that cannot be is left as it is.
Restore(i) ==
    /\ pc[i] = "rollback"
    /\ due[i] # {}
    /\ LET m == First(due[i])
       IN  \/ files' = [files EXCEPT ![m] = original[i][m]] /\ UNCHANGED faults
           \/ Fault /\ UNCHANGED files
    /\ due' = [due EXCEPT ![i] = @ \ {First(@)}]
    /\ UNCHANGED <<pc, marker, lock, original, installs>>
    /\ Rest

\* The error leaves the lock; auto_start_opengoal returns and is called again.
GiveUp(i) ==
    /\ pc[i] = "rollback"
    /\ due[i] = {}
    /\ lock' = None
    /\ Goes(i, IF i = "client" THEN "wait" ELSE "idle")
    /\ UNCHANGED <<files, marker, due, original, faults, installs>>
    /\ Rest

-----------------------------------------------------------------------------
(* The game.                                                               *)

\* A starting game loads the objects that were built, but for the modules
\* that do not come up; a sibling needs the control module.
BootsWithout(lost) ==
    LET up == IF built[Control] = None \/ Control \in lost THEN {}
              ELSE {m \in Modules : built[m] # None} \ lost
    IN  /\ running' = TRUE
        /\ live' = [m \in Modules |-> IF m \in up THEN built[m] ELSE None]
        /\ active' = up \ {Control, Diagnostics}
        /\ gen' = IF Control \in up THEN 1 ELSE 0
        /\ dgen' = IF Diagnostics \in up THEN 1 ELSE 0

GameExits ==
    /\ running
    /\ Fault
    /\ running' = FALSE
    /\ live' = [m \in Modules |-> None] /\ active' = {} /\ gen' = 0 /\ dgen' = 0
    /\ attached' = FALSE
    /\ UNCHANGED <<diskVars, installVars, force, compiled, pre, next, again, attempts, ready,
                   installs>>

\* (ml "..."): the file is compiled and evaluated in the game, or nothing comes
\* of it although the form completes.
Loads(m) ==
    /\ live' = [live EXCEPT ![m] = files[m]]
    /\ active' = IF m = Control THEN {} ELSE IF m > 2 THEN active \cup {m} ELSE active
    /\ gen' = IF m = Control THEN gen + 1 ELSE gen
    /\ dgen' = IF m = Diagnostics THEN dgen + 1 ELSE dgen
    /\ UNCHANGED running

Loadable(m) == attached /\ files[m] # None /\ (m = Control \/ live[Control] # None)

Evaluates(m) ==
    \/ Loadable(m) /\ Loads(m) /\ UNCHANGED faults
    \/ ~Loadable(m) /\ UNCHANGED <<gameVars, faults>>
    \/ Loadable(m) /\ Fault /\ UNCHANGED gameVars

-----------------------------------------------------------------------------
(* The client.                                                             *)

At(where) == pc["client"] = where
Goto(where) == Goes("client", where)
Memory == UNCHANGED <<diskVars, release, due, original, installs>>

\* launch_missing_processes
Launch ==
    /\ At("launch") /\ Goto("attach")
    /\ attempts' = 0
    /\ \/ running /\ UNCHANGED <<gameVars, faults>>
       \/ ~running /\ BootsWithout({}) /\ UNCHANGED faults
       \/ ~running /\ Fault /\ \E m \in Modules : BootsWithout({m})
    /\ UNCHANGED <<attached, force, compiled, pre, next, again, ready>> /\ Memory

Attach ==
    /\ At("attach")
    /\ IF running
       THEN Goto(IF compiled THEN "probe" ELSE "build") /\ attached' = TRUE
       ELSE Goto("retry") /\ UNCHANGED attached
    /\ UNCHANGED <<gameVars, force, compiled, pre, next, again, attempts, ready, faults>> /\ Memory

\* (mi): whatever it did, it counts as completed.
Build ==
    /\ At("build") /\ Goto("probe")
    /\ compiled' = TRUE
    /\ \/ built' = files /\ UNCHANGED faults
       \/ BuildFails /\ Fault /\ UNCHANGED built
    /\ UNCHANGED <<files, marker, lock, release, due, original, gameVars, attached,
                   force, pre, next, again, attempts, ready, installs>>

\* What a snapshot says: the contract, with the flags of the siblings, ...
Published == attached /\ live[Control] # None
Compatible ==
    /\ Published
    /\ Contract[live[Control]] = Contract[release["client"]]
    /\ \A m \in Modules : m > 2 => m \in active
\* ... the diagnostics, and the generations.
Diagnosed == dgen >= 1
Generations == [bridge |-> gen, diagnostic |-> dgen]

\* mutant: a compatible bridge is used although the sources changed
ProbeUnforced ==
    /\ At("probe")
    /\ pre' = IF Published THEN Generations ELSE None
    /\ next' = Control /\ again' = FALSE
    /\ Goto(IF ~Compatible THEN "load" ELSE IF Diagnosed THEN "hello" ELSE "diagnose")
    /\ UNCHANGED <<gameVars, attached, force, compiled, attempts, ready, faults>> /\ Memory

\* An unchanged, compatible bridge is used as it is.
Probe ==
    /\ At("probe")
    /\ pre' = IF Published THEN Generations ELSE None
    /\ next' = Control /\ again' = FALSE
    /\ Goto(IF force \/ ~Compatible THEN "load"
            ELSE IF Diagnosed THEN "hello" ELSE "diagnose")
    /\ UNCHANGED <<gameVars, attached, force, compiled, attempts, ready, faults>> /\ Memory

\* Only the optional diagnostics are repaired, with whatever success.
Diagnose ==
    /\ At("diagnose") /\ Goto("hello")
    /\ Evaluates(Diagnostics)
    /\ UNCHANGED <<memoryVars>> /\ Memory

Load ==
    /\ At("load") /\ next \in Modules
    /\ Evaluates(next)
    /\ next' = next + 1
    /\ Goto("load")
    /\ UNCHANGED <<attached, force, compiled, pre, again, attempts, ready>> /\ Memory

Loaded ==
    /\ At("load") /\ next = Siblings + 3
    /\ Goto(IF ~force THEN "hello" ELSE IF pre = None THEN "baseline" ELSE "prove")
    /\ UNCHANGED <<memoryVars, gameVars, faults>> /\ Memory

\* Without generations to compare with, the modules are loaded once more.
Baseline ==
    /\ At("baseline")
    /\ IF Compatible /\ Diagnosed
       THEN pre' = Generations /\ next' = Control /\ again' = TRUE /\ Goto("load")
       ELSE UNCHANGED <<pre, next, again, attempts>> /\ Goto("retry")
    /\ UNCHANGED <<gameVars, attached, force, compiled, attempts, ready, faults>> /\ Memory

Proven ==
    /\ Compatible /\ Diagnosed
    /\ gen # pre.bridge /\ dgen # pre.diagnostic

Prove ==
    /\ At("prove")
    /\ Goto(IF Proven THEN "clear" ELSE "retry")
    /\ UNCHANGED <<memoryVars, gameVars, faults>> /\ Memory

ClearMarker ==
    /\ At("clear") /\ Goto("hello")
    /\ marker' = FALSE /\ force' = FALSE
    /\ UNCHANGED <<files, lock, built, release, due, original, gameVars, attached,
                   compiled, pre, next, again, attempts, ready, faults, installs>>

\* A contract that does not match stops the attempts until somebody asks again.
Hello ==
    /\ At("hello")
    /\ Goto(IF ~Published THEN "retry" ELSE IF Compatible THEN "ready" ELSE "incompatible")
    /\ ready' = Compatible
    /\ attached' = (attached /\ (~Published \/ Compatible))
    /\ UNCHANGED <<gameVars, force, compiled, pre, next, again, attempts, faults>> /\ Memory

\* A ping that fails ends the attachment; the supervisor installs again.
Lost ==
    /\ At("ready") /\ Goto("wait")
    /\ \/ ~Published /\ UNCHANGED faults
       \/ Fault
    /\ ready' = FALSE /\ attached' = FALSE
    /\ UNCHANGED <<gameVars, force, compiled, pre, next, again, attempts>> /\ Memory

\* A form is answered too late or not at all, evaluated or not.
Disconnect ==
    /\ pc["client"] \in Connecting \ {"launch", "clear"}
    /\ Fault
    /\ Goto("retry") /\ attached' = FALSE
    /\ \/ UNCHANGED gameVars
       \/ At("load") /\ next \in Modules /\ Loadable(next) /\ Loads(next)
    /\ UNCHANGED <<force, compiled, pre, next, again, attempts, ready>> /\ Memory

\* The next attempt, or the supervisor starts over.
Retry ==
    /\ At("retry")
    /\ attempts' = attempts + 1
    /\ Goto(IF attempts' < MaxAttempts THEN "attach" ELSE "wait")
    /\ attached' = FALSE
    /\ UNCHANGED <<gameVars, force, compiled, pre, next, again, ready, faults>> /\ Memory

Restart ==
    /\ At("wait") /\ Goto("idle")
    /\ UNCHANGED <<memoryVars, gameVars, faults>> /\ Memory

\* request_reconnect, or a Connected packet.
AskAgain ==
    /\ At("incompatible") /\ Goto("wait")
    /\ UNCHANGED <<memoryVars, gameVars, faults>> /\ Memory

\* An installer dies and is run again, perhaps another release of it.  The lock
\* of a dead owner is recovered.
Crash(i) ==
    /\ Fault
    /\ \E r \in Releases : release' = [release EXCEPT ![i] = r]
    /\ Goes(i, "idle")
    /\ lock' = IF lock = i THEN None ELSE lock
    /\ due' = [due EXCEPT ![i] = {}]
    /\ IF i = "client"
       THEN /\ attached' = FALSE /\ force' = FALSE /\ compiled' = FALSE
            /\ pre' = None /\ next' = Control /\ again' = FALSE /\ attempts' = 0
            /\ ready' = FALSE
       ELSE UNCHANGED memoryVars
    /\ UNCHANGED <<files, marker, built, original, gameVars, installs>>

-----------------------------------------------------------------------------
Install(i) ==
    \/ Acquire(i) \/ Plan(i) \/ Mark(i) \/ Write(i) \/ Finish(i)
    \/ Restore(i) \/ GiveUp(i)

Activate ==
    \/ Launch \/ Attach \/ Build \/ Probe \/ Diagnose \/ Load \/ Loaded
    \/ Baseline \/ Prove \/ ClearMarker \/ Hello \/ Lost \/ Retry \/ Restart

Next ==
    \/ \E i \in Installers : Install(i) \/ WriteFails(i) \/ Crash(i)
    \/ Activate \/ Disconnect \/ AskAgain \/ GameExits

Init ==
    /\ \E r \in Releases \cup {None} : files = [m \in Modules |-> r]
    /\ built = files
    /\ marker = FALSE /\ lock = None
    /\ pc = [i \in Installers |-> "idle"]
    /\ release \in [Installers -> Releases]
    /\ due = [i \in Installers |-> {}] /\ original = [i \in Installers |-> files]
    /\ running = FALSE /\ live = [m \in Modules |-> None] /\ active = {}
    /\ gen = 0 /\ dgen = 0
    /\ attached = FALSE /\ force = FALSE /\ compiled = FALSE
    /\ pre = None /\ next = Control /\ again = FALSE /\ attempts = 0 /\ ready = FALSE
    /\ faults = 0 /\ installs = 0

Spec == Init /\ [][Next]_vars

\* The supervisor's loop goes on.
Fairness == WF_vars(Install("client")) /\ WF_vars(Activate)

FairSpec == Spec /\ Fairness

-----------------------------------------------------------------------------
\* When the client declares the bridge ready, each module in the game is the one
\* of the client's own release, although the snapshot names no release: no crash,
\* failed replacement, lost load or restart makes a stale module pass.  Only the
\* diagnostics, which are optional, may be missing.
ReadyIsCurrent ==
    [][~ready /\ ready' =>
         \A m \in Modules :
             \/ live'[m] = release'["client"]
             \/ m = Diagnostics /\ live'[m] = None]_vars

\* diagnostic-architecture.md, "Any manifest byte or declared source change
\* therefore leaves a durable reload obligation until a compatible new
\* control-module and diagnostic-module activation generation is observed": while
\* the game has modules other than the installed ones, the marker is there.
Obligation ==
    (\E m \in Modules : live[m] \notin {files[m], None}) => marker

\* The client comes to a ready bridge, or to a contract that does not match.
Settles == []<>(pc["client"] \in {"ready", "incompatible"})
=============================================================================
