----------------------------- MODULE Installation -----------------------------
(***************************************************************************)
(* The installation of the bridge: the lock directory installers use       *)
(* (InterprocessLock) beside the activation of what they install           *)
(* (BridgeActivation), which takes the lock in one step.  They share no    *)
(* variable.  What both promise is stated here once, for the runs and for  *)
(* the proofs.                                                             *)
(***************************************************************************)
EXTENDS InterprocessLock

CONSTANTS
    Siblings, Releases, Contract, Installers, BuildFails, MaxAttempts,
    MaxFaults, MaxInstalls

VARIABLES
    files, marker, lock, built, step, release, due, original, running, live,
    active, gen, dgen, attached, force, compiled, pre, next, again, attempts,
    ready, faults, installs

bridgeVars == <<files, marker, lock, built, step, release, due, original,
                running, live, active, gen, dgen, attached, force, compiled,
                pre, next, again, attempts, ready, faults, installs>>

B == INSTANCE BridgeActivation WITH pc <- step

\* BridgeActivation: as long as the game runs other modules than are installed,
\* the marker obliges the next attach to load them.
Obligation == B!Obligation

\* BridgeActivation: the client gets ready only with the modules of its release
\* in the game.
ReadyIsCurrent == B!ReadyIsCurrent
=============================================================================
