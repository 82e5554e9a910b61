---------------------------- MODULE MCInstallation ----------------------------
(* The installation of the bridge for TLC: the lock directory installers use, *)
(* and the activation of what they install, which takes the lock in one step. *)
(* They share no variable, so each is explored while the other rests.  The    *)
(* lock is explored with waiters that may give up ("lock"), and with patient  *)
(* ones on a system that tells when a process was started ("wait"); the       *)
(* activation of a bug fix, which keeps the contract, and of a release that   *)
(* changes it.                                                                *)
EXTENDS Installation

CONSTANTS a, b, c, earlier, later

\* One of the acquisitions runs on another host.
OneElsewhere == {e \in Acquisitions \X Acquisitions : (e[1] = c) # (e[2] = c)}

SameContract == [r \in Releases |-> 0]
NewContract == [r \in Releases |-> IF r = later THEN 1 ELSE 0]

VARIABLE part      \* which of them is explored

mcvars == <<part, vars, bridgeVars>>

Wait == INSTANCE InterprocessLock WITH Identified <- TRUE, Patient <- TRUE

Fix == INSTANCE BridgeActivation WITH pc <- step, Contract <- SameContract

ASSUME B!ReleaseAssumption /\ B!InstallerAssumption /\ B!BoundAssumption
ASSUME Fix!ReleaseAssumption

MCInit ==
    /\ part \in {"lock", "wait", "fix", "release"}
    /\ Init /\ B!Init
    /\ part \in {"lock", "wait"} => files[1] = None /\ release["client"] = later

MCNext ==
    \/ part = "lock" /\ Next /\ UNCHANGED <<part, bridgeVars>>
    \/ part = "wait" /\ Wait!Next /\ UNCHANGED <<part, bridgeVars>>
    \/ part = "fix" /\ Fix!Next /\ UNCHANGED <<part, vars>>
    \/ part = "release" /\ B!Next /\ UNCHANGED <<part, vars>>

\* The fairness of each of them.
MCSpec ==
    /\ MCInit /\ [][MCNext]_mcvars
    /\ WF_vars(part = "wait" /\ Lapse)
    /\ \A p \in Acquisitions : WF_vars(part = "wait" /\ Wait!Step(p))
    /\ WF_bridgeVars(\/ part = "fix" /\ Fix!Install("client")
                     \/ part = "release" /\ B!Install("client"))
    /\ WF_bridgeVars(\/ part = "fix" /\ Fix!Activate
                     \/ part = "release" /\ B!Activate)

\* InterprocessLock!NobodyBlocked, BridgeActivation!Settles: in the end whoever
\* waits patiently has had the lock, failed to write or died; and again and
\* again the client is ready or says that the bridge is incompatible.
AttemptsEnd ==
    /\ <>[](part = "wait" => \A p \in Acquisitions : pc[p] \in Ended)
    /\ []<>(part \in {"fix", "release"}
              => step["client"] \in {"ready", "incompatible"})
=============================================================================
