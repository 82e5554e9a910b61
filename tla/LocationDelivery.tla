--------------------------- MODULE LocationDelivery ---------------------------
(***************************************************************************)
(* What the location outbox promises, without saying how.                  *)
(*                                                                         *)
(* A location is earned in the game, recorded for ever by the client,      *)
(* delivered to the Archipelago server, and acknowledged once the client   *)
(* has learnt from the server that the server holds it.  The server may    *)
(* also obtain a location from another player of the same slot, and may    *)
(* be restarted from an older save and forget some.                        *)
(***************************************************************************)

CONSTANT Locations

VARIABLES
    earned,        \* completed in the native game
    recorded,      \* durably checked by the client
    delivered,     \* held by the server now
    known,         \* held by the server at some time
    acknowledged   \* the client believes the server holds it

vars == <<earned, recorded, delivered, known, acknowledged>>

Init ==
    /\ earned = {}
    /\ recorded = {}
    /\ delivered = {}
    /\ known = {}
    /\ acknowledged = {}

\* The player completes a location.
Earn ==
    /\ \E l \in Locations : earned' = earned \cup {l}
    /\ UNCHANGED <<recorded, delivered, known, acknowledged>>

\* The client makes durable what the game earned or the server once held.
Record ==
    /\ \E S \in SUBSET (earned \cup known) : recorded' = recorded \cup S
    /\ UNCHANGED <<earned, delivered, known, acknowledged>>

\* Only recorded locations reach the server from this client.
Deliver ==
    \E S \in SUBSET recorded :
        /\ delivered' = delivered \cup S
        /\ known' = known \cup S
        /\ UNCHANGED <<earned, recorded, acknowledged>>

\* Another player of the same slot checks a location.
DeliverElsewhere ==
    \E l \in Locations :
        /\ delivered' = delivered \cup {l}
        /\ known' = known \cup {l}
        /\ UNCHANGED <<earned, recorded, acknowledged>>

\* The server is restarted from an older save.
Forget ==
    /\ \E S \in SUBSET delivered : delivered' = delivered \ S
    /\ UNCHANGED <<earned, recorded, known, acknowledged>>

\* The client adopts the server's word: what it acknowledges is recorded too,
\* and the server held it at some time.
Acknowledge ==
    \E S \in SUBSET known :
        /\ acknowledged' = S
        /\ recorded' = recorded \cup S
        /\ UNCHANGED <<earned, delivered, known>>

Next ==
    \/ Earn
    \/ Record
    \/ Deliver
    \/ DeliverElsewhere
    \/ Forget
    \/ Acknowledge

Spec == Init /\ [][Next]_vars
=============================================================================
