--------------------------- MODULE MCLocationOutbox ---------------------------
(* LocationOutbox for TLC. *)
EXTENDS LocationOutbox
=============================================================================
