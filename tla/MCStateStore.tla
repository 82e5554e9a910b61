----------------------------- MODULE MCStateStore -----------------------------
(* StateStore for TLC: two clients, two slots, one update each.             *)
EXTENDS StateStore, TLC

\* Nothing tells two clients, two slots or two updates apart.
Symmetry == Permutations(Writers) \cup Permutations(Slots)
            \cup Permutations(Updates)
=============================================================================
