------------------------ MODULE MCLocationObservation ------------------------
(* LocationObservation for TLC: one polled task and the reward location.    *)
EXTENDS LocationObservation, TLC

MCOrder == <<"task10", "reward36">>
MCRewards == {"reward36"}

\* Nothing tells two native saves apart.
Symmetry == Permutations(Saves)
=============================================================================
