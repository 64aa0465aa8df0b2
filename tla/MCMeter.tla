------------------------------ MODULE MCMeter ------------------------------
(* Two shots, of one launcher or two, on the scope they share. *)
EXTENDS InferenceMeter, TLC

CONSTANTS a, b
MCShots == {a, b}
MCScopeOf == [s \in MCShots |-> "shared"]
ShotSymmetry == Permutations(MCShots)
=============================================================================
