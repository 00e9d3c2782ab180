------------------------------ MODULE MCEngine ------------------------------
(***************************************************************************)
(* Instance of Engine for TLC: the settings name another server once.      *)
(***************************************************************************)
EXTENDS Engine

CONSTANTS first, second, s1

MCServerOf == [v \in 0..MaxVersion |-> IF v = MaxVersion THEN second ELSE first]

=============================================================================
