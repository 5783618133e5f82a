---------------------------- MODULE MCActiveBans ----------------------------
(***************************************************************************)
(* Instances of ActiveBans for TLC.                                        *)
(***************************************************************************)
EXTENDS ActiveBans, TLC

BanSymmetry == Permutations(Requests)
=============================================================================
