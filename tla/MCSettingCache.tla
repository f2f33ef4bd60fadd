--------------------------- MODULE MCSettingCache ---------------------------
(* Instances of SettingCache for TLC.                                      *)
EXTENDS SettingCache, TLC

Symmetry == Permutations(Instance) \cup Permutations(Request)
=============================================================================
