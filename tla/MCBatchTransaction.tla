------------------------- MODULE MCBatchTransaction -------------------------
(* Instance of BatchTransaction for TLC: settings are interchangeable.     *)
EXTENDS BatchTransaction, TLC

SettingsSymmetry == Permutations(Settings)
=============================================================================
