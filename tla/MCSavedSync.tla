---------------------------- MODULE MCSavedSync -----------------------------
(* Two accounts used in turn on one device, two schemes, and three taps or   *)
(* syncs in progress at a time.                                              *)
EXTENDS SavedSync, TLC

MCSymmetry == Permutations(Ops) \cup Permutations(Users) \cup Permutations(Schemes)
=============================================================================
