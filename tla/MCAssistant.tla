----------------------------- MODULE MCAssistant -----------------------------
(* Two threads, a cache of one entry, a day of two moments.                  *)
EXTENDS Assistant

CONSTANTS farmer, pension, housing, stopwords

MCPopular == <<farmer>>
MCSymmetry == Permutations(Threads) \cup Permutations({pension, housing})
=============================================================================
