----------------------------- MODULE MCImporter -----------------------------
(* Two versions of a file, in batches of two, and two runs of them that may  *)
(* overlap, fail and follow each other.  Two of the schemes share a name,    *)
(* and the third is called what the suffix makes of it.                      *)
EXTENDS Importer, TLC

CONSTANTS s1, s2, s3, earlier, later, goat, farm, loan

MCName    == s1 :> <<goat>> @@ s2 :> <<goat>> @@ s3 :> <<goat, 2>>
MCTerms   == earlier :> {farm} @@ later :> {farm, loan}
MCRecords == earlier :> <<s1, s3, s2>> @@ later :> <<s2, s1, s3>>

Symmetry == Permutations(Runs)
=============================================================================
