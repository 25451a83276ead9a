----------------------------- MODULE MCStorage ------------------------------
(***************************************************************************)
(* Two drivers.  A call may name the language of one and the image of the  *)
(* other, and so replace a driver by another image.                        *)
(***************************************************************************)
EXTENDS Storage, TLC

CONSTANTS c1, c2, d1, d2

MCImages == {"go:v1", "js:v1"}
MCLang   == [n \in MCImages |-> IF n = "js:v1" THEN "js" ELSE "go"]

Symmetry == Permutations({d1, d2}) \cup Permutations({c1, c2})
=============================================================================
