------------------------- MODULE MCBaselineRegistry -------------------------
(***************************************************************************)
(* An instance of BaselineRegistry for TLC: two servers with one stock file *)
(* between them, the second of which is pinned to one of its contents.     *)
(***************************************************************************)
EXTENDS BaselineRegistry, TLC

CONSTANTS s1, s2, d1, f, g, v1, v2, v3

MCSharedSource == (s1 :> d1) @@ (s2 :> d1)
MCOnePin == (s1 :> None) @@ (s2 :> f)

\* Review numbers are only compared.
MCSymmetry == Permutations(ReviewId)
=============================================================================
