------------------------- MODULE MCBuildAllocation --------------------------
(***************************************************************************)
(* Instances of BuildAllocation for TLC.  Package 2 replaces package 1, so *)
(* one build may lease for 1 and a later one, on another server, may move  *)
(* that lease to 2.                                                        *)
(***************************************************************************)
EXTENDS BuildAllocation, TLC

CONSTANTS s1, s2, d1, d2, b1, b2

MCTwoPackages == {1, 2}
MCTwoReplaces == (1 :> {}) @@ (2 :> {1})
MCSharedDir == (s1 :> d1) @@ (s2 :> d1)
MCOwnDirs == (s1 :> d1) @@ (s2 :> d2)
MCOneBaseline == (b1 :> 1)
MCTwoBaselines == (b1 :> 1) @@ (b2 :> 2)
=============================================================================
