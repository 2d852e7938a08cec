-------------------------- MODULE MCBuildLifecycle --------------------------
(***************************************************************************)
(* Instances of BuildLifecycle for TLC.                                    *)
(***************************************************************************)
EXTENDS BuildLifecycle, TLC

CONSTANTS s1, s2

\* No property tells one server from another.
MCSymmetry == Permutations(Server)
=============================================================================
