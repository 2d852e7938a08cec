------------------------ MODULE MCContentCapability -------------------------
(***************************************************************************)
(* An instance of ContentCapability for TLC: two builds that change an     *)
(* item.                                                                   *)
(***************************************************************************)
EXTENDS ContentCapability, TLC

CONSTANTS s1, s2, i, p, r1, r2

wants(row) == [package |-> p, row |-> row]

MCItem == i :> "item"
MCItemThenUpdate == (1 :> (i :> wants(r1))) @@ (2 :> (i :> wants(r2)))
MCNoReplacement == p :> {}

\* Every command ends (CommandEnds).  The servers are interchangeable: what
\* holds of one holds of each, and one is cheaper to check.
CommandsEnd == CommandEnds(s1)
=============================================================================
