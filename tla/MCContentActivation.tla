------------------------ MODULE MCContentActivation -------------------------
(***************************************************************************)
(* Instances of ContentActivation for TLC: two builds that change an item, *)
(* a managed template, or move an item to a successor package.             *)
(***************************************************************************)
EXTENDS ContentActivation, TLC

CONSTANTS s1, s2, i, m, p, q, r1, r2

wants(package, row) == [package |-> package, row |-> row]

MCItem == i :> "item"
MCManaged == m :> "managed"
MCItemThenUpdate == (1 :> (i :> wants(p, r1))) @@ (2 :> (i :> wants(p, r2)))
MCManagedTwice == (1 :> (m :> wants(p, r1))) @@ (2 :> (m :> wants(p, r1)))
MCItemThenSuccessor == (1 :> (i :> wants(p, r1))) @@ (2 :> (i :> wants(q, r1)))

MCNoReplacement == (p :> {}) @@ (q :> {})
MCReplacement == (p :> {}) @@ (q :> {p})
=============================================================================
