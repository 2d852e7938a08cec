------------------------- MODULE MCServerDeployment -------------------------
(***************************************************************************)
(* Instances of ServerDeployment for TLC with a row of every kind.  In one *)
(* the third build updates the first and redefines the cost of the second, *)
(* and the fourth has the vendor of the second; in the other the second    *)
(* build wants every row that the first one has, as it has it.             *)
(***************************************************************************)
EXTENDS ServerDeployment, TLC

CONSTANTS s1, s2, i1, i2, m, sp, c, f, v, pv, p, r1, r2

wants(row) == [package |-> p, row |-> row]

MCKinds ==
  (i1 :> "item") @@ (i2 :> "item") @@ (m :> "managed") @@ (sp :> "spell")
    @@ (c :> "currency") @@ (f :> "cost") @@ (v :> "vendor") @@ (pv :> "planned")
MCBundles ==
  (1 :> ((i1 :> wants(r1)) @@ (c :> wants(r1)) @@ (sp :> wants(r1)) @@ (v :> wants(r1))))
    @@ (2 :> ((i2 :> wants(r1)) @@ (f :> wants(r1)) @@ (m :> wants(r1)) @@ (pv :> wants(r1))))
    @@ (3 :> ((i1 :> wants(r2)) @@ (c :> wants(r2)) @@ (sp :> wants(r2))
                @@ (v :> wants(r1)) @@ (f :> wants(r2))))
    @@ (4 :> ((m :> wants(r2)) @@ (pv :> wants(r1))))

MCRepeated == [b \in 1 .. 2 |-> [r \in DOMAIN MCKinds |-> wants(r1)]]

MCOnePackage == (p :> {})

\* No property tells one server from another.
MCSymmetry == Permutations(Server)
=============================================================================
