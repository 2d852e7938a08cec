--------------------------- MODULE MCWorldMapRows ---------------------------
(***************************************************************************)
(* Instances of WorldMapRows for TLC.  Package 2 replaces package 1, and   *)
(* to package 1 package 2 is any other package.  Both may have leases of   *)
(* earlier releases.  Row 2 of the floors is a stock row, and package 1    *)
(* has an item with the number 1.                                          *)
(***************************************************************************)
EXTENDS WorldMapRows, TLC

CONSTANTS s1, s2

MCReplaces == (1 :> {}) @@ (2 :> {1})
MCOtherLeases == {<<1, 1>>}
MCStock == ("floor" :> {2}) @@ ("transform" :> {})

\* At most two declarations together.
MCManifests == {{d, e} : d, e \in Declaration} \cup {{}}

\* An old lease: its package, its row and the position of its map.
OldKey(r) ==
  [package |-> r[1], table |-> r[2].table, symbol |-> HistoricalSymbol(r[2], r[3])]

\* The leases an earlier release left for at most two rows, which it granted
\* only when they were not stock rows, had no owner and had their own symbols.
MCHistorical ==
  LET rows == {r \in Package \X Authored \X Position : r[2].row \notin StockRow[r[2].table]}
      Together(r, q) == /\ r[2].table # q[2].table \/ r[2].row # q[2].row
                        /\ OldKey(r) # OldKey(q)
      Left(r) == [row |-> r[2].row, first |-> 0, last |-> 0]
  IN  {[k \in {} |-> k]}
        \cup {OldKey(r) :> Left(r) : r \in rows}
        \cup {(OldKey(pair[1]) :> Left(pair[1])) @@ (OldKey(pair[2]) :> Left(pair[2])) :
                pair \in {p \in rows \X rows : Together(p[1], p[2])}}

MCSymmetry == Permutations(Server)
=============================================================================
