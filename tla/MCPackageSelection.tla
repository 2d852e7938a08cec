------------------------- MODULE MCPackageSelection -------------------------
(***************************************************************************)
(* Instances of PackageSelection for TLC: a package of two versions whose  *)
(* EPF is replaced while servers select it and build from it, and a second *)
(* package that collides with the later version and loads its file after   *)
(* one of the first.                                                       *)
(***************************************************************************)
EXTENDS PackageSelection, TLC

CONSTANTS s1, s2

load(target, after) == [target |-> target, after |-> after]

\* The stock list loads file 11, then file 12.
MCStock == <<11, Marker, 12>>

\* A stock spell whose name is <<1, 2>>, and bytes that no spell refers to.
MCStockRows == <<[id |-> 5, name |-> [l \in 0 .. LastSlot |-> IF l = 0 THEN 1 ELSE 0]]>>
MCStockStrings == <<0, 1, 2, 0, 3>>

\* Spells that share a text, with each other and with the stock spell.
SpellOfA == [id |-> 7, names |-> 0 :> <<1, 2>> @@ 2 :> <<2>>]
SpellOfB == [id |-> 6, names |-> 0 :> <<2>>]
OtherSpell == [id |-> 8, names |-> 0 :> <<1>>]
MCSpells == {SpellOfA, SpellOfB, OtherSpell}

\* Rows of every kind, with symbols 1 to 9: the first package has a currency
\* with its own category and sells its items through its creature; the cost
\* of the second one asks for an item of the first.
name(package, kind, symbol) == [package |-> package, kind |-> kind, symbol |-> symbol]
row(package, kind, symbol, uses) ==
  [package |-> package, kind |-> kind, symbol |-> symbol, uses |-> uses]
Token == name(1, "server", 1)
ItemOfA == row(1, "item", 1, {})
RowsOfA ==
  {ItemOfA, row(1, "server", 1, {}), row(1, "category", 2, {}),
   row(1, "currency", 3, {Token, name(1, "category", 2)}), row(1, "cost", 4, {Token}),
   row(1, "creature", 5, {}), row(1, "spawn", 6, {name(1, "creature", 5)}),
   row(1, "vendor", 9, {name(1, "cost", 4), name(1, "creature", 5)}),
   row(1, "DungeonMap", 1, {})}
ObjectOfB == row(2, "gameobject", 1, {})
CostOfB == row(2, "cost", 2, {Token})
\* No package declares the last three: an item without a server row, a currency
\* without a category, a spell.
MCRows ==
  RowsOfA \cup {ObjectOfB, CostOfB, row(1, "item", 7, {}), row(1, "currency", 8, {Token}),
                row(2, "spell", 9, {})}
MCDeclares ==
  [all |-> RowsOfA, client |-> {ItemOfA}, map |-> Of("DungeonMap", RowsOfA),
   object |-> {ObjectOfB}, price |-> {CostOfB}]

manifest(key, version, files, rows, loads, labels, spells) ==
  [key |-> key, version |-> version, files |-> files,
   rows |-> rows, loads |-> loads, labels |-> labels, spells |-> spells, valid |-> TRUE]

\* Files 1 and 3 of the first package follow a stock file, file 2 of the
\* second one follows file 1 - or file 1 is to follow file 2.
FirstOfA ==
  manifest(1, 1, {1, 3}, "all", {load(1, 11), load(3, 11)}, {<<1, 1>>}, {SpellOfA})
NextOfA == manifest(1, 2, {1, 2}, "client", {load(1, 12)}, {}, {SpellOfA, OtherSpell})
MapOfA == manifest(1, 2, {1}, "map", {}, {}, {})
CircleOfA == [FirstOfA EXCEPT !.loads = {load(1, 2)}, !.labels = {}]
OtherSpells == [FirstOfA EXCEPT !.spells = {OtherSpell}]
OfB == manifest(2, 1, {2}, "object", {load(2, 1)}, {}, {SpellOfB})
PricedOfB == manifest(2, 1, {2}, "price", {}, {}, {})
Broken == [FirstOfA EXCEPT !.valid = FALSE]

MCEpf == {FirstOfA, NextOfA, OtherSpells, MapOfA, CircleOfA, OfB, PricedOfB, Broken}
MCShipped == {<<FirstOfA, OfB>>}

\* One server installs the first package and builds, the other one installs
\* the second package and uninstalls the first.
MCRuns == [s \in Server |->
  LET command(op, key) == [op |-> op, key |-> key]
  IN  IF s = s1 THEN {command("install", 1), command("build", None)}
      ELSE {command("install", 2), command("uninstall", 1)}]
=============================================================================
