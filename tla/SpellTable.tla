------------------------------ MODULE SpellTable ------------------------------
(***************************************************************************)
(* SpellDbcComposer over DbcReader: a build's Spell.dbc is the verified    *)
(* stock table with the rows of the packages' spells appended.             *)
(*                                                                         *)
(* A row has an ID and, for each language slot of the client, the offset   *)
(* of a text in the table's string block, where a zero byte ends it.  The  *)
(* other fields of a row are carried along.  Equal texts are stored once.  *)
(***************************************************************************)
EXTENDS Naturals, Sequences, FiniteSets

CONSTANTS
  LastSlot,      \* slots are numbered from 0, the slot of enUS
  Language,      \* the slots an author may name
  Spells,        \* the spells packages may declare, with the IDs they lease
  StockRows,     \* the rows of the stock table
  StockStrings,  \* its string block; the byte at offset o is number o + 1
  BlockLimit     \* the largest string block that can be written

Slot == 0 .. LastSlot
IsText(text) == text \in Seq(Nat \ {0})

ASSUME SpellAssumption ==
  /\ LastSlot \in Nat /\ BlockLimit \in Nat
  /\ 0 \in Language /\ Language \subseteq Slot
  /\ StockRows \in Seq([id : Nat, name : [Slot -> Nat]])
  /\ StockStrings \in Seq(Nat)
  /\ IsFiniteSet(Spells)
  /\ \A spell \in Spells :
       /\ spell.id \in Nat
       /\ 0 \in DOMAIN spell.names /\ DOMAIN spell.names \subseteq Language
       /\ \A l \in DOMAIN spell.names : IsText(spell.names[l])

\* The text at an offset, for a reader of the table.
EndsOf(strings, offset) == {e \in offset + 1 .. Len(strings) : strings[e] = 0}
TextAt(strings, offset) ==
  LET end == CHOOSE e \in EndsOf(strings, offset) : \A f \in EndsOf(strings, offset) : e <= f
  IN  SubSeq(strings, offset + 1, end - 1)

\* Parse and Inspect: every ID is one row's, and every text ends.
Readable(rows, strings) ==
  /\ Len(strings) > 0 /\ strings[1] = 0
  /\ \A i \in DOMAIN rows : rows[i].id # 0
  /\ \A i, j \in DOMAIN rows : rows[i].id = rows[j].id => i = j
  /\ \A i \in DOMAIN rows, l \in Slot : EndsOf(strings, rows[i].name[l]) # {}

\* A slot without a name of its own has the enUS one; other slots stay empty.
Localized(spell, l) ==
  IF l \in DOMAIN spell.names THEN spell.names[l]
  ELSE IF l \in Language THEN spell.names[0] ELSE <<>>

\* Mutant: offsets are counted from one.
InternFromOne(block, text) ==
  IF text = <<>> \/ text \in DOMAIN block.at THEN block
  ELSE [block EXCEPT !.strings = @ \o text \o <<0>>,
                     !.at = [t \in DOMAIN @ \cup {text} |->
                               IF t = text THEN Len(block.strings) + 1 ELSE @[t]]]

\* A text that was not stored yet goes to the end of the block.
Intern(block, text) ==
  IF text = <<>> \/ text \in DOMAIN block.at THEN block
  ELSE [block EXCEPT !.strings = @ \o text \o <<0>>,
                     !.at = [t \in DOMAIN @ \cup {text} |->
                               IF t = text THEN Len(block.strings) ELSE @[t]]]

\* The block with the texts of a spell's slots, one after the other.
Interned(table, spell) ==
  LET interned[n \in 0 .. LastSlot + 1] ==
        IF n = 0 THEN table ELSE Intern(interned[n - 1], Localized(spell, n - 1))
  IN  interned

Offset(block, text) == IF text = <<>> THEN 0 ELSE block.at[text]

\* One row more, and the block with its texts.
AppendRow(table, spell) ==
  LET block == Interned(table, spell)[LastSlot + 1]
  IN  [block EXCEPT !.rows =
         Append(@, [id |-> spell.id, name |-> [l \in Slot |-> Offset(block, Localized(spell, l))]])]

LastSpell(spells) == CHOOSE spell \in spells : \A other \in spells : other.id <= spell.id

StockTable == [rows |-> StockRows, strings |-> StockStrings, at |-> [t \in {} |-> 0]]

\* Compose appends the rows in the order of their IDs.
Tables(spells) ==
  LET compose[S \in SUBSET spells] ==
        IF S = {} THEN StockTable ELSE AppendRow(compose[S \ {LastSpell(S)}], LastSpell(S))
  IN  compose

SpellDbc(spells) == Tables(spells)[spells]

\* It refuses IDs that are taken and tables that cannot be written or read.
SpellsCompose(spells) ==
  /\ \A a, b \in spells : a.id = b.id => a = b
  /\ Readable(StockRows, StockStrings)
  /\ \A spell \in spells : spell.id # 0 /\ \A i \in DOMAIN StockRows : StockRows[i].id # spell.id
  /\ LET table == SpellDbc(spells)
     IN  Len(table.strings) <= BlockLimit /\ Readable(table.rows, table.strings)

-----------------------------------------------------------------------------
(* What a composed table has to be.                                        *)

\* A reader finds the stock rows as they were, with the texts they had, and
\* for each spell one row more, in which every slot reads as declared.
ReadsBack(spells) ==
  LET table == SpellDbc(spells)
      stock == Len(StockRows)
      read(i, l) == TextAt(table.strings, table.rows[i].name[l])
  IN  /\ Len(table.rows) = stock + Cardinality(spells)
      /\ SubSeq(table.rows, 1, stock) = StockRows
      /\ \A i \in 1 .. stock, l \in Slot :
           read(i, l) = TextAt(StockStrings, StockRows[i].name[l])
      /\ \A spell \in spells : \E i \in stock + 1 .. Len(table.rows) :
           table.rows[i].id = spell.id /\ \A l \in Slot : read(i, l) = Localized(spell, l)
=============================================================================
