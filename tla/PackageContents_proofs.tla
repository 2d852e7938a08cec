----------------------- MODULE PackageContents_proofs -----------------------
(***************************************************************************)
(* Proofs about what a build composes out of the manifests of its          *)
(* packages, for any manifests: that its sidecars are accepted when they   *)
(* are read again, that its spells read as they were declared, and that    *)
(* its interface files are loaded in their order.                          *)
(*                                                                         *)
(* No theorem of the library that takes an operator can be used, so where  *)
(* a definition is recursive, the argument is by the least counterexample: *)
(* a set of numbers that is not empty has a least member (LeastNumber).    *)
(***************************************************************************)
EXTENDS FrameXmlToc, SpellTable, SidecarParity, FiniteSetTheorems, SequenceTheorems, TLAPS

-----------------------------------------------------------------------------
(* Sidecars.  What the judges of a build's rows need of each other.        *)

\* The part of what Validate and the build demand that acceptance rests on.
Judged(rows) ==
  /\ \A r \in rows : r.kind \in Kind /\ References(r)
  /\ \A a, b \in rows : a.kind \notin MapTable /\ Id(a) = Id(b) => a = b
  /\ \A r \in Of("server", rows) : ItemOf(r) \in Ids(rows)
  /\ \A r \in Of("currency", rows) \cup Of("spawn", rows) \cup Of("vendor", rows)
                \cup Of("cost", rows) :
       r.uses \subseteq Ids(rows)
  /\ \A c \in Of("category", rows) : \E r \in Of("currency", rows) : Id(c) \in r.uses

\* An identity names a resource, of whatever row.
LEMMA IdsOf ==
  ASSUME NEW rows, NEW kind
  PROVE  \A u \in Ids(rows) : u.kind = kind <=> u \in Ids(Of(kind, rows))
BY DEF Ids, Of, Id

LEMMA LeasesByKind ==
  ASSUME NEW rows, NEW kind \in LeasedKind
  PROVE  {u \in Leases(rows) : u.kind = kind} = Ids(Of(kind, rows))
BY DEF Leases, Ids, Of, Id

\* A row that is written to the bundle keeps its identity in it.
LEMMA Bundled ==
  ASSUME NEW rows, NEW kind \in Managed \cup {"server", "currency", "cost", "vendor", "spell"}
  PROVE  /\ Of(kind, ServerJson(rows)) = Of(kind, rows)
         /\ \A u \in Ids(rows) : u.kind = kind => u \in Ids(ServerJson(rows))
BY DEF Of, Ids, Id, ServerJson

LEMMA KindsApart ==
  /\ MapTable \cap (Managed \cup {"server", "currency", "cost", "vendor", "spell", "item",
                                  "category"}) = {}
  /\ ClientTable = {"item", "currency", "category", "cost", "spell"} \cup MapTable
  /\ ClientTable \cup Managed = LeasedKind
BY RowAssumption DEF Managed, ClientTable, LeasedKind

\* The sidecars of rows that Validate and the build let pass are accepted,
\* unless there are items and none of them has a server row.
LEMMA JudgedVerifies ==
  ASSUME NEW rows, Judged(rows)
  PROVE  Verifies(rows)
<1> DEFINE bundle == ServerJson(rows)
           tables == TablesOf(rows)
           p == ParityJson(rows, Leases(rows), tables, Ids(Of("category", rows)), tables)
<1>1. /\ p.resources = Leases(rows) /\ p.hashes = tables /\ p.snapshots = tables
      /\ p.categories = Ids(Of("category", rows)) /\ p.bundled = bundle
      /\ p = [resources |-> p.resources, hashes |-> p.hashes, categories |-> p.categories,
              snapshots |-> p.snapshots, bundled |-> p.bundled]
  BY DEF ParityJson
<1>2. Accepts(Sidecars(rows)) <=>
        ParsesServer(bundle) /\ ParityReads(p) /\ VerifyParity(bundle, p)
  BY DEF Accepts, Sidecars
<1> HIDE DEF p
<1>3. \A kind \in ClientTable : kind \in tables <=> Of(kind, rows) # {}
  BY DEF TablesOf, Of
<1>4. \A kind \in LeasedKind : LeasesOf(kind, p) = Ids(Of(kind, rows))
  BY <1>1, LeasesByKind DEF LeasesOf
<1>5. \A kind \in Managed \cup {"server", "currency", "cost", "vendor", "spell"} :
        Of(kind, bundle) = Of(kind, rows)
  BY Bundled
<1>6. \A kind : Ids(Of(kind, rows)) = {} <=> Of(kind, rows) = {}
  BY DEF Ids
<1>7. {"item", "currency", "category", "cost", "spell"} \subseteq ClientTable
  BY DEF ClientTable
<1>8. ParsesServer(bundle)
  <2>1. \A a, b \in bundle : Id(a) = Id(b) => a = b
    BY KindsApart DEF Judged, ServerJson
  <2>2. \A r \in Of("vendor", rows) : Uses(r, "cost") \subseteq Ids(bundle)
    BY Bundled DEF Judged, Uses
  <2> QED BY <1>5, <2>1, <2>2 DEF ParsesServer
<1>9. ParityReads(p)
  <2> SUFFICES ASSUME NEW u \in Leases(rows)
               PROVE  u.kind \in LeasedKind /\ (u.kind \in MapTable => u.kind \in tables)
    BY <1>1 DEF ParityReads
  <2>1. PICK r \in rows : r.kind \in LeasedKind /\ u = Id(r)
    BY DEF Leases
  <2>2. u.kind = r.kind
    BY <2>1 DEF Id
  <2> QED BY <2>1, <2>2 DEF TablesOf, ClientTable
<1>10. SpellsAgree(bundle, p)
  BY <1>1, <1>3, <1>4, <1>5, <1>7, KindsApart DEF SpellsAgree, Matched
<1>11. CostsAgree(bundle, p)
  <2>1. Of("cost", rows) \cup Of("spell", rows) # {} => p.snapshots # {}
    BY <1>1, <1>3, <1>7
  <2>2. ASSUME NEW r \in Of("cost", rows), NEW u \in r.uses
        PROVE  u \in Ids(bundle) /\ ItemOf(u) \in p.resources
    <3>1. u.kind = "server"
      BY <2>2 DEF Judged, References, Of
    <3>2. u \in Ids(rows)
      BY <2>2 DEF Judged
    <3>3. PICK x \in Of("server", rows) : u = Id(x)
      BY <3>1, <3>2, IdsOf DEF Ids
    <3>4. ItemOf(u) = ItemOf(x)
      BY <3>3 DEF ItemOf, Id
    <3>5. ItemOf(u) \in Ids(rows) /\ ItemOf(u).kind = "item"
      BY <3>3, <3>4 DEF Judged, ItemOf
    <3>6. ItemOf(u) \in LeasesOf("item", p)
      BY <1>4, <1>7, <3>5, IdsOf, KindsApart
    <3> QED BY <1>1, <3>1, <3>2, <3>6, Bundled DEF LeasesOf
  <2> QED BY <1>1, <1>3, <1>4, <1>5, <1>7, <2>1, <2>2, KindsApart DEF CostsAgree, Matched
<1>12. CurrenciesAgree(bundle, p)
  BY <1>1, <1>3, <1>4, <1>5, <1>7, KindsApart DEF CurrenciesAgree
<1>13. CategoriesAgree(bundle, p)
  <2>1. Ids(Of("category", rows)) = UNION {Uses(r, "category") : r \in Of("currency", rows)}
    <3>1. ASSUME NEW u \in Ids(Of("category", rows))
          PROVE  \E r \in Of("currency", rows) : u \in Uses(r, "category")
      <4>1. PICK c \in Of("category", rows) : u = Id(c)
        BY <3>1 DEF Ids
      <4>2. u.kind = "category"
        BY <4>1 DEF Of, Id
      <4> QED BY <4>1, <4>2 DEF Judged, Uses
    <3>2. ASSUME NEW r \in Of("currency", rows), NEW u \in Uses(r, "category")
          PROVE  u \in Ids(Of("category", rows))
      <4>1. u \in Ids(rows) /\ u.kind = "category"
        BY <3>2 DEF Judged, Uses
      <4> QED BY <4>1, IdsOf
    <3> QED BY <3>1, <3>2
  <2> QED BY <1>1, <1>3, <1>4, <1>5, <1>6, <1>7, <2>1, KindsApart DEF CategoriesAgree
<1>14. ManagedAgree(bundle, p)
  <2>1. \A kind \in Managed : Matched(kind, bundle, p)
    BY <1>4, <1>5, KindsApart DEF Matched
  <2>2. ASSUME NEW r \in Of("spawn", rows) PROVE r.uses \subseteq Ids(bundle)
    <3>1. \A u \in r.uses : u.kind = "creature"
      BY <2>2 DEF Judged, References, Of
    <3>2. r.uses \subseteq Ids(rows)
      BY <2>2 DEF Judged
    <3> QED BY <3>1, <3>2, Bundled DEF Managed
  <2>3. "spawn" \in Managed
    BY DEF Managed
  <2> QED BY <1>5, <2>1, <2>2, <2>3 DEF ManagedAgree
<1>15. MapsAgree(p)
  BY <1>1, <1>3, <1>4, <1>6, KindsApart DEF MapsAgree
<1>16. ItemExpected(bundle, p) <=> Of("server", rows) # {}
  BY <1>5 DEF ItemExpected
\* A server row has an item, so only the converse can fail.
<1>17. Of("server", rows) # {} => Of("item", rows) # {}
  <2> SUFFICES ASSUME NEW r \in Of("server", rows) PROVE Of("item", rows) # {}
    OBVIOUS
  <2>1. ItemOf(r) \in Ids(rows) /\ ItemOf(r).kind = "item"
    BY DEF Judged, ItemOf
  <2> QED BY <2>1, IdsOf DEF Ids
<1>18. ASSUME ~ ClientItemsOnly(rows) PROVE SnapshotsAgree(bundle, p) /\ ManifestAgrees(bundle, p)
  <2>1. "item" \in tables <=> ItemExpected(bundle, p)
    BY <1>3, <1>7, <1>16, <1>17, <1>18 DEF ClientItemsOnly
  <2>2. "category" \in tables <=> p.categories # {}
    BY <1>1, <1>3, <1>6, <1>7
  <2>3. \A kind \in {"currency", "cost", "spell"} : kind \in tables <=> Of(kind, bundle) # {}
    BY <1>3, <1>5, <1>7
  <2>4. tables \subseteq ClientTable
    BY DEF TablesOf
  <2>5. SnapshotsAgree(bundle, p)
    BY <1>1, <2>1, <2>2, <2>3, <2>4, KindsApart DEF SnapshotsAgree
  <2>6. ServerJson(bundle) = bundle
    BY DEF ServerJson
  <2>7. p = ParityJson(bundle, p.resources, p.hashes, p.categories, p.snapshots)
    BY <1>1, <2>6 DEF ParityJson
  <2> QED BY <1>1, <2>1, <2>5, <2>7 DEF ManifestAgrees
<1>19. ASSUME ClientItemsOnly(rows) PROVE ~ ManifestAgrees(bundle, p)
  BY <1>1, <1>3, <1>7, <1>16, <1>19 DEF ManifestAgrees, ClientItemsOnly
<1> QED
  BY <1>2, <1>8, <1>9, <1>10, <1>11, <1>12, <1>13, <1>14, <1>15, <1>18, <1>19
     DEF VerifyParity, Verifies

\* Rows that pass Validate package by package, and whose prices the build
\* resolves, have what acceptance rests on.
LEMMA BuildableIsJudged ==
  ASSUME NEW rows, \A r \in rows : r.kind \in Kind /\ References(r), Buildable(rows)
  PROVE  Judged(rows)
<1> DEFINE own(r) == {other \in rows : other.package = r.package}
<1>1. \A r \in rows : r \in own(r) /\ WellFormed(own(r)) /\ Ids(own(r)) \subseteq Ids(rows)
  BY DEF Buildable, Ids
<1>2. ASSUME NEW a \in rows, NEW b \in rows, a.kind \notin MapTable, Id(a) = Id(b)
      PROVE  a = b
  <2>1. a.package = b.package /\ a.kind = b.kind /\ a.symbol = b.symbol
    BY <1>2 DEF Id
  <2>2. a \in own(a) /\ b \in own(a) /\ WellFormed(own(a))
    BY <1>1, <2>1
  <2> HIDE DEF own
  <2>3. CASE a.kind = "server"
    BY <2>1, <2>2, <2>3 DEF WellFormed, ServerRowsPaired, Of
  <2>4. CASE a.kind # "server"
    BY <1>2, <2>1, <2>2, <2>4 DEF WellFormed, SymbolsUnique
  <2> QED BY <2>3, <2>4
<1>3. \A r \in Of("server", rows) : ItemOf(r) \in Ids(rows)
  <2> SUFFICES ASSUME NEW r \in Of("server", rows) PROVE ItemOf(r) \in Ids(own(r))
    BY <1>1 DEF Of
  <2>1. r \in Of("server", own(r)) /\ WellFormed(own(r))
    BY <1>1 DEF Of
  <2> QED BY <2>1 DEF WellFormed, ServerRowsPaired
<1>4. \A r \in Of("currency", rows) \cup Of("spawn", rows) \cup Of("vendor", rows) :
        r.uses \subseteq Ids(rows)
  <2> SUFFICES ASSUME NEW kind \in {"currency", "spawn", "vendor"}, NEW r \in Of(kind, rows)
               PROVE  r.uses \subseteq Ids(own(r))
    BY <1>1 DEF Of
  <2>1. r \in Of(kind, own(r)) /\ WellFormed(own(r))
    BY <1>1 DEF Of
  <2> HIDE DEF own
  <2> QED BY <2>1 DEF WellFormed, CurrenciesResolve, SpawnsResolve, VendorsResolve
<1>5. \A r \in Of("cost", rows) : r.uses \subseteq Ids(rows)
  BY DEF Buildable, PricesResolve
<1>6. \A c \in Of("category", rows) : \E r \in Of("currency", rows) : Id(c) \in r.uses
  <2> SUFFICES ASSUME NEW c \in Of("category", rows)
               PROVE  \E r \in Of("currency", own(c)) : Id(c) \in r.uses
    BY DEF Of
  <2>1. c \in Of("category", own(c)) /\ WellFormed(own(c))
    BY <1>1 DEF Of
  <2> HIDE DEF own
  <2> QED BY <2>1 DEF WellFormed, CurrenciesResolve
<1> QED BY <1>2, <1>3, <1>4, <1>5, <1>6 DEF Judged

\* Whatever rows the packages of a build declare.
THEOREM BuildableVerifies == AnyRowsVerify
BY RowAssumption, BuildableIsJudged, JudgedVerifies DEF AnyRowsVerify

-----------------------------------------------------------------------------
(* Least numbers.                                                          *)

\* A set of numbers has a least member.
LEMMA LeastNumber ==
  ASSUME NEW T, T \subseteq Nat, T # {}
  PROVE  \E n \in T : \A m \in T : n <= m
<1>1. PICK n \in T : \A m \in T : ~ (<<m, n>> \in OpToRel(<, Nat))
  BY NatLessThanWellFounded, WFMin
<1>2. \A m \in T : ~ (m < n)
  BY <1>1 DEF OpToRel
<1> QED BY <1>2

-----------------------------------------------------------------------------
(* Spells.  Texts in a block that only grows.                              *)

Text == Seq(Nat \ {0})

\* At the offset o the block has the text t and a zero after it.
Stores(strings, o, t) ==
  /\ o + Len(t) < Len(strings)
  /\ \A i \in 1 .. Len(t) : strings[o + i] = t[i]
  /\ strings[o + Len(t) + 1] = 0

Prefix(s, t) == Len(s) <= Len(t) /\ \A i \in 1 .. Len(s) : t[i] = s[i]

LEMMA TextIsSeq == \A t \in Text : t \in Seq(Nat) /\ Len(t) \in Nat
BY DEF Text

\* What is stored is what a reader finds.
LEMMA StoredIsRead ==
  ASSUME NEW strings \in Seq(Nat), NEW o \in Nat, NEW t \in Text, Stores(strings, o, t)
  PROVE  EndsOf(strings, o) # {} /\ TextAt(strings, o) = t
<1> DEFINE e == o + Len(t) + 1
<1>1. Len(t) \in Nat /\ Len(strings) \in Nat /\ t \in Seq(Nat)
  BY TextIsSeq
<1>2. e \in EndsOf(strings, o)
  BY <1>1 DEF EndsOf, Stores
<1>3. \A f \in EndsOf(strings, o) : e <= f
  <2> SUFFICES ASSUME NEW f \in EndsOf(strings, o), f < e PROVE FALSE
    BY <1>1 DEF EndsOf
  <2>1. f \in o + 1 .. o + Len(t) /\ strings[f] = 0
    BY <1>1 DEF EndsOf
  <2>2. f - o \in 1 .. Len(t) /\ o + (f - o) = f
    BY <1>1, <2>1
  <2>3. t[f - o] = 0
    BY <2>1, <2>2 DEF Stores
  <2>4. t[f - o] \in Nat \ {0}
    BY <2>2, ElementOfSeq DEF Text
  <2> QED BY <2>3, <2>4
<1>4. \A f \in EndsOf(strings, o) : (\A g \in EndsOf(strings, o) : f <= g) => f = e
  BY <1>1, <1>2, <1>3 DEF EndsOf
<1>5. (CHOOSE f \in EndsOf(strings, o) : \A g \in EndsOf(strings, o) : f <= g) = e
  BY <1>2, <1>3, <1>4
<1>6. TextAt(strings, o) = SubSeq(strings, o + 1, o + Len(t))
  <2>1. TextAt(strings, o) = SubSeq(strings, o + 1, e - 1)
    BY <1>5 DEF TextAt
  <2>2. e - 1 = o + Len(t)
    BY <1>1
  <2> QED BY <2>1, <2>2
<1>7. SubSeq(strings, o + 1, o + Len(t)) = t
  <2> DEFINE sub == SubSeq(strings, o + 1, o + Len(t))
  <2>1. \A i \in o + 1 .. o + Len(t) : strings[i] \in Nat
    <3> SUFFICES ASSUME NEW i \in o + 1 .. o + Len(t) PROVE strings[i] \in Nat
      OBVIOUS
    <3>1. i \in 1 .. Len(strings)
      BY <1>1 DEF Stores
    <3> QED BY <3>1, ElementOfSeq
  <2>2. /\ sub \in Seq(Nat)
        /\ Len(sub) = Len(t)
        /\ \A i \in 1 .. Len(t) : sub[i] = strings[o + i]
    <3>1. o + 1 \in Int /\ o + Len(t) \in Int
      BY <1>1
    <3>2. /\ sub \in Seq(Nat)
          /\ Len(sub) = IF o + 1 <= o + Len(t) THEN (o + Len(t)) - (o + 1) + 1 ELSE 0
          /\ \A i \in 1 .. (o + Len(t)) - (o + 1) + 1 : sub[i] = strings[(o + 1) + i - 1]
      BY <2>1, <3>1, SubSeqProperties
    <3>3. (o + Len(t)) - (o + 1) + 1 = Len(t)
      BY <1>1
    <3>4. \A i \in 1 .. Len(t) : (o + 1) + i - 1 = o + i
      BY <1>1
    <3> HIDE DEF sub
    <3> QED BY <1>1, <3>2, <3>3, <3>4
  <2> HIDE DEF sub
  <2>3. \A i \in 1 .. Len(sub) : sub[i] = t[i]
    BY <2>2 DEF Stores
  <2>4. sub = t
    BY <1>1, <2>2, <2>3, SeqEqual
  <2> QED BY <2>4 DEF sub
<1> QED BY <1>2, <1>6, <1>7

\* A text that ends is stored.
LEMMA EndedIsStored ==
  ASSUME NEW strings \in Seq(Nat), NEW o \in Nat, EndsOf(strings, o) # {}
  PROVE  \E t \in Text : Stores(strings, o, t)
<1>1. EndsOf(strings, o) \subseteq Nat /\ Len(strings) \in Nat
  BY DEF EndsOf
<1>2. PICK e \in EndsOf(strings, o) : \A f \in EndsOf(strings, o) : e <= f
  BY <1>1, LeastNumber
<1>3. e \in o + 1 .. Len(strings) /\ strings[e] = 0 /\ e \in Nat
  BY <1>1, <1>2 DEF EndsOf
<1> DEFINE n == e - o - 1
           t == [i \in 1 .. n |-> strings[o + i]]
<1>4. n \in Nat
  BY <1>3
<1>5. \A i \in 1 .. n : strings[o + i] \in Nat \ {0}
  <2> SUFFICES ASSUME NEW i \in 1 .. n PROVE strings[o + i] \in Nat \ {0}
    OBVIOUS
  <2>1. o + i \in o + 1 .. Len(strings) /\ o + i < e /\ o + i \in 1 .. Len(strings)
    BY <1>1, <1>3
  <2>2. o + i \notin EndsOf(strings, o)
    BY <1>1, <1>2, <2>1
  <2>3. strings[o + i] \in Nat
    BY <2>1, ElementOfSeq
  <2> QED BY <2>1, <2>2, <2>3 DEF EndsOf
<1>6. t \in Text /\ Len(t) = n
  BY <1>4, <1>5 DEF Text
<1>7. o + n + 1 = e /\ o + n < Len(strings)
  BY <1>1, <1>3
<1> HIDE DEF n
<1>8. \A i \in 1 .. n : t[i] = strings[o + i]
  OBVIOUS
<1>9. strings[o + n + 1] = 0
  BY <1>3, <1>7
<1> HIDE DEF n, t
<1>10. Stores(strings, o, t)
  BY <1>6, <1>7, <1>8, <1>9 DEF Stores
<1> QED BY <1>6, <1>10

LEMMA StoredOn ==
  ASSUME NEW s \in Seq(Nat), NEW u \in Seq(Nat), Prefix(s, u), NEW o \in Nat, NEW t \in Text,
         Stores(s, o, t)
  PROVE  Stores(u, o, t)
<1>1. Len(t) \in Nat /\ Len(s) \in Nat /\ Len(u) \in Nat
  BY TextIsSeq
<1>2. \A i \in 1 .. Len(t) : o + i \in 1 .. Len(s)
  BY <1>1 DEF Stores
<1>3. o + Len(t) + 1 \in 1 .. Len(s)
  BY <1>1 DEF Stores
<1> QED BY <1>1, <1>2, <1>3 DEF Stores, Prefix

\* The texts of a block that grows are read as before.
LEMMA ReadOn ==
  ASSUME NEW s \in Seq(Nat), NEW u \in Seq(Nat), Prefix(s, u), NEW o \in Nat, EndsOf(s, o) # {}
  PROVE  TextAt(u, o) = TextAt(s, o)
<1>1. PICK t \in Text : Stores(s, o, t)
  BY EndedIsStored
<1> QED BY <1>1, StoredOn, StoredIsRead

LEMMA PrefixTransitive ==
  ASSUME NEW s \in Seq(Nat), NEW t \in Seq(Nat), NEW u \in Seq(Nat), Prefix(s, t), Prefix(t, u)
  PROVE  Prefix(s, u)
<1>1. Len(s) \in Nat /\ Len(t) \in Nat /\ Len(u) \in Nat
  OBVIOUS
<1>2. \A i \in 1 .. Len(s) : i \in 1 .. Len(t)
  BY <1>1 DEF Prefix
<1>3. \A i \in 1 .. Len(s) : u[i] = s[i]
  BY <1>2 DEF Prefix
<1> QED BY <1>1, <1>3 DEF Prefix

-----------------------------------------------------------------------------
(* Spells.  The rows and texts appended to a table.                        *)

\* A block ends every text it knows.
BlockOK(b) ==
  /\ b = [rows |-> b.rows, strings |-> b.strings, at |-> b.at]
  /\ b.strings \in Seq(Nat) /\ Len(b.strings) > 0 /\ b.strings[1] = 0
  /\ \A t \in DOMAIN b.at : t \in Text /\ b.at[t] \in Nat /\ Stores(b.strings, b.at[t], t)

Has(b, t) == t = <<>> \/ t \in DOMAIN b.at

Grows(b, c) ==
  /\ c.rows = b.rows
  /\ Prefix(b.strings, c.strings)
  /\ \A t \in Text : Has(b, t) => Has(c, t)

LEMMA GrowsReflexive == \A b : BlockOK(b) => Grows(b, b)
BY DEF Grows, Prefix, BlockOK

LEMMA GrowsTransitive ==
  ASSUME NEW b, NEW c, NEW d, BlockOK(b), BlockOK(c), BlockOK(d), Grows(b, c), Grows(c, d)
  PROVE  Grows(b, d)
<1>1. Prefix(b.strings, d.strings)
  BY PrefixTransitive DEF Grows, BlockOK
<1> QED BY <1>1 DEF Grows

LEMMA OffsetStores ==
  ASSUME NEW b, BlockOK(b), NEW t \in Text, Has(b, t)
  PROVE  Offset(b, t) \in Nat /\ Stores(b.strings, Offset(b, t), t)
<1>1. CASE t = <<>>
  <2>1. Len(t) = 0 /\ Len(b.strings) \in Nat
    BY <1>1 DEF BlockOK
  <2> QED BY <1>1, <2>1 DEF Offset, Stores, BlockOK
<1>2. CASE t # <<>>
  BY <1>2 DEF Offset, Has, BlockOK
<1> QED BY <1>1, <1>2

\* Interning a text keeps the block and what it has, and makes it have the text.
LEMMA InternStep ==
  ASSUME NEW b, BlockOK(b), NEW t \in Text
  PROVE  /\ BlockOK(Intern(b, t)) /\ Grows(b, Intern(b, t)) /\ Has(Intern(b, t), t)
<1>1. CASE t = <<>> \/ t \in DOMAIN b.at
  BY <1>1, GrowsReflexive DEF Intern, Has
<1>2. CASE ~ (t = <<>> \/ t \in DOMAIN b.at)
  <2> DEFINE s == b.strings
             u == s \o t \o <<0>>
             at == [x \in DOMAIN b.at \cup {t} |-> IF x = t THEN Len(s) ELSE b.at[x]]
             c == Intern(b, t)
  <2>1. c = [rows |-> b.rows, strings |-> u, at |-> at]
    BY <1>2 DEF Intern, BlockOK
  <2>2. s \in Seq(Nat) /\ t \in Seq(Nat) /\ Len(s) \in Nat /\ Len(t) \in Nat /\ Len(s) > 0
    BY TextIsSeq DEF BlockOK
  <2>3. /\ u \in Seq(Nat) /\ Len(u) = Len(s) + Len(t) + 1
        /\ \A i \in 1 .. Len(s) : u[i] = s[i]
        /\ \A i \in 1 .. Len(t) : u[Len(s) + i] = t[i]
        /\ u[Len(s) + Len(t) + 1] = 0
    BY <2>2
  <2> HIDE DEF u, c
  <2>4. Prefix(s, u)
    BY <2>2, <2>3 DEF Prefix
  <2>5. Stores(u, Len(s), t)
    BY <2>2, <2>3 DEF Stores
  <2>6. ASSUME NEW x \in DOMAIN b.at PROVE x \in Text /\ b.at[x] \in Nat /\ Stores(u, b.at[x], x)
    <3>1. x \in Text /\ b.at[x] \in Nat /\ Stores(s, b.at[x], x)
      BY DEF BlockOK
    <3> QED BY <2>2, <2>3, <2>4, <3>1, StoredOn
  <2>7. \A x \in DOMAIN at : x \in Text /\ at[x] \in Nat /\ Stores(u, at[x], x)
    BY <1>2, <2>2, <2>5, <2>6
  <2>8. u[1] = 0 /\ Len(u) > 0
    <3>1. s[1] = 0
      BY DEF BlockOK
    <3>2. 1 \in 1 .. Len(s) /\ Len(u) > 0
      BY <2>2, <2>3
    <3> HIDE DEF s
    <3> QED BY <2>3, <3>1, <3>2
  <2>9. DOMAIN at = DOMAIN b.at \cup {t}
    OBVIOUS
  <2> HIDE DEF at
  <2>10. BlockOK(c)
    BY <2>9, <2>1, <2>3, <2>7, <2>8 DEF BlockOK
  <2>11. Grows(b, c) /\ Has(c, t)
    BY <2>1, <2>4, <2>9 DEF Grows, Has
  <2> QED BY <2>10, <2>11 DEF c
<1> QED BY <1>1, <1>2

\* The recursion over the slots defines the blocks it describes.
LEMMA InternedDef ==
  ASSUME NEW table, NEW spell
  PROVE  Interned(table, spell) =
           [n \in 0 .. LastSlot + 1 |->
              IF n = 0 THEN table
              ELSE Intern(Interned(table, spell)[n - 1], Localized(spell, n - 1))]
<1> DEFINE Block(f, n) == IF n = 0 THEN table ELSE Intern(f[n - 1], Localized(spell, n - 1))
           Upto(m) == \E f : f = [n \in 0 .. m |-> Block(f, n)]
           Bad == {m \in Nat : ~ Upto(m)}
<1>1. Bad = {}
  <2> SUFFICES ASSUME Bad # {} PROVE FALSE
    OBVIOUS
  <2>1. PICK m \in Bad : \A k \in Bad : m <= k
    <3> HIDE DEF Bad
    <3>1. Bad \subseteq Nat
      BY DEF Bad
    <3> QED BY <3>1, LeastNumber
  <2>2. m \in Nat /\ ~ Upto(m)
    OBVIOUS
  <2>3. CASE m = 0
    <3>1. [n \in 0 .. 0 |-> table] = [n \in 0 .. 0 |-> Block([k \in 0 .. 0 |-> table], n)]
      OBVIOUS
    <3> QED BY <2>2, <2>3, <3>1
  <2>4. CASE m # 0
    <3>0. m - 1 \in Nat /\ m - 1 \notin Bad
      <4> HIDE DEF Upto
      <4> QED BY <2>1, <2>2, <2>4
    <3>1. m - 1 \in Nat /\ Upto(m - 1)
      BY <3>0
    <3>2. PICK g : g = [n \in 0 .. m - 1 |-> Block(g, n)]
      BY <3>1
    <3> DEFINE h == [n \in 0 .. m |-> IF n = m THEN Block(g, m) ELSE g[n]]
    <3>3. \A n \in 0 .. m : n # m => n \in 0 .. m - 1 /\ h[n] = g[n]
      BY <2>2
    <3>4. ASSUME NEW n \in 0 .. m PROVE h[n] = Block(h, n)
      <4>1. n # 0 => n - 1 \in 0 .. m /\ n - 1 # m /\ h[n - 1] = g[n - 1]
        BY <2>2, <3>3
      <4>2. Block(h, n) = Block(g, n)
        <5> HIDE DEF h
        <5> QED BY <4>1
      <4>3. CASE n = m
        BY <4>2, <4>3
      <4>4. CASE n # m
        <5>1. h[n] = g[n] /\ g[n] = Block(g, n)
          BY <3>2, <3>3, <4>4
        <5> QED BY <4>2, <5>1
      <4> QED BY <4>3, <4>4
    <3>5. h = [n \in 0 .. m |-> h[n]]
      OBVIOUS
    <3>6. h = [n \in 0 .. m |-> Block(h, n)]
      <4> HIDE DEF h
      <4> QED BY <3>4, <3>5
    <3> QED BY <2>2, <3>6
  <2> QED BY <2>3, <2>4
<1>2. LastSlot + 1 \in Nat
  BY SpellAssumption
<1>3. \E f : f = [n \in 0 .. LastSlot + 1 |-> Block(f, n)]
  BY <1>1, <1>2
<1> QED BY <1>3 DEF Interned

LEMMA LocalizedIsText ==
  \A spell \in Spells, l \in Slot : Localized(spell, l) \in Text
<1> SUFFICES ASSUME NEW spell \in Spells, NEW l \in Slot PROVE Localized(spell, l) \in Text
  OBVIOUS
<1>1. \A k \in DOMAIN spell.names : spell.names[k] \in Text
  BY SpellAssumption DEF IsText, Text
<1>2. 0 \in DOMAIN spell.names /\ <<>> \in Text
  BY SpellAssumption DEF Text
<1> QED BY <1>1, <1>2 DEF Localized

\* After the recursion the block has every slot's text.
LEMMA InternedHas ==
  ASSUME NEW table, BlockOK(table), NEW spell \in Spells
  PROVE  LET block == Interned(table, spell)[LastSlot + 1]
         IN  /\ BlockOK(block) /\ Grows(table, block)
             /\ \A l \in Slot : Has(block, Localized(spell, l))
<1> DEFINE f == Interned(table, spell)
           Good(n) == /\ BlockOK(f[n]) /\ Grows(table, f[n])
                      /\ \A l \in 0 .. n - 1 : Has(f[n], Localized(spell, l))
           Bad == {n \in 0 .. LastSlot + 1 : ~ Good(n)}
<1>1. LastSlot \in Nat
  BY SpellAssumption
<1>2. \A n \in 0 .. LastSlot + 1 :
        f[n] = IF n = 0 THEN table ELSE Intern(f[n - 1], Localized(spell, n - 1))
  <2>1. f = [n \in 0 .. LastSlot + 1 |->
               IF n = 0 THEN table ELSE Intern(f[n - 1], Localized(spell, n - 1))]
    BY InternedDef
  <2> HIDE DEF f
  <2> QED BY <2>1
<1> HIDE DEF f
<1>3. Bad = {}
  <2> SUFFICES ASSUME Bad # {} PROVE FALSE
    OBVIOUS
  <2>1. PICK n \in Bad : \A k \in Bad : n <= k
    <3>1. Bad \subseteq Nat
      BY <1>1
    <3> HIDE DEF Bad
    <3> QED BY <3>1, LeastNumber
  <2>2. n \in 0 .. LastSlot + 1 /\ ~ Good(n) /\ n \in Nat
    BY <1>1
  <2>3. CASE n = 0
    <3>1. f[0] = table /\ 0 .. 0 - 1 = {}
      BY <1>1, <1>2
    <3> QED BY <2>2, <2>3, <3>1, GrowsReflexive
  <2>4. CASE n # 0
    <3>1. n - 1 \in 0 .. LastSlot + 1 /\ n - 1 \in Slot /\ ~ (n <= n - 1)
      BY <1>1, <2>2, <2>4 DEF Slot
    <3>2. Good(n - 1)
      <4> HIDE DEF Good
      <4> QED BY <2>1, <3>1
    <3> DEFINE b == f[n - 1]
               t == Localized(spell, n - 1)
    <3>3. t \in Text
      BY <3>1, LocalizedIsText
    <3>4. f[n] = Intern(b, t)
      BY <1>2, <2>2, <2>4
    <3>5. BlockOK(f[n]) /\ Grows(b, f[n]) /\ Has(f[n], t)
      BY <3>2, <3>3, <3>4, InternStep
    <3>6. Grows(table, f[n])
      BY <3>2, <3>5, GrowsTransitive
    <3>7. ASSUME NEW l \in 0 .. n - 1 PROVE Has(f[n], Localized(spell, l))
      <4>1. CASE l = n - 1
        BY <3>5, <4>1
      <4>2. CASE l # n - 1
        <5>1. l \in 0 .. (n - 1) - 1 /\ l \in Slot
          BY <1>1, <2>2, <4>2 DEF Slot
        <5>2. Has(b, Localized(spell, l)) /\ Localized(spell, l) \in Text
          BY <3>2, <5>1, LocalizedIsText
        <5> QED BY <3>5, <5>2 DEF Grows
      <4> QED BY <4>1, <4>2
    <3> QED BY <2>2, <3>5, <3>6, <3>7
  <2> QED BY <2>3, <2>4
<1>4. LastSlot + 1 \in 0 .. LastSlot + 1 /\ Slot = 0 .. (LastSlot + 1) - 1
  BY <1>1 DEF Slot
<1>5. Good(LastSlot + 1)
  <2> HIDE DEF Good
  <2> QED BY <1>3, <1>4
<1> QED BY <1>4, <1>5 DEF f

TableRow == [id : Nat, name : [Slot -> Nat]]

\* The row at i is the spell's, and each of its slots reads as declared.
IsRow(b, i, spell) ==
  /\ b.rows[i].id = spell.id
  /\ \A l \in Slot : /\ b.rows[i].name[l] \in Nat
                     /\ Stores(b.strings, b.rows[i].name[l], Localized(spell, l))

LEMMA AppendRowAdds ==
  ASSUME NEW table, BlockOK(table), table.rows \in Seq(TableRow), NEW spell \in Spells
  PROVE  LET next == AppendRow(table, spell)
         IN  /\ BlockOK(next) /\ next.rows \in Seq(TableRow)
             /\ Prefix(table.strings, next.strings)
             /\ Len(next.rows) = Len(table.rows) + 1
             /\ \A i \in 1 .. Len(table.rows) : next.rows[i] = table.rows[i]
             /\ IsRow(next, Len(table.rows) + 1, spell)
<1> DEFINE block == Interned(table, spell)[LastSlot + 1]
           row == [id |-> spell.id, name |-> [l \in Slot |-> Offset(block, Localized(spell, l))]]
           next == AppendRow(table, spell)
<1>1. /\ BlockOK(block) /\ Grows(table, block)
      /\ \A l \in Slot : Has(block, Localized(spell, l))
  BY InternedHas
<1>2. next = [rows |-> Append(block.rows, row), strings |-> block.strings, at |-> block.at]
  <2>1. next = [block EXCEPT !.rows = Append(block.rows, row)]
    BY DEF AppendRow
  <2>2. block = [rows |-> block.rows, strings |-> block.strings, at |-> block.at]
    BY <1>1 DEF BlockOK
  <2> HIDE DEF block, row, next
  <2> QED BY <2>1, <2>2
<1> HIDE DEF block, next
<1>3. \A l \in Slot : /\ Offset(block, Localized(spell, l)) \in Nat
                      /\ Stores(block.strings, Offset(block, Localized(spell, l)), Localized(spell, l))
  BY <1>1, LocalizedIsText, OffsetStores
<1>4. spell.id \in Nat
  BY SpellAssumption
<1>5. row \in TableRow /\ row.id = spell.id /\ \A l \in Slot : row.name[l] = Offset(block, Localized(spell, l))
  BY <1>3, <1>4 DEF TableRow
<1> HIDE DEF row
<1>6. block.rows = table.rows /\ Prefix(table.strings, block.strings)
  BY <1>1 DEF Grows
<1>7. /\ next.rows \in Seq(TableRow) /\ Len(next.rows) = Len(table.rows) + 1
      /\ \A i \in 1 .. Len(table.rows) : next.rows[i] = table.rows[i]
      /\ next.rows[Len(table.rows) + 1] = row
  BY <1>2, <1>5, <1>6
<1>8. BlockOK(next)
  BY <1>1, <1>2 DEF BlockOK
<1>9. IsRow(next, Len(table.rows) + 1, spell)
  BY <1>2, <1>3, <1>5, <1>7 DEF IsRow
<1> QED BY <1>2, <1>6, <1>7, <1>8, <1>9 DEF next

-----------------------------------------------------------------------------
(* Spells.  The table a set of them makes.                                 *)

LEMMA FewerWithout ==
  ASSUME NEW S, IsFiniteSet(S), NEW x \in S
  PROVE  /\ IsFiniteSet(S \ {x}) /\ Cardinality(S \ {x}) \in Nat /\ Cardinality(S) \in Nat
         /\ Cardinality(S) = Cardinality(S \ {x}) + 1
<1>1. IsFiniteSet(S \ {x}) /\ Cardinality(S \ {x}) = Cardinality(S) - 1
  BY FS_RemoveElement
<1>2. Cardinality(S) \in Nat /\ Cardinality(S \ {x}) \in Nat
  BY <1>1, FS_CardinalityType
<1> QED BY <1>1, <1>2

\* A finite set of spells has one with the largest ID.
LEMMA LastSpellExists ==
  ASSUME NEW S \in SUBSET Spells, S # {}
  PROVE  LastSpell(S) \in S
<1> DEFINE Last(x, T) == x \in T /\ \A other \in T : other.id <= x.id
           Bad == {n \in Nat : \E T \in SUBSET Spells :
                                 T # {} /\ Cardinality(T) = n /\ ~ \E x : Last(x, T)}
<1>1. \A T \in SUBSET Spells : IsFiniteSet(T) /\ Cardinality(T) \in Nat
  BY SpellAssumption, FS_Subset, FS_CardinalityType
<1>2. \A x \in Spells : x.id \in Nat
  BY SpellAssumption
<1>3. Bad = {}
  <2> SUFFICES ASSUME Bad # {} PROVE FALSE
    OBVIOUS
  <2>1. PICK n \in Bad : \A k \in Bad : n <= k
    <3>1. Bad \subseteq Nat
      OBVIOUS
    <3> HIDE DEF Bad
    <3> QED BY <3>1, LeastNumber
  <2>2. PICK T \in SUBSET Spells : T # {} /\ Cardinality(T) = n /\ ~ \E x : Last(x, T)
    BY <2>1
  <2>3. PICK x \in T : TRUE
    BY <2>2
  <2> DEFINE R == T \ {x}
  <2>4. Cardinality(R) \in Nat /\ n = Cardinality(R) + 1 /\ R \in SUBSET Spells
    BY <1>1, <2>2, <2>3, FewerWithout
  <2>5. \A y \in T : y = x \/ y \in R
    OBVIOUS
  <2>6. x.id \in Nat /\ x.id <= x.id
    BY <1>2, <2>2, <2>3
  <2>7. R # {}
    BY <2>2, <2>3, <2>5, <2>6
  <2>8. Cardinality(R) \notin Bad
    <3> HIDE DEF Bad, R
    <3> QED BY <2>1, <2>4
  <2>9. PICK y : Last(y, R)
    BY <2>4, <2>7, <2>8
  <2>10. y \in T /\ y.id \in Nat /\ \A other \in T : other.id \in Nat
    BY <1>2, <2>4, <2>9
  <2>11. CASE x.id <= y.id
    <3>1. Last(y, T)
      BY <2>5, <2>9, <2>10, <2>11
    <3> QED BY <2>2, <3>1
  <2>12. CASE y.id <= x.id
    <3>1. \A other \in T : other.id <= x.id
      BY <2>5, <2>6, <2>9, <2>10, <2>12
    <3> QED BY <2>2, <2>3, <3>1
  <2> QED BY <2>6, <2>10, <2>11, <2>12
<1>4. Cardinality(S) \in Nat /\ Cardinality(S) \notin Bad
  BY <1>1, <1>3
<1>5. \E x : Last(x, S)
  BY <1>4
<1> QED BY <1>5 DEF LastSpell

\* The recursion over the spells defines the tables it describes.
LEMMA TablesDef ==
  ASSUME NEW spells \in SUBSET Spells
  PROVE  Tables(spells) =
           [S \in SUBSET spells |->
              IF S = {} THEN StockTable
              ELSE AppendRow(Tables(spells)[S \ {LastSpell(S)}], LastSpell(S))]
<1> DEFINE Table(f, S) ==
             IF S = {} THEN StockTable ELSE AppendRow(f[S \ {LastSpell(S)}], LastSpell(S))
           Few(m) == {S \in SUBSET spells : Cardinality(S) <= m}
           Upto(m) == \E f : f = [S \in Few(m) |-> Table(f, S)]
           Bad == {m \in Nat : ~ Upto(m)}
<1>1. \A S \in SUBSET spells : IsFiniteSet(S) /\ Cardinality(S) \in Nat /\ S \in SUBSET Spells
  BY SpellAssumption, FS_Subset, FS_CardinalityType
<1>2. \A S \in SUBSET spells : S # {} =>
        /\ S \ {LastSpell(S)} \in SUBSET spells
        /\ Cardinality(S \ {LastSpell(S)}) + 1 = Cardinality(S)
  <2> SUFFICES ASSUME NEW S \in SUBSET spells, S # {}
               PROVE  Cardinality(S \ {LastSpell(S)}) + 1 = Cardinality(S)
    OBVIOUS
  <2>1. LastSpell(S) \in S /\ IsFiniteSet(S)
    BY <1>1, LastSpellExists
  <2> QED BY <2>1, FewerWithout
<1>3. Bad = {}
  <2> SUFFICES ASSUME Bad # {} PROVE FALSE
    OBVIOUS
  <2>1. PICK m \in Bad : \A k \in Bad : m <= k
    <3>1. Bad \subseteq Nat
      OBVIOUS
    <3> HIDE DEF Bad
    <3> QED BY <3>1, LeastNumber
  <2>2. m \in Nat /\ ~ Upto(m)
    <3> HIDE DEF Upto
    <3> QED OBVIOUS
  <2>3. CASE m = 0
    <3>1. \A S \in Few(0) : S = {}
      <4> SUFFICES ASSUME NEW S \in Few(0) PROVE S = {}
        OBVIOUS
      <4>1. Cardinality(S) = 0 /\ IsFiniteSet(S)
        BY <1>1
      <4> QED BY <4>1, FS_EmptySet
    <3> DEFINE g == [S \in Few(0) |-> StockTable]
    <3>2. \A S \in Few(0) : Table(g, S) = StockTable
      <4> HIDE DEF g
      <4> QED BY <3>1
    <3>3. g = [S \in Few(0) |-> Table(g, S)]
      <4>1. [S \in Few(0) |-> Table(g, S)] = [S \in Few(0) |-> StockTable]
        <5> HIDE DEF g, Few, Table
        <5> QED BY <3>2
      <4> QED BY <4>1
    <3> QED BY <2>2, <2>3, <3>3
  <2>4. CASE m # 0
    <3>1. m - 1 \in Nat /\ m - 1 \notin Bad
      <4> HIDE DEF Upto
      <4> QED BY <2>1, <2>2, <2>4
    <3>2. Upto(m - 1)
      <4> HIDE DEF Upto
      <4> QED BY <3>1
    <3>3. PICK g : g = [S \in Few(m - 1) |-> Table(g, S)]
      BY <3>2
    <3> DEFINE h == [S \in Few(m) |-> IF S \in Few(m - 1) THEN g[S] ELSE Table(g, S)]
    <3>4. ASSUME NEW S \in Few(m), S # {}
          PROVE  /\ S \ {LastSpell(S)} \in Few(m - 1) /\ S \ {LastSpell(S)} \in Few(m)
                 /\ h[S \ {LastSpell(S)}] = g[S \ {LastSpell(S)}]
      <4>1. /\ S \ {LastSpell(S)} \in SUBSET spells
            /\ Cardinality(S \ {LastSpell(S)}) \in Nat /\ Cardinality(S) \in Nat
            /\ Cardinality(S \ {LastSpell(S)}) + 1 = Cardinality(S) /\ Cardinality(S) <= m
        BY <1>1, <1>2, <3>4
      <4>2. S \ {LastSpell(S)} \in Few(m - 1) /\ S \ {LastSpell(S)} \in Few(m)
        BY <2>2, <4>1
      <4> HIDE DEF Few
      <4> QED BY <4>2
    <3>5. ASSUME NEW S \in Few(m) PROVE h[S] = Table(h, S)
      <4>1. Table(h, S) = Table(g, S)
        <5> HIDE DEF h, Few
        <5> QED BY <3>4
      <4>2. CASE S \in Few(m - 1)
        <5>1. h[S] = g[S]
          <6> HIDE DEF Few, Table
          <6> QED BY <4>2
        <5>2. g[S] = Table(g, S)
          <6> HIDE DEF Few, Table
          <6> QED BY <3>3, <4>2
        <5> HIDE DEF h, Table
        <5> QED BY <4>1, <5>1, <5>2
      <4>3. CASE S \notin Few(m - 1)
        <5>1. h[S] = Table(g, S)
          <6> HIDE DEF Few, Table
          <6> QED BY <4>3
        <5> HIDE DEF h, Table
        <5> QED BY <4>1, <5>1
      <4> QED BY <4>2, <4>3
    <3>6. h = [S \in Few(m) |-> h[S]]
      <4> HIDE DEF Few, Table
      <4> QED OBVIOUS
    <3>7. h = [S \in Few(m) |-> Table(h, S)]
      <4> HIDE DEF h, Few, Table
      <4> QED BY <3>5, <3>6
    <3> QED BY <2>2, <3>7
  <2> QED BY <2>3, <2>4
<1>4. Cardinality(spells) \in Nat /\ Few(Cardinality(spells)) = SUBSET spells
  <2>1. IsFiniteSet(spells) /\ Cardinality(spells) \in Nat
    BY <1>1
  <2>2. \A S \in SUBSET spells : Cardinality(S) <= Cardinality(spells)
    BY <2>1, FS_Subset
  <2> QED BY <2>1, <2>2
<1>5. Upto(Cardinality(spells))
  <2> HIDE DEF Upto
  <2> QED BY <1>3, <1>4
<1>6. \E f : f = [S \in SUBSET spells |-> Table(f, S)]
  <2> HIDE DEF Few, Table
  <2> QED BY <1>4, <1>5
<1> QED BY <1>6 DEF Tables

\* The table is in order: its block is, it starts with the stock table, and
\* every spell has a row.
TableOK(b, spells) ==
  LET stock == Len(StockRows)
  IN  /\ BlockOK(b) /\ b.rows \in Seq(TableRow)
      /\ Prefix(StockStrings, b.strings)
      /\ Len(b.rows) = stock + Cardinality(spells)
      /\ \A i \in 1 .. stock : b.rows[i] = StockRows[i]
      /\ \A spell \in spells : \E i \in stock + 1 .. Len(b.rows) : IsRow(b, i, spell)

LEMMA StockTableOK ==
  ASSUME Readable(StockRows, StockStrings)
  PROVE  TableOK(StockTable, {})
<1>1. /\ StockTable.rows = StockRows /\ StockTable.strings = StockStrings
      /\ DOMAIN StockTable.at = {}
      /\ StockTable = [rows |-> StockTable.rows, strings |-> StockTable.strings, at |-> StockTable.at]
  BY DEF StockTable
<1>2. StockRows \in Seq(TableRow) /\ StockStrings \in Seq(Nat)
  BY SpellAssumption DEF TableRow
<1>3. Len(StockStrings) > 0 /\ StockStrings[1] = 0
  BY DEF Readable
<1>4. BlockOK(StockTable)
  BY <1>1, <1>2, <1>3 DEF BlockOK
<1>5. Cardinality({}) = 0 /\ Len(StockRows) \in Nat
  BY <1>2, FS_EmptySet
<1>6. Prefix(StockStrings, StockStrings)
  BY <1>2 DEF Prefix
<1> QED BY <1>1, <1>2, <1>4, <1>5, <1>6 DEF TableOK

LEMMA TableStep ==
  ASSUME NEW S \in SUBSET Spells, NEW spell \in S, NEW b, TableOK(b, S \ {spell})
  PROVE  TableOK(AppendRow(b, spell), S)
<1> DEFINE stock == Len(StockRows)
           c == AppendRow(b, spell)
<1>1. BlockOK(b) /\ b.rows \in Seq(TableRow) /\ spell \in Spells
  BY DEF TableOK
<1>2. /\ BlockOK(c) /\ c.rows \in Seq(TableRow)
      /\ Prefix(b.strings, c.strings)
      /\ Len(c.rows) = Len(b.rows) + 1
      /\ \A i \in 1 .. Len(b.rows) : c.rows[i] = b.rows[i]
      /\ IsRow(c, Len(b.rows) + 1, spell)
  BY <1>1, AppendRowAdds
<1> HIDE DEF c
<1>3. /\ stock \in Nat /\ StockStrings \in Seq(Nat) /\ b.strings \in Seq(Nat)
      /\ c.strings \in Seq(Nat) /\ IsFiniteSet(S)
  BY <1>1, <1>2, SpellAssumption, FS_Subset DEF BlockOK
<1>4. Cardinality(S) = Cardinality(S \ {spell}) + 1 /\ Cardinality(S \ {spell}) \in Nat
  BY <1>3, FewerWithout
<1>5. Len(b.rows) = stock + Cardinality(S \ {spell})
  BY DEF TableOK
<1>6. Prefix(StockStrings, c.strings)
  BY <1>2, <1>3, PrefixTransitive DEF TableOK
<1>7. \A i \in 1 .. stock : c.rows[i] = StockRows[i]
  <2> SUFFICES ASSUME NEW i \in 1 .. stock PROVE c.rows[i] = StockRows[i]
    OBVIOUS
  <2>1. i \in 1 .. Len(b.rows)
    BY <1>3, <1>4, <1>5
  <2> QED BY <1>2, <2>1 DEF TableOK
<1>8. ASSUME NEW other \in S PROVE \E i \in stock + 1 .. Len(c.rows) : IsRow(c, i, other)
  <2>1. CASE other = spell
    <3>1. Len(b.rows) + 1 \in stock + 1 .. Len(c.rows)
      BY <1>2, <1>3, <1>4, <1>5
    <3> QED BY <1>2, <2>1, <3>1
  <2>2. CASE other # spell
    <3>1. PICK i \in stock + 1 .. Len(b.rows) : IsRow(b, i, other)
      BY <2>2 DEF TableOK
    <3>2. i \in 1 .. Len(b.rows) /\ i \in stock + 1 .. Len(c.rows)
      BY <1>2, <1>3, <1>4, <1>5
    <3>3. c.rows[i] = b.rows[i]
      BY <1>2, <3>2
    <3>4. ASSUME NEW l \in Slot
          PROVE  /\ c.rows[i].name[l] \in Nat
                 /\ Stores(c.strings, c.rows[i].name[l], Localized(other, l))
      <4>1. b.rows[i].name[l] \in Nat /\ Stores(b.strings, b.rows[i].name[l], Localized(other, l))
        BY <3>1 DEF IsRow
      <4>2. Localized(other, l) \in Text
        BY LocalizedIsText
      <4> QED BY <1>2, <1>3, <3>3, <4>1, <4>2, StoredOn
    <3> QED BY <3>1, <3>2, <3>3, <3>4 DEF IsRow
  <2> QED BY <2>1, <2>2
<1>9. Len(c.rows) = stock + Cardinality(S)
  BY <1>2, <1>3, <1>4, <1>5
<1>10. TableOK(c, S)
  BY <1>2, <1>6, <1>7, <1>8, <1>9 DEF TableOK
<1> QED BY <1>10 DEF c

LEMMA SpellDbcOK ==
  ASSUME NEW spells \in SUBSET Spells, Readable(StockRows, StockStrings)
  PROVE  TableOK(SpellDbc(spells), spells)
<1> DEFINE f == Tables(spells)
           Bad == {n \in Nat : \E S \in SUBSET spells : Cardinality(S) = n /\ ~ TableOK(f[S], S)}
<1>1. \A S \in SUBSET spells :
        f[S] = IF S = {} THEN StockTable ELSE AppendRow(f[S \ {LastSpell(S)}], LastSpell(S))
  <2>1. f = [S \in SUBSET spells |->
               IF S = {} THEN StockTable
               ELSE AppendRow(f[S \ {LastSpell(S)}], LastSpell(S))]
    BY TablesDef
  <2> HIDE DEF f
  <2> QED BY <2>1
<1> HIDE DEF f
<1>2. \A S \in SUBSET spells : IsFiniteSet(S) /\ Cardinality(S) \in Nat /\ S \in SUBSET Spells
  BY SpellAssumption, FS_Subset, FS_CardinalityType
<1>3. Bad = {}
  <2> SUFFICES ASSUME Bad # {} PROVE FALSE
    OBVIOUS
  <2>1. PICK n \in Bad : \A k \in Bad : n <= k
    <3>1. Bad \subseteq Nat
      OBVIOUS
    <3> HIDE DEF Bad
    <3> QED BY <3>1, LeastNumber
  <2>2. n \in Nat
    OBVIOUS
  <2>3. PICK S \in SUBSET spells : Cardinality(S) = n /\ ~ TableOK(f[S], S)
    BY <2>1
  <2>4. CASE S = {}
    BY <1>1, <2>3, <2>4, StockTableOK
  <2>5. CASE S # {}
    <3> DEFINE x == LastSpell(S)
               R == S \ {x}
    <3>1. x \in S /\ S \in SUBSET Spells /\ IsFiniteSet(S)
      BY <1>2, <2>5, LastSpellExists
    <3>2. R \in SUBSET spells /\ Cardinality(R) \in Nat /\ n = Cardinality(R) + 1
      BY <2>3, <3>1, FewerWithout
    <3>3. Cardinality(R) \notin Bad
      <4> HIDE DEF Bad, R
      <4> QED BY <2>1, <2>2, <3>2
    <3>4. TableOK(f[R], R)
      BY <3>2, <3>3
    <3>5. f[S] = AppendRow(f[R], x)
      BY <1>1, <2>5
    <3>6. TableOK(f[S], S)
      <4> HIDE DEF x
      <4> QED BY <3>1, <3>4, <3>5, TableStep
    <3> QED BY <2>3, <3>6
  <2> QED BY <2>4, <2>5
<1>4. spells \in SUBSET spells /\ Cardinality(spells) \in Nat /\ Cardinality(spells) \notin Bad
  BY <1>2, <1>3
<1>5. TableOK(f[spells], spells)
  BY <1>4
<1> QED BY <1>5 DEF SpellDbc, f

\* Whatever spells the packages of a build declare, when they compose.
THEOREM ComposedReadsBack ==
  ASSUME NEW spells \in SUBSET Spells, SpellsCompose(spells)
  PROVE  ReadsBack(spells)
<1> DEFINE stock == Len(StockRows)
           table == SpellDbc(spells)
           read(i, l) == TextAt(table.strings, table.rows[i].name[l])
<1>1. Readable(StockRows, StockStrings)
  BY DEF SpellsCompose
<1>2. TableOK(table, spells)
  BY <1>1, SpellDbcOK
<1> HIDE DEF table
<1>3. /\ StockRows \in Seq(TableRow) /\ StockStrings \in Seq(Nat) /\ stock \in Nat
      /\ table.rows \in Seq(TableRow) /\ table.strings \in Seq(Nat) /\ Len(table.rows) \in Nat
  BY <1>2, SpellAssumption DEF TableRow, TableOK, BlockOK
<1>4. Cardinality(spells) \in Nat /\ Len(table.rows) = stock + Cardinality(spells)
  <2>1. IsFiniteSet(spells)
    BY SpellAssumption, FS_Subset
  <2> QED BY <1>2, <2>1, FS_CardinalityType DEF TableOK
<1>5. SubSeq(table.rows, 1, stock) = StockRows
  <2> DEFINE sub == SubSeq(table.rows, 1, stock)
  <2>1. \A i \in 1 .. stock : i \in 1 .. Len(table.rows) /\ table.rows[i] \in TableRow
    <3> SUFFICES ASSUME NEW i \in 1 .. stock
                 PROVE  i \in 1 .. Len(table.rows) /\ table.rows[i] \in TableRow
      OBVIOUS
    <3>1. i \in 1 .. Len(table.rows)
      BY <1>3, <1>4
    <3> QED BY <1>3, <3>1, ElementOfSeq
  <2>2. /\ sub \in Seq(TableRow)
        /\ Len(sub) = IF 1 <= stock THEN stock - 1 + 1 ELSE 0
        /\ \A i \in 1 .. stock - 1 + 1 : sub[i] = table.rows[1 + i - 1]
    <3>1. 1 \in Int /\ stock \in Int
      BY <1>3
    <3> HIDE DEF stock
    <3> QED BY <1>3, <2>1, <3>1, SubSeqProperties
  <2> HIDE DEF sub
  <2>3. Len(sub) = stock /\ \A i \in 1 .. stock : sub[i] = table.rows[i]
    BY <1>3, <2>2
  <2>4. \A i \in 1 .. Len(sub) : sub[i] = StockRows[i]
    BY <1>2, <2>3 DEF TableOK
  <2>5. sub = StockRows
    BY <1>3, <2>2, <2>3, <2>4, SeqEqual
  <2> QED BY <2>5 DEF sub
<1>6. \A i \in 1 .. stock, l \in Slot : read(i, l) = TextAt(StockStrings, StockRows[i].name[l])
  <2> SUFFICES ASSUME NEW i \in 1 .. stock, NEW l \in Slot
               PROVE  read(i, l) = TextAt(StockStrings, StockRows[i].name[l])
    OBVIOUS
  <2>1. table.rows[i] = StockRows[i]
    BY <1>2 DEF TableOK
  <2>2. StockRows[i].name[l] \in Nat
    <3>1. StockRows[i] \in TableRow
      BY <1>3, ElementOfSeq
    <3> QED BY <3>1 DEF TableRow
  <2>3. EndsOf(StockStrings, StockRows[i].name[l]) # {}
    <3>1. i \in DOMAIN StockRows
      BY <1>3
    <3>2. \A k \in DOMAIN StockRows, m \in Slot : EndsOf(StockStrings, StockRows[k].name[m]) # {}
      BY <1>1 DEF Readable
    <3> QED BY <3>1, <3>2
  <2>4. Prefix(StockStrings, table.strings)
    BY <1>2 DEF TableOK
  <2> QED BY <1>3, <2>1, <2>2, <2>3, <2>4, ReadOn
<1>7. \A spell \in spells : \E i \in stock + 1 .. Len(table.rows) :
        table.rows[i].id = spell.id /\ \A l \in Slot : read(i, l) = Localized(spell, l)
  <2> SUFFICES ASSUME NEW spell \in spells
               PROVE  \E i \in stock + 1 .. Len(table.rows) :
                        table.rows[i].id = spell.id /\ \A l \in Slot : read(i, l) = Localized(spell, l)
    OBVIOUS
  <2>1. PICK i \in stock + 1 .. Len(table.rows) : IsRow(table, i, spell)
    BY <1>2 DEF TableOK
  <2>2. ASSUME NEW l \in Slot PROVE read(i, l) = Localized(spell, l)
    <3>1. /\ table.rows[i].name[l] \in Nat
          /\ Stores(table.strings, table.rows[i].name[l], Localized(spell, l))
      BY <2>1 DEF IsRow
    <3>2. Localized(spell, l) \in Text
      BY LocalizedIsText
    <3> QED BY <1>3, <3>1, <3>2, StoredIsRead
  <2> QED BY <2>1, <2>2 DEF IsRow
<1> QED BY <1>4, <1>5, <1>6, <1>7 DEF ReadsBack, table

-----------------------------------------------------------------------------
(* The list of interface files.  Entries make a forest over the stock list. *)

\* What an accepted set of entries has, as far as the entries go.
Forest(loads) ==
  /\ loads \subseteq LoadEntry
  /\ \A e, f \in loads : e.target = f.target => e = f
  /\ Ordered(loads)

Closed(loads, S) == \A x \in S : Following(loads, x) \subseteq S

\* The files T and all that follow them, directly or not.
Below(loads, T) ==
  {x \in Added(loads) : \A S \in SUBSET Added(loads) : T \subseteq S /\ Closed(loads, S) => x \in S}

\* No two files of T have one in common below them.
Apart(loads, T) ==
  \A x, y \in T : x # y => Below(loads, {x}) \cap Below(loads, {y}) = {}

LEMMA FollowingAdded ==
  ASSUME NEW loads, NEW x
  PROVE  Following(loads, x) \subseteq Added(loads)
BY DEF Following, Added

LEMMA BelowClosed ==
  ASSUME NEW loads, NEW T \in SUBSET Added(loads)
  PROVE  /\ T \subseteq Below(loads, T) /\ Below(loads, T) \subseteq Added(loads)
         /\ Closed(loads, Below(loads, T))
<1>1. ASSUME NEW x \in Below(loads, T), NEW y \in Following(loads, x)
      PROVE  y \in Below(loads, T)
  <2>1. y \in Added(loads)
    BY FollowingAdded
  <2>2. ASSUME NEW S \in SUBSET Added(loads), T \subseteq S, Closed(loads, S) PROVE y \in S
    BY <2>2 DEF Below, Closed
  <2> QED BY <2>1, <2>2 DEF Below
<1>2. T \subseteq Below(loads, T) /\ Below(loads, T) \subseteq Added(loads)
  BY DEF Below
<1> QED BY <1>1, <1>2 DEF Closed

LEMMA BelowLeast ==
  ASSUME NEW loads, NEW T, NEW S \in SUBSET Added(loads), T \subseteq S, Closed(loads, S)
  PROVE  Below(loads, T) \subseteq S
BY DEF Below

\* What is below T is in T or follows something below T.
LEMMA BelowFollows ==
  ASSUME NEW loads, NEW T \in SUBSET Added(loads), NEW x \in Below(loads, T)
  PROVE  x \in T \/ \E p \in Below(loads, T) : x \in Following(loads, p)
<1> DEFINE B == Below(loads, T)
           S == {y \in B : y \in T \/ \E p \in B : y \in Following(loads, p)}
<1>1. T \subseteq B /\ B \subseteq Added(loads) /\ Closed(loads, B)
  BY BelowClosed
<1> HIDE DEF B
<1>2. S \in SUBSET Added(loads) /\ T \subseteq S
  BY <1>1
<1>3. Closed(loads, S)
  BY <1>1 DEF Closed
<1>4. B \subseteq S
  BY <1>2, <1>3, BelowLeast DEF B
<1> QED BY <1>4 DEF B

LEMMA BelowMonotone ==
  ASSUME NEW loads, NEW T \in SUBSET Added(loads), NEW U \in SUBSET T
  PROVE  Below(loads, U) \subseteq Below(loads, T)
<1>1. T \subseteq Below(loads, T) /\ Below(loads, T) \in SUBSET Added(loads) /\ Closed(loads, Below(loads, T))
  BY BelowClosed
<1> QED BY <1>1, BelowLeast

LEMMA BelowOne ==
  ASSUME NEW loads, NEW T \in SUBSET Added(loads), NEW x \in Below(loads, T)
  PROVE  \E t \in T : x \in Below(loads, {t})
<1> DEFINE S == {y \in Added(loads) : \E t \in T : y \in Below(loads, {t})}
<1>1. ASSUME NEW t \in T
      PROVE  /\ {t} \in SUBSET Added(loads) /\ t \in Below(loads, {t})
             /\ Below(loads, {t}) \subseteq Added(loads) /\ Closed(loads, Below(loads, {t}))
  BY BelowClosed
<1>2. T \subseteq S
  BY <1>1
<1>3. Closed(loads, S)
  BY <1>1, FollowingAdded DEF Closed
<1>4. Below(loads, T) \subseteq S
  BY <1>2, <1>3, BelowLeast
<1> QED BY <1>4

\* The files below t are t and those below the ones that follow it.
LEMMA BelowSplit ==
  ASSUME NEW loads, NEW T \in SUBSET Added(loads), NEW t \in T
  PROVE  Below(loads, T) =
           {t} \cup Below(loads, Following(loads, t)) \cup Below(loads, T \ {t})
<1> DEFINE K == Following(loads, t)
           R == T \ {t}
           S == {t} \cup Below(loads, K) \cup Below(loads, R)
<1>1. K \subseteq Added(loads) /\ R \subseteq Added(loads)
  BY FollowingAdded
<1>2. /\ K \subseteq Below(loads, K) /\ Below(loads, K) \subseteq Added(loads)
      /\ Closed(loads, Below(loads, K))
  BY <1>1, BelowClosed
<1>3. /\ R \subseteq Below(loads, R) /\ Below(loads, R) \subseteq Added(loads)
      /\ Closed(loads, Below(loads, R))
  BY <1>1, BelowClosed
<1>4. /\ T \subseteq Below(loads, T) /\ Below(loads, T) \in SUBSET Added(loads)
      /\ Closed(loads, Below(loads, T))
  BY BelowClosed
<1>5. Closed(loads, S)
  BY <1>2, <1>3 DEF Closed
<1>6. S \in SUBSET Added(loads) /\ T \subseteq S
  BY <1>2, <1>3
<1>7. Below(loads, T) \subseteq S
  BY <1>5, <1>6, BelowLeast
<1>8. K \subseteq Below(loads, T)
  BY <1>4 DEF Closed
<1>9. Below(loads, K) \subseteq Below(loads, T)
  BY <1>4, <1>8, BelowLeast
<1>10. Below(loads, R) \subseteq Below(loads, T)
  BY BelowMonotone
<1> QED BY <1>4, <1>7, <1>9, <1>10

\* A file follows one line only.
LEMMA OneParent ==
  ASSUME NEW loads, Forest(loads), NEW x, NEW p, NEW q,
         x \in Following(loads, p), x \in Following(loads, q)
  PROVE  p = q
BY DEF Forest, Following

\* No file is below those that follow it.
LEMMA NoCircle ==
  ASSUME NEW loads, Forest(loads), NEW t \in Added(loads)
  PROVE  t \notin Below(loads, Following(loads, t))
<1> DEFINE K == Following(loads, t)
           B == Below(loads, K)
           X == {x \in B : t \in Below(loads, {x})}
           S == {e \in loads : e.target \in X}
<1> SUFFICES ASSUME t \in B PROVE FALSE
  OBVIOUS
<1>1. K \in SUBSET Added(loads) /\ B \subseteq Added(loads) /\ Closed(loads, B)
  <2>1. K \in SUBSET Added(loads)
    BY FollowingAdded
  <2> QED BY <2>1, BelowClosed
<1>2. t \in X
  <2>1. t \in Below(loads, {t})
    BY BelowClosed
  <2> QED BY <2>1
<1>3. ASSUME NEW x \in X PROVE \E p \in X : x \in Following(loads, p)
  <2>1. CASE x \in K
    BY <1>2, <2>1
  <2>2. CASE x \notin K
    <3>1. PICK p \in B : x \in Following(loads, p)
      BY <1>1, <2>2, BelowFollows
    <3>2. /\ {p} \in SUBSET Added(loads) /\ p \in Below(loads, {p})
          /\ Below(loads, {p}) \in SUBSET Added(loads) /\ Closed(loads, Below(loads, {p}))
      BY <1>1, BelowClosed
    <3>3. x \in Below(loads, {p})
      BY <3>1, <3>2 DEF Closed
    <3>4. Below(loads, {x}) \subseteq Below(loads, {p})
      BY <3>2, <3>3, BelowLeast
    <3> QED BY <3>1, <3>4
  <2> QED BY <2>1, <2>2
<1>4. S \in (SUBSET loads) \ {{}}
  BY <1>2 DEF Added
<1>5. PICK e \in S : e.after \notin Added(S)
  BY <1>4 DEF Forest, Ordered
<1>6. PICK p \in X : e.target \in Following(loads, p)
  BY <1>3, <1>5
<1>7. e.after = p
  BY <1>5, <1>6 DEF Forest, Following
<1>8. p \in Added(S)
  BY <1>1, <1>6 DEF Added
<1> QED BY <1>5, <1>7, <1>8

\* When two files have one in common below them, one of them is below the other.
LEMMA CommonBelow ==
  ASSUME NEW loads, Forest(loads), NEW a \in Added(loads), NEW b \in Added(loads),
         Below(loads, {a}) \cap Below(loads, {b}) # {}
  PROVE  a \in Below(loads, {b}) \/ b \in Below(loads, {a})
<1> DEFINE A == Below(loads, {a})
           B == Below(loads, {b})
<1> SUFFICES ASSUME a \notin B, b \notin A PROVE FALSE
  OBVIOUS
<1>1. a \in A /\ A \in SUBSET Added(loads) /\ Closed(loads, A)
  BY BelowClosed
<1>2. Closed(loads, A \ B)
  <2> SUFFICES ASSUME NEW x \in A \ B, NEW y \in Following(loads, x) PROVE y \in A \ B
    BY DEF Closed
  <2>1. y \in A
    BY <1>1 DEF Closed
  <2>2. ASSUME y \in B PROVE FALSE
    <3>1. y # b
      BY <2>1
    <3>2. PICK p \in B : y \in Following(loads, p)
      BY <2>2, <3>1, BelowFollows
    <3>3. p = x
      BY <3>2, OneParent
    <3> QED BY <3>3
  <2> QED BY <2>1, <2>2
<1>3. A \ B \in SUBSET Added(loads) /\ {a} \subseteq A \ B
  BY <1>1
<1>4. A \subseteq A \ B
  BY <1>2, <1>3, BelowLeast
<1> QED BY <1>4

\* The files that follow one line are apart.
LEMMA FollowingApart ==
  ASSUME NEW loads, Forest(loads), NEW line
  PROVE  Apart(loads, Following(loads, line))
<1> SUFFICES ASSUME NEW a \in Following(loads, line), NEW b \in Following(loads, line), a # b,
                    Below(loads, {a}) \cap Below(loads, {b}) # {}
             PROVE  FALSE
  BY DEF Apart
<1>1. a \in Added(loads) /\ b \in Added(loads)
  BY FollowingAdded
<1>2. ASSUME NEW c \in Following(loads, line), NEW d \in Following(loads, line), c # d,
             c \in Below(loads, {d})
      PROVE  FALSE
  <2>1. c \in Added(loads) /\ d \in Added(loads)
    BY FollowingAdded
  <2>2. PICK p \in Below(loads, {d}) : c \in Following(loads, p)
    BY <1>2, <2>1, BelowFollows
  <2>3. line \in Below(loads, {d}) /\ line \in Added(loads)
    <3>1. p = line
      BY <2>2, OneParent
    <3>2. Below(loads, {d}) \subseteq Added(loads)
      BY <2>1, BelowClosed
    <3> QED BY <3>1, <3>2
  <2>4. /\ Following(loads, line) \in SUBSET Added(loads)
        /\ Following(loads, line) \subseteq Below(loads, Following(loads, line))
        /\ Below(loads, Following(loads, line)) \in SUBSET Added(loads)
        /\ Closed(loads, Below(loads, Following(loads, line)))
    <3>1. Following(loads, line) \in SUBSET Added(loads)
      BY FollowingAdded
    <3> QED BY <3>1, BelowClosed
  <2>5. Below(loads, {d}) \subseteq Below(loads, Following(loads, line))
    BY <2>4, BelowLeast
  <2> QED BY <2>3, <2>5, NoCircle
<1> QED BY <1>1, <1>2, CommonBelow

-----------------------------------------------------------------------------
(* The list of interface files.  Emitting a forest.                        *)

LEMMA AddedIsFinite ==
  ASSUME NEW loads \in SUBSET LoadEntry
  PROVE  Added(loads) \subseteq File /\ IsFiniteSet(Added(loads)) /\ Added(loads) \subseteq Nat
<1>1. Added(loads) \subseteq File
  BY DEF Added, LoadEntry
<1> QED BY <1>1, TocAssumption, FS_Subset

LEMMA LeastIn ==
  ASSUME NEW T, T \subseteq Nat, T # {}
  PROVE  Least(T) \in T
BY LeastNumber DEF Least

\* Numbers that fall from a set of files to those that follow its first one,
\* and to the rest of it.
IsRank(loads, r, top) ==
  /\ r \in [SUBSET Added(loads) -> Nat]
  /\ \A T \in SUBSET Added(loads) :
       /\ r[T] <= top
       /\ T # {} => r[Following(loads, Least(T))] < r[T] /\ r[T \ {Least(T)}] < r[T]

\* Pairs of numbers in the order of their first members, then of their second.
LEMMA Lexicographic ==
  ASSUME NEW n \in Nat, NEW a \in 0 .. n, NEW b \in 0 .. n, NEW c \in 0 .. n, NEW d \in 0 .. n,
         a < c \/ (a = c /\ b < d)
  PROVE  a * (n + 1) + b < c * (n + 1) + d
<1>1. CASE a < c
  <2>1. PICK k \in Nat : c = a + 1 + k
    <3>1. c - a - 1 \in Nat /\ c = a + 1 + (c - a - 1)
      BY <1>1
    <3> QED BY <3>1
  <2>2. c * (n + 1) = a * (n + 1) + (n + 1) + k * (n + 1)
    BY <2>1
  <2>3. k * (n + 1) \in Nat /\ a * (n + 1) \in Nat
    BY <2>1
  <2> QED BY <2>2, <2>3
<1>2. CASE a = c /\ b < d
  <2>1. a * (n + 1) \in Nat
    OBVIOUS
  <2> QED BY <1>2, <2>1
<1> QED BY <1>1, <1>2

LEMMA RankExists ==
  ASSUME NEW loads, Forest(loads)
  PROVE  \E r, top : top \in Nat /\ IsRank(loads, r, top)
<1> DEFINE A == Added(loads)
           n == Cardinality(A)
           below(T) == Cardinality(Below(loads, T))
           r == [T \in SUBSET A |-> below(T) * (n + 1) + Cardinality(T)]
           top == n * (n + 1) + n
<1>1. IsFiniteSet(A) /\ A \subseteq Nat /\ n \in Nat
  BY AddedIsFinite, FS_CardinalityType DEF Forest
<1>2. \A T \in SUBSET A : IsFiniteSet(T) /\ Cardinality(T) \in 0 .. n
  <2> SUFFICES ASSUME NEW T \in SUBSET A PROVE IsFiniteSet(T) /\ Cardinality(T) \in 0 .. n
    OBVIOUS
  <2>1. IsFiniteSet(T) /\ Cardinality(T) <= n
    BY <1>1, FS_Subset
  <2>2. Cardinality(T) \in Nat
    BY <2>1, FS_CardinalityType
  <2> QED BY <1>1, <2>1, <2>2
<1>3. \A T \in SUBSET A : Below(loads, T) \in SUBSET A
  BY BelowClosed
<1>4. \A T \in SUBSET A : below(T) \in 0 .. n
  BY <1>2, <1>3
<1>5. \A T \in SUBSET A : r[T] = below(T) * (n + 1) + Cardinality(T)
  OBVIOUS
<1> HIDE DEF A, n, below, r
<1>6. ASSUME NEW T \in SUBSET A PROVE r[T] \in Nat /\ r[T] <= top
  <2>1. below(T) \in 0 .. n /\ Cardinality(T) \in 0 .. n
    BY <1>2, <1>4
  <2>2. below(T) * (n + 1) \in Nat
    BY <1>1, <2>1
  <2>3. CASE below(T) = n /\ Cardinality(T) = n
    BY <1>1, <1>5, <2>2, <2>3
  <2>4. CASE ~ (below(T) = n /\ Cardinality(T) = n)
    <3>1. n \in 0 .. n /\ (below(T) < n \/ (below(T) = n /\ Cardinality(T) < n))
      BY <1>1, <2>1, <2>4
    <3>2. below(T) * (n + 1) + Cardinality(T) < n * (n + 1) + n
      BY <1>1, <2>1, <3>1, Lexicographic
    <3>3. n * (n + 1) \in Nat
      BY <1>1
    <3> QED BY <1>1, <1>5, <2>1, <2>2, <3>2, <3>3
  <2> QED BY <2>3, <2>4
<1>7. r \in [SUBSET A -> Nat]
  <2>1. r = [T \in SUBSET A |-> r[T]]
    BY DEF r
  <2> QED BY <1>6, <2>1
<1>8. ASSUME NEW T \in SUBSET A, T # {}, NEW U \in SUBSET A,
             below(U) < below(T) \/ (below(U) = below(T) /\ Cardinality(U) < Cardinality(T))
      PROVE  r[U] < r[T]
  BY <1>1, <1>2, <1>4, <1>5, <1>8, Lexicographic
<1>9. ASSUME NEW T \in SUBSET A, T # {}
      PROVE  r[Following(loads, Least(T))] < r[T] /\ r[T \ {Least(T)}] < r[T]
  <2> DEFINE t == Least(T)
             K == Following(loads, t)
             R == T \ {t}
  <2>1. t \in T
    BY <1>1, <1>9, LeastIn
  <2> HIDE DEF t
  <2>2. K \in SUBSET A /\ R \in SUBSET A
    BY FollowingAdded DEF A
  <2>3. Below(loads, T) = {t} \cup Below(loads, K) \cup Below(loads, R)
    BY <2>1, BelowSplit DEF A
  <2>4. t \notin Below(loads, K)
    BY <2>1, NoCircle DEF A
  <2>5. \A U, V \in SUBSET A : U \subseteq V => Cardinality(U) <= Cardinality(V)
    BY <1>2, FS_Subset
  <2>6. below(K) < below(T)
    <3>1. /\ Below(loads, T) \in SUBSET A /\ t \in Below(loads, T)
          /\ Below(loads, K) \subseteq Below(loads, T) \ {t}
          /\ Below(loads, T) \ {t} \in SUBSET A
      BY <1>3, <2>3, <2>4
    <3>2. Cardinality(Below(loads, T)) = Cardinality(Below(loads, T) \ {t}) + 1
      BY <1>2, <3>1, FewerWithout
    <3>3. Cardinality(Below(loads, K)) <= Cardinality(Below(loads, T) \ {t})
      BY <2>2, <1>3, <2>5, <3>1
    <3>4. Cardinality(Below(loads, T) \ {t}) \in 0 .. n /\ Cardinality(Below(loads, K)) \in 0 .. n
      BY <1>2, <1>3, <2>2, <3>1
    <3> QED BY <1>1, <3>2, <3>3, <3>4 DEF below
  <2>7. below(R) <= below(T)
    BY <1>3, <2>2, <2>3, <2>5 DEF below
  <2>8. Cardinality(R) < Cardinality(T)
    <3>1. Cardinality(T) = Cardinality(R) + 1 /\ Cardinality(R) \in Nat
      BY <1>2, <2>1, FewerWithout
    <3> QED BY <3>1
  <2>9. below(R) < below(T) \/ (below(R) = below(T) /\ Cardinality(R) < Cardinality(T))
    BY <1>1, <1>4, <2>2, <2>7, <2>8
  <2> QED BY <1>8, <1>9, <2>2, <2>6, <2>9 DEF t
<1>10. top \in Nat
  BY <1>1
<1>11. IsRank(loads, r, top)
  BY <1>6, <1>7, <1>9 DEF IsRank, A
<1> QED BY <1>10, <1>11

\* The recursion over the files defines the lists it describes.
LEMMA EmittedDef ==
  ASSUME NEW loads, Forest(loads)
  PROVE  Emitted(loads) =
           [T \in SUBSET Added(loads) |->
              IF T = {} THEN <<>>
              ELSE <<Least(T)>> \o Emitted(loads)[Following(loads, Least(T))]
                     \o Emitted(loads)[T \ {Least(T)}]]
<1> DEFINE A == Added(loads)
           Body(f, T) ==
             IF T = {} THEN <<>>
             ELSE <<Least(T)>> \o f[Following(loads, Least(T))] \o f[T \ {Least(T)}]
<1>1. PICK r, top : top \in Nat /\ IsRank(loads, r, top)
  BY RankExists
<1> DEFINE Few(m) == {T \in SUBSET A : r[T] < m}
           Upto(m) == \E f : f = [T \in Few(m) |-> Body(f, T)]
           Bad == {m \in Nat : ~ Upto(m)}
<1>2. \A T \in SUBSET A : /\ r[T] \in Nat /\ r[T] <= top
                          /\ T # {} => r[Following(loads, Least(T))] < r[T] /\ r[T \ {Least(T)}] < r[T]
  BY <1>1 DEF IsRank
<1>3. \A T \in SUBSET A : Following(loads, Least(T)) \in SUBSET A /\ T \ {Least(T)} \in SUBSET A
  BY FollowingAdded
<1> HIDE DEF A
<1>4. Bad = {}
  <2> SUFFICES ASSUME Bad # {} PROVE FALSE
    OBVIOUS
  <2>1. PICK m \in Bad : \A k \in Bad : m <= k
    <3>1. Bad \subseteq Nat
      OBVIOUS
    <3> HIDE DEF Bad
    <3> QED BY <3>1, LeastNumber
  <2>2. m \in Nat /\ ~ Upto(m)
    <3> HIDE DEF Upto
    <3> QED OBVIOUS
  <2>3. CASE m = 0
    <3>1. Few(0) = {}
      <4>1. \A T \in SUBSET A : ~ (r[T] < 0)
        <5> SUFFICES ASSUME NEW T \in SUBSET A PROVE ~ (r[T] < 0)
          OBVIOUS
        <5>1. r[T] \in Nat
          BY <1>2
        <5> HIDE DEF Bad
        <5> QED BY <5>1
      <4> HIDE DEF Body, Upto, Bad
      <4> QED BY <4>1
    <3>2. <<>> = [T \in {} |-> Body(<<>>, T)]
      OBVIOUS
    <3>3. Upto(0)
      <4> HIDE DEF Few, Body
      <4> QED BY <3>1, <3>2
    <3> HIDE DEF Upto
    <3> QED BY <2>2, <2>3, <3>3
  <2>4. CASE m # 0
    <3>1. m - 1 \in Nat /\ m - 1 \notin Bad
      <4> HIDE DEF Upto
      <4> QED BY <2>1, <2>2, <2>4
    <3>2. Upto(m - 1)
      <4> HIDE DEF Upto
      <4> QED BY <3>1
    <3>3. PICK g : g = [T \in Few(m - 1) |-> Body(g, T)]
      BY <3>2
    <3> DEFINE h == [T \in Few(m) |-> IF T \in Few(m - 1) THEN g[T] ELSE Body(g, T)]
    <3>4. ASSUME NEW T \in Few(m), T # {}, NEW U \in {Following(loads, Least(T)), T \ {Least(T)}}
          PROVE  h[U] = g[U]
      <4>1. U \in SUBSET A /\ r[U] < r[T] /\ r[T] \in Nat /\ r[U] \in Nat /\ r[T] < m
        BY <1>2, <1>3, <3>4
      <4>2. U \in Few(m - 1) /\ U \in Few(m)
        BY <2>2, <4>1
      <4> HIDE DEF Few, Body
      <4> QED BY <4>2
    <3>5. ASSUME NEW T \in Few(m) PROVE h[T] = Body(h, T)
      <4>1. Body(h, T) = Body(g, T)
        <5> HIDE DEF h, Few
        <5> QED BY <3>4
      <4>2. CASE T \in Few(m - 1)
        <5>1. h[T] = g[T]
          <6> HIDE DEF Few, Body
          <6> QED BY <4>2
        <5>2. g[T] = Body(g, T)
          <6> HIDE DEF Few, Body
          <6> QED BY <3>3, <4>2
        <5> HIDE DEF h, Body
        <5> QED BY <4>1, <5>1, <5>2
      <4>3. CASE T \notin Few(m - 1)
        <5>1. h[T] = Body(g, T)
          <6> HIDE DEF Few, Body
          <6> QED BY <4>3
        <5> HIDE DEF h, Body
        <5> QED BY <4>1, <5>1
      <4> QED BY <4>2, <4>3
    <3>6. h = [T \in Few(m) |-> h[T]]
      <4> HIDE DEF Few, Body
      <4> QED OBVIOUS
    <3>7. h = [T \in Few(m) |-> Body(h, T)]
      <4> HIDE DEF h, Few, Body
      <4> QED BY <3>5, <3>6
    <3> QED BY <2>2, <3>7
  <2> QED BY <2>3, <2>4
<1>5. top + 1 \in Nat /\ Few(top + 1) = SUBSET A
  <2>1. \A T \in SUBSET A : r[T] < top + 1
    <3> SUFFICES ASSUME NEW T \in SUBSET A PROVE r[T] < top + 1
      OBVIOUS
    <3>1. r[T] \in Nat /\ r[T] <= top
      BY <1>2
    <3> QED BY <1>1, <3>1
  <2> QED BY <1>1, <2>1
<1>6. Upto(top + 1)
  <2> HIDE DEF Upto
  <2> QED BY <1>4, <1>5
<1>7. \E f : f = [T \in SUBSET A |-> Body(f, T)]
  <2> HIDE DEF Few, Body
  <2> QED BY <1>5, <1>6
<1> QED BY <1>7 DEF Emitted, A

-----------------------------------------------------------------------------
(* The list of interface files.  What parts of a list say of the whole.    *)

In(q) == {q[i] : i \in DOMAIN q}

\* A line of N is on the list once at most.
Once(q, N) == \A g, h \in DOMAIN q : q[g] = q[h] /\ q[g] \in N => g = h

\* An added file comes after the line it follows, unless it is in R.
Led(loads, q, R) ==
  \A i \in DOMAIN q : q[i] \in Added(loads) =>
    q[i] \in R \/ \E h \in 1 .. i - 1 : q[i] \in Following(loads, q[h])

LEMMA Concatenated ==
  ASSUME NEW S, NEW q \in Seq(S), NEW u \in Seq(S)
  PROVE  /\ q \o u \in Seq(S) /\ Len(q \o u) = Len(q) + Len(u)
         /\ Len(q) \in Nat /\ Len(u) \in Nat
         /\ DOMAIN q = 1 .. Len(q) /\ DOMAIN u = 1 .. Len(u)
         /\ DOMAIN (q \o u) = 1 .. Len(q) + Len(u)
         /\ \A i \in 1 .. Len(q) : i \in 1 .. Len(q) + Len(u) /\ (q \o u)[i] = q[i]
         /\ \A i \in 1 .. Len(u) : Len(q) + i \in 1 .. Len(q) + Len(u) /\ (q \o u)[Len(q) + i] = u[i]
         /\ \A i \in 1 .. Len(q) + Len(u) : i \in 1 .. Len(q) \/ \E k \in 1 .. Len(u) : i = Len(q) + k
<1>1. /\ q \o u \in Seq(S) /\ Len(q \o u) = Len(q) + Len(u)
      /\ Len(q) \in Nat /\ Len(u) \in Nat
      /\ DOMAIN q = 1 .. Len(q) /\ DOMAIN u = 1 .. Len(u) /\ DOMAIN (q \o u) = 1 .. Len(q \o u)
  OBVIOUS
<1>2. ASSUME NEW i \in 1 .. Len(q) PROVE i \in 1 .. Len(q) + Len(u) /\ (q \o u)[i] = q[i]
  BY <1>1
<1>3. ASSUME NEW i \in 1 .. Len(u)
      PROVE  Len(q) + i \in 1 .. Len(q) + Len(u) /\ (q \o u)[Len(q) + i] = u[i]
  BY <1>1
<1>4. ASSUME NEW i \in 1 .. Len(q) + Len(u), i \notin 1 .. Len(q)
      PROVE  \E k \in 1 .. Len(u) : i = Len(q) + k
  <2>1. i - Len(q) \in 1 .. Len(u) /\ i = Len(q) + (i - Len(q))
    BY <1>1, <1>4
  <2> QED BY <2>1
<1> QED BY <1>1, <1>2, <1>3, <1>4

\* v is q with u after it.
Joined(v, q, u) ==
  /\ Len(v) = Len(q) + Len(u) /\ Len(q) \in Nat /\ Len(u) \in Nat /\ Len(v) \in Nat
  /\ DOMAIN q = 1 .. Len(q) /\ DOMAIN u = 1 .. Len(u) /\ DOMAIN v = 1 .. Len(q) + Len(u)
  /\ \A i \in 1 .. Len(q) : v[i] = q[i]
  /\ \A i \in 1 .. Len(u) : v[Len(q) + i] = u[i]
  /\ \A i \in 1 .. Len(q) + Len(u) : i \in 1 .. Len(q) \/ \E k \in 1 .. Len(u) : i = Len(q) + k

LEMMA Joins ==
  ASSUME NEW S, NEW q \in Seq(S), NEW u \in Seq(S)
  PROVE  q \o u \in Seq(S) /\ Joined(q \o u, q, u)
<1>1. /\ q \o u \in Seq(S) /\ Len(q \o u) = Len(q) + Len(u) /\ Len(q) \in Nat /\ Len(u) \in Nat
      /\ Len(q \o u) \in Nat
      /\ DOMAIN q = 1 .. Len(q) /\ DOMAIN u = 1 .. Len(u) /\ DOMAIN (q \o u) = 1 .. Len(q) + Len(u)
  BY Concatenated
<1>2. ASSUME NEW i \in 1 .. Len(q) PROVE (q \o u)[i] = q[i]
  BY Concatenated
<1>3. ASSUME NEW i \in 1 .. Len(u) PROVE (q \o u)[Len(q) + i] = u[i]
  BY Concatenated
<1>4. \A i \in 1 .. Len(q) + Len(u) : i \in 1 .. Len(q) \/ \E k \in 1 .. Len(u) : i = Len(q) + k
  BY Concatenated
<1> QED BY <1>1, <1>2, <1>3, <1>4 DEF Joined

LEMMA InBoth ==
  ASSUME NEW S, NEW q \in Seq(S), NEW u \in Seq(S)
  PROVE  In(q \o u) = In(q) \cup In(u)
<1> DEFINE w == q \o u
<1>1. ASSUME NEW i \in DOMAIN w PROVE w[i] \in In(q) \cup In(u)
  <2>1. i \in 1 .. Len(q) \/ \E k \in 1 .. Len(u) : i = Len(q) + k
    BY Concatenated
  <2>2. CASE i \in 1 .. Len(q)
    <3>1. i \in DOMAIN q /\ w[i] = q[i]
      BY <2>2, Concatenated
    <3> QED BY <3>1 DEF In
  <2>3. CASE \E k \in 1 .. Len(u) : i = Len(q) + k
    <3>1. PICK k \in 1 .. Len(u) : i = Len(q) + k
      BY <2>3
    <3>2. k \in DOMAIN u /\ w[i] = u[k]
      BY <3>1, Concatenated
    <3> QED BY <3>2 DEF In
  <2> QED BY <2>1, <2>2, <2>3
<1>2. ASSUME NEW i \in DOMAIN q PROVE q[i] \in In(w)
  <2>1. i \in DOMAIN w /\ w[i] = q[i]
    BY Concatenated
  <2> QED BY <2>1 DEF In
<1>3. ASSUME NEW i \in DOMAIN u PROVE u[i] \in In(w)
  <2>1. Len(q) + i \in DOMAIN w /\ w[Len(q) + i] = u[i]
    BY Concatenated
  <2> QED BY <2>1 DEF In
<1> QED BY <1>1, <1>2, <1>3 DEF In

LEMMA OnceBoth ==
  ASSUME NEW S, NEW q \in Seq(S), NEW u \in Seq(S), NEW N,
         Once(q, N), Once(u, N), In(q) \cap In(u) \cap N = {}
  PROVE  Once(q \o u, N)
<1> DEFINE w == q \o u
<1>1. /\ Len(q) \in Nat /\ Len(u) \in Nat /\ DOMAIN q = 1 .. Len(q) /\ DOMAIN u = 1 .. Len(u)
      /\ DOMAIN w = 1 .. Len(q) + Len(u)
      /\ \A i \in 1 .. Len(q) : w[i] = q[i]
      /\ \A i \in 1 .. Len(u) : w[Len(q) + i] = u[i]
      /\ \A i \in 1 .. Len(q) + Len(u) : i \in 1 .. Len(q) \/ \E k \in 1 .. Len(u) : i = Len(q) + k
  BY Concatenated
<1> HIDE DEF w
<1>2. \A i \in 1 .. Len(q), k \in 1 .. Len(u) : ~ (q[i] = u[k] /\ q[i] \in N)
  BY <1>1 DEF In
<1> SUFFICES ASSUME NEW g \in DOMAIN w, NEW h \in DOMAIN w, w[g] = w[h], w[g] \in N PROVE g = h
  BY DEF Once, w
<1>3. CASE g \in 1 .. Len(q) /\ h \in 1 .. Len(q)
  BY <1>1, <1>3 DEF Once
<1>4. CASE g \in 1 .. Len(q) /\ h \notin 1 .. Len(q)
  BY <1>1, <1>2, <1>4
<1>5. CASE g \notin 1 .. Len(q) /\ h \in 1 .. Len(q)
  BY <1>1, <1>2, <1>5
<1>6. CASE g \notin 1 .. Len(q) /\ h \notin 1 .. Len(q)
  <2>1. PICK k \in 1 .. Len(u) : g = Len(q) + k
    BY <1>1, <1>6
  <2>2. PICK m \in 1 .. Len(u) : h = Len(q) + m
    BY <1>1, <1>6
  <2>3. w[g] = u[k] /\ w[h] = u[m] /\ k \in DOMAIN u /\ m \in DOMAIN u
    BY <1>1, <2>1, <2>2
  <2>4. k = m
    BY <2>3 DEF Once
  <2> QED BY <2>1, <2>2, <2>4
<1> QED BY <1>3, <1>4, <1>5, <1>6

LEMMA LedBoth ==
  ASSUME NEW S, NEW q \in Seq(S), NEW u \in Seq(S), NEW loads, NEW R, NEW Q,
         Led(loads, q, R), Led(loads, u, Q),
         \A x \in Q : x \in R \/ \E p \in In(q) : x \in Following(loads, p)
  PROVE  Led(loads, q \o u, R)
<1> DEFINE w == q \o u
<1>1. /\ Len(q) \in Nat /\ Len(u) \in Nat /\ DOMAIN q = 1 .. Len(q) /\ DOMAIN u = 1 .. Len(u)
      /\ DOMAIN w = 1 .. Len(q) + Len(u)
      /\ \A i \in 1 .. Len(q) : w[i] = q[i]
      /\ \A i \in 1 .. Len(u) : w[Len(q) + i] = u[i]
      /\ \A i \in 1 .. Len(q) + Len(u) : i \in 1 .. Len(q) \/ \E k \in 1 .. Len(u) : i = Len(q) + k
  BY Concatenated
<1> HIDE DEF w
<1> SUFFICES ASSUME NEW i \in DOMAIN w, w[i] \in Added(loads), w[i] \notin R
             PROVE  \E h \in 1 .. i - 1 : w[i] \in Following(loads, w[h])
  BY DEF Led, w
<1>2. CASE i \in 1 .. Len(q)
  <2>1. PICK h \in 1 .. i - 1 : q[i] \in Following(loads, q[h])
    BY <1>1, <1>2 DEF Led
  <2>2. h \in 1 .. Len(q)
    BY <1>1, <1>2
  <2> QED BY <1>1, <1>2, <2>1, <2>2
<1>3. CASE i \notin 1 .. Len(q)
  <2>1. PICK k \in 1 .. Len(u) : i = Len(q) + k
    BY <1>1, <1>3
  <2>2. w[i] = u[k]
    BY <1>1, <2>1
  <2>3. CASE u[k] \in Q
    <3>1. PICK h \in 1 .. Len(q) : u[k] \in Following(loads, q[h])
      BY <1>1, <2>2, <2>3 DEF In
    <3>2. h \in 1 .. i - 1 /\ w[h] = q[h]
      BY <1>1, <2>1
    <3> QED BY <2>2, <3>1, <3>2
  <2>4. CASE u[k] \notin Q
    <3>1. PICK h \in 1 .. k - 1 : u[k] \in Following(loads, u[h])
      BY <1>1, <2>2, <2>4 DEF Led
    <3>2. h \in 1 .. Len(u) /\ Len(q) + h \in 1 .. i - 1
      BY <1>1, <2>1
    <3>3. w[Len(q) + h] = u[h]
      BY <1>1, <3>2
    <3> QED BY <2>2, <3>1, <3>2, <3>3
  <2> QED BY <2>3, <2>4
<1> QED BY <1>2, <1>3

\* The list of a set of files has what is below them, all of it led by what is
\* on the list or in the set, and nothing twice if they are apart.
EmitOK(loads, q, T) ==
  /\ q \in Seq(Added(loads))
  /\ In(q) = Below(loads, T)
  /\ Led(loads, q, T)
  /\ Apart(loads, T) => Once(q, Added(loads))

LEMMA EmitStep ==
  ASSUME NEW loads, Forest(loads), NEW T \in SUBSET Added(loads), NEW t \in T,
         NEW q, EmitOK(loads, q, Following(loads, t)), NEW u, EmitOK(loads, u, T \ {t})
  PROVE  EmitOK(loads, <<t>> \o q \o u, T)
<1> DEFINE A == Added(loads)
           K == Following(loads, t)
           R == T \ {t}
           v == <<t>>
<1>1. t \in A /\ K \in SUBSET A /\ R \in SUBSET A
  BY FollowingAdded
<1>2. v \in Seq(A) /\ q \in Seq(A) /\ u \in Seq(A) /\ v \o q \in Seq(A) /\ (v \o q) \o u \in Seq(A)
  BY <1>1 DEF EmitOK
<1>3. DOMAIN v = {1} /\ v[1] = t /\ In(v) = {t}
  <2>1. DOMAIN v = 1 .. 1 /\ v[1] = t
    OBVIOUS
  <2> HIDE DEF v
  <2> QED BY <2>1 DEF In
<1> HIDE DEF v
<1>4. In(v \o q) = {t} \cup In(q) /\ In((v \o q) \o u) = In(v \o q) \cup In(u)
  <2>1. In(v \o q) = In(v) \cup In(q)
    BY <1>2, InBoth
  <2>2. In((v \o q) \o u) = In(v \o q) \cup In(u)
    <3> DEFINE w == v \o q
    <3>1. w \in Seq(A)
      BY <1>2
    <3> HIDE DEF w
    <3>2. In(w \o u) = In(w) \cup In(u)
      BY <1>2, <3>1, InBoth
    <3> QED BY <3>2 DEF w
  <2> QED BY <1>3, <2>1, <2>2
<1>5. In((v \o q) \o u) = Below(loads, T)
  BY <1>4, BelowSplit DEF EmitOK
<1>6. Led(loads, v, T)
  BY <1>3 DEF Led
<1>7. Led(loads, v \o q, T)
  <2>1. \A x \in K : x \in T \/ \E p \in In(v) : x \in Following(loads, p)
    BY <1>3
  <2> QED BY <1>2, <1>6, <2>1, LedBoth DEF EmitOK
<1>8. Led(loads, (v \o q) \o u, T)
  <2>1. \A x \in R : x \in T \/ \E p \in In(v \o q) : x \in Following(loads, p)
    OBVIOUS
  <2> QED BY <1>2, <1>7, <2>1, LedBoth DEF EmitOK
<1>9. ASSUME Apart(loads, T) PROVE Once((v \o q) \o u, A)
  <2>1. Once(v, A)
    BY <1>3 DEF Once
  <2>2. Once(q, A)
    BY FollowingApart DEF EmitOK
  <2>3. Once(u, A)
    BY <1>9 DEF EmitOK, Apart
  <2>4. t \notin In(q)
    BY NoCircle DEF EmitOK
  <2>5. Once(v \o q, A)
    BY <1>2, <1>3, <2>1, <2>2, <2>4, OnceBoth
  <2>6. ASSUME NEW x \in In(v \o q), x \in In(u) PROVE FALSE
    <3>1. x \in Below(loads, {t})
      <4>1. {t} \in SUBSET A /\ t \in {t}
        BY <1>1
      <4>2. Below(loads, {t}) = {t} \cup Below(loads, K) \cup Below(loads, {t} \ {t})
        BY <4>1, BelowSplit
      <4> QED BY <1>4, <2>6, <4>2 DEF EmitOK
    <3>2. PICK y \in R : x \in Below(loads, {y})
      BY <1>1, <2>6, BelowOne DEF EmitOK
    <3> QED BY <1>9, <3>1, <3>2 DEF Apart
  <2>7. In(v \o q) \cap In(u) \cap A = {}
    BY <2>6
  <2> QED BY <1>2, <2>3, <2>5, <2>7, OnceBoth
<1>10. EmitOK(loads, (v \o q) \o u, T)
  BY <1>2, <1>5, <1>8, <1>9 DEF EmitOK
<1> QED BY <1>10 DEF v

LEMMA EmittedOK ==
  ASSUME NEW loads, Forest(loads), NEW T \in SUBSET Added(loads)
  PROVE  EmitOK(loads, Emitted(loads)[T], T)
<1> DEFINE A == Added(loads)
           f == Emitted(loads)
<1>1. PICK r, top : top \in Nat /\ IsRank(loads, r, top)
  BY RankExists
<1>2. \A U \in SUBSET A :
        f[U] = IF U = {} THEN <<>>
               ELSE <<Least(U)>> \o f[Following(loads, Least(U))] \o f[U \ {Least(U)}]
  <2>1. f = [U \in SUBSET A |->
               IF U = {} THEN <<>>
               ELSE <<Least(U)>> \o f[Following(loads, Least(U))] \o f[U \ {Least(U)}]]
    BY EmittedDef
  <2> HIDE DEF f
  <2> QED BY <2>1
<1> HIDE DEF f
<1> DEFINE Bad == {m \in Nat : \E U \in SUBSET A : r[U] = m /\ ~ EmitOK(loads, f[U], U)}
<1>3. Bad = {}
  <2> SUFFICES ASSUME Bad # {} PROVE FALSE
    OBVIOUS
  <2>1. PICK m \in Bad : \A k \in Bad : m <= k
    <3>1. Bad \subseteq Nat
      OBVIOUS
    <3> HIDE DEF Bad
    <3> QED BY <3>1, LeastNumber
  <2>2. PICK U \in SUBSET A : r[U] = m /\ ~ EmitOK(loads, f[U], U)
    BY <2>1
  <2>3. m \in Nat
    OBVIOUS
  <2>4. ASSUME NEW V \in SUBSET A, r[V] < r[U] PROVE EmitOK(loads, f[V], V)
    <3>1. r[V] \in Nat
      BY <1>1 DEF IsRank
    <3>2. r[V] \notin Bad
      <4> HIDE DEF Bad
      <4> QED BY <2>1, <2>2, <2>3, <2>4, <3>1
    <3> QED BY <3>1, <3>2
  <2>5. CASE U = {}
    <3>1. f[U] = <<>>
      BY <1>2, <2>5
    <3>2. <<>> \in Seq(A) /\ DOMAIN <<>> = {}
      OBVIOUS
    <3>3. Below(loads, {}) = {}
      <4>1. {} \in SUBSET A /\ Closed(loads, {})
        BY DEF Closed
      <4> QED BY <4>1, BelowLeast
    <3>4. EmitOK(loads, <<>>, {})
      BY <3>2, <3>3 DEF EmitOK, In, Led, Once
    <3> QED BY <2>2, <2>5, <3>1, <3>4
  <2>6. CASE U # {}
    <3> DEFINE t == Least(U)
               K == Following(loads, t)
               R == U \ {t}
    <3>1. t \in U
      BY <2>6, AddedIsFinite, LeastIn DEF Forest
    <3>2. K \in SUBSET A /\ R \in SUBSET A
      BY FollowingAdded
    <3>3. r[K] < r[U] /\ r[R] < r[U]
      BY <1>1, <2>6 DEF IsRank
    <3>4. EmitOK(loads, f[K], K) /\ EmitOK(loads, f[R], R)
      BY <2>4, <3>2, <3>3
    <3>5. f[U] = <<t>> \o f[K] \o f[R]
      BY <1>2, <2>6
    <3> HIDE DEF t
    <3> QED BY <2>2, <3>1, <3>4, <3>5, EmitStep
  <2> QED BY <2>5, <2>6
<1>4. r[T] \in Nat
  BY <1>1 DEF IsRank
<1>5. r[T] \notin Bad
  BY <1>3
<1>6. EmitOK(loads, f[T], T)
  BY <1>4, <1>5
<1> QED BY <1>6 DEF f

-----------------------------------------------------------------------------
(* The list of interface files.  The stock lines and what follows them.    *)

LEMMA StockLines ==
  /\ Stock \in Seq(File \cup {Marker}) /\ Len(Stock) \in Nat /\ DOMAIN Stock = 1 .. Len(Stock)
  /\ \A i \in 1 .. Len(Stock) : Stock[i] \in File \cup {Marker}
BY TocAssumption, ElementOfSeq

LEMMA OccursTimes ==
  ASSUME NEW line
  PROVE  /\ Occurrences(line) = 0 => \A i \in 1 .. Len(Stock) : Stock[i] # line
         /\ Occurrences(line) < 2 =>
              \A i, j \in 1 .. Len(Stock) : Stock[i] = line /\ Stock[j] = line => i = j
         /\ Occurrences(line) = 1 => \E i \in 1 .. Len(Stock) : Stock[i] = line
<1> DEFINE S == {i \in DOMAIN Stock : Stock[i] = line}
<1>1. IsFiniteSet(S)
  <2>1. IsFiniteSet(1 .. Len(Stock))
    BY StockLines, FS_Interval
  <2> QED BY <2>1, StockLines, FS_Subset
<1>2. Occurrences(line) = Cardinality(S)
  BY DEF Occurrences
<1>3. S = {i \in 1 .. Len(Stock) : Stock[i] = line}
  BY StockLines
<1> HIDE DEF S
<1>4. Cardinality(S) = 0 <=> S = {}
  BY <1>1, FS_EmptySet
<1>5. ASSUME Cardinality(S) < 2, NEW i \in S, NEW j \in S PROVE i = j
  <2> SUFFICES ASSUME i # j PROVE FALSE
    OBVIOUS
  <2>1. Cardinality(S) = Cardinality(S \ {i}) + 1 /\ IsFiniteSet(S \ {i})
    BY <1>1, FewerWithout
  <2>2. j \in S \ {i}
    OBVIOUS
  <2>3. /\ Cardinality(S \ {i}) = Cardinality((S \ {i}) \ {j}) + 1
        /\ Cardinality((S \ {i}) \ {j}) \in Nat
    BY <2>1, <2>2, FewerWithout
  <2> QED BY <1>5, <2>1, <2>3
<1> QED BY <1>2, <1>3, <1>4, <1>5

New(loads, labelled) == Added(loads) \cup (IF labelled THEN {Module} ELSE {})

\* What a list that ComposeToc accepts has.
LEMMA ComposesHas ==
  ASSUME NEW loads \in SUBSET LoadEntry, NEW labelled \in BOOLEAN, Composes(loads, labelled)
  PROVE  /\ Forest(loads)
         /\ New(loads, labelled) \subseteq File
         /\ labelled => Module \notin Added(loads)
         /\ \A i \in 1 .. Len(Stock) : Stock[i] \notin New(loads, labelled)
         /\ \A i, j \in 1 .. Len(Stock) :
              Stock[i] = Stock[j] /\ Following(loads, Stock[i]) # {} => i = j
         /\ labelled => /\ \E i \in 1 .. Len(Stock) : Stock[i] = Marker
                        /\ \A i, j \in 1 .. Len(Stock) : Stock[i] = Marker /\ Stock[j] = Marker => i = j
         /\ Following(loads, Marker) = {}
         /\ \A e \in loads : e.after \in Added(loads) \/ \E i \in 1 .. Len(Stock) : Stock[i] = e.after
<1>1. Forest(loads)
  BY DEF Composes, Forest
<1>2. New(loads, labelled) \subseteq File /\ (labelled => Module \notin Added(loads))
  BY AddedIsFinite, TocAssumption DEF New, Composes
<1>3. ASSUME NEW i \in 1 .. Len(Stock) PROVE Stock[i] \notin New(loads, labelled)
  <2>1. Stock[i] # Module
    BY OccursTimes DEF Composes
  <2>2. \A e \in loads : Stock[i] # e.target
    BY OccursTimes DEF Composes
  <2> QED BY <2>1, <2>2 DEF New, Added
<1>4. ASSUME NEW i \in 1 .. Len(Stock), NEW j \in 1 .. Len(Stock),
             Stock[i] = Stock[j], Following(loads, Stock[i]) # {}
      PROVE  i = j
  <2>1. PICK e \in loads : e.after = Stock[i]
    BY <1>4 DEF Following
  <2>2. Occurrences(e.after) < 2
    BY DEF Composes
  <2> QED BY <1>4, <2>1, <2>2, OccursTimes
<1>5. ASSUME labelled
      PROVE  /\ \E i \in 1 .. Len(Stock) : Stock[i] = Marker
             /\ \A i, j \in 1 .. Len(Stock) : Stock[i] = Marker /\ Stock[j] = Marker => i = j
  <2>1. Occurrences(Marker) = 1 /\ Occurrences(Marker) < 2
    BY <1>5 DEF Composes
  <2> QED BY <2>1, OccursTimes
<1>6. Following(loads, Marker) = {}
  BY TocAssumption DEF Following, LoadEntry
<1>7. ASSUME NEW e \in loads, e.after \notin Added(loads)
      PROVE  \E i \in 1 .. Len(Stock) : Stock[i] = e.after
  BY <1>7, OccursTimes DEF Composes
<1> QED BY <1>1, <1>2, <1>3, <1>4, <1>5, <1>6, <1>7

\* What follows two different stock lines has nothing in common.
LEMMA StockApart ==
  ASSUME NEW loads, Forest(loads), NEW s, s \notin Added(loads), NEW z, z \notin Added(loads),
         s # z
  PROVE  Below(loads, Following(loads, s)) \cap Below(loads, Following(loads, z)) = {}
<1> SUFFICES ASSUME NEW x \in Below(loads, Following(loads, s)),
                    x \in Below(loads, Following(loads, z))
             PROVE  FALSE
  OBVIOUS
<1>1. Following(loads, s) \in SUBSET Added(loads) /\ Following(loads, z) \in SUBSET Added(loads)
  BY FollowingAdded
<1>2. PICK a \in Following(loads, s) : x \in Below(loads, {a})
  BY <1>1, BelowOne
<1>3. PICK b \in Following(loads, z) : x \in Below(loads, {b})
  BY <1>1, BelowOne
<1>4. ASSUME NEW c, NEW d, NEW line, c \in Following(loads, line), d \in Added(loads), c # d,
             line \notin Added(loads), c \in Below(loads, {d})
      PROVE  FALSE
  <2>1. {d} \in SUBSET Added(loads) /\ Below(loads, {d}) \subseteq Added(loads)
    BY <1>4, BelowClosed
  <2>2. PICK p \in Below(loads, {d}) : c \in Following(loads, p)
    BY <1>4, <2>1, BelowFollows
  <2>3. p = line
    BY <1>4, <2>2, OneParent
  <2> QED BY <1>4, <2>1, <2>3
<1>5. a # b
  BY <1>2, <1>3, OneParent
<1>6. a \in Added(loads) /\ b \in Added(loads)
  BY <1>1
<1>7. a \in Below(loads, {b}) \/ b \in Below(loads, {a})
  BY <1>2, <1>3, <1>6, CommonBelow
<1> QED BY <1>4, <1>5, <1>6, <1>7

LEMMA AdditionsOK ==
  ASSUME NEW loads \in SUBSET LoadEntry, NEW labelled \in BOOLEAN, Composes(loads, labelled), NEW line
  PROVE  LET u == Additions(loads, labelled, line)
         IN  /\ u \in Seq(New(loads, labelled))
             /\ In(u) = Below(loads, Following(loads, line))
                          \cup IF labelled /\ line = Marker THEN {Module} ELSE {}
             /\ Led(loads, u, Following(loads, line))
             /\ Once(u, New(loads, labelled))
             /\ labelled /\ line = Marker => u = <<Module>>
<1> DEFINE K == Following(loads, line)
           q == Emitted(loads)[K]
           v == IF labelled /\ line = Marker THEN <<Module>> ELSE <<>>
           N == New(loads, labelled)
           u == Additions(loads, labelled, line)
<1>1. Forest(loads) /\ (labelled => Module \notin Added(loads)) /\ Following(loads, Marker) = {}
  BY ComposesHas
<1>2. K \in SUBSET Added(loads)
  BY FollowingAdded
<1>3. EmitOK(loads, q, K) /\ Apart(loads, K)
  BY <1>1, <1>2, EmittedOK, FollowingApart
<1>4. u = q \o v
  BY DEF Additions
<1>5. labelled /\ line = Marker => q = <<>>
  <2> SUFFICES ASSUME line = Marker PROVE q = <<>>
    OBVIOUS
  <2>1. K = {}
    BY <1>1
  <2>2. Emitted(loads)[{}] = <<>>
    <3> DEFINE f == Emitted(loads)
    <3>1. f = [T \in SUBSET Added(loads) |->
                 IF T = {} THEN <<>>
                 ELSE <<Least(T)>> \o f[Following(loads, Least(T))] \o f[T \ {Least(T)}]]
      BY <1>1, EmittedDef
    <3> HIDE DEF f
    <3>2. f[{}] = <<>>
      BY <3>1
    <3> QED BY <3>2 DEF f
  <2> QED BY <2>1, <2>2
<1> HIDE DEF q, u
<1>6. q \in Seq(N)
  BY <1>3 DEF EmitOK, New
<1>7. /\ v \in Seq(N) /\ In(v) = (IF labelled /\ line = Marker THEN {Module} ELSE {})
      /\ \A g, h \in DOMAIN v : g = h
      /\ \A i \in DOMAIN v : v[i] = Module /\ labelled
  <2>1. CASE labelled /\ line = Marker
    <3>1. v = <<Module>> /\ Module \in N
      BY <2>1 DEF New
    <3>2. <<Module>> \in Seq(N) /\ DOMAIN <<Module>> = {1} /\ <<Module>>[1] = Module
      <4>1. DOMAIN <<Module>> = 1 .. 1
        OBVIOUS
      <4> QED BY <3>1, <4>1
    <3> HIDE DEF v
    <3> QED BY <2>1, <3>1, <3>2 DEF In
  <2>2. CASE ~ (labelled /\ line = Marker)
    <3>1. v = <<>>
      BY <2>2
    <3>2. <<>> \in Seq(N) /\ DOMAIN <<>> = {}
      OBVIOUS
    <3> HIDE DEF v
    <3> QED BY <2>2, <3>1, <3>2 DEF In
  <2> QED BY <2>1, <2>2
<1>8. labelled /\ line = Marker => u = <<Module>>
  <2> SUFFICES ASSUME labelled, line = Marker PROVE u = <<Module>>
    OBVIOUS
  <2>1. q = <<>> /\ v = <<Module>>
    BY <1>5
  <2>2. <<>> \o <<Module>> = <<Module>>
    OBVIOUS
  <2> HIDE DEF v
  <2> QED BY <1>4, <2>1, <2>2
<1> HIDE DEF v
<1>9. u \in Seq(N)
  BY <1>4, <1>6, <1>7
<1>10. In(u) = In(q) \cup In(v)
  BY <1>4, <1>6, <1>7, InBoth
<1>11. Led(loads, v, {})
  BY <1>1, <1>7 DEF Led
<1>12. Led(loads, u, K)
  BY <1>3, <1>4, <1>6, <1>7, <1>11, LedBoth DEF EmitOK
<1>13. Once(u, N)
  <2>1. Once(v, N)
    BY <1>7 DEF Once
  <2>2. In(q) \subseteq Added(loads)
    BY <1>2, <1>3, BelowClosed DEF EmitOK
  <2>3. Once(q, N)
    BY <1>3, <2>2 DEF EmitOK, Once, In
  <2>4. In(q) \cap In(v) \cap N = {}
    BY <1>1, <1>7, <2>2
  <2> QED BY <1>4, <1>6, <1>7, <2>1, <2>3, <2>4, OnceBoth
<1> QED BY <1>3, <1>7, <1>8, <1>9, <1>10, <1>12, <1>13 DEF EmitOK, u

\* The recursion over the stock list defines the lists it describes.
LEMMA LinesDef ==
  ASSUME NEW loads, NEW labelled
  PROVE  Lines(loads, labelled) =
           [i \in 0 .. Len(Stock) |->
              IF i = 0 THEN <<>>
              ELSE Lines(loads, labelled)[i - 1] \o <<Stock[i]>>
                     \o Additions(loads, labelled, Stock[i])]
<1> DEFINE Body(f, i) ==
             IF i = 0 THEN <<>>
             ELSE f[i - 1] \o <<Stock[i]>> \o Additions(loads, labelled, Stock[i])
           Upto(m) == \E f : f = [i \in 0 .. m |-> Body(f, i)]
           Bad == {m \in Nat : ~ Upto(m)}
<1>1. Bad = {}
  <2> SUFFICES ASSUME Bad # {} PROVE FALSE
    OBVIOUS
  <2>1. PICK m \in Bad : \A k \in Bad : m <= k
    <3>1. Bad \subseteq Nat
      BY DEF Bad
    <3> HIDE DEF Bad
    <3> QED BY <3>1, LeastNumber
  <2>2. m \in Nat /\ ~ Upto(m)
    <3> HIDE DEF Upto
    <3> QED OBVIOUS
  <2>3. CASE m = 0
    <3> DEFINE g == [i \in 0 .. 0 |-> <<>>]
    <3>1. g = [i \in 0 .. 0 |-> Body(g, i)]
      OBVIOUS
    <3>2. Upto(0)
      <4> HIDE DEF Body
      <4> QED BY <3>1
    <3> HIDE DEF Upto
    <3> QED BY <2>2, <2>3, <3>2
  <2>4. CASE m # 0
    <3>1. m - 1 \in Nat /\ m - 1 \notin Bad
      <4> HIDE DEF Upto
      <4> QED BY <2>1, <2>2, <2>4
    <3>2. Upto(m - 1)
      <4> HIDE DEF Upto
      <4> QED BY <3>1
    <3>3. PICK g : g = [i \in 0 .. m - 1 |-> Body(g, i)]
      BY <3>2
    <3> DEFINE h == [i \in 0 .. m |-> IF i = m THEN Body(g, m) ELSE g[i]]
    <3>4. \A i \in 0 .. m : i # m => i \in 0 .. m - 1 /\ h[i] = g[i]
      BY <2>2
    <3>5. ASSUME NEW i \in 0 .. m PROVE h[i] = Body(h, i)
      <4>1. i # 0 => i - 1 \in 0 .. m /\ i - 1 # m /\ h[i - 1] = g[i - 1]
        BY <2>2, <3>4
      <4>2. Body(h, i) = Body(g, i)
        <5> HIDE DEF h
        <5> QED BY <4>1
      <4>3. CASE i = m
        BY <4>2, <4>3
      <4>4. CASE i # m
        <5>1. h[i] = g[i] /\ g[i] = Body(g, i)
          BY <3>3, <3>4, <4>4
        <5> HIDE DEF h, Body
        <5> QED BY <4>2, <5>1
      <4> QED BY <4>3, <4>4
    <3>6. h = [i \in 0 .. m |-> h[i]]
      OBVIOUS
    <3>7. h = [i \in 0 .. m |-> Body(h, i)]
      <4> HIDE DEF h, Body
      <4> QED BY <3>5, <3>6
    <3> HIDE DEF h, Body
    <3> QED BY <2>2, <3>7
  <2> QED BY <2>3, <2>4
<1>2. Len(Stock) \in Nat
  BY StockLines
<1>3. \E f : f = [i \in 0 .. Len(Stock) |-> Body(f, i)]
  BY <1>1, <1>2
<1> QED BY <1>3 DEF Lines

\* The first i stock lines have places in q, in their order; the rest is new.
Placed(q, i, N) ==
  \E place \in [1 .. i -> DOMAIN q] :
    /\ \A k, m \in 1 .. i : k < m => place[k] < place[m]
    /\ \A k \in 1 .. i : q[place[k]] = Stock[k]
    /\ \A h \in DOMAIN q : q[h] \in N \/ \E k \in 1 .. i : h = place[k]

\* What has been composed of the first i stock lines.
TocOK(q, i, loads, labelled) ==
  LET N == New(loads, labelled)
  IN  /\ q \in Seq(File \cup {Marker})
      /\ Placed(q, i, N)
      /\ \A x \in In(q) :
           \/ \E k \in 1 .. i : x = Stock[k] \/ x \in Below(loads, Following(loads, Stock[k]))
           \/ labelled /\ x = Module /\ \E k \in 1 .. i : Stock[k] = Marker
      /\ \A k \in 1 .. i : Stock[k] \in In(q) /\ Below(loads, Following(loads, Stock[k])) \subseteq In(q)
      /\ Led(loads, q, {})
      /\ Once(q, N)
      /\ labelled /\ (\E k \in 1 .. i : Stock[k] = Marker) =>
           \E h \in DOMAIN q \ {1} : q[h] = Module /\ q[h - 1] = Marker

LEMMA PlacedStep ==
  ASSUME NEW S, NEW q \in Seq(S), NEW i \in Nat, NEW N, Placed(q, i, N),
         NEW u \in Seq(S), In(u) \subseteq N, Stock[i + 1] \in S
  PROVE  Placed((q \o <<Stock[i + 1]>>) \o u, i + 1, N)
<1> DEFINE w == q \o <<Stock[i + 1]>>
           v == w \o u
<1>1. PICK place \in [1 .. i -> DOMAIN q] :
        /\ \A k, m \in 1 .. i : k < m => place[k] < place[m]
        /\ \A k \in 1 .. i : q[place[k]] = Stock[k]
        /\ \A h \in DOMAIN q : q[h] \in N \/ \E k \in 1 .. i : h = place[k]
  BY DEF Placed
<1>2. /\ w \in Seq(S) /\ Len(w) = Len(q) + 1 /\ Len(q) \in Nat /\ DOMAIN q = 1 .. Len(q)
      /\ \A h \in 1 .. Len(q) : w[h] = q[h]
      /\ w[Len(q) + 1] = Stock[i + 1]
  OBVIOUS
<1> HIDE DEF w
<1>3. /\ Len(u) \in Nat /\ DOMAIN u = 1 .. Len(u) /\ DOMAIN v = 1 .. Len(w) + Len(u)
      /\ \A h \in 1 .. Len(w) : v[h] = w[h]
      /\ \A h \in 1 .. Len(u) : v[Len(w) + h] = u[h]
      /\ \A h \in 1 .. Len(w) + Len(u) : h \in 1 .. Len(w) \/ \E k \in 1 .. Len(u) : h = Len(w) + k
  <2>1. Joined(v, w, u)
    BY <1>2, Joins
  <2> HIDE DEF v
  <2> QED BY <2>1 DEF Joined
<1> HIDE DEF v
<1> DEFINE next == [k \in 1 .. i + 1 |-> IF k = i + 1 THEN Len(q) + 1 ELSE place[k]]
<1>4. \A k \in 1 .. i + 1 : k = i + 1 \/ k \in 1 .. i
  OBVIOUS
<1>5. \A k \in 1 .. i : place[k] \in 1 .. Len(q)
  BY <1>1, <1>2
<1>6. \A k \in 1 .. i : k \in 1 .. i + 1 /\ next[k] = place[k]
  OBVIOUS
<1>7. i + 1 \in 1 .. i + 1 /\ next[i + 1] = Len(q) + 1
  OBVIOUS
<1>8. next \in [1 .. i + 1 -> DOMAIN v]
  BY <1>2, <1>3, <1>4, <1>5
<1> HIDE DEF next
<1>9. ASSUME NEW k \in 1 .. i + 1, NEW m \in 1 .. i + 1, k < m PROVE next[k] < next[m]
  <2>1. k \in 1 .. i
    BY <1>9
  <2>2. CASE m = i + 1
    BY <1>2, <1>5, <1>6, <1>7, <2>1, <2>2
  <2>3. CASE m \in 1 .. i
    BY <1>1, <1>6, <1>9, <2>1, <2>3
  <2> QED BY <1>4, <2>2, <2>3
<1>10. ASSUME NEW k \in 1 .. i + 1 PROVE v[next[k]] = Stock[k]
  <2>1. CASE k = i + 1
    <3>1. Len(q) + 1 \in 1 .. Len(w)
      BY <1>2
    <3> QED BY <1>2, <1>3, <1>7, <2>1, <3>1
  <2>2. CASE k \in 1 .. i
    <3>1. place[k] \in 1 .. Len(q) /\ place[k] \in 1 .. Len(w)
      BY <1>2, <1>5, <2>2
    <3> QED BY <1>1, <1>2, <1>3, <1>6, <2>2, <3>1
  <2> QED BY <1>4, <2>1, <2>2
<1>11. ASSUME NEW h \in DOMAIN v PROVE v[h] \in N \/ \E k \in 1 .. i + 1 : h = next[k]
  <2>1. CASE h \in 1 .. Len(q)
    <3>1. v[h] = q[h]
      BY <1>2, <1>3, <2>1
    <3> QED BY <1>1, <1>2, <1>6, <2>1, <3>1
  <2>2. CASE h = Len(q) + 1
    BY <1>7, <2>2
  <2>3. CASE \E k \in 1 .. Len(u) : h = Len(w) + k
    BY <1>3, <2>3 DEF In
  <2>4. h \in 1 .. Len(q) \/ h = Len(q) + 1 \/ \E k \in 1 .. Len(u) : h = Len(w) + k
    <3>1. h \in 1 .. Len(w) \/ \E k \in 1 .. Len(u) : h = Len(w) + k
      BY <1>3
    <3>2. h \in 1 .. Len(w) => h \in 1 .. Len(q) \/ h = Len(q) + 1
      BY <1>2
    <3> QED BY <3>1, <3>2
  <2> QED BY <2>1, <2>2, <2>3, <2>4
<1>12. Placed(v, i + 1, N)
  BY <1>8, <1>9, <1>10, <1>11 DEF Placed
<1> QED BY <1>12 DEF v, w

LEMMA TocStep ==
  ASSUME NEW loads \in SUBSET LoadEntry, NEW labelled \in BOOLEAN, Composes(loads, labelled),
         NEW i \in Nat, i + 1 \in 1 .. Len(Stock), NEW q, TocOK(q, i, loads, labelled)
  PROVE  TocOK((q \o <<Stock[i + 1]>>) \o Additions(loads, labelled, Stock[i + 1]),
               i + 1, loads, labelled)
<1> DEFINE line == Stock[i + 1]
           A == Added(loads)
           K == Following(loads, line)
           N == New(loads, labelled)
           S == File \cup {Marker}
           one == <<line>>
           w == q \o one
           u == Additions(loads, labelled, line)
           v == w \o u
           below(k) == Below(loads, Following(loads, Stock[k]))
<1>1. /\ Forest(loads)
      /\ N \subseteq S
      /\ labelled => Module \notin A
      /\ \A k \in 1 .. Len(Stock) : Stock[k] \notin N
      /\ \A k, m \in 1 .. Len(Stock) : Stock[k] = Stock[m] /\ Following(loads, Stock[k]) # {} => k = m
      /\ labelled => \A k, m \in 1 .. Len(Stock) : Stock[k] = Marker /\ Stock[m] = Marker => k = m
  BY ComposesHas
<1>2. /\ u \in Seq(N)
      /\ In(u) = Below(loads, K) \cup IF labelled /\ line = Marker THEN {Module} ELSE {}
      /\ Led(loads, u, K)
      /\ Once(u, N)
      /\ labelled /\ line = Marker => u = <<Module>>
  BY AdditionsOK
<1>3. line \in S /\ line \notin N /\ A \subseteq N
  <2>1. line \in S
    BY StockLines
  <2> QED BY <1>1, <2>1 DEF New
<1>4. \A k \in 1 .. i : k \in 1 .. Len(Stock) /\ k # i + 1 /\ k \in 1 .. i + 1
  OBVIOUS
<1>5. \A k \in 1 .. i + 1 : k \in 1 .. i \/ k = i + 1
  OBVIOUS
<1>6. i + 1 \in 1 .. i + 1
  OBVIOUS
<1>7. /\ q \in Seq(S) /\ Placed(q, i, N) /\ Led(loads, q, {}) /\ Once(q, N)
      /\ \A k \in 1 .. i : Stock[k] \in In(q) /\ below(k) \subseteq In(q)
      /\ \A x \in In(q) :
           \/ \E k \in 1 .. i : x = Stock[k] \/ x \in below(k)
           \/ labelled /\ x = Module /\ \E k \in 1 .. i : Stock[k] = Marker
  BY DEF TocOK
<1>8. one \in Seq(S) /\ DOMAIN one = {1} /\ one[1] = line /\ In(one) = {line} /\ Len(one) = 1
  <2>1. DOMAIN one = 1 .. 1 /\ one[1] = line /\ one \in Seq(S) /\ Len(one) = 1
    BY <1>3
  <2> HIDE DEF one, line
  <2> QED BY <2>1 DEF In
<1>9. u \in Seq(S)
  BY <1>1, <1>2
<1> HIDE DEF u
<1>10. Placed(v, i + 1, N)
  <2>1. In(u) \subseteq N
    BY <1>2 DEF In
  <2> QED BY <1>3, <1>7, <1>9, <2>1, PlacedStep
<1> HIDE DEF one
<1>11. w \in Seq(S) /\ In(w) = In(q) \cup {line}
  <2>1. w \in Seq(S) /\ In(w) = In(q) \cup In(one)
    BY <1>7, <1>8, Concatenated, InBoth
  <2> QED BY <1>8, <2>1
<1>12. Led(loads, w, {})
  <2>1. Led(loads, one, {})
    BY <1>3, <1>8 DEF Led
  <2> QED BY <1>7, <1>8, <2>1, LedBoth
<1>13. Once(w, N)
  <2>1. Once(one, N)
    BY <1>8 DEF Once
  <2>2. In(q) \cap In(one) \cap N = {}
    BY <1>3, <1>8
  <2> QED BY <1>7, <1>8, <2>1, <2>2, OnceBoth
<1>14. Len(w) = Len(q) + 1 /\ Len(q) \in Nat /\ w[Len(w)] = line
  <2>1. Joined(w, q, one)
    BY <1>7, <1>8, Joins
  <2> HIDE DEF w
  <2>2. Len(w) = Len(q) + 1 /\ Len(q) \in Nat /\ 1 \in 1 .. Len(one)
    BY <1>8, <2>1 DEF Joined
  <2>3. w[Len(q) + 1] = one[1]
    BY <2>1, <2>2 DEF Joined
  <2> QED BY <1>8, <2>2, <2>3
<1> HIDE DEF w
<1>15. /\ v \in Seq(S) /\ In(v) = In(w) \cup In(u)
  BY <1>9, <1>11, Concatenated, InBoth
<1>16. Led(loads, v, {})
  <2>1. \A x \in K : x \in {} \/ \E p \in In(w) : x \in Following(loads, p)
    BY <1>11
  <2> QED BY <1>2, <1>9, <1>11, <1>12, <2>1, LedBoth
<1>17. ASSUME NEW x \in In(w), x \in In(u), x \in N PROVE FALSE
  <2>1. x \in In(q)
    BY <1>3, <1>11, <1>17
  <2>2. \A k \in 1 .. i : x # Stock[k]
    BY <1>1, <1>4, <1>17
  <2>3. CASE x \in Below(loads, K)
    <3>1. x \in A
      BY <2>3 DEF Below
    <3>2. PICK k \in 1 .. i : x \in below(k)
      BY <1>1, <1>7, <2>1, <2>2, <3>1
    <3>3. Stock[k] \notin A /\ line \notin A
      BY <1>1, <1>3, <1>4
    <3>4. Stock[k] # line
      <4> SUFFICES ASSUME Stock[k] = line PROVE FALSE
        OBVIOUS
      <4>1. K = {}
        BY <1>1, <1>4
      <4>2. Below(loads, {}) = {}
        <5>1. {} \in SUBSET A /\ Closed(loads, {})
          BY DEF Closed
        <5> QED BY <5>1, BelowLeast
      <4> QED BY <2>3, <4>1, <4>2
    <3> QED BY <1>1, <2>3, <3>2, <3>3, <3>4, StockApart
  <2>4. CASE x \notin Below(loads, K)
    <3>1. labelled /\ line = Marker /\ x = Module
      BY <1>2, <1>17, <2>4
    <3>2. \A k \in 1 .. i : below(k) \subseteq A
      BY DEF Below
    <3>3. PICK k \in 1 .. i : Stock[k] = Marker
      BY <1>1, <1>7, <2>1, <2>2, <3>1, <3>2
    <3> QED BY <1>1, <1>4, <3>1, <3>3
  <2> QED BY <2>3, <2>4
<1>18. Once(v, N)
  <2>1. In(w) \cap In(u) \cap N = {}
    BY <1>17
  <2> QED BY <1>2, <1>9, <1>11, <1>13, <2>1, OnceBoth
<1>19. ASSUME NEW x \in In(v)
       PROVE  \/ \E k \in 1 .. i + 1 : x = Stock[k] \/ x \in below(k)
              \/ labelled /\ x = Module /\ \E k \in 1 .. i + 1 : Stock[k] = Marker
  <2>1. CASE x \in In(q)
    BY <1>4, <1>7, <2>1
  <2>2. CASE x = line
    BY <1>6, <2>2
  <2>3. CASE x \in In(u)
    BY <1>2, <1>6, <2>3
  <2> QED BY <1>11, <1>15, <2>1, <2>2, <2>3
<1>20. ASSUME NEW k \in 1 .. i + 1 PROVE Stock[k] \in In(v) /\ below(k) \subseteq In(v)
  <2>1. CASE k \in 1 .. i
    BY <1>7, <1>11, <1>15, <2>1
  <2>2. CASE k = i + 1
    BY <1>2, <1>11, <1>15, <2>2
  <2> QED BY <1>5, <2>1, <2>2
<1>21. /\ DOMAIN v = 1 .. Len(w) + Len(u) /\ Len(u) \in Nat /\ Len(w) \in Nat
       /\ DOMAIN w = 1 .. Len(w) /\ DOMAIN q = 1 .. Len(q)
       /\ \A h \in 1 .. Len(w) : v[h] = w[h]
       /\ \A h \in 1 .. Len(u) : v[Len(w) + h] = u[h]
  <2>1. Joined(v, w, u)
    BY <1>9, <1>11, Joins
  <2>2. DOMAIN q = 1 .. Len(q)
    BY <1>7
  <2> HIDE DEF v
  <2> QED BY <2>1, <2>2 DEF Joined
<1>22. ASSUME labelled, \E k \in 1 .. i + 1 : Stock[k] = Marker
       PROVE  \E h \in DOMAIN v \ {1} : v[h] = Module /\ v[h - 1] = Marker
  <2>1. CASE line = Marker
    <3>1. u = <<Module>>
      BY <1>2, <1>22, <2>1
    <3>2. Len(<<Module>>) = 1 /\ <<Module>>[1] = Module
      OBVIOUS
    <3>3. Len(u) = 1 /\ u[1] = Module
      BY <3>1, <3>2
    <3> DEFINE h == Len(w) + 1
    <3>4. /\ h \in DOMAIN v \ {1} /\ h - 1 = Len(w) /\ Len(w) \in 1 .. Len(w) /\ 1 \in 1 .. Len(u)
      BY <1>14, <1>21, <3>3
    <3>5. v[h] = Module /\ v[h - 1] = Marker
      BY <1>14, <1>21, <2>1, <3>3, <3>4
    <3> QED BY <3>4, <3>5
  <2>2. CASE line # Marker
    <3>1. \E k \in 1 .. i : Stock[k] = Marker
      BY <1>5, <1>22, <2>2
    <3>2. PICK h \in DOMAIN q \ {1} : q[h] = Module /\ q[h - 1] = Marker
      BY <1>22, <3>1 DEF TocOK
    <3>3. /\ h \in 1 .. Len(q) /\ h - 1 \in 1 .. Len(q)
          /\ h \in 1 .. Len(w) /\ h - 1 \in 1 .. Len(w) /\ h \in DOMAIN v
      BY <1>14, <1>21, <3>2
    <3>4. w[h] = q[h] /\ w[h - 1] = q[h - 1]
      BY <1>7, <1>8, <3>3, Concatenated DEF w
    <3>5. v[h] = Module /\ v[h - 1] = Marker
      BY <1>21, <3>2, <3>3, <3>4
    <3> QED BY <3>2, <3>3, <3>5
  <2> QED BY <2>1, <2>2
<1> HIDE DEF v, N
<1>23. TocOK(v, i + 1, loads, labelled)
  BY <1>10, <1>15, <1>16, <1>18, <1>19, <1>20, <1>22 DEF TocOK, N
<1> QED BY <1>23 DEF v, w, u, one

LEMMA LinesOK ==
  ASSUME NEW loads \in SUBSET LoadEntry, NEW labelled \in BOOLEAN, Composes(loads, labelled)
  PROVE  TocOK(Composed(loads, labelled), Len(Stock), loads, labelled)
<1> DEFINE f == Lines(loads, labelled)
           OK(i) == TocOK(f[i], i, loads, labelled)
           Bad == {i \in 0 .. Len(Stock) : ~ OK(i)}
<1>1. \A i \in 0 .. Len(Stock) :
        f[i] = IF i = 0 THEN <<>>
               ELSE f[i - 1] \o <<Stock[i]>> \o Additions(loads, labelled, Stock[i])
  <2>1. f = [i \in 0 .. Len(Stock) |->
               IF i = 0 THEN <<>>
               ELSE f[i - 1] \o <<Stock[i]>> \o Additions(loads, labelled, Stock[i])]
    BY LinesDef
  <2> HIDE DEF f
  <2> QED BY <2>1
<1> HIDE DEF f
<1>2. Len(Stock) \in Nat
  BY StockLines
<1>3. OK(0)
  <2>1. f[0] = <<>>
    <3>1. 0 \in 0 .. Len(Stock)
      BY <1>2
    <3> QED BY <1>1, <3>1
  <2>2. <<>> \in Seq(File \cup {Marker}) /\ DOMAIN <<>> = {} /\ 1 .. 0 = {}
    OBVIOUS
  <2>3. Placed(<<>>, 0, New(loads, labelled))
    <3>1. <<>> \in [{} -> {}]
      OBVIOUS
    <3> QED BY <2>2, <3>1 DEF Placed
  <2>4. TocOK(<<>>, 0, loads, labelled)
    BY <2>2, <2>3 DEF TocOK, In, Led, Once
  <2> QED BY <2>1, <2>4
<1>4. Bad = {}
  <2> SUFFICES ASSUME Bad # {} PROVE FALSE
    OBVIOUS
  <2>1. PICK i \in Bad : \A k \in Bad : i <= k
    <3>1. Bad \subseteq Nat
      BY <1>2
    <3> HIDE DEF Bad
    <3> QED BY <3>1, LeastNumber
  <2>2. i \in 0 .. Len(Stock) /\ ~ OK(i) /\ i \in Nat
    BY <1>2
  <2>3. i # 0
    BY <1>3, <2>2
  <2> DEFINE k == i - 1
  <2>4. /\ k \in Nat /\ k \in 0 .. Len(Stock) /\ k + 1 = i /\ k + 1 \in 1 .. Len(Stock)
        /\ ~ (i <= k)
    BY <1>2, <2>2, <2>3
  <2>5. OK(k)
    <3> HIDE DEF OK, k
    <3> QED BY <2>1, <2>4
  <2>6. f[i] = f[k] \o <<Stock[i]>> \o Additions(loads, labelled, Stock[i])
    BY <1>1, <2>2, <2>3
  <2> HIDE DEF k
  <2>7. TocOK((f[k] \o <<Stock[k + 1]>>) \o Additions(loads, labelled, Stock[k + 1]),
              k + 1, loads, labelled)
    BY <2>4, <2>5, TocStep
  <2> QED BY <2>2, <2>4, <2>6, <2>7
<1>5. Len(Stock) \in 0 .. Len(Stock)
  BY <1>2
<1>6. OK(Len(Stock))
  <2> HIDE DEF OK
  <2> QED BY <1>4, <1>5
<1> QED BY <1>6 DEF Composed, f

\* Whatever entries the packages of a build declare, when they compose.
THEOREM ComposedExtends ==
  ASSUME NEW loads \in SUBSET LoadEntry, NEW labelled \in BOOLEAN, Composes(loads, labelled)
  PROVE  Extends(Composed(loads, labelled), loads, labelled)
<1> DEFINE toc == Composed(loads, labelled)
           N == New(loads, labelled)
           below(k) == Below(loads, Following(loads, Stock[k]))
           stock == Len(Stock)
<1>1. TocOK(toc, stock, loads, labelled)
  BY LinesOK
<1> HIDE DEF toc
<1>2. /\ Forest(loads)
      /\ labelled => \E i \in 1 .. stock : Stock[i] = Marker
      /\ \A e \in loads : e.after \in Added(loads) \/ \E i \in 1 .. stock : Stock[i] = e.after
  BY ComposesHas
<1>3. DOMAIN Stock = 1 .. stock
  BY StockLines
<1>4. /\ toc \in Seq(File \cup {Marker}) /\ DOMAIN toc \subseteq Nat
      /\ \A k \in 1 .. stock : Stock[k] \in In(toc) /\ below(k) \subseteq In(toc)
      /\ Led(loads, toc, {}) /\ Once(toc, N)
  BY <1>1 DEF TocOK
<1>5. Added(loads) \subseteq In(toc)
  <2> DEFINE S == {e \in loads : e.target \notin In(toc)}
  <2> SUFFICES ASSUME S # {} PROVE FALSE
    BY DEF Added
  <2>1. PICK e \in S : e.after \notin Added(S)
    BY <1>2 DEF Forest, Ordered
  <2>2. e \in loads /\ e.target \notin In(toc) /\ e.target \in Following(loads, e.after)
    BY DEF Following
  <2>3. CASE \E i \in 1 .. stock : Stock[i] = e.after
    <3>1. PICK i \in 1 .. stock : Stock[i] = e.after
      BY <2>3
    <3>2. Following(loads, e.after) \subseteq Below(loads, Following(loads, e.after))
      BY FollowingAdded, BelowClosed
    <3> QED BY <1>4, <2>2, <3>1, <3>2
  <2>4. CASE e.after \in Added(loads)
    <3>1. e.after \in In(toc)
      BY <2>1, <2>4 DEF Added
    <3>2. PICK k \in 1 .. stock : e.after \in below(k)
      <4>1. ~ \E k \in 1 .. stock : e.after = Stock[k]
        BY <2>4, ComposesHas DEF New
      <4>2. labelled => e.after # Module
        BY <2>4, ComposesHas
      <4> QED BY <1>1, <3>1, <4>1, <4>2 DEF TocOK
    <3>3. Closed(loads, below(k))
      BY FollowingAdded, BelowClosed
    <3> QED BY <1>4, <2>2, <3>2, <3>3 DEF Closed
  <2> QED BY <1>2, <2>2, <2>3, <2>4
<1>6. labelled => \E h \in DOMAIN toc \ {1} : toc[h] = Module /\ toc[h - 1] = Marker
  BY <1>1, <1>2 DEF TocOK
<1>7. ASSUME NEW line \in N PROVE \E h \in DOMAIN toc : {g \in DOMAIN toc : toc[g] = line} = {h}
  <2>1. line \in In(toc)
    BY <1>5, <1>6 DEF New, In
  <2>2. PICK h \in DOMAIN toc : toc[h] = line
    BY <2>1 DEF In
  <2>3. \A g \in DOMAIN toc : toc[g] = line => g = h
    BY <1>4, <2>2 DEF Once
  <2> QED BY <2>2, <2>3
<1>8. ASSUME NEW e \in loads PROVE InPlace(toc, e)
  <2>1. e.target \in Added(loads) /\ e.target \in N
    BY DEF Added, New
  <2>2. PICK h \in DOMAIN toc : {g \in DOMAIN toc : toc[g] = e.target} = {h}
    BY <1>7, <2>1
  <2>3. toc[h] = e.target
    BY <2>2
  <2>4. PICK g \in 1 .. h - 1 : e.target \in Following(loads, toc[g])
    BY <1>4, <2>1, <2>3 DEF Led
  <2>5. toc[g] = e.after
    <3>1. e.target \in Following(loads, e.after)
      BY DEF Following
    <3> QED BY <1>2, <2>4, <3>1, OneParent
  <2> QED BY <2>2, <2>4, <2>5 DEF InPlace
<1>9. \E place \in [DOMAIN Stock -> DOMAIN toc] :
        /\ \A i, j \in DOMAIN Stock : i < j => place[i] < place[j]
        /\ \A i \in DOMAIN Stock : toc[place[i]] = Stock[i]
        /\ \A h \in DOMAIN toc : toc[h] \in N \/ \E i \in DOMAIN Stock : h = place[i]
  <2>1. Placed(toc, stock, N)
    BY <1>1 DEF TocOK
  <2> HIDE DEF N, stock
  <2> QED BY <1>3, <2>1 DEF Placed
<1>10. N = Added(loads) \cup (IF labelled THEN {Module} ELSE {})
  BY DEF New
<1> HIDE DEF N
<1>11. Extends(toc, loads, labelled)
  BY <1>6, <1>7, <1>8, <1>9, <1>10 DEF Extends
<1> QED BY <1>11 DEF toc
=============================================================================
