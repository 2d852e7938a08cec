---------------------------- MODULE SidecarParity ----------------------------
(***************************************************************************)
(* The typed resources of packages and the two sidecars of a build: its    *)
(* server bundle, the rows that an apply will write, and its parity        *)
(* manifest, the leases and composed tables that must agree with them.     *)
(*                                                                         *)
(* One part of the code decides which declarations a package may have, one *)
(* how they resolve across the packages of a build, one what is written to *)
(* the sidecars - and, much later, another one what an apply and an        *)
(* activation accept when they read them.                                  *)
(*                                                                         *)
(* A resource is a row of a kind under a symbol that its package chose,    *)
(* with the resources it refers to.  Kinds that are composed into a client *)
(* table stand for their table.  IDs and the other fields are left out:    *)
(* that each identity keeps one ID is BuildAllocation's subject.           *)
(***************************************************************************)
EXTENDS Naturals, FiniteSets

CONSTANTS
  MapTable,  \* the tables of native world maps, each a kind of row
  Rows       \* the rows that manifests may declare

\* "item" is a row of Item.dbc and "server" the item_template row under the
\* same symbol; a currency is CurrencyTypes' row, and a bit, of such an item.
ClientTable == {"item", "currency", "category", "cost", "spell"} \cup MapTable
Managed == {"creature", "gameobject", "spawn"}
LeasedKind == ClientTable \cup Managed
Kind == LeasedKind \cup {"server", "vendor"}

Id(r) == [package |-> r.package, kind |-> r.kind, symbol |-> r.symbol]
Ids(rows) == {Id(r) : r \in rows}
Of(kind, rows) == {r \in rows : r.kind = kind}

\* The resources of a kind that a row refers to.
Uses(r, kind) == {u \in r.uses : u.kind = kind}

\* What the fields of a declaration can express.  Only the price of a cost
\* can name another package.
References(r) ==
  LET local == \A u \in r.uses : u.package = r.package
      one(kind) == Cardinality(Uses(r, kind)) = 1
      kinds == {u.kind : u \in r.uses}
  IN  CASE r.kind = "currency" ->
             local /\ one("server") /\ kinds \subseteq {"server", "category"}
               /\ Cardinality(Uses(r, "category")) <= 1
        [] r.kind = "cost"   -> kinds = {"server"} /\ Cardinality(r.uses) <= 5
        [] r.kind = "vendor" ->
             local /\ one("cost") /\ kinds \subseteq {"cost", "creature"}
               /\ Cardinality(Uses(r, "creature")) <= 1
        [] r.kind = "spawn"  -> local /\ one("creature") /\ kinds = {"creature"}
        [] OTHER             -> r.uses = {}

ASSUME RowAssumption ==
  /\ MapTable \cap {"item", "currency", "category", "cost", "spell", "server", "vendor",
                    "creature", "gameobject", "spawn"} = {}
  /\ \A r \in Rows : r.kind \in Kind /\ References(r)

-----------------------------------------------------------------------------
(* Validate: what the rows of one manifest must be.                        *)

\* One symbol names one resource, except that an item and its server row
\* share it; world-map symbols are derived and cannot be chosen.
SymbolsUnique(rows) ==
  \A a, b \in {r \in rows : r.kind \notin MapTable \cup {"server"}} :
    a.symbol = b.symbol => a = b

ItemOf(r) == [package |-> r.package, kind |-> "item", symbol |-> r.symbol]

\* A server row completes an Item row; nothing asks for the converse.
ServerRowsPaired(rows) ==
  /\ \A r \in Of("server", rows) : ItemOf(r) \in Ids(rows)
  /\ \A a, b \in Of("server", rows) : a.symbol = b.symbol => a = b

\* A currency has its own item, and perhaps a category; no category idles.
CurrenciesResolve(rows) ==
  /\ \A r \in Of("currency", rows) : r.uses \subseteq Ids(rows)
  /\ \A a, b \in Of("currency", rows) : Uses(a, "server") = Uses(b, "server") => a = b
  /\ \A c \in Of("category", rows) : \E r \in Of("currency", rows) : Id(c) \in r.uses

SpawnsResolve(rows) == \A r \in Of("spawn", rows) : r.uses \subseteq Ids(rows)

\* The price of another package is left to the build.
CostsResolve(rows) ==
  \A r \in Of("cost", rows) : \A u \in r.uses : u.package = r.package => u \in Ids(rows)

\* A vendor sells under a cost of its package, one per creature.
VendorsResolve(rows) ==
  /\ \A r \in Of("vendor", rows) : r.uses \subseteq Ids(rows)
  /\ \A a, b \in Of("vendor", rows) :
       Uses(a, "creature") # {} /\ Uses(a, "creature") = Uses(b, "creature") => a = b

WellFormed(rows) ==
  /\ SymbolsUnique(rows)
  /\ ServerRowsPaired(rows)
  /\ CurrenciesResolve(rows)
  /\ SpawnsResolve(rows)
  /\ CostsResolve(rows)
  /\ VendorsResolve(rows)

-----------------------------------------------------------------------------
(* Build: the rows of all packages of a build.                             *)

\* Costs need semantic items, and each price an item of some package that
\* has a server row.
PricesResolve(rows) ==
  /\ Of("cost", rows) # {} => Of("item", rows) # {}
  /\ \A r \in Of("cost", rows) : r.uses \subseteq Ids(rows)

\* The tables that are composed; each has its accepted baseline loaded.
TablesOf(rows) == {r.kind : r \in rows} \cap ClientTable

\* Every row of a leasing kind gets, or keeps, a lease.
Leases(rows) == {Id(r) : r \in {x \in rows : x.kind \in LeasedKind}}

\* The server rows with their currencies, and whatever else an apply writes.
ServerJson(rows) ==
  {r \in rows : r.kind \in Managed \cup {"server", "currency", "cost", "vendor", "spell"}}

\* The leases, the hashes of the composed tables, the categories, the loaded
\* baselines and a copy of what the bundle has.
ParityJson(rows, leases, tables, categories, snapshots) ==
  [resources |-> leases, hashes |-> tables, categories |-> categories,
   snapshots |-> snapshots, bundled |-> ServerJson(rows)]

Sidecars(rows) ==
  [bundle |-> ServerJson(rows),
   parity |-> ParityJson(rows, Leases(rows), TablesOf(rows), Ids(Of("category", rows)),
                         TablesOf(rows))]

-----------------------------------------------------------------------------
(* Apply and activate: what is demanded of the sidecars that are read.     *)

LeasesOf(kind, p) == {u \in p.resources : u.kind = kind}

\* ParseServer: identities are unique, and a vendor's cost is in the bundle.
ParsesServer(bundle) ==
  /\ \A a, b \in bundle : Id(a) = Id(b) => a = b
  /\ \A r \in Of("vendor", bundle) : Uses(r, "cost") \subseteq Ids(bundle)

\* ReadParityAllocations: kinds are known, and the table of a map row has its
\* baseline in the manifest.  (That the leases are retained as they were is
\* BuildAllocation's BuildsStayBacked.)
ParityReads(p) ==
  \A u \in p.resources : u.kind \in LeasedKind /\ (u.kind \in MapTable => u.kind \in p.snapshots)

\* A lease for each row of a kind, and a row for each lease.
Matched(kind, bundle, p) == Ids(Of(kind, bundle)) = LeasesOf(kind, p)

SpellsAgree(bundle, p) ==
  /\ "spell" \in p.hashes <=> Of("spell", bundle) # {}
  /\ Matched("spell", bundle, p)

\* Mutant: a price is looked up under the package of its cost.
CostsAgreeLocally(bundle, p) ==
  \A r \in Of("cost", bundle) : \A u \in r.uses : [u EXCEPT !.package = r.package] \in Ids(bundle)

\* A price is a row of the bundle whose item is leased.
CostsAgree(bundle, p) ==
  /\ Of("cost", bundle) \cup Of("spell", bundle) # {} => p.snapshots # {}
  /\ "cost" \in p.hashes <=> Of("cost", bundle) # {}
  /\ Matched("cost", bundle, p)
  /\ \A r \in Of("cost", bundle) : \A u \in r.uses :
       u \in Ids(bundle) /\ ItemOf(u) \in p.resources

\* A bit for each currency; an orphan bit is not looked for.
CurrenciesAgree(bundle, p) ==
  /\ "currency" \in p.hashes <=> Of("currency", bundle) # {}
  /\ Ids(Of("currency", bundle)) \subseteq LeasesOf("currency", p)

CategoriesAgree(bundle, p) ==
  LET used == UNION {Uses(r, "category") : r \in Of("currency", bundle)}
  IN  /\ "category" \in p.hashes <=> p.categories # {}
      /\ p.categories = LeasesOf("category", p)
      /\ p.categories = used

\* Templates and spawns, and the template of each spawn.
ManagedAgree(bundle, p) ==
  /\ \A kind \in Managed : Matched(kind, bundle, p)
  /\ \A r \in Of("spawn", bundle) : r.uses \subseteq Ids(bundle)

\* World maps have no rows on the server: a table is hashed exactly when rows
\* of it are leased.
MapsAgree(p) == \A table \in MapTable : table \in p.hashes <=> LeasesOf(table, p) # {}

\* The table of Item is expected when the bundle has server rows.
ItemExpected(bundle, p) == Of("server", bundle) # {}

SnapshotsAgree(bundle, p) ==
  p.snapshots # {} =>
    p.snapshots =
      {kind \in {"currency", "cost", "spell"} : Of(kind, bundle) # {}}
        \cup {kind \in {"item"} : ItemExpected(bundle, p)}
        \cup {kind \in {"category"} : p.categories # {}}
        \cup (p.hashes \cap MapTable)

\* The composed Item.dbc, and the manifest written anew from what was read.
ManifestAgrees(bundle, p) ==
  /\ "item" \in p.hashes <=> ItemExpected(bundle, p)
  /\ p = ParityJson(bundle, p.resources, p.hashes, p.categories, p.snapshots)

VerifyParity(bundle, p) ==
  /\ SpellsAgree(bundle, p)
  /\ CostsAgree(bundle, p)
  /\ CurrenciesAgree(bundle, p)
  /\ CategoriesAgree(bundle, p)
  /\ ManagedAgree(bundle, p)
  /\ MapsAgree(p)
  /\ SnapshotsAgree(bundle, p)
  /\ ManifestAgrees(bundle, p)

\* What Inspect, and so every apply and activation, asks of a build.
Accepts(sidecars) ==
  /\ ParsesServer(sidecars.bundle)
  /\ ParityReads(sidecars.parity)
  /\ VerifyParity(sidecars.bundle, sidecars.parity)

-----------------------------------------------------------------------------
(* What the judges owe each other.                                         *)

\* Rows that packages may declare together and a build resolves.
Buildable(rows) ==
  /\ \A r \in rows : WellFormed({other \in rows : other.package = r.package})
  /\ PricesResolve(rows)

\* Item rows that no package completes with a server row.
ClientItemsOnly(rows) == Of("item", rows) # {} /\ Of("server", rows) = {}

Verifies(rows) == Accepts(Sidecars(rows)) <=> ~ClientItemsOnly(rows)

AnyRowsVerify == \A rows \in SUBSET Rows : Buildable(rows) => Verifies(rows)
=============================================================================
