---------------------------- MODULE WorldMapRows ----------------------------
(***************************************************************************)
(* The row IDs of the native world-map tables: the author chooses them,    *)
(* ContentResourceAllocator::PlanFixed reserves them, and their leases     *)
(* outlive every reordering, split and consolidation of the packages that  *)
(* declare them.                                                           *)
(*                                                                         *)
(* The symbol of a lease is derived from the authored row.  Releases       *)
(* before this one put the position of the map in the manifest into it,    *)
(* and named no row at all in the symbol of a transform.  Their leases are *)
(* still in the database and are to be reused as they are.                 *)
(*                                                                         *)
(* Two of the four tables are modelled: "floor" (DungeonMap), whose rows   *)
(* belong to an area as those of DungeonMapChunk do, and "transform"       *)
(* (WorldMapTransforms), whose rows do not.  Each table is a resource kind *)
(* and has its own ID space.  Of the other resource kinds only the leases  *)
(* are modelled: the planner compares numbers across all kinds.            *)
(***************************************************************************)
EXTENDS Naturals, FiniteSets

CONSTANTS
  Server,
  Package,
  Replaces,    \* manifest "replaces": successor -> retired packages
  Area,        \* row IDs of WorldMapArea
  Row,         \* row IDs of the two tables
  StockRow,    \* table -> the rows of its verified stock baseline
  Position,    \* indices into worldMaps[]
  OtherLeases, \* leases of the other resource kinds (items, currencies, ...),
               \* each a package and a number; the builds here plan no others
  Historical,  \* the lease tables earlier releases may have left; all builds
               \* before the first one recorded here have the number 0
  Manifests,   \* what the installed packages may declare together
  MaxBuild,
  None

Table == {"floor", "transform"}

\* A row as a manifest declares it, and who declares it.
Authored ==
  [table : {"floor"}, area : Area, row : Row]
    \cup [table : {"transform"}, area : {None}, row : Row]
Declaration == Package \X Authored

\* A symbol has a position only in the historical form, and the historical
\* symbol of a transform has nothing else.
Symbol == [at : Position \cup {None}, area : Area \cup {None}, row : Row \cup {None}]

Key == [package : Package, table : Table, symbol : Symbol]
Lease == [row : Row, first : 0 .. MaxBuild, last : 0 .. MaxBuild]
IsLeaseTable(table) ==
  DOMAIN table \subseteq Key /\ \A k \in DOMAIN table : table[k] \in Lease

\* The symbols an authored row had in a manifest with its map at position k.
HistoricalSymbol(a, k) ==
  [at |-> k, area |-> a.area, row |-> IF a.table = "floor" THEN a.row ELSE None]

ASSUME WorldMapAssumption ==
  /\ Replaces \in [Package -> SUBSET Package]
  /\ StockRow \in [Table -> SUBSET Row]
  /\ OtherLeases \subseteq Package \X Row
  /\ MaxBuild \in Nat
  /\ None \notin Position \cup Area \cup Row
  /\ Manifests \subseteq SUBSET Declaration
  /\ \A table \in Historical :
       /\ IsLeaseTable(table)
       /\ \A k, l \in DOMAIN table :
            k.table = l.table /\ table[k].row = table[l].row => k = l
       /\ \A k \in DOMAIN table : table[k].first = 0
       /\ \A k \in DOMAIN table : \E a \in Authored, p \in Position :
            /\ a.table = k.table
            /\ a.row = table[k].row
            /\ a.row \notin StockRow[a.table]
            /\ k.symbol = HistoricalSymbol(a, p)

VARIABLES
  leases,  \* content_manager_allocation, its world-map kinds
  builds,  \* recorded builds: number -> the rows they were made with
  job      \* the build each server is running

vars == <<leases, builds, job>>

NoJob == [stage |-> "idle", number |-> 0, want |-> {}, plan |-> [k \in {} |-> k]]

Init ==
  /\ leases \in Historical
  /\ builds = [n \in {} |-> {}]
  /\ job = [s \in Server |-> NoJob]

-----------------------------------------------------------------------------
(* Identity.                                                               *)

\* Only immutable facts about the row: its own ID and that of its area.
CanonicalSymbol(a) == [at |-> None, area |-> a.area, row |-> a.row]

Requested(d) ==
  [package |-> d[1], table |-> d[2].table, symbol |-> CanonicalSymbol(d[2])]

\* Mutant: the historical path of a transform is compared as it is.
CanonicalIdentityOfPath(symbol, row) == [symbol EXCEPT !.at = None]

\* A position is dropped; the row of a historical transform is the leased one.
CanonicalIdentity(symbol, row) ==
  [at |-> None, area |-> symbol.area,
   row |-> IF symbol.area = None /\ symbol.row = None THEN row ELSE symbol.row]

SameRow(symbol, value, requested, row) ==
  /\ value = row
  /\ CanonicalIdentity(symbol, value) = CanonicalIdentity(requested, row)

-----------------------------------------------------------------------------
(* PlanFixed: one authored row against the retained leases.                *)

Retained(d, table) == Requested(d) \in DOMAIN table

\* Who holds the row ID in the table of the declaration.
Holders(d, table) ==
  {k \in DOMAIN table : k.table = d[2].table /\ table[k].row = d[2].row}

\* The packages that hold the number in another table or in any other kind.
HeldElsewhere(d, table) ==
  {k.package : k \in {l \in DOMAIN table : l.table # d[2].table /\ table[l].row = d[2].row}}
    \cup {p \in Package : <<p, d[2].row>> \in OtherLeases}

\* A successor inherits by the value, whatever the symbol was.
Predecessors(d, table) == {k \in Holders(d, table) : k.package \in Replaces[d[1]]}
WrongKind(d, table) == HeldElsewhere(d, table) \cap Replaces[d[1]] # {}

\* Mutant: the lease of another package may be relocated.
RelocationsCross(d, table) ==
  {k \in Holders(d, table) :
     SameRow(k.symbol, table[k].row, CanonicalSymbol(d[2]), d[2].row)}

\* The package's own lease under another symbol of the same row.
Relocations(d, table) ==
  {k \in Holders(d, table) :
     /\ k.package = d[1]
     /\ SameRow(k.symbol, table[k].row, CanonicalSymbol(d[2]), d[2].row)}

Relocates(d, table) ==
  /\ ~Retained(d, table)
  /\ Predecessors(d, table) = {}
  /\ Relocations(d, table) # {}

\* A retained row must still be the declared one; a row is inherited or
\* relocated from exactly one lease; any other row must be free.
Granted(d, table) ==
  /\ d[2].row \notin StockRow[d[2].table]
  /\ IF Retained(d, table) THEN table[Requested(d)].row = d[2].row
     ELSE IF Predecessors(d, table) # {} THEN Cardinality(Predecessors(d, table)) = 1
     ELSE /\ ~WrongKind(d, table)
          /\ IF Relocations(d, table) # {} THEN Cardinality(Relocations(d, table)) = 1
             ELSE Holders(d, table) = {}

\* No two declarations of a build claim one row of a table.
ClaimedOnce(want) ==
  \A d, e \in want : d[2].table = e[2].table /\ d[2].row = e[2].row => d = e

Plannable(want, table) == ClaimedOnce(want) /\ \A d \in want : Granted(d, table)

\* Mutant: a relocated lease is planned under the symbol now requested.
PlannedKeyRenames(d, table) == Requested(d)

\* A relocated lease keeps the symbol it was persisted under.
PlannedKey(d, table) ==
  IF Relocates(d, table) THEN CHOOSE k \in Relocations(d, table) : TRUE ELSE Requested(d)

\* Mutant: the last build is the one after this.
PlannedLeaseAhead(d, table, n) ==
  [row |-> d[2].row, first |-> n, last |-> n + 1]

\* A held row keeps the build that created it, a free one starts here.
PlannedLease(d, table, n) ==
  IF Holders(d, table) = {} THEN [row |-> d[2].row, first |-> n, last |-> n]
  ELSE [table[CHOOSE k \in Holders(d, table) : TRUE] EXCEPT !.last = n]

PlanFixed(want, table, n) ==
  [k \in {PlannedKey(d, table) : d \in want} |->
     PlannedLease(CHOOSE d \in want : PlannedKey(d, table) = k, table, n)]

-----------------------------------------------------------------------------
(* A build.                                                                *)

NextNumber ==
  IF DOMAIN builds = {} THEN 1
  ELSE 1 + CHOOSE n \in DOMAIN builds : \A m \in DOMAIN builds : m <= n

ReplacementsResolve(selected) ==
  /\ \A p \in selected : Replaces[p] \cap selected = {}
  /\ \A p, q \in selected : p # q => Replaces[p] \cap Replaces[q] = {}

\* The number is taken, the leases are read and every row of every table is
\* planned before a byte is written.
Plan(s, want) ==
  /\ job[s].stage = "idle"
  /\ want # {}
  /\ NextNumber <= MaxBuild
  /\ ReplacementsResolve({d[1] : d \in want})
  /\ Plannable(want, leases)
  /\ job' = [job EXCEPT ![s] =
       [stage |-> "planned", number |-> NextNumber, want |-> want,
        plan |-> PlanFixed(want, leases, NextNumber)]]
  /\ UNCHANGED <<leases, builds>>

\* What the composer refuses: a row ID of the stock file, or one given twice.
\* It looks at the manifests, never at the plan.
Composable(want) ==
  /\ \A d \in want : d[2].row \notin StockRow[d[2].table]
  /\ \A d, e \in want : d[2].table = e[2].table /\ d[2].row = e[2].row => d = e

Compose(s) ==
  /\ job[s].stage = "planned"
  /\ Composable(job[s].want)
  /\ job' = [job EXCEPT ![s].stage = "composed"]
  /\ UNCHANGED <<leases, builds>>

\* Whose row a planned row without a row of its own holds.
OwnersOf(k, plan) == {l \in DOMAIN leases : l.table = k.table /\ leases[l].row = plan[k].row}

\* CommitComposed against the table as it is now.
StillPlanned(plan) ==
  \A k \in DOMAIN plan :
    IF k \in DOMAIN leases THEN leases[k].row = plan[k].row
    ELSE \A l \in OwnersOf(k, plan) : l.package \in Replaces[k.package]

Movers(plan) == {k \in DOMAIN plan \ DOMAIN leases : OwnersOf(k, plan) # {}}
Moved(plan) == UNION {OwnersOf(k, plan) : k \in Movers(plan)}

\* The unique key on kind and value, of the rows the statements leave.
KeysFree(plan) ==
  \A k, l \in DOMAIN plan : k.table = l.table /\ plan[k].row = plan[l].row => k = l

NumberFree(j) == j.number \notin DOMAIN builds

\* Mutant: a moved row starts anew.
CommittedRestarts(plan, n) ==
  [k \in (DOMAIN leases \ Moved(plan)) \cup DOMAIN plan |->
     IF k \in DOMAIN plan
     THEN [plan[k] EXCEPT !.first = IF k \in DOMAIN leases THEN @ ELSE n, !.last = n]
     ELSE leases[k]]

\* Predecessors' rows change package and symbol, retained rows are touched,
\* new rows are inserted, all other rows stay.
Committed(plan, n) ==
  [k \in (DOMAIN leases \ Moved(plan)) \cup DOMAIN plan |->
     IF k \in DOMAIN plan THEN [plan[k] EXCEPT !.last = n] ELSE leases[k]]

\* The check and the transaction in one step: what may happen between them is
\* the subject of BuildAllocation.
Commit(s) ==
  LET j == job[s]
  IN  /\ j.stage = "composed"
      /\ StillPlanned(j.plan)
      /\ KeysFree(j.plan)
      /\ NumberFree(j)
      /\ leases' = Committed(j.plan, j.number)
      /\ builds' = [n \in DOMAIN builds \cup {j.number} |->
                      IF n = j.number THEN j.want ELSE builds[n]]
      /\ job' = [job EXCEPT ![s] = NoJob]

\* Any refusal or failure, and the end of the build.
Fail(s) ==
  /\ job[s].stage # "idle"
  /\ job' = [job EXCEPT ![s] = NoJob]
  /\ UNCHANGED <<leases, builds>>

Next ==
  \E s \in Server :
    \/ \E want \in Manifests : Plan(s, want)
    \/ Compose(s)
    \/ Commit(s)
    \/ Fail(s)

Spec == Init /\ [][Next]_vars

-----------------------------------------------------------------------------
(* What has to hold.                                                       *)

\* Every variable holds what its table or process can hold.
TypeOK ==
  /\ IsLeaseTable(leases)
  /\ DOMAIN builds \subseteq 1 .. MaxBuild
  /\ \A n \in DOMAIN builds : builds[n] \subseteq Declaration
  /\ \A s \in Server :
       /\ job[s].stage \in {"idle", "planned", "composed"}
       /\ job[s].number \in 0 .. MaxBuild
       /\ job[s].want \subseteq Declaration
       /\ IsLeaseTable(job[s].plan)

\* What the planner grants the composer never refuses, although the planner
\* judges requests against leases and the composer manifests against bytes.
PlannedComposes ==
  \A s \in Server : job[s].stage = "planned" => Composable(job[s].want)

\* A plan whose number is free fits the leases as they are now: the checks of
\* CommitComposed refuse nothing that PlanFixed granted.
PlannedCommits ==
  \A s \in Server :
    job[s].stage # "idle" /\ NumberFree(job[s])
      => StillPlanned(job[s].plan) /\ KeysFree(job[s].plan)

\* Through one step or more, p takes over the leases of q.
Descends(p, q) ==
  \A S \in SUBSET Package :
    Replaces[p] \subseteq S /\ (\A r \in S : Replaces[r] \subseteq S) => q \in S

\* A row ID never changes its meaning: whenever two recorded builds contain
\* one row of a table it is the same package's row of the same area, unless
\* the later package descends from the earlier one.
RowsKeepMeaning ==
  \A m, n \in DOMAIN builds : m <= n =>
    \A d \in builds[m], e \in builds[n] :
      d[2].table = e[2].table /\ d[2].row = e[2].row => d = e \/ Descends(e[1], d[1])

\* Every row of a recorded build is leased to the package that declared it or
\* to a descendant of it, in one lease that spans the build.
BuildRowsAreLeased ==
  \A n \in DOMAIN builds : \A d \in builds[n] :
    \E k \in Holders(d, leases) :
      /\ Holders(d, leases) = {k}
      /\ k.package = d[1] \/ Descends(k.package, d[1])
      /\ leases[k].first <= n /\ n <= leases[k].last

\* A lease is reused in place: it keeps its row, its first build, its owner
\* and its symbol, or it moves to a package that replaces its owner, and then
\* takes the canonical symbol.
ReusedInPlace ==
  [][\A k \in DOMAIN leases :
       \/ k \in DOMAIN leases' /\ leases'[k] = [leases[k] EXCEPT !.last = leases'[k].last]
       \/ \E l \in DOMAIN leases' \ DOMAIN leases :
            /\ k \notin DOMAIN leases'
            /\ k.package \in Replaces[l.package] /\ k.table = l.table
            /\ l.symbol.at = None
            /\ leases'[l] = [leases[k] EXCEPT !.last = leases'[l].last]]_vars

\* The authored row a lease stands for.
AuthoredRow(k, table) ==
  [table |-> k.table, area |-> k.symbol.area, row |-> table[k].row]

Rebuilds(k) == Granted(<<k.package, AuthoredRow(k, leases)>>, leases)

\* A package that declares a row it already owns is granted it, whatever
\* release persisted the lease.  The one exception is a number that a package
\* it replaces holds in another table or as an item, a currency or any other
\* kind: the planner takes that for an inheritance of the wrong kind, before it
\* looks for a relocation.
OwnedRowsRebuild ==
  \A k \in DOMAIN leases :
    Rebuilds(k) \/ WrongKind(<<k.package, AuthoredRow(k, leases)>>, leases)
=============================================================================
