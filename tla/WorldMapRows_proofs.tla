------------------------ MODULE WorldMapRows_proofs -------------------------
(***************************************************************************)
(* Proofs about WorldMapRows for any servers, packages, rows, old leases   *)
(* and manifests: all seven properties its run checks.                     *)
(*                                                                         *)
(* The argument: a row of a table has one lease at most (UniqueRows), so a *)
(* row that is inherited or relocated is so from the one lease that holds  *)
(* it; a plan whose number is free was made from the leases as they are    *)
(* now (JobsOK), since whoever changes them takes the number; and a lease  *)
(* still names the authored row it was granted for (WellFormed), whichever *)
(* release wrote its symbol.                                               *)
(***************************************************************************)
EXTENDS WorldMapRows, FiniteSetTheorems, TLAPS

\* A row of a table has one lease at most.
UniqueRows(table) ==
  \A k, l \in DOMAIN table :
    k.table = l.table /\ table[k].row = table[l].row => k = l

\* A symbol is the canonical or a historical one of an authored row that is no
\* stock row.
WellFormed(table) ==
  \A k \in DOMAIN table :
    /\ AuthoredRow(k, table) \in Authored
    /\ table[k].row \notin StockRow[k.table]
    /\ \/ k.symbol = CanonicalSymbol(AuthoredRow(k, table))
       \/ \E p \in Position : k.symbol = HistoricalSymbol(AuthoredRow(k, table), p)

Sound(table) == IsLeaseTable(table) /\ UniqueRows(table) /\ WellFormed(table)

\* Leases begin with a recorded build or before all of them.
Dated == \A k \in DOMAIN leases : leases[k].first \in {0} \cup DOMAIN builds

\* Builds are numbered without gaps.
Dense == \E n \in Nat : DOMAIN builds = 1 .. n

JobShape ==
  /\ DOMAIN job = Server
  /\ \A s \in Server :
       job[s] = [stage |-> job[s].stage, number |-> job[s].number,
                 want |-> job[s].want, plan |-> job[s].plan]

\* While its number is free, a plan is the plan of the present leases.
JobsOK ==
  \A s \in Server : job[s].stage # "idle" =>
    /\ job[s].number \in 1 .. MaxBuild
    /\ Composable(job[s].want)
    /\ NumberFree(job[s]) =>
         /\ DOMAIN builds = 1 .. (job[s].number - 1)
         /\ Plannable(job[s].want, leases)
         /\ job[s].plan = PlanFixed(job[s].want, leases, job[s].number)

\* The lease of a recorded row: its package's, under a symbol of the same row,
\* or a descendant's.
Backs(k, d) ==
  \/ k.package = d[1] /\ SameRow(k.symbol, d[2].row, CanonicalSymbol(d[2]), d[2].row)
  \/ Descends(k.package, d[1])

RowsBacked ==
  \A n \in DOMAIN builds : \A d \in builds[n] : \E k \in Holders(d, leases) :
    Backs(k, d) /\ leases[k].first <= n /\ n <= leases[k].last

IInv ==
  /\ TypeOK
  /\ Sound(leases)
  /\ Dated
  /\ Dense
  /\ JobShape
  /\ JobsOK
  /\ RowsBacked
  /\ RowsKeepMeaning

-----------------------------------------------------------------------------
(* Rows and their symbols.                                                 *)

\* The parts of a declaration.
LEMMA Declared ==
  ASSUME NEW d \in Declaration
  PROVE  /\ d[1] \in Package /\ d[2] \in Authored
         /\ d = <<d[1], d[2]>>
         /\ d[2].table \in Table /\ d[2].row \in Row /\ d[2].area \in Area \cup {None}
         /\ d[2] = [table |-> d[2].table, area |-> d[2].area, row |-> d[2].row]
         /\ d[2].table = "transform" => d[2].area = None
         /\ d[2].table = "floor" => d[2].area \in Area
         /\ StockRow[d[2].table] \subseteq Row /\ Replaces[d[1]] \subseteq Package
         /\ None \notin Position \cup Area \cup Row
  BY WorldMapAssumption DEF Declaration, Authored, Table

\* A requested symbol is one of the table's, and tells declarations apart.
LEMMA RequestedKey ==
  ASSUME NEW d \in Declaration
  PROVE  /\ Requested(d) \in Key
         /\ Requested(d).package = d[1] /\ Requested(d).table = d[2].table
         /\ Requested(d).symbol = CanonicalSymbol(d[2])
         /\ \A e \in Declaration : Requested(d) = Requested(e) => d = e
<1>1. CanonicalSymbol(d[2]) \in Symbol
  BY Declared DEF CanonicalSymbol, Symbol
<1>2. \A e \in Declaration : Requested(d) = Requested(e) => d = e
  BY Declared DEF Requested, CanonicalSymbol
<1> QED BY <1>1, <1>2, Declared DEF Requested, Key

\* The identity of a symbol, part by part.
LEMMA IdentityOf ==
  ASSUME NEW at, NEW area, NEW r, NEW row
  PROVE  CanonicalIdentity([at |-> at, area |-> area, row |-> r], row)
           = [at |-> None, area |-> area,
              row |-> IF area = None /\ r = None THEN row ELSE r]
  BY DEF CanonicalIdentity

\* A canonical symbol is its own identity.
LEMMA CanonicalIsIdentity ==
  ASSUME NEW d \in Declaration
  PROVE  CanonicalIdentity(CanonicalSymbol(d[2]), d[2].row) = CanonicalSymbol(d[2])
<1>1. d[2].row # None
  BY Declared
<1>2. CanonicalIdentity([at |-> None, area |-> d[2].area, row |-> d[2].row], d[2].row)
        = [at |-> None, area |-> d[2].area, row |-> d[2].row]
  BY <1>1, IdentityOf
<1> QED BY <1>2 DEF CanonicalSymbol

\* Symbols of the same row belong to the same authored row.
LEMMA IdentityIsTheRow ==
  ASSUME NEW d \in Declaration, NEW e \in Declaration, NEW symbol,
         d[2].table = e[2].table, d[2].row = e[2].row, d[1] = e[1],
         SameRow(symbol, d[2].row, CanonicalSymbol(d[2]), d[2].row),
         SameRow(symbol, d[2].row, CanonicalSymbol(e[2]), e[2].row)
  PROVE  d = e
<1>1. CanonicalIdentity(CanonicalSymbol(d[2]), d[2].row) = CanonicalSymbol(d[2])
  BY CanonicalIsIdentity
<1>2. CanonicalIdentity(CanonicalSymbol(e[2]), e[2].row) = CanonicalSymbol(e[2])
  BY CanonicalIsIdentity
<1>3. CanonicalSymbol(d[2]) = CanonicalSymbol(e[2])
  BY <1>1, <1>2 DEF SameRow
<1>4. d[2].area = e[2].area
  BY <1>3 DEF CanonicalSymbol
<1> QED BY <1>4, Declared

\* A canonical symbol is of the same row as itself.
LEMMA CanonicalIsSameRow ==
  ASSUME NEW d \in Declaration
  PROVE  SameRow(CanonicalSymbol(d[2]), d[2].row, CanonicalSymbol(d[2]), d[2].row)
  BY DEF SameRow

\* A symbol of a lease is of the row the lease stands for.
LEMMA LeasedSymbolIsSameRow ==
  ASSUME NEW table, Sound(table), NEW k \in DOMAIN table
  PROVE  /\ <<k.package, AuthoredRow(k, table)>> \in Declaration
         /\ k \in Holders(<<k.package, AuthoredRow(k, table)>>, table)
         /\ SameRow(k.symbol, table[k].row,
                    CanonicalSymbol(AuthoredRow(k, table)), table[k].row)
<1> DEFINE a == AuthoredRow(k, table)
<1>1. a \in Authored /\ k.package \in Package /\ a.row = table[k].row /\ a.table = k.table
  BY DEF Sound, WellFormed, IsLeaseTable, Key, AuthoredRow
<1>2. <<k.package, a>> \in Declaration
  BY <1>1 DEF Declaration
<1>3. a.row # None /\ (a.table = "floor" => a.area # None)
  BY <1>2, Declared
<1>4. a.table = "transform" => a.area = None
  BY <1>2, Declared
<1>5. a.table \in {"floor", "transform"}
  BY <1>2, Declared DEF Table
<1>6. k \in Holders(<<k.package, a>>, table)
  BY <1>1 DEF Holders
<1>7. SameRow(k.symbol, table[k].row, CanonicalSymbol(a), table[k].row)
  <2>1. CASE k.symbol = CanonicalSymbol(a)
    BY <2>1 DEF SameRow
  <2>2. CASE \E p \in Position : k.symbol = HistoricalSymbol(a, p)
    <3>1. CanonicalIdentity(CanonicalSymbol(a), a.row) = [at |-> None, area |-> a.area, row |-> a.row]
      BY <1>2, CanonicalIsIdentity DEF CanonicalSymbol
    <3>2. PICK p \in Position :
            k.symbol = [at |-> p, area |-> a.area,
                        row |-> IF a.table = "floor" THEN a.row ELSE None]
      BY <2>2 DEF HistoricalSymbol
    <3>3. CanonicalIdentity(k.symbol, a.row) = [at |-> None, area |-> a.area, row |-> a.row]
      <4>1. CASE a.table = "floor"
        BY <3>2, <4>1, <1>3, IdentityOf
      <4>2. CASE a.table = "transform"
        BY <3>2, <4>2, <1>3, <1>4, IdentityOf
      <4> QED BY <4>1, <4>2, <1>5
    <3> QED BY <3>1, <3>3, <1>1 DEF SameRow
  <2>3. k.symbol = CanonicalSymbol(a) \/ \E p \in Position : k.symbol = HistoricalSymbol(a, p)
    BY DEF Sound, WellFormed
  <2> QED BY <2>1, <2>2, <2>3
<1> QED BY <1>2, <1>6, <1>7

-----------------------------------------------------------------------------
(* The plan of one row.                                                    *)

\* A row has one holder at most, and a relocated or inherited row is its.
LEMMA OneHolder ==
  ASSUME NEW table, Sound(table), NEW d \in Declaration,
         NEW k \in Holders(d, table)
  PROVE  /\ Holders(d, table) = {k}
         /\ k \in DOMAIN table /\ k \in Key /\ table[k] \in Lease
         /\ k.table = d[2].table /\ table[k].row = d[2].row
  BY DEF Sound, IsLeaseTable, UniqueRows, Holders

\* A row of a granted request is held by nobody, by the request's own lease, by
\* a lease of the same row of its package, or by a replaced package.
LEMMA GrantedHolder ==
  ASSUME NEW table, Sound(table), NEW d \in Declaration, Granted(d, table),
         NEW k \in Holders(d, table)
  PROVE  \/ Retained(d, table) /\ k = Requested(d)
         \/ Relocates(d, table) /\ k = PlannedKey(d, table) /\ k \in Relocations(d, table)
         \/ ~Retained(d, table) /\ ~Relocates(d, table) /\ k \in Predecessors(d, table)
<1>0. Holders(d, table) = {k}
  BY OneHolder
<1>1. CASE Retained(d, table)
  <2>1. Requested(d) \in Holders(d, table)
    BY <1>1, RequestedKey DEF Granted, Retained, Holders
  <2> QED BY <2>1, <1>0, <1>1
<1>2. CASE ~Retained(d, table) /\ Predecessors(d, table) # {}
  BY <1>0, <1>2 DEF Predecessors, Relocates
<1>3. CASE ~Retained(d, table) /\ Predecessors(d, table) = {}
  <2>1. Relocations(d, table) # {}
    BY <1>0, <1>3 DEF Granted
  <2>2. Relocations(d, table) = {k}
    BY <2>1, <1>0 DEF Relocations
  <2>3. Relocates(d, table)
    BY <2>1, <1>3 DEF Relocates
  <2>4. PlannedKey(d, table) = k
    BY <2>2, <2>3 DEF PlannedKey
  <2> QED BY <2>2, <2>3, <2>4
<1> QED BY <1>1, <1>2, <1>3

\* What a granted request is planned under.
LEMMA PlannedKeyOf ==
  ASSUME NEW table, Sound(table), NEW d \in Declaration, Granted(d, table)
  PROVE  LET k == PlannedKey(d, table)
         IN  /\ k \in Key /\ k.package = d[1] /\ k.table = d[2].table
             /\ k \in DOMAIN table => k \in Holders(d, table)
             /\ k \notin DOMAIN table => k = Requested(d)
                  /\ \A l \in Holders(d, table) : l.package \in Replaces[d[1]]
             /\ SameRow(k.symbol, d[2].row, CanonicalSymbol(d[2]), d[2].row)
<1> DEFINE k == PlannedKey(d, table)
<1>1. CASE Relocates(d, table)
  <2>1. k \in Relocations(d, table)
    BY <1>1 DEF PlannedKey, Relocates
  <2>2. k \in Holders(d, table) /\ k.package = d[1]
        /\ SameRow(k.symbol, table[k].row, CanonicalSymbol(d[2]), d[2].row)
    BY <2>1 DEF Relocations
  <2> QED BY <2>2, OneHolder
<1>2. CASE ~Relocates(d, table)
  <2>1. k = Requested(d)
    BY <1>2 DEF PlannedKey
  <2>2. k \in DOMAIN table => k \in Holders(d, table)
    BY <2>1, RequestedKey DEF Granted, Retained, Holders
  <2>3. k \notin DOMAIN table => \A l \in Holders(d, table) : l.package \in Replaces[d[1]]
    BY <2>1, <1>2, GrantedHolder DEF Retained, Predecessors
  <2> QED BY <2>1, <2>2, <2>3, RequestedKey, CanonicalIsSameRow
<1> QED BY <1>1, <1>2

\* What it is planned as.
LEMMA PlannedLeaseOf ==
  ASSUME NEW table, Sound(table), NEW d \in Declaration, NEW n \in 0 .. MaxBuild
  PROVE  /\ PlannedLease(d, table, n) \in Lease
         /\ PlannedLease(d, table, n).row = d[2].row
         /\ PlannedLease(d, table, n).last = n
         /\ Holders(d, table) = {} => PlannedLease(d, table, n).first = n
         /\ \A k \in Holders(d, table) :
              /\ PlannedLease(d, table, n) = [table[k] EXCEPT !.last = n]
              /\ PlannedLease(d, table, n).first = table[k].first
<1>1. CASE Holders(d, table) = {}
  BY <1>1, Declared DEF PlannedLease, Lease
<1>2. CASE Holders(d, table) # {}
  <2>1. PICK k \in Holders(d, table) : TRUE
    BY <1>2
  <2>2. Holders(d, table) = {k} /\ table[k] \in Lease /\ table[k].row = d[2].row
    BY <2>1, OneHolder
  <2>3. PlannedLease(d, table, n) = [table[k] EXCEPT !.last = n]
    BY <2>2 DEF PlannedLease
  <2>4. /\ [table[k] EXCEPT !.last = n] \in Lease
        /\ [table[k] EXCEPT !.last = n].row = table[k].row
        /\ [table[k] EXCEPT !.last = n].first = table[k].first
        /\ [table[k] EXCEPT !.last = n].last = n
    BY <2>2 DEF Lease
  <2> QED BY <2>2, <2>3, <2>4
<1> QED BY <1>1, <1>2

\* No two requests of a plan share a row or a key.
LEMMA KeysTellApart ==
  ASSUME NEW table, Sound(table), NEW want, want \subseteq Declaration,
         Plannable(want, table), NEW d \in want, NEW e \in want,
         PlannedKey(d, table) = PlannedKey(e, table)
  PROVE  d = e
<1>1. Granted(d, table) /\ Granted(e, table) /\ d \in Declaration /\ e \in Declaration
  BY DEF Plannable
<1> DEFINE k == PlannedKey(d, table)
<1>2. CASE k \in DOMAIN table
  <2>1. k \in Holders(d, table) /\ k \in Holders(e, table)
    BY <1>1, <1>2, PlannedKeyOf
  <2>2. d[2].table = e[2].table /\ d[2].row = e[2].row
    BY <2>1 DEF Holders
  <2> QED BY <2>2 DEF Plannable, ClaimedOnce
<1>3. CASE k \notin DOMAIN table
  <2>1. k = Requested(d) /\ k = Requested(e)
    BY <1>1, <1>3, PlannedKeyOf
  <2> QED BY <2>1, <1>1, RequestedKey
<1> QED BY <1>2, <1>3

\* The rows of a plan are the planned leases of its requests.
LEMMA PlanRowsOf ==
  ASSUME NEW table, Sound(table), NEW want, want \subseteq Declaration,
         Plannable(want, table), NEW n \in 0 .. MaxBuild
  PROVE  LET plan == PlanFixed(want, table, n)
         IN  /\ IsLeaseTable(plan)
             /\ DOMAIN plan = {PlannedKey(d, table) : d \in want}
             /\ \A d \in want : plan[PlannedKey(d, table)] = PlannedLease(d, table, n)
<1> DEFINE plan == PlanFixed(want, table, n)
<1>1. DOMAIN plan = {PlannedKey(d, table) : d \in want}
  BY DEF PlanFixed
<1>2. ASSUME NEW d \in want
      PROVE  plan[PlannedKey(d, table)] = PlannedLease(d, table, n)
  <2>1. d = CHOOSE e \in want : PlannedKey(e, table) = PlannedKey(d, table)
    BY KeysTellApart
  <2>2. PlannedKey(d, table) \in DOMAIN plan
    BY <1>1
  <2> QED BY <2>1, <2>2 DEF PlanFixed
<1>3. ASSUME NEW d \in want
      PROVE  PlannedKey(d, table) \in Key /\ PlannedLease(d, table, n) \in Lease
  <2>1. d \in Declaration /\ Granted(d, table)
    BY DEF Plannable
  <2> QED BY <2>1, PlannedKeyOf, PlannedLeaseOf
<1>4. IsLeaseTable(plan)
  BY <1>1, <1>2, <1>3 DEF IsLeaseTable
<1> QED BY <1>1, <1>2, <1>4

-----------------------------------------------------------------------------
(* A plan of the present leases, and what its commit leaves.               *)

Fits(want, plan, n) ==
  /\ want \subseteq Declaration
  /\ n \in 1 .. MaxBuild
  /\ Plannable(want, leases)
  /\ plan = PlanFixed(want, leases, n)

\* The row of a request.
LEMMA RowOfRequest ==
  ASSUME Sound(leases), NEW want, NEW plan, NEW n, Fits(want, plan, n), NEW d \in want
  PROVE  /\ PlannedKey(d, leases) \in DOMAIN plan
         /\ plan[PlannedKey(d, leases)] = PlannedLease(d, leases, n)
<1>1. n \in 0 .. MaxBuild
  BY WorldMapAssumption DEF Fits
<1>2. want \subseteq Declaration /\ Plannable(want, leases) /\ plan = PlanFixed(want, leases, n)
  BY DEF Fits
<1>3. /\ DOMAIN plan = {PlannedKey(e, leases) : e \in want}
      /\ \A e \in want : plan[PlannedKey(e, leases)] = PlannedLease(e, leases, n)
  BY <1>1, <1>2, PlanRowsOf
<1> QED BY <1>3

\* The request behind a planned row.
LEMMA RequestOf ==
  ASSUME Sound(leases), NEW want, NEW plan, NEW n, Fits(want, plan, n),
         NEW k \in DOMAIN plan
  PROVE  \E d \in want :
           /\ d \in Declaration /\ Granted(d, leases)
           /\ k = PlannedKey(d, leases) /\ k \in Key
           /\ k.package = d[1] /\ k.table = d[2].table
           /\ plan[k] = PlannedLease(d, leases, n)
           /\ plan[k] \in Lease /\ plan[k].row = d[2].row /\ plan[k].last = n
           /\ OwnersOf(k, plan) = Holders(d, leases)
<1>1. n \in 0 .. MaxBuild /\ n \in Nat
  BY WorldMapAssumption DEF Fits
<1>2. PICK d \in want : k = PlannedKey(d, leases) /\ plan[k] = PlannedLease(d, leases, n)
  <2>1. PICK d \in want : k = PlannedKey(d, leases)
    BY DEF Fits, PlanFixed
  <2> QED BY <2>1, RowOfRequest
<1>3. d \in Declaration /\ Granted(d, leases)
  BY DEF Fits, Plannable
<1>4. k \in Key /\ k.package = d[1] /\ k.table = d[2].table
  BY <1>2, <1>3, PlannedKeyOf
<1>5. plan[k] \in Lease /\ plan[k].row = d[2].row /\ plan[k].last = n
  BY <1>1, <1>2, <1>3, PlannedLeaseOf
<1>6. OwnersOf(k, plan) = Holders(d, leases)
  BY <1>4, <1>5 DEF OwnersOf, Holders
<1> QED BY <1>2, <1>3, <1>4, <1>5, <1>6

\* CommitComposed refuses nothing of a plan of the present leases.
LEMMA FittingPlanCommits ==
  ASSUME Sound(leases), NEW want, NEW plan, NEW n, Fits(want, plan, n)
  PROVE  StillPlanned(plan) /\ KeysFree(plan)
<1>1. ASSUME NEW k \in DOMAIN plan
      PROVE  IF k \in DOMAIN leases THEN leases[k].row = plan[k].row
             ELSE \A l \in OwnersOf(k, plan) : l.package \in Replaces[k.package]
  <2>1. PICK d \in want :
          /\ d \in Declaration /\ Granted(d, leases)
          /\ k = PlannedKey(d, leases) /\ k.package = d[1]
          /\ plan[k].row = d[2].row
          /\ OwnersOf(k, plan) = Holders(d, leases)
    BY RequestOf
  <2>2. k \in DOMAIN leases => k \in Holders(d, leases)
    BY <2>1, PlannedKeyOf
  <2>3. k \notin DOMAIN leases => \A l \in Holders(d, leases) : l.package \in Replaces[d[1]]
    BY <2>1, PlannedKeyOf
  <2> QED BY <2>1, <2>2, <2>3 DEF Holders
<1>2. ASSUME NEW k \in DOMAIN plan, NEW l \in DOMAIN plan,
             k.table = l.table, plan[k].row = plan[l].row
      PROVE  k = l
  <2>1. PICK d \in want : k = PlannedKey(d, leases) /\ k.table = d[2].table
                          /\ plan[k].row = d[2].row
    BY RequestOf
  <2>2. PICK e \in want : l = PlannedKey(e, leases) /\ l.table = e[2].table
                          /\ plan[l].row = e[2].row
    BY RequestOf
  <2>3. d = e
    BY <2>1, <2>2, <1>2 DEF Fits, Plannable, ClaimedOnce
  <2> QED BY <2>1, <2>2, <2>3
<1> QED BY <1>1, <1>2 DEF StillPlanned, KeysFree

\* The leases after a commit.
LEMMA CommittedRow ==
  ASSUME Sound(leases), NEW want, NEW plan, NEW n, Fits(want, plan, n),
         NEW k \in DOMAIN plan
  PROVE  Committed(plan, n)[k] = plan[k]
<1>1. plan[k] \in Lease /\ plan[k].last = n
  BY RequestOf
<1>2. [plan[k] EXCEPT !.last = n] = plan[k]
  BY <1>1 DEF Lease
<1> QED BY <1>2 DEF Committed

LEMMA OtherRow ==
  ASSUME NEW plan, NEW n
  PROVE  /\ DOMAIN Committed(plan, n) = (DOMAIN leases \ Moved(plan)) \cup DOMAIN plan
         /\ \A k \in DOMAIN Committed(plan, n) \ DOMAIN plan :
              Committed(plan, n)[k] = leases[k]
  BY DEF Committed

\* A planned row that is held keeps its holder's lease but for the last build.
LEMMA PlannedHolder ==
  ASSUME Sound(leases), NEW want, NEW plan, NEW n, Fits(want, plan, n),
         NEW k \in DOMAIN plan, NEW l \in OwnersOf(k, plan)
  PROVE  plan[k] = [leases[l] EXCEPT !.last = n] /\ l.table = k.table
<1>1. PICK d \in want :
        /\ d \in Declaration /\ plan[k] = PlannedLease(d, leases, n)
        /\ OwnersOf(k, plan) = Holders(d, leases)
  BY RequestOf
<1>2. n \in 0 .. MaxBuild
  BY WorldMapAssumption DEF Fits
<1>3. plan[k] = [leases[l] EXCEPT !.last = n]
  BY <1>1, <1>2, PlannedLeaseOf
<1> QED BY <1>3 DEF OwnersOf

\* What becomes of a lease in a commit: it stays, or a successor takes it over.
LEMMA LeaseAfter ==
  ASSUME Sound(leases), NEW want, NEW plan, NEW n, Fits(want, plan, n),
         NEW T, T = Committed(plan, n), NEW k \in DOMAIN leases
  PROVE  \E l \in DOMAIN T :
           /\ l.table = k.table
           /\ T[l] = [leases[k] EXCEPT !.last = T[l].last]
           /\ T[l].last \in {n, leases[k].last}
           /\ \/ l = k
              \/ /\ l \notin DOMAIN leases /\ k \notin DOMAIN T
                 /\ k.package \in Replaces[l.package] /\ l.symbol.at = None
<1>a. /\ DOMAIN T = (DOMAIN leases \ Moved(plan)) \cup DOMAIN plan
      /\ \A l \in DOMAIN T \ DOMAIN plan : T[l] = leases[l]
  BY OtherRow
<1>b. \A l \in DOMAIN plan : T[l] = plan[l]
  BY CommittedRow
<1>0. leases[k] \in Lease /\ leases[k] = [leases[k] EXCEPT !.last = leases[k].last]
      /\ [leases[k] EXCEPT !.last = n].last = n
  BY DEF Sound, IsLeaseTable, Lease
<1>1. CASE k \in DOMAIN plan
  <2>1. k \in OwnersOf(k, plan)
    BY <1>1, FittingPlanCommits DEF StillPlanned, OwnersOf
  <2>2. T[k] = [leases[k] EXCEPT !.last = n] /\ k \in DOMAIN T
    BY <1>1, <2>1, <1>a, <1>b, PlannedHolder
  <2> QED BY <2>2, <1>0
<1>2. CASE k \notin DOMAIN plan /\ k \notin Moved(plan)
  <2>1. T[k] = leases[k] /\ k \in DOMAIN T
    BY <1>2, <1>a
  <2> QED BY <2>1, <1>0
<1>3. CASE k \notin DOMAIN plan /\ k \in Moved(plan)
  <2>1. PICK l \in DOMAIN plan : l \notin DOMAIN leases /\ k \in OwnersOf(l, plan)
    BY <1>3 DEF Moved, Movers
  <2>2. k \notin DOMAIN T /\ l \in DOMAIN T /\ T[l] = plan[l]
    BY <1>3, <2>1, <1>a, <1>b
  <2>3. T[l] = [leases[k] EXCEPT !.last = n] /\ k.table = l.table
    BY <2>1, <2>2, PlannedHolder
  <2>4. k.package \in Replaces[l.package]
    BY <2>1, FittingPlanCommits DEF StillPlanned
  <2>5. l.symbol.at = None
    <3>1. PICK d \in want :
            d \in Declaration /\ Granted(d, leases) /\ l = PlannedKey(d, leases)
      BY RequestOf
    <3>2. l = Requested(d)
      BY <3>1, <2>1, PlannedKeyOf
    <3> QED BY <3>2 DEF Requested, CanonicalSymbol
  <2> QED BY <2>1, <2>2, <2>3, <2>4, <2>5, <1>0
<1> QED BY <1>1, <1>2, <1>3

\* A commit leaves one lease a row, each under a symbol of its row.
LEMMA CommittedIsSound ==
  ASSUME Sound(leases), NEW want, NEW plan, NEW n, Fits(want, plan, n),
         NEW T, T = Committed(plan, n)
  PROVE  Sound(T)
<1>a. /\ DOMAIN T = (DOMAIN leases \ Moved(plan)) \cup DOMAIN plan
      /\ \A l \in DOMAIN T \ DOMAIN plan : T[l] = leases[l]
  BY OtherRow
<1>b. \A l \in DOMAIN plan : T[l] = plan[l]
  BY CommittedRow
<1>c. /\ DOMAIN leases \subseteq Key
      /\ \A k \in DOMAIN leases : leases[k] \in Lease
  BY DEF Sound, IsLeaseTable
<1>1. IsLeaseTable(T)
  <2>1. \A k \in DOMAIN plan : k \in Key /\ plan[k] \in Lease
    BY RequestOf
  <2> QED BY <2>1, <1>a, <1>b, <1>c DEF IsLeaseTable
<1>2. UniqueRows(T)
  <2>1. ASSUME NEW k \in DOMAIN T \ DOMAIN plan, NEW l \in DOMAIN plan,
               k.table = l.table, leases[k].row = plan[l].row
        PROVE  FALSE
    <3>1. k \in DOMAIN leases /\ k \notin Moved(plan) /\ k \in OwnersOf(l, plan)
      BY <1>a, <2>1 DEF OwnersOf
    <3>2. CASE l \in DOMAIN leases
      <4>1. leases[l].row = plan[l].row
        BY <3>2, FittingPlanCommits DEF StillPlanned
      <4> QED BY <4>1, <3>1, <3>2, <2>1 DEF Sound, UniqueRows
    <3>3. CASE l \notin DOMAIN leases
      BY <3>1, <3>3 DEF Moved, Movers
    <3> QED BY <3>2, <3>3
  <2>2. ASSUME NEW k \in DOMAIN T, NEW l \in DOMAIN T,
               k.table = l.table, T[k].row = T[l].row
        PROVE  k = l
    <3>1. CASE k \in DOMAIN plan /\ l \in DOMAIN plan
      BY <2>2, <3>1, <1>b, FittingPlanCommits DEF KeysFree
    <3>2. CASE k \notin DOMAIN plan /\ l \in DOMAIN plan
      BY <2>2, <3>2, <2>1, <1>a, <1>b
    <3>3. CASE k \in DOMAIN plan /\ l \notin DOMAIN plan
      BY <2>2, <3>3, <2>1, <1>a, <1>b
    <3>4. CASE k \notin DOMAIN plan /\ l \notin DOMAIN plan
      BY <2>2, <3>4, <1>a DEF Sound, UniqueRows
    <3> QED BY <3>1, <3>2, <3>3, <3>4
  <2> QED BY <2>2 DEF UniqueRows
<1>3. WellFormed(T)
  <2>1. ASSUME NEW k \in DOMAIN T, k \in DOMAIN leases, T[k].row = leases[k].row
        PROVE  /\ AuthoredRow(k, T) \in Authored
               /\ T[k].row \notin StockRow[k.table]
               /\ \/ k.symbol = CanonicalSymbol(AuthoredRow(k, T))
                  \/ \E p \in Position : k.symbol = HistoricalSymbol(AuthoredRow(k, T), p)
    <3>1. AuthoredRow(k, T) = AuthoredRow(k, leases)
      BY <2>1 DEF AuthoredRow
    <3> QED BY <2>1, <3>1 DEF Sound, WellFormed
  <2>2. ASSUME NEW k \in DOMAIN T, k \notin DOMAIN leases
        PROVE  /\ AuthoredRow(k, T) \in Authored
               /\ T[k].row \notin StockRow[k.table]
               /\ k.symbol = CanonicalSymbol(AuthoredRow(k, T))
    <3>1. k \in DOMAIN plan
      BY <2>2, <1>a
    <3>2. PICK d \in want :
            /\ d \in Declaration /\ Granted(d, leases) /\ k = PlannedKey(d, leases)
            /\ plan[k].row = d[2].row
      BY <3>1, RequestOf
    <3>3. k = Requested(d) /\ T[k].row = d[2].row
      BY <2>2, <3>1, <3>2, <1>b, PlannedKeyOf
    <3>4. k.table = d[2].table /\ k.symbol = CanonicalSymbol(d[2])
      BY <3>2, <3>3, RequestedKey
    <3>5. k.symbol.area = d[2].area
      BY <3>4 DEF CanonicalSymbol
    <3>6. AuthoredRow(k, T) = d[2]
      BY <3>2, <3>3, <3>4, <3>5, Declared DEF AuthoredRow
    <3> QED BY <3>2, <3>3, <3>4, <3>6, Declared DEF Granted
  <2>3. ASSUME NEW k \in DOMAIN T, k \in DOMAIN leases
        PROVE  T[k].row = leases[k].row
    <3>1. CASE k \in DOMAIN plan
      BY <2>3, <3>1, <1>b, FittingPlanCommits DEF StillPlanned
    <3>2. CASE k \notin DOMAIN plan
      BY <2>3, <3>2, <1>a
    <3> QED BY <3>1, <3>2
  <2> QED BY <2>1, <2>2, <2>3 DEF WellFormed
<1> QED BY <1>1, <1>2, <1>3 DEF Sound

\* Taking over a lease extends descent.
LEMMA DescendsOn ==
  ASSUME NEW p \in Package, NEW q \in Replaces[p], NEW r, q = r \/ Descends(q, r)
  PROVE  Descends(p, r)
<1> SUFFICES ASSUME NEW S \in SUBSET Package, Replaces[p] \subseteq S,
                    \A t \in S : Replaces[t] \subseteq S
             PROVE  r \in S
  BY DEF Descends
<1>1. q \in S /\ Replaces[q] \subseteq S
  OBVIOUS
<1> QED BY <1>1 DEF Descends

\* A recorded row that is backed stays backed.
LEMMA BackedAfter ==
  ASSUME Sound(leases), NEW want, NEW plan, NEW n, Fits(want, plan, n),
         NEW T, T = Committed(plan, n),
         NEW d \in Declaration, NEW k \in Holders(d, leases), Backs(k, d)
  PROVE  \E l \in Holders(d, T) :
           Backs(l, d) /\ T[l].first = leases[k].first /\ T[l].last \in {n, leases[k].last}
<1>1. k \in DOMAIN leases /\ k.table = d[2].table /\ leases[k].row = d[2].row
  BY DEF Holders
<1>2. PICK l \in DOMAIN T :
        /\ l.table = k.table
        /\ T[l] = [leases[k] EXCEPT !.last = T[l].last]
        /\ T[l].last \in {n, leases[k].last}
        /\ \/ l = k
           \/ /\ l \notin DOMAIN leases /\ k \notin DOMAIN T
              /\ k.package \in Replaces[l.package] /\ l.symbol.at = None
  BY <1>1, LeaseAfter
<1>3. leases[k] \in Lease
  BY <1>1 DEF Sound, IsLeaseTable
<1>4. T[l].row = leases[k].row /\ T[l].first = leases[k].first
  BY <1>2, <1>3 DEF Lease
<1>5. l \in Holders(d, T)
  BY <1>1, <1>2, <1>4 DEF Holders
<1>6. Backs(l, d)
  <2>1. CASE l = k
    BY <2>1
  <2>2. CASE k.package \in Replaces[l.package]
    <3>1. l.package \in Package
      BY <1>2, CommittedIsSound DEF Sound, IsLeaseTable, Key
    <3>2. k.package = d[1] \/ Descends(k.package, d[1])
      BY DEF Backs
    <3> QED BY <3>1, <3>2, <2>2, DescendsOn DEF Backs
  <2> QED BY <2>1, <2>2, <1>2
<1> QED BY <1>2, <1>4, <1>5, <1>6

\* A declared row that a lease of its own package or of an ancestor backs is
\* the row that was declared before, or belongs to a successor.
LEMMA GrantedMeaning ==
  ASSUME Sound(leases), NEW d \in Declaration, NEW e \in Declaration,
         Granted(e, leases), d[2].table = e[2].table, d[2].row = e[2].row,
         NEW k \in Holders(d, leases), Backs(k, d)
  PROVE  d = e \/ Descends(e[1], d[1])
<1>1. k \in Holders(e, leases) /\ leases[k].row = d[2].row
  BY DEF Holders
<1>2. CASE k \in Predecessors(e, leases)
  BY <1>2, DescendsOn DEF Predecessors, Backs, Declaration
<1>3. CASE Retained(e, leases) /\ k = Requested(e)
  <2>1. k.package = e[1]
    BY <1>3, RequestedKey
  <2>2. SameRow(k.symbol, d[2].row, CanonicalSymbol(e[2]), d[2].row)
    BY <1>3, RequestedKey, CanonicalIsSameRow
  <2>3. CASE k.package = d[1] /\ SameRow(k.symbol, d[2].row, CanonicalSymbol(d[2]), d[2].row)
    BY <2>1, <2>2, <2>3, IdentityIsTheRow
  <2> QED BY <2>1, <2>3 DEF Backs
<1>4. CASE k \in Relocations(e, leases)
  <2>1. k.package = e[1] /\ SameRow(k.symbol, d[2].row, CanonicalSymbol(e[2]), d[2].row)
    BY <1>1, <1>4 DEF Relocations
  <2>2. CASE k.package = d[1] /\ SameRow(k.symbol, d[2].row, CanonicalSymbol(d[2]), d[2].row)
    BY <2>1, <2>2, IdentityIsTheRow
  <2> QED BY <2>1, <2>2 DEF Backs
<1> QED BY <1>1, <1>2, <1>3, <1>4, GrantedHolder

-----------------------------------------------------------------------------
(* The invariant.                                                          *)

LEMMA InitIInv == Init => IInv
<1> SUFFICES ASSUME Init PROVE IInv
  OBVIOUS
<1>1. Sound(leases)
  <2>1. IsLeaseTable(leases) /\ UniqueRows(leases)
    BY WorldMapAssumption DEF Init, UniqueRows
  <2>2. ASSUME NEW k \in DOMAIN leases
        PROVE  /\ AuthoredRow(k, leases) \in Authored
               /\ leases[k].row \notin StockRow[k.table]
               /\ \E p \in Position : k.symbol = HistoricalSymbol(AuthoredRow(k, leases), p)
    <3>1. PICK a \in Authored, p \in Position :
            /\ a.table = k.table /\ a.row = leases[k].row
            /\ a.row \notin StockRow[a.table] /\ k.symbol = HistoricalSymbol(a, p)
      BY WorldMapAssumption DEF Init
    <3>2. k.symbol.area = a.area
      BY <3>1 DEF HistoricalSymbol
    <3>3. AuthoredRow(k, leases) = a
      BY <3>1, <3>2 DEF AuthoredRow, Authored
    <3> QED BY <3>1, <3>3
  <2> QED BY <2>1, <2>2 DEF Sound, WellFormed
<1>2. Dated
  BY WorldMapAssumption DEF Init, Dated
<1>3. DOMAIN builds = {}
  BY DEF Init
<1>4. Dense
  <2>1. 1 .. 0 = {}
    OBVIOUS
  <2> QED BY <1>3, <2>1 DEF Dense
<1>5. \A s \in Server : job[s] = NoJob
  BY DEF Init
<1>6. JobShape /\ JobsOK
  BY <1>5 DEF Init, JobShape, JobsOK, NoJob
<1>7. RowsBacked /\ RowsKeepMeaning
  BY <1>3 DEF RowsBacked, RowsKeepMeaning
<1>8. TypeOK
  <2>1. IsLeaseTable([k \in {} |-> k])
    BY DEF IsLeaseTable
  <2>2. 0 \in 0 .. MaxBuild
    BY WorldMapAssumption
  <2> QED BY <1>1, <1>3, <1>5, <2>1, <2>2 DEF TypeOK, Sound, NoJob
<1> QED BY <1>1, <1>2, <1>4, <1>6, <1>7, <1>8 DEF IInv

\* A job whose number is free has a plan of the present leases.
LEMMA FreeJobFits ==
  ASSUME IInv, NEW s \in Server, job[s].stage # "idle", NumberFree(job[s])
  PROVE  Fits(job[s].want, job[s].plan, job[s].number)
  BY DEF IInv, TypeOK, JobsOK, Fits

\* The next number is the one after the last.
LEMMA NextIsLastPlusOne ==
  ASSUME Dense
  PROVE  NextNumber \in Nat \ {0} /\ DOMAIN builds = 1 .. (NextNumber - 1)
<1>1. PICK n \in Nat : DOMAIN builds = 1 .. n
  BY DEF Dense
<1>2. CASE n = 0
  BY <1>1, <1>2 DEF NextNumber
<1>3. CASE n > 0
  <2>1. n \in DOMAIN builds /\ \A m \in DOMAIN builds : m <= n
    BY <1>1, <1>3
  <2>2. ASSUME NEW i \in DOMAIN builds, \A m \in DOMAIN builds : m <= i
        PROVE  i = n
    BY <1>1, <2>1, <2>2
  <2>3. n = CHOOSE i \in DOMAIN builds : \A m \in DOMAIN builds : m <= i
    BY <2>1, <2>2
  <2>4. NextNumber = 1 + n
    BY <2>1, <2>3 DEF NextNumber
  <2> QED BY <1>1, <2>4
<1> QED BY <1>1, <1>2, <1>3

\* What the planner grants the composer takes.
LEMMA PlannableComposes ==
  ASSUME NEW want, NEW table, Plannable(want, table)
  PROVE  Composable(want)
  BY DEF Plannable, ClaimedOnce, Granted, Composable

\* A step of a server that writes no table keeps all but its own job.
LEMMA JobStep ==
  ASSUME IInv, NEW s \in Server, UNCHANGED <<leases, builds>>,
         NEW stage \in {"idle", "planned", "composed"}, NEW number \in 0 .. MaxBuild,
         NEW want \in SUBSET Declaration, NEW plan, IsLeaseTable(plan),
         job' = [job EXCEPT ![s] = [stage |-> stage, number |-> number,
                                    want |-> want, plan |-> plan]],
         stage # "idle" =>
           /\ number \in 1 .. MaxBuild
           /\ Composable(want)
           /\ number \notin DOMAIN builds =>
                /\ DOMAIN builds = 1 .. (number - 1)
                /\ Plannable(want, leases)
                /\ plan = PlanFixed(want, leases, number)
  PROVE  IInv'
<1> DEFINE c == [stage |-> stage, number |-> number, want |-> want, plan |-> plan]
<1>1. job'[s] = c /\ DOMAIN job' = Server /\ \A t \in Server \ {s} : job'[t] = job[t]
  BY DEF IInv, JobShape
<1>2. JobShape'
  BY <1>1 DEF IInv, JobShape
<1>3. TypeOK'
  BY <1>1 DEF IInv, TypeOK
<1>4. JobsOK'
  <2>1. ASSUME NEW t \in Server, job'[t].stage # "idle"
        PROVE  /\ job'[t].number \in 1 .. MaxBuild
               /\ Composable(job'[t].want)
               /\ job'[t].number \notin DOMAIN builds =>
                    /\ DOMAIN builds = 1 .. (job'[t].number - 1)
                    /\ Plannable(job'[t].want, leases)
                    /\ job'[t].plan = PlanFixed(job'[t].want, leases, job'[t].number)
    <3>1. CASE t = s
      <4>1. job'[t].stage = stage /\ job'[t].number = number
            /\ job'[t].want = want /\ job'[t].plan = plan
        BY <1>1, <3>1
      <4> QED BY <4>1, <2>1
    <3>2. CASE t # s
      BY <1>1, <2>1, <3>2 DEF IInv, JobsOK, NumberFree
    <3> QED BY <3>1, <3>2
  <2> QED BY <2>1 DEF JobsOK, NumberFree
<1>5. (Sound(leases) /\ Dated /\ Dense /\ RowsBacked /\ RowsKeepMeaning)'
  BY DEF IInv, Sound, IsLeaseTable, UniqueRows, WellFormed, AuthoredRow, Dated, Dense,
         RowsBacked, RowsKeepMeaning, Holders
<1> QED BY <1>2, <1>3, <1>4, <1>5 DEF IInv

LEMMA PlanIInv ==
  ASSUME IInv, NEW s \in Server, NEW want \in Manifests, Plan(s, want)
  PROVE  IInv'
<1> DEFINE n == NextNumber
<1>1. want \in SUBSET Declaration
  BY WorldMapAssumption
<1>2. n \in 1 .. MaxBuild /\ n \in 0 .. MaxBuild /\ DOMAIN builds = 1 .. (n - 1)
  BY NextIsLastPlusOne, WorldMapAssumption DEF IInv, Plan
<1>3. Plannable(want, leases) /\ Composable(want)
  BY PlannableComposes DEF Plan
<1>4. IsLeaseTable(PlanFixed(want, leases, n))
  <2>1. Sound(leases) /\ want \subseteq Declaration
    BY <1>1 DEF IInv
  <2> HIDE DEF n
  <2> QED BY <2>1, <1>2, <1>3, PlanRowsOf
<1>5. job' = [job EXCEPT ![s] = [stage |-> "planned", number |-> n, want |-> want,
                                 plan |-> PlanFixed(want, leases, n)]]
      /\ UNCHANGED <<leases, builds>>
  BY DEF Plan
<1> HIDE DEF n
<1> QED BY <1>1, <1>2, <1>3, <1>4, <1>5, JobStep

LEMMA ComposeIInv ==
  ASSUME IInv, NEW s \in Server, Compose(s)
  PROVE  IInv'
<1>1. job[s].stage = "planned" /\ UNCHANGED <<leases, builds>>
  BY DEF Compose
<1>2. job' = [job EXCEPT ![s] = [stage |-> "composed", number |-> job[s].number,
                                 want |-> job[s].want, plan |-> job[s].plan]]
  <2>1. job[s] = [stage |-> job[s].stage, number |-> job[s].number,
                  want |-> job[s].want, plan |-> job[s].plan]
    BY DEF IInv, JobShape
  <2>2. [job[s] EXCEPT !.stage = "composed"]
          = [stage |-> "composed", number |-> job[s].number,
             want |-> job[s].want, plan |-> job[s].plan]
    BY <2>1
  <2>3. job' = [job EXCEPT ![s] = [job[s] EXCEPT !.stage = "composed"]]
    BY DEF Compose
  <2> QED BY <2>2, <2>3
<1>3. /\ job[s].number \in 0 .. MaxBuild /\ job[s].want \in SUBSET Declaration
      /\ IsLeaseTable(job[s].plan)
  BY DEF IInv, TypeOK
<1>4. /\ job[s].number \in 1 .. MaxBuild
      /\ Composable(job[s].want)
      /\ job[s].number \notin DOMAIN builds =>
           /\ DOMAIN builds = 1 .. (job[s].number - 1)
           /\ Plannable(job[s].want, leases)
           /\ job[s].plan = PlanFixed(job[s].want, leases, job[s].number)
  BY <1>1 DEF IInv, JobsOK, NumberFree
<1> QED BY <1>1, <1>2, <1>3, <1>4, JobStep

LEMMA FailIInv ==
  ASSUME IInv, NEW s \in Server, Fail(s)
  PROVE  IInv'
<1>1. IsLeaseTable([k \in {} |-> k]) /\ 0 \in 0 .. MaxBuild
  BY WorldMapAssumption DEF IsLeaseTable
<1> QED BY <1>1, JobStep DEF Fail, NoJob

\* What a commit does, in terms of the plan it commits.
LEMMA CommitFits ==
  ASSUME IInv, NEW s \in Server, Commit(s)
  PROVE  LET n == job[s].number
             want == job[s].want
             plan == job[s].plan
         IN  /\ Fits(want, plan, n)
             /\ n \in Nat \ {0} /\ n \in 0 .. MaxBuild
             /\ DOMAIN builds = 1 .. (n - 1) /\ DOMAIN builds' = 1 .. n
             /\ builds'[n] = want
             /\ \A m \in DOMAIN builds : builds'[m] = builds[m] /\ m \in DOMAIN builds' /\ m <= n
             /\ leases' = Committed(plan, n)
             /\ job' = [job EXCEPT ![s] = NoJob]
<1> DEFINE n == job[s].number
           want == job[s].want
           plan == job[s].plan
<1>1. job[s].stage = "composed" /\ NumberFree(job[s]) /\ leases' = Committed(plan, n)
      /\ builds' = [m \in DOMAIN builds \cup {n} |-> IF m = n THEN want ELSE builds[m]]
      /\ job' = [job EXCEPT ![s] = NoJob]
  BY DEF Commit
<1>2. Fits(want, plan, n)
  BY <1>1, FreeJobFits
<1>3. n \in 1 .. MaxBuild /\ DOMAIN builds = 1 .. (n - 1)
  BY <1>1 DEF IInv, JobsOK
<1>4. n \in Nat \ {0} /\ n \in 0 .. MaxBuild
  BY <1>3, WorldMapAssumption
<1> HIDE DEF n, want, plan
<1>5. DOMAIN builds \cup {n} = 1 .. n
  BY <1>3, <1>4
<1>6. DOMAIN builds' = 1 .. n /\ builds'[n] = want
  BY <1>1, <1>4, <1>5
<1>7. \A m \in DOMAIN builds : builds'[m] = builds[m] /\ m \in DOMAIN builds' /\ m <= n
  BY <1>1, <1>3, <1>4
<1> QED BY <1>1, <1>2, <1>3, <1>4, <1>6, <1>7 DEF n, want, plan

LEMMA CommitIInv ==
  ASSUME IInv, NEW s \in Server, Commit(s)
  PROVE  IInv'
<1> DEFINE n == job[s].number
           want == job[s].want
           plan == job[s].plan
<1>1. /\ Fits(want, plan, n)
      /\ n \in Nat \ {0} /\ n \in 0 .. MaxBuild
      /\ DOMAIN builds = 1 .. (n - 1) /\ DOMAIN builds' = 1 .. n
      /\ builds'[n] = want
      /\ \A m \in DOMAIN builds : builds'[m] = builds[m] /\ m \in DOMAIN builds' /\ m <= n
      /\ leases' = Committed(plan, n)
  BY CommitFits
<1>2. /\ job'[s] = NoJob /\ DOMAIN job' = Server
      /\ \A t \in Server \ {s} : job'[t] = job[t]
  BY CommitFits DEF IInv, JobShape
<1>3. Sound(leases)
  BY DEF IInv
<1> HIDE DEF n, want, plan
<1>a. DOMAIN leases' = (DOMAIN leases \ Moved(plan)) \cup DOMAIN plan
  BY <1>1, OtherRow
<1>b. \A k \in DOMAIN leases' \ DOMAIN plan : leases'[k] = leases[k]
  BY <1>1 DEF Committed
<1>c. \A k \in DOMAIN plan : leases'[k] = plan[k]
  BY <1>1, <1>3, CommittedRow
<1>4. Sound(leases')
  BY <1>1, <1>3, CommittedIsSound
<1>5. JobShape'
  BY <1>2 DEF IInv, JobShape, NoJob
<1>6. JobsOK'
  <2>1. ASSUME NEW t \in Server, job'[t].stage # "idle"
        PROVE  /\ job'[t].number \in 1 .. MaxBuild
               /\ Composable(job'[t].want)
               /\ job'[t].number \in DOMAIN builds'
    <3>1. t # s /\ job'[t] = job[t]
      BY <1>2, <2>1 DEF NoJob
    <3>2. /\ job[t].number \in 1 .. MaxBuild /\ Composable(job[t].want)
          /\ job[t].number \notin DOMAIN builds => DOMAIN builds = 1 .. (job[t].number - 1)
      BY <3>1, <2>1 DEF IInv, JobsOK, NumberFree
    <3>3. CASE job[t].number \in DOMAIN builds
      BY <1>1, <3>1, <3>2, <3>3
    <3>4. CASE job[t].number \notin DOMAIN builds
      <4>1. job[t].number \in Nat \ {0}
        BY <3>2, WorldMapAssumption
      <4>2. job[t].number = n
        BY <3>2, <3>4, <4>1, <1>1
      <4> QED BY <4>2, <3>1, <3>2, <1>1
    <3> QED BY <3>3, <3>4
  <2> QED BY <2>1 DEF JobsOK, NumberFree
<1>7. TypeOK'
  <2>1. IsLeaseTable(leases')
    BY <1>4 DEF Sound
  <2>2. DOMAIN builds' \subseteq 1 .. MaxBuild
    BY <1>1, WorldMapAssumption
  <2>3. \A m \in DOMAIN builds' : builds'[m] \subseteq Declaration
    <3>1. \A m \in 1 .. n : m = n \/ m \in 1 .. (n - 1)
      BY <1>1
    <3> QED BY <1>1, <3>1 DEF IInv, TypeOK, Fits
  <2>4. IsLeaseTable([k \in {} |-> k]) /\ 0 \in 0 .. MaxBuild
    BY WorldMapAssumption DEF IsLeaseTable
  <2>5. \A t \in Server :
          /\ job'[t].stage \in {"idle", "planned", "composed"}
          /\ job'[t].number \in 0 .. MaxBuild
          /\ job'[t].want \subseteq Declaration
          /\ IsLeaseTable(job'[t].plan)
    <3>1. ASSUME NEW t \in Server, t # s
          PROVE  /\ job'[t].stage \in {"idle", "planned", "composed"}
                 /\ job'[t].number \in 0 .. MaxBuild
                 /\ job'[t].want \subseteq Declaration
                 /\ IsLeaseTable(job'[t].plan)
      BY <1>2, <3>1 DEF IInv, TypeOK
    <3> QED BY <1>2, <3>1, <2>4 DEF NoJob
  <2> QED BY <2>1, <2>2, <2>3, <2>5 DEF TypeOK, IsLeaseTable
<1>8. Dense'
  BY <1>1 DEF Dense
<1>9. Dated'
  <2>1. ASSUME NEW l \in DOMAIN leases'
        PROVE  leases'[l].first \in {0} \cup DOMAIN builds'
    <3>1. CASE l \in DOMAIN plan
      <4>1. PICK d \in want : d \in Declaration /\ plan[l] = PlannedLease(d, leases, n)
        BY <3>1, <1>1, <1>3, RequestOf
      <4>2. leases'[l] = plan[l]
        BY <3>1, <1>c
      <4>3. CASE Holders(d, leases) = {}
        <5>1. plan[l].first = n
          BY <4>1, <4>3, <1>1, <1>3, PlannedLeaseOf
        <5> QED BY <5>1, <4>2, <1>1
      <4>4. CASE Holders(d, leases) # {}
        <5>1. PICK k \in Holders(d, leases) : TRUE
          BY <4>4
        <5>2. plan[l].first = leases[k].first
          BY <4>1, <5>1, <1>1, <1>3, PlannedLeaseOf
        <5>3. leases[k].first \in {0} \cup DOMAIN builds
          BY <5>1 DEF Holders, IInv, Dated
        <5> QED BY <5>2, <5>3, <4>2, <1>1
      <4> QED BY <4>3, <4>4
    <3>2. CASE l \notin DOMAIN plan
      <4>1. l \in DOMAIN leases /\ leases'[l] = leases[l]
        BY <3>2, <1>a, <1>b
      <4> QED BY <4>1, <1>1 DEF IInv, Dated
    <3> QED BY <3>1, <3>2
  <2> QED BY <2>1 DEF Dated
<1>10. RowsBacked'
  <2>1. ASSUME NEW m \in DOMAIN builds', NEW d \in builds'[m]
        PROVE  \E l \in Holders(d, leases') :
                 Backs(l, d) /\ leases'[l].first <= m /\ m <= leases'[l].last
    <3>1. CASE m \in DOMAIN builds
      <4>1. PICK k \in Holders(d, leases) :
              Backs(k, d) /\ leases[k].first <= m /\ m <= leases[k].last
        BY <1>1, <2>1, <3>1 DEF IInv, RowsBacked
      <4>2. d \in Declaration
        BY <1>1, <2>1, <3>1 DEF IInv, TypeOK
      <4>3. PICK l \in Holders(d, leases') :
              /\ Backs(l, d) /\ leases'[l].first = leases[k].first
              /\ leases'[l].last \in {n, leases[k].last}
        BY <4>1, <4>2, <1>1, <1>3, BackedAfter
      <4>4. m <= n
        BY <1>1, <3>1
      <4> QED BY <4>1, <4>3, <4>4
    <3>2. CASE m \notin DOMAIN builds
      <4>1. m = n /\ d \in want
        BY <1>1, <2>1, <3>2
      <4>2. d \in Declaration /\ Granted(d, leases)
        BY <4>1, <1>1 DEF Fits, Plannable
      <4> DEFINE k == PlannedKey(d, leases)
      <4>3. k \in DOMAIN plan /\ plan[k] = PlannedLease(d, leases, n)
        BY <4>1, <1>1, <1>3, RowOfRequest
      <4>4. k.package = d[1] /\ k.table = d[2].table
            /\ SameRow(k.symbol, d[2].row, CanonicalSymbol(d[2]), d[2].row)
        BY <4>2, <1>3, PlannedKeyOf
      <4>5. plan[k].row = d[2].row /\ plan[k].last = n
        BY <4>2, <4>3, <1>1, <1>3, PlannedLeaseOf
      <4>6. k \in DOMAIN leases' /\ leases'[k] = plan[k]
        BY <4>3, <1>a, <1>c
      <4>7. k \in Holders(d, leases') /\ Backs(k, d)
        BY <4>4, <4>5, <4>6 DEF Holders, Backs
      <4>8. leases'[k].first <= n
        BY <4>6, <1>9, <1>1 DEF Dated
      <4> QED BY <4>1, <4>5, <4>6, <4>7, <4>8, <1>1
    <3> QED BY <3>1, <3>2
  <2> QED BY <2>1 DEF RowsBacked, Holders
<1>11. RowsKeepMeaning'
  <2>1. ASSUME NEW m \in DOMAIN builds', NEW i \in DOMAIN builds', m <= i,
               NEW d \in builds'[m], NEW e \in builds'[i],
               d[2].table = e[2].table, d[2].row = e[2].row
        PROVE  d = e \/ Descends(e[1], d[1])
    <3>1. CASE i \in DOMAIN builds
      <4>1. m \in DOMAIN builds
        BY <1>1, <2>1, <3>1
      <4> QED BY <1>1, <2>1, <3>1, <4>1 DEF IInv, RowsKeepMeaning
    <3>2. CASE i \notin DOMAIN builds /\ m \in DOMAIN builds
      <4>1. e \in want /\ d \in builds[m]
        BY <1>1, <2>1, <3>2
      <4>2. PICK k \in Holders(d, leases) : Backs(k, d)
        BY <3>2, <4>1 DEF IInv, RowsBacked
      <4>3. d \in Declaration
        BY <3>2, <4>1 DEF IInv, TypeOK
      <4>4. e \in Declaration /\ Granted(e, leases)
        BY <4>1, <1>1 DEF Fits, Plannable
      <4> QED BY <4>2, <4>3, <4>4, <2>1, <1>3, GrantedMeaning
    <3>3. CASE i \notin DOMAIN builds /\ m \notin DOMAIN builds
      <4>1. d \in want /\ e \in want
        BY <1>1, <2>1, <3>3
      <4> QED BY <4>1, <2>1, <1>1 DEF Fits, Plannable, ClaimedOnce
    <3> QED BY <3>1, <3>2, <3>3
  <2> QED BY <2>1 DEF RowsKeepMeaning
<1>12. Sound(leases)'
  BY <1>4 DEF Sound, IsLeaseTable, UniqueRows, WellFormed, AuthoredRow
<1> QED BY <1>5, <1>6, <1>7, <1>8, <1>9, <1>10, <1>11, <1>12 DEF IInv

LEMMA Inductive == IInv /\ [Next]_vars => IInv'
<1> SUFFICES ASSUME IInv, [Next]_vars PROVE IInv'
  OBVIOUS
<1>1. CASE UNCHANGED vars
  BY <1>1 DEF vars, IInv, TypeOK, IsLeaseTable, Sound, UniqueRows, WellFormed, AuthoredRow,
              Dated, Dense, JobShape, JobsOK, NumberFree, RowsBacked, RowsKeepMeaning,
              Holders
<1>2. ASSUME NEW s \in Server, NEW want \in Manifests, Plan(s, want)
      PROVE  IInv'
  BY <1>2, PlanIInv
<1>3. ASSUME NEW s \in Server, Compose(s)
      PROVE  IInv'
  BY <1>3, ComposeIInv
<1>4. ASSUME NEW s \in Server, Commit(s)
      PROVE  IInv'
  BY <1>4, CommitIInv
<1>5. ASSUME NEW s \in Server, Fail(s)
      PROVE  IInv'
  BY <1>5, FailIInv
<1> QED BY <1>1, <1>2, <1>3, <1>4, <1>5 DEF Next

LEMMA Invariant == Spec => []IInv
  BY InitIInv, Inductive, PTL DEF Spec

-----------------------------------------------------------------------------
(* What follows.                                                           *)

\* The types of the lease table, the builds and the running builds.
THEOREM RowsTypeCorrect == Spec => []TypeOK
<1>1. IInv => TypeOK
  BY DEF IInv
<1> QED BY <1>1, Invariant, PTL

\* WorldMapDbcComposer::Compose refuses no row ID that PlanFixed granted.
THEOREM PlansCompose == Spec => []PlannedComposes
<1>1. IInv => PlannedComposes
  BY DEF IInv, JobsOK, PlannedComposes
<1> QED BY <1>1, Invariant, PTL

\* The checks and keys of CommitComposed refuse no row of a plan whose build
\* number is free.
THEOREM PlansCommit == Spec => []PlannedCommits
<1>1. ASSUME IInv, NEW s \in Server, job[s].stage # "idle", NumberFree(job[s])
      PROVE  StillPlanned(job[s].plan) /\ KeysFree(job[s].plan)
  <2>1. Fits(job[s].want, job[s].plan, job[s].number) /\ Sound(leases)
    BY <1>1, FreeJobFits DEF IInv
  <2> QED BY <2>1, FittingPlanCommits
<1>2. IInv => PlannedCommits
  BY <1>1 DEF PlannedCommits
<1> QED BY <1>2, Invariant, PTL

\* A row ID of a recorded build never comes to mean another row.
THEOREM MeaningEndures == Spec => []RowsKeepMeaning
<1>1. IInv => RowsKeepMeaning
  BY DEF IInv
<1> QED BY <1>1, Invariant, PTL

\* Every row of every recorded build stays leased, once, to its package or to
\* one that descends from it.
THEOREM RowsStayLeased == Spec => []BuildRowsAreLeased
<1>1. ASSUME IInv, NEW n \in DOMAIN builds, NEW d \in builds[n]
      PROVE  \E k \in Holders(d, leases) :
               /\ Holders(d, leases) = {k}
               /\ k.package = d[1] \/ Descends(k.package, d[1])
               /\ leases[k].first <= n /\ n <= leases[k].last
  <2>1. PICK k \in Holders(d, leases) :
          Backs(k, d) /\ leases[k].first <= n /\ n <= leases[k].last
    BY <1>1 DEF IInv, RowsBacked
  <2>2. d \in Declaration /\ Sound(leases)
    BY <1>1 DEF IInv, TypeOK
  <2>3. Holders(d, leases) = {k}
    BY <2>1, <2>2, OneHolder
  <2> QED BY <2>1, <2>3 DEF Backs
<1>2. IInv => BuildRowsAreLeased
  BY <1>1 DEF BuildRowsAreLeased
<1> QED BY <1>2, Invariant, PTL

\* A package is granted every row it already owns, under whatever symbol, but
\* for a number that a package it replaces holds in another table or kind.
THEOREM OwnersRebuild == Spec => []OwnedRowsRebuild
<1>1. ASSUME IInv, NEW k \in DOMAIN leases,
             ~WrongKind(<<k.package, AuthoredRow(k, leases)>>, leases)
      PROVE  Rebuilds(k)
  <2> DEFINE d == <<k.package, AuthoredRow(k, leases)>>
  <2>1. Sound(leases)
    BY <1>1 DEF IInv
  <2>2. /\ d \in Declaration /\ k \in Holders(d, leases)
        /\ SameRow(k.symbol, leases[k].row,
                   CanonicalSymbol(AuthoredRow(k, leases)), leases[k].row)
    BY <2>1, LeasedSymbolIsSameRow
  <2>3. d[1] = k.package /\ d[2] = AuthoredRow(k, leases)
        /\ d[2].table = k.table /\ d[2].row = leases[k].row
    BY DEF AuthoredRow
  <2>4. ~WrongKind(d, leases)
    BY <1>1
  <2> HIDE DEF d
  <2>5. Holders(d, leases) = {k}
    BY <2>1, <2>2, OneHolder
  <2>6. Cardinality({k}) = 1
    BY FS_Singleton
  <2>7. d[2].row \notin StockRow[d[2].table]
    BY <2>1, <2>3 DEF Sound, WellFormed
  <2>8. Relocations(d, leases) = {k}
    BY <2>2, <2>3, <2>5 DEF Relocations
  <2>9. Predecessors(d, leases) # {} => Predecessors(d, leases) = {k}
    BY <2>5 DEF Predecessors
  <2>10. Retained(d, leases) => leases[Requested(d)].row = d[2].row
    <3>1. SUFFICES ASSUME Retained(d, leases) PROVE leases[Requested(d)].row = d[2].row
      OBVIOUS
    <3> DEFINE r == Requested(d)
    <3>2. /\ r \in DOMAIN leases /\ r.symbol = CanonicalSymbol(d[2])
          /\ r.table = d[2].table
      BY <3>1, <2>2, RequestedKey DEF Retained
    <3> HIDE DEF r
    <3>3. r.symbol.at = None /\ r.symbol.row = d[2].row
      BY <3>2 DEF CanonicalSymbol
    <3>4. ~\E p \in Position : r.symbol = HistoricalSymbol(AuthoredRow(r, leases), p)
      <4>1. \A p \in Position : HistoricalSymbol(AuthoredRow(r, leases), p).at = p
        BY DEF HistoricalSymbol
      <4> QED BY <3>3, <4>1, WorldMapAssumption
    <3>5. r.symbol = CanonicalSymbol(AuthoredRow(r, leases))
      BY <3>2, <3>4, <2>1 DEF Sound, WellFormed
    <3>6. r.symbol.row = leases[r].row
      BY <3>5 DEF CanonicalSymbol, AuthoredRow
    <3> QED BY <3>3, <3>6 DEF r
  <2>11. Granted(d, leases)
    BY <2>4, <2>6, <2>7, <2>8, <2>9, <2>10 DEF Granted
  <2> QED BY <2>11 DEF Rebuilds, d
<1>2. IInv => OwnedRowsRebuild
  BY <1>1 DEF OwnedRowsRebuild
<1> QED BY <1>2, Invariant, PTL

\* No step ends a lease, or rewrites its row, its first build or, unless a
\* successor takes it over, its owner and its symbol.
THEOREM LeasesAreReused == Spec => ReusedInPlace
<1> DEFINE Kept ==
      \A k \in DOMAIN leases :
        \/ k \in DOMAIN leases' /\ leases'[k] = [leases[k] EXCEPT !.last = leases'[k].last]
        \/ \E l \in DOMAIN leases' \ DOMAIN leases :
             /\ k \notin DOMAIN leases'
             /\ k.package \in Replaces[l.package] /\ k.table = l.table
             /\ l.symbol.at = None
             /\ leases'[l] = [leases[k] EXCEPT !.last = leases'[l].last]
<1>1. ASSUME IInv, leases' = leases
      PROVE  Kept
  BY <1>1 DEF IInv, TypeOK, IsLeaseTable, Lease
<1>2. ASSUME IInv, NEW s \in Server, Commit(s)
      PROVE  Kept
  <2> DEFINE n == job[s].number
             want == job[s].want
             plan == job[s].plan
  <2>1. Fits(want, plan, n) /\ leases' = Committed(plan, n) /\ Sound(leases)
    BY <1>2, CommitFits DEF IInv
  <2> HIDE DEF n, want, plan
  <2>2. ASSUME NEW k \in DOMAIN leases
        PROVE  \E l \in DOMAIN leases' :
                 /\ l.table = k.table
                 /\ leases'[l] = [leases[k] EXCEPT !.last = leases'[l].last]
                 /\ leases'[l].last \in {n, leases[k].last}
                 /\ \/ l = k
                    \/ /\ l \notin DOMAIN leases /\ k \notin DOMAIN leases'
                       /\ k.package \in Replaces[l.package] /\ l.symbol.at = None
    BY <2>1, LeaseAfter
  <2> QED BY <2>2
<1>3. IInv /\ [Next]_vars => [Kept]_vars
  BY <1>1, <1>2 DEF Next, Plan, Compose, Fail, vars
<1>4. [][IInv /\ [Next]_vars]_vars => [][Kept]_vars
  BY <1>3, PTL
<1> QED BY <1>4, Invariant, PTL DEF Spec, ReusedInPlace

=============================================================================
