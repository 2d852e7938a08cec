----------------------- MODULE BuildAllocation_proofs -----------------------
(***************************************************************************)
(* Proofs about BuildAllocation for any servers, directories, packages,    *)
(* replacements, baselines and limits: type correctness, that the build    *)
(* number is an optimistic lock on the lease table, that leases are unique *)
(* and endure, and that every step is an indivisible build or a stutter.   *)
(*                                                                         *)
(* The argument turns on numbers.  Recorded numbers are 1 .. k (Dense) and *)
(* a job's number is at most k + 1 (JobOK), so a transaction can only      *)
(* record k + 1, and by doing so it takes the number of every job whose    *)
(* plan it could invalidate.  A job whose number is still free has seen no *)
(* change of the lease table since it planned.                             *)
(***************************************************************************)
EXTENDS BuildAllocation, TLAPS

\* Recorded numbers have no gap.
Dense == \E k \in 0 .. MaxBuild : DOMAIN builds = 1 .. k

\* The plan was made for these requests and fits this table.
PlanHolds(plan, want, table) ==
  /\ DOMAIN plan = want
  /\ ReplacementsResolve({i[1] : i \in want})
  /\ \A i \in Retained(want, table) : plan[i].value = table[i].value
  /\ \A i \in Inherited(want, table) :
       \E p \in Predecessors(i, table) : plan[i].value = table[p].value
  /\ \A i \in Fresh(want, table) : plan[i].value \notin Values(table)
  /\ \A i, k \in want : plan[i].value = plan[k].value => i = k

\* A job holds a number all of whose predecessors are recorded; while that
\* number is free its plan holds of the lease table, and the table it was
\* prepared against is still the table.
JobOK(j) ==
  /\ j.stage # "idle" => /\ j.payload \in Payload
                         /\ j.number \in Number
                         /\ 1 .. (j.number - 1) \subseteq DOMAIN builds
  /\ j.stage = "pinned" => j.baseline \in Baseline
  /\ ReplacementsResolve({i[1] : i \in j.want})
  /\ HasPlan(j) /\ NumberFree(j) => PlanHolds(j.plan, j.want, leases)
  /\ j.stage = "prepared" /\ NumberFree(j) => j.before = leases
JobsOK == \A s \in Server : JobOK(job[s])

\* A row was last touched by a recorded build.
LeasesDated ==
  \A i \in DOMAIN leases : leases[i].first <= leases[i].last
                           /\ leases[i].last \in DOMAIN builds

IInv ==
  /\ TypeOK
  /\ Dense
  /\ JobsOK
  /\ NoDuplicateLease
  /\ LeasesDated
  /\ BuildsStayBacked

-----------------------------------------------------------------------------
(* Tables, numbers and plans.                                              *)

LEMMA NoLeasesIsTable == NoLeases \in LeaseTable /\ DOMAIN NoLeases = {}
BY DEF NoLeases, LeaseTable

LEMMA TableFacts ==
  ASSUME NEW t \in LeaseTable
  PROVE  /\ DOMAIN t \subseteq Identity
         /\ t \in [DOMAIN t -> Lease]
         /\ \A i \in DOMAIN t : /\ t[i] \in Lease
                                /\ t[i].value \in Value /\ t[i].baseline \in Baseline
                                /\ t[i].first \in Number /\ t[i].last \in Number
BY DEF LeaseTable, Lease

LEMMA IsTable ==
  ASSUME NEW D, D \subseteq Identity, NEW t \in [D -> Lease]
  PROVE  t \in LeaseTable
BY DEF LeaseTable

\* NextNumber is the first number that no build is recorded under.
LEMMA NextIsFirstFree ==
  ASSUME NEW k \in 0 .. MaxBuild, DOMAIN builds = 1 .. k
  PROVE  NextNumber = k + 1
<1>1. CASE k = 0
  BY <1>1, PlanAssumption DEF NextNumber
<1>2. CASE k # 0
  <2>1. k \in DOMAIN builds /\ \A m \in DOMAIN builds : m <= k
    BY <1>2, PlanAssumption
  <2>2. ASSUME NEW n \in DOMAIN builds, \A m \in DOMAIN builds : m <= n
        PROVE  n = k
    <3>1. k <= n /\ n <= k
      BY <2>1, <2>2
    <3> QED BY <3>1, <2>1, PlanAssumption
  <2> DEFINE IsMax(n) == n \in DOMAIN builds /\ \A m \in DOMAIN builds : m <= n
  <2>3. (CHOOSE n \in DOMAIN builds : \A m \in DOMAIN builds : m <= n)
          = CHOOSE n : IsMax(n)
    OBVIOUS
  <2>4. IsMax(CHOOSE n : IsMax(n))
    BY <2>1
  <2>5. (CHOOSE n : IsMax(n)) = k
    BY <2>2, <2>4
  <2>6. DOMAIN builds # {}
    BY <2>1
  <2>7. NextNumber = 1 + CHOOSE n \in DOMAIN builds : \A m \in DOMAIN builds : m <= n
    BY <2>6 DEF NextNumber
  <2>8. NextNumber = 1 + k
    BY <2>3, <2>5, <2>7
  <2> QED BY <2>8, PlanAssumption
<1> QED BY <1>1, <1>2

\* An artifact's values are the planned ones.
LEMMA ContentType ==
  ASSUME NEW j \in Job, j.payload \in Payload
  PROVE  /\ Content(j) \in Artifact
         /\ Content(j).values = [i \in DOMAIN j.plan |-> j.plan[i].value]
<1>1. j.plan \in LeaseTable
  BY DEF Job
<1>2. [i \in DOMAIN j.plan |-> j.plan[i].value] \in [DOMAIN j.plan -> Value]
  BY <1>1, TableFacts
<1>3. DOMAIN j.plan \subseteq Identity
  BY <1>1, TableFacts
<1> QED BY <1>2, <1>3 DEF Content, Artifact

LEMMA WithType ==
  ASSUME NEW t \in Recorded, NEW n \in Number, NEW a \in Artifact
  PROVE  /\ With(t, n, a) \in Recorded
         /\ DOMAIN With(t, n, a) = DOMAIN t \cup {n}
         /\ With(t, n, a)[n] = a
         /\ \A m \in DOMAIN t : m # n => With(t, n, a)[m] = t[m]
<1>1. DOMAIN t \subseteq Number /\ t \in [DOMAIN t -> Artifact]
  BY DEF Recorded
<1>2. With(t, n, a) \in [DOMAIN t \cup {n} -> Artifact]
  BY <1>1 DEF With
<1>3. DOMAIN t \cup {n} \subseteq Number
  BY <1>1
<1> QED BY <1>1, <1>2, <1>3 DEF With, Recorded

\* First fit gives every fresh request a value of its own that no row holds.
LEMMA FirstFitDistinct ==
  ASSUME NEW table \in LeaseTable, NEW used, NEW b \in Baseline,
         NEW D \in SUBSET Identity, NEW f \in [D -> FirstCandidate(b) .. LastCandidate],
         FirstFit(f, table, used, b)
  PROVE  /\ \A i \in D : f[i] \in Value /\ f[i] \notin Values(table)
         /\ \A i, k \in D : f[i] = f[k] => i = k
<1>1. \A i \in D : f[i] \in Value /\ f[i] \notin Values(table)
  <2>1. StockMax[b] \in Nat
    BY PlanAssumption
  <2>2. \A i \in D : f[i] \in FirstCandidate(b) .. LastCandidate
    OBVIOUS
  <2> QED BY <2>1, <2>2, PlanAssumption DEF FirstFit, FirstCandidate, Value
<1>2. ASSUME NEW i \in D, NEW k \in D, i # k PROVE f[i] # f[k]
  <2>1. \A x, y \in D : Precedes(x, y) => f[x] # f[y]
    BY DEF FirstFit
  <2>2. Precedes(i, k) \/ Precedes(k, i)
    <3>1. i[1] \in Nat /\ i[2] \in Nat /\ k[1] \in Nat /\ k[2] \in Nat
      BY PlanAssumption DEF Identity
    <3>2. i = <<i[1], i[2]>> /\ k = <<k[1], k[2]>>
      BY DEF Identity
    <3> QED BY <1>2, <3>1, <3>2 DEF Precedes
  <2> QED BY <2>1, <2>2
<1> QED BY <1>1, <1>2

\* Two requests of one build cannot take over one row, and a row that is
\* taken over does not belong to a request of the build.
LEMMA PredecessorsApart ==
  ASSUME NEW table \in LeaseTable, NEW want \in SUBSET Identity,
         ReplacementsResolve({i[1] : i \in want})
  PROVE  /\ \A i \in want : Predecessors(i, table) \cap want = {}
         /\ \A i, k \in want : \A p \in Predecessors(i, table) \cap Predecessors(k, table) :
              i = k
<1>1. \A i \in want : i = <<i[1], i[2]>> /\ i[1] \in Package /\ i[1] \in {x[1] : x \in want}
  BY DEF Identity
<1>2. ASSUME NEW i \in want, NEW p \in Predecessors(i, table), p \in want PROVE FALSE
  <2>1. p[1] \in Replaces[i[1]] /\ p[1] \in {x[1] : x \in want}
    BY <1>2 DEF Predecessors
  <2> QED BY <1>1, <2>1 DEF ReplacementsResolve
<1>3. ASSUME NEW i \in want, NEW k \in want,
             NEW p \in Predecessors(i, table) \cap Predecessors(k, table)
      PROVE  i = k
  <2>1. p[1] \in Replaces[i[1]] /\ p[1] \in Replaces[k[1]] /\ i[2] = p[2] /\ k[2] = p[2]
    BY DEF Predecessors
  <2>2. i[1] = k[1]
    BY <1>1, <2>1 DEF ReplacementsResolve
  <2> QED BY <1>1, <2>1, <2>2
<1> QED BY <1>2, <1>3

\* What Plan computes holds of the table it was computed from.
LEMMA PlanRowsHold ==
  ASSUME NEW table \in LeaseTable, UniqueValues(table), NEW used, NEW b \in Baseline,
         NEW known, NEW want \in SUBSET Identity, NEW n \in Number,
         ReplacementsResolve({i[1] : i \in want}),
         Reusable(want, table, used, b, known),
         NEW f \in [Fresh(want, table) -> FirstCandidate(b) .. LastCandidate],
         FirstFit(f, table, used, b)
  PROVE  /\ PlanRows(want, f, table, b, n) \in LeaseTable
         /\ PlanHolds(PlanRows(want, f, table, b, n), want, table)
<1> DEFINE rows == PlanRows(want, f, table, b, n)
           pred(i) == CHOOSE p \in Predecessors(i, table) : TRUE
<1>1. /\ \A i \in Fresh(want, table) : f[i] \in Value /\ f[i] \notin Values(table)
      /\ \A i, k \in Fresh(want, table) : f[i] = f[k] => i = k
  <2>1. Fresh(want, table) \in SUBSET Identity
    BY DEF Fresh
  <2> QED BY <2>1, FirstFitDistinct
<1>2. \A i \in Inherited(want, table) : pred(i) \in Predecessors(i, table)
  BY DEF Inherited
<1>3. \A i \in Inherited(want, table) : pred(i) \in DOMAIN table
  BY <1>2 DEF Predecessors
<1>4. /\ DOMAIN rows = want
      /\ \A i \in Retained(want, table) : rows[i] = [table[i] EXCEPT !.last = n]
      /\ \A i \in Fresh(want, table) :
           rows[i] = [value |-> f[i], first |-> n, last |-> n, baseline |-> b]
      /\ \A i \in Inherited(want, table) : rows[i] = [table[pred(i)] EXCEPT !.last = n]
  BY DEF PlanRows, Retained, Fresh, Inherited
<1>5. \A i \in want : i \in Retained(want, table) \/ i \in Fresh(want, table)
                        \/ i \in Inherited(want, table)
  BY DEF Retained, Fresh, Inherited
<1>6. \A i \in DOMAIN table : [table[i] EXCEPT !.last = n] \in Lease
                               /\ [table[i] EXCEPT !.last = n].value = table[i].value
  BY TableFacts DEF Lease
<1>7. /\ \A i \in Retained(want, table) : rows[i] \in Lease /\ rows[i].value = table[i].value
      /\ \A i \in Inherited(want, table) :
           rows[i] \in Lease /\ rows[i].value = table[pred(i)].value
      /\ \A i \in Fresh(want, table) : rows[i] \in Lease /\ rows[i].value = f[i]
  <2>1. \A i \in Retained(want, table) : i \in DOMAIN table
    BY DEF Retained
  <2>2. \A i \in Fresh(want, table) :
          [value |-> f[i], first |-> n, last |-> n, baseline |-> b] \in Lease
    BY <1>1 DEF Lease
  <2>3. ASSUME NEW i \in Fresh(want, table)
        PROVE  rows[i] \in Lease /\ rows[i].value = f[i]
    <3>1. rows[i] = [value |-> f[i], first |-> n, last |-> n, baseline |-> b]
      BY <1>4
    <3> HIDE DEF rows
    <3> QED BY <2>2, <3>1
  <2>4. ASSUME NEW i \in Retained(want, table)
        PROVE  rows[i] \in Lease /\ rows[i].value = table[i].value
    <3>1. rows[i] = [table[i] EXCEPT !.last = n]
      BY <1>4
    <3> HIDE DEF rows
    <3> QED BY <1>6, <2>1, <3>1
  <2>5. ASSUME NEW i \in Inherited(want, table)
        PROVE  rows[i] \in Lease /\ rows[i].value = table[pred(i)].value
    <3>1. rows[i] = [table[pred(i)] EXCEPT !.last = n]
      BY <1>4
    <3> HIDE DEF rows
    <3> QED BY <1>3, <1>6, <3>1
  <2> QED BY <2>3, <2>4, <2>5
<1>8. rows \in LeaseTable
  <2>1. rows \in [want -> Lease]
    BY <1>4, <1>5, <1>7 DEF PlanRows
  <2> QED BY <2>1, IsTable
<1>9. ASSUME NEW i \in want, NEW k \in want, rows[i].value = rows[k].value PROVE i = k
  <2>1. \A x \in Retained(want, table) \cup Inherited(want, table) :
          rows[x].value \in Values(table)
    BY <1>3, <1>7 DEF Values, Retained
  <2>2. CASE i \in Fresh(want, table) \/ k \in Fresh(want, table)
    BY <1>1, <1>5, <1>7, <1>9, <2>1, <2>2
  <2>3. CASE i \in Retained(want, table) /\ k \in Retained(want, table)
    BY <1>7, <1>9, <2>3 DEF Retained, UniqueValues
  <2>4. CASE i \in Inherited(want, table) /\ k \in Inherited(want, table)
    <3>1. pred(i) = pred(k)
      BY <1>3, <1>7, <1>9, <2>4 DEF UniqueValues
    <3> QED BY <1>2, <2>4, <3>1, PredecessorsApart
  <2>5. \A x \in Retained(want, table), y \in Inherited(want, table) :
          rows[x].value # rows[y].value
    <3>1. SUFFICES ASSUME NEW x \in Retained(want, table), NEW y \in Inherited(want, table),
                          rows[x].value = rows[y].value
                   PROVE  FALSE
      OBVIOUS
    <3>2. x = pred(y)
      BY <1>3, <1>7, <3>1 DEF UniqueValues, Retained
    <3>3. x \in want /\ y \in want
      BY DEF Retained, Inherited
    <3>4. x \in Predecessors(y, table)
      BY <1>2, <3>2
    <3>5. Predecessors(y, table) \cap want = {}
      BY <3>3, PredecessorsApart
    <3> QED BY <3>3, <3>4, <3>5
  <2> QED BY <1>5, <1>9, <2>2, <2>3, <2>4, <2>5
<1> QED BY <1>1, <1>2, <1>4, <1>7, <1>8, <1>9 DEF PlanHolds

-----------------------------------------------------------------------------
(* The transaction of a job whose plan still holds.                        *)

\* Its statements are the ones the plan calls for: one migration for each
\* inheriting request, one insertion for each fresh one.
LEMMA CommitShape ==
  ASSUME NEW j \in Job, leases \in LeaseTable, UniqueValues(leases),
         j.before = leases, PlanHolds(j.plan, j.want, leases)
  PROVE  /\ Movers(j) = Inherited(j.want, leases)
         /\ Inserts(j) = Fresh(j.want, leases)
         /\ \A i \in Movers(j) : /\ Source(i, j) \in Predecessors(i, leases)
                                 /\ Source(i, j) \in DOMAIN leases
                                 /\ leases[Source(i, j)].value = j.plan[i].value
         /\ \A i \in Movers(j), k \in DOMAIN leases :
              leases[k].value = j.plan[i].value => k = Source(i, j)
         /\ Gone(j) \subseteq DOMAIN leases
         /\ Gone(j) \cap j.want = {}
<1> DEFINE want == j.want
           owner(i) == Owner(i, j.plan, leases)
<1>1. DOMAIN j.plan = want /\ want \in SUBSET Identity
  BY DEF PlanHolds, Job
<1>2. \A i \in Fresh(want, leases) : owner(i) = {}
  BY DEF PlanHolds, Owner, Values
<1>3. ASSUME NEW i \in Inherited(want, leases)
      PROVE  \E p \in Predecessors(i, leases) : /\ p \in DOMAIN leases
                                                /\ owner(i) = {p}
                                                /\ leases[p].value = j.plan[i].value
  <2>1. PICK p \in Predecessors(i, leases) : j.plan[i].value = leases[p].value
    BY DEF PlanHolds
  <2>2. p \in DOMAIN leases
    BY DEF Predecessors
  <2>3. \A k \in DOMAIN leases : leases[k].value = leases[p].value => k = p
    BY <2>2 DEF UniqueValues
  <2> QED BY <2>1, <2>2, <2>3 DEF Owner
<1>4. Movers(j) = Inherited(want, leases)
  BY <1>1, <1>2, <1>3 DEF Movers, Inherited, Fresh
<1>5. Inserts(j) = Fresh(want, leases)
  BY <1>1, <1>4 DEF Inserts, Inherited, Fresh
<1>6. \A i \in Movers(j) : /\ owner(i) = {Source(i, j)}
                           /\ Source(i, j) \in Predecessors(i, leases)
                           /\ Source(i, j) \in DOMAIN leases
                           /\ leases[Source(i, j)].value = j.plan[i].value
  BY <1>3, <1>4 DEF Source
<1>7. \A i \in Movers(j), k \in DOMAIN leases :
        leases[k].value = j.plan[i].value => k = Source(i, j)
  BY <1>6 DEF Owner
<1>8. Gone(j) \subseteq DOMAIN leases
  BY <1>6 DEF Gone
<1>9. Gone(j) \cap want = {}
  <2>1. SUFFICES ASSUME NEW i \in Movers(j), Source(i, j) \in want PROVE FALSE
    BY DEF Gone
  <2>2. i \in want
    BY <1>4 DEF Inherited
  <2>3. Predecessors(i, leases) \cap want = {}
    BY <1>1, <2>2, PredecessorsApart DEF PlanHolds
  <2> QED BY <1>6, <2>1, <2>3
<1> QED BY <1>4, <1>5, <1>6, <1>7, <1>8, <1>9

\* The table it leaves is well formed, and each row is the one moved, the
\* one inserted, the one touched, or the old one.
LEMMA CommitTable ==
  ASSUME NEW j \in Job, leases \in LeaseTable, UniqueValues(leases), j.number \in Number,
         j.before = leases, PlanHolds(j.plan, j.want, leases)
  PROVE  /\ Committed(j) \in LeaseTable
         /\ UniqueValues(Committed(j))
         /\ DOMAIN Committed(j) = (DOMAIN leases \ Gone(j)) \cup j.want
         /\ \A i \in Movers(j) :
              Committed(j)[i] = [leases[Source(i, j)] EXCEPT !.last = j.number]
         /\ \A i \in Inserts(j) :
              Committed(j)[i] = [j.plan[i] EXCEPT !.first = j.number, !.last = j.number]
         /\ \A i \in Retained(j.want, leases) :
              Committed(j)[i] = [leases[i] EXCEPT !.last = j.number]
         /\ \A i \in DOMAIN leases \ (Gone(j) \cup j.want) : Committed(j)[i] = leases[i]
<1> DEFINE want == j.want
           next == Committed(j)
           rest == DOMAIN leases \ (Gone(j) \cup want)
<1>1. DOMAIN j.plan = want /\ want \in SUBSET Identity /\ j.plan \in LeaseTable
  BY DEF PlanHolds, Job
<1>2. Movers(j) = Inherited(want, leases) /\ Inserts(j) = Fresh(want, leases)
  BY CommitShape
<1>3. want = Retained(want, leases) \cup Movers(j) \cup Inserts(j)
  BY <1>2 DEF Retained, Inherited, Fresh
<1>4. Retained(want, leases) = want \cap DOMAIN leases
  BY DEF Retained
<1>5. Movers(j) \cap DOMAIN leases = {} /\ Inserts(j) \cap DOMAIN leases = {}
      /\ Movers(j) \cap Inserts(j) = {}
  BY <1>2 DEF Inherited, Fresh
<1>6. DOMAIN next = (DOMAIN leases \ Gone(j)) \cup want
  <2>1. Gone(j) \cap want = {}
    BY CommitShape
  <2>2. DOMAIN next = (DOMAIN leases \ Gone(j)) \cup Movers(j) \cup Inserts(j)
    BY DEF Committed
  <2> QED BY <1>3, <1>4, <2>1, <2>2
<1>7. /\ \A i \in Movers(j) : next[i] = [leases[Source(i, j)] EXCEPT !.last = j.number]
      /\ \A i \in Inserts(j) :
           next[i] = [j.plan[i] EXCEPT !.first = j.number, !.last = j.number]
  BY <1>5 DEF Committed
<1>8. \A i \in Retained(want, leases) : next[i] = [leases[i] EXCEPT !.last = j.number]
  <2>1. ASSUME NEW i \in Retained(want, leases)
        PROVE  next[i] = [leases[i] EXCEPT !.last = j.number]
    <3>1. i \in DOMAIN leases /\ i \in DOMAIN j.plan /\ j.plan[i].value = leases[i].value
      BY <1>1, <1>4 DEF PlanHolds
    <3>2. i \notin Gone(j) /\ i \notin Movers(j) /\ i \notin Inserts(j)
      BY <1>1, <1>5, <3>1, CommitShape
    <3> QED BY <3>1, <3>2 DEF Committed
  <2> QED BY <2>1
<1>9. \A i \in rest : next[i] = leases[i]
  BY <1>1, <1>3 DEF Committed
<1> HIDE DEF next
<1>10. \A i \in DOMAIN next : i \in Movers(j) \/ i \in Inserts(j)
                               \/ i \in Retained(want, leases) \/ i \in rest
  BY <1>3, <1>4, <1>6
<1>11. /\ \A i \in Movers(j) : next[i] \in Lease /\ next[i].value = leases[Source(i, j)].value
       /\ \A i \in Inserts(j) : next[i] \in Lease /\ next[i].value = j.plan[i].value
       /\ \A i \in Retained(want, leases) : next[i] \in Lease /\ next[i].value = leases[i].value
       /\ \A i \in rest : next[i] \in Lease /\ next[i].value = leases[i].value
  <2>1. \A l \in Lease : /\ [l EXCEPT !.last = j.number] \in Lease
                         /\ [l EXCEPT !.last = j.number].value = l.value
                         /\ [l EXCEPT !.first = j.number, !.last = j.number] \in Lease
                         /\ [l EXCEPT !.first = j.number, !.last = j.number].value = l.value
    BY DEF Lease
  <2>2. ASSUME NEW i \in Movers(j)
        PROVE  next[i] \in Lease /\ next[i].value = leases[Source(i, j)].value
    <3>1. Source(i, j) \in DOMAIN leases
      BY CommitShape
    <3>2. leases[Source(i, j)] \in Lease
      BY <3>1, TableFacts
    <3>3. next[i] = [leases[Source(i, j)] EXCEPT !.last = j.number]
      BY <1>7
    <3> QED BY <2>1, <3>2, <3>3
  <2>3. ASSUME NEW i \in Inserts(j)
        PROVE  next[i] \in Lease /\ next[i].value = j.plan[i].value
    <3>1. j.plan[i] \in Lease
      BY <1>1, <1>3, TableFacts
    <3>2. next[i] = [j.plan[i] EXCEPT !.first = j.number, !.last = j.number]
      BY <1>7
    <3> QED BY <2>1, <3>1, <3>2
  <2>4. ASSUME NEW i \in Retained(want, leases)
        PROVE  next[i] \in Lease /\ next[i].value = leases[i].value
    <3>1. leases[i] \in Lease
      BY <1>4, TableFacts
    <3>2. next[i] = [leases[i] EXCEPT !.last = j.number]
      BY <1>8
    <3> QED BY <2>1, <3>1, <3>2
  <2>5. ASSUME NEW i \in rest
        PROVE  next[i] \in Lease /\ next[i].value = leases[i].value
    BY <1>9, TableFacts
  <2> QED BY <2>2, <2>3, <2>4, <2>5
<1>12. next \in LeaseTable
  <2>1. DOMAIN next \subseteq Identity
    BY <1>1, <1>6, TableFacts
  <2>2. \A i \in DOMAIN next : next[i] \in Lease
    BY <1>10, <1>11
  <2>3. next \in [DOMAIN next -> Lease]
    BY <2>2 DEF next, Committed
  <2> QED BY <2>1, <2>3, IsTable
<1>13. UniqueValues(next)
  <2>1. \A i \in DOMAIN leases, k \in DOMAIN leases :
          leases[i].value = leases[k].value => i = k
    BY DEF UniqueValues
  <2>2. \A i \in want, k \in want : j.plan[i].value = j.plan[k].value => i = k
    BY DEF PlanHolds
  <2>3. \A i \in want : next[i].value = j.plan[i].value
    BY <1>3, <1>11, CommitShape DEF PlanHolds
  <2>4. \A i \in want, k \in rest : j.plan[i].value # leases[k].value
    <3>1. SUFFICES ASSUME NEW i \in want, NEW k \in rest, j.plan[i].value = leases[k].value
                   PROVE  FALSE
      OBVIOUS
    <3>2. CASE i \in Movers(j)
      BY <3>1, <3>2, CommitShape DEF Gone
    <3>3. CASE i \in Inserts(j)
      BY <1>2, <3>1, <3>3 DEF PlanHolds, Values
    <3>4. CASE i \in Retained(want, leases)
      BY <1>4, <2>1, <3>1, <3>4 DEF PlanHolds
    <3> QED BY <1>3, <3>2, <3>3, <3>4
  <2>5. \A i \in DOMAIN next : i \in want \/ i \in rest
    BY <1>6
  <2> QED BY <1>11, <2>1, <2>2, <2>3, <2>4, <2>5 DEF UniqueValues
<1> QED BY <1>6, <1>7, <1>8, <1>9, <1>12, <1>13 DEF next

-----------------------------------------------------------------------------
(* The invariant.                                                          *)

\* The part of the invariant that quiet steps carry over unchanged.
Core == Dense /\ JobsOK /\ NoDuplicateLease /\ LeasesDated /\ BuildsStayBacked

LEMMA NoJobIsJob == NoJob \in Job /\ NoJob.stage = "idle" /\ NoJob.want = {}
BY NoLeasesIsTable DEF NoJob, Job, Stage

LEMMA NothingResolved == ReplacementsResolve({i[1] : i \in {}})
BY DEF ReplacementsResolve

LEMMA Initially == Init => IInv
<1> SUFFICES ASSUME Init PROVE IInv
  OBVIOUS
<1>1. TypeOK
  <2>1. Nothing \in Recorded
    BY DEF Nothing, Recorded
  <2> QED BY <2>1, NoJobIsJob, NoLeasesIsTable DEF Init, TypeOK
<1>2. Dense
  <2>1. DOMAIN builds = 1 .. 0
    BY DEF Init, Nothing
  <2> QED BY <2>1, PlanAssumption DEF Dense
<1>3. JobsOK
  BY NoJobIsJob, NothingResolved DEF Init, JobsOK, JobOK, HasPlan
<1>4. NoDuplicateLease /\ LeasesDated /\ BuildsStayBacked
  BY NoLeasesIsTable DEF Init, Nothing, NoDuplicateLease, UniqueValues, LeasesDated, BuildsStayBacked
<1> QED BY <1>1, <1>2, <1>3, <1>4 DEF IInv

\* A step that leaves builds and leases alone and moves one job.
LEMMA QuietStep ==
  ASSUME Core, job \in [Server -> Job], NEW s \in Server, NEW j, JobOK(j),
         UNCHANGED registry, job' = [job EXCEPT ![s] = j]
  PROVE  Core'
<1>1. builds' = builds /\ leases' = leases
  BY DEF registry
<1>2. JobsOK'
  <2>1. \A t \in Server : job'[t] = job[t] \/ job'[t] = j
    OBVIOUS
  <2>2. \A t \in Server : JobOK(job'[t])
    BY <2>1 DEF Core, JobsOK
  <2> QED BY <1>1, <2>2 DEF JobsOK, JobOK, NumberFree
<1>3. (Dense /\ NoDuplicateLease /\ LeasesDated /\ BuildsStayBacked)'
  BY <1>1 DEF Core, Dense, NoDuplicateLease, LeasesDated, BuildsStayBacked
<1> QED BY <1>2, <1>3 DEF Core

\* A step that leaves the jobs alone as well.
LEMMA IdleStep ==
  ASSUME Core, UNCHANGED registry, job' = job
  PROVE  Core'
<1>1. builds' = builds /\ leases' = leases
  BY DEF registry
<1>2. JobsOK'
  BY <1>1 DEF Core, JobsOK, JobOK, NumberFree
<1>3. (Dense /\ NoDuplicateLease /\ LeasesDated /\ BuildsStayBacked)'
  BY <1>1 DEF Core, Dense, NoDuplicateLease, LeasesDated, BuildsStayBacked
<1> QED BY <1>2, <1>3 DEF Core

\* While a job's number is free it is the next number.
LEMMA FreeIsNext ==
  ASSUME NEW j, JobOK(j), j.stage # "idle", NumberFree(j),
         NEW k \in 0 .. MaxBuild, DOMAIN builds = 1 .. k
  PROVE  j.number = k + 1
<1>1. j.number \in Nat /\ j.number >= 1 /\ k \in Nat
  BY PlanAssumption DEF JobOK, Number
<1>2. j.number > k
  BY <1>1 DEF NumberFree
<1>3. CASE j.number = 1
  BY <1>1, <1>2, <1>3
<1>4. CASE j.number # 1
  <2>1. j.number - 1 \in 1 .. (j.number - 1)
    BY <1>1, <1>4
  <2>2. j.number - 1 \in 1 .. k
    BY <2>1 DEF JobOK
  <2> QED BY <1>1, <1>2, <2>2
<1> QED BY <1>3, <1>4

-----------------------------------------------------------------------------
(* Each step.                                                              *)

LEMMA IInvParts == IInv <=> TypeOK /\ Core
BY DEF IInv, Core

LEMMA StartStep ==
  ASSUME IInv, NEW s \in Server, NEW want \in SUBSET Identity, NEW payload \in Payload,
         Start(s, want, payload)
  PROVE  IInv'
<1> DEFINE j == [NoJob EXCEPT !.stage = IF want = {} THEN "planned" ELSE "numbered",
                              !.number = NextNumber, !.want = want, !.payload = payload]
<1>1. PICK k \in 0 .. MaxBuild : DOMAIN builds = 1 .. k
  BY DEF IInv, Dense
<1>2. NextNumber = k + 1 /\ NextNumber \in Number
  BY <1>1, NextIsFirstFree, PlanAssumption DEF Start, Number
<1>3. j \in Job
  BY <1>2, NoLeasesIsTable DEF NoJob, Job, Stage
<1>4. JobOK(j)
  <2>1. /\ j.payload \in Payload
        /\ j.number = NextNumber
        /\ j.want = want
        /\ j.plan = NoLeases
        /\ j.stage \in {"planned", "numbered"}
        /\ j.stage = "planned" => want = {}
    BY DEF NoJob
  <2>2. 1 .. (NextNumber - 1) \subseteq DOMAIN builds
    BY <1>1, <1>2, PlanAssumption
  <2>3. ReplacementsResolve({i[1] : i \in want})
    BY DEF Start
  <2>4. want = {} => PlanHolds(NoLeases, want, leases)
    BY <2>3, NoLeasesIsTable DEF PlanHolds, Retained, Inherited, Fresh
  <2> HIDE DEF j
  <2> QED BY <1>2, <2>1, <2>2, <2>3, <2>4 DEF JobOK, HasPlan
<1>5. job' = [job EXCEPT ![s] = j] /\ UNCHANGED registry /\ job \in [Server -> Job]
  BY DEF Start, IInv, TypeOK
<1> HIDE DEF j
<1>6. Core'
  BY <1>4, <1>5, QuietStep, IInvParts
<1>7. TypeOK'
  BY <1>3, <1>5 DEF IInv, TypeOK, Start, registry, baselines, world, files
<1> QED BY <1>6, <1>7 DEF IInv, Core

LEMMA PinStep ==
  ASSUME IInv, NEW s \in Server, Pin(s)
  PROVE  IInv'
<1> DEFINE j == [job[s] EXCEPT !.stage = "pinned", !.baseline = stock,
                               !.known = history \cup {stock}]
<1>1. job \in [Server -> Job] /\ job[s] \in Job /\ job[s].stage = "numbered" /\ JobOK(job[s])
  BY DEF Pin, IInv, TypeOK, JobsOK
<1>2. stock \in Baseline /\ history \subseteq Baseline
  BY DEF IInv, TypeOK
<1>3. j \in Job
  BY <1>1, <1>2 DEF Job, Stage
<1>4. /\ j.stage = "pinned" /\ j.number = job[s].number /\ j.want = job[s].want
      /\ j.payload = job[s].payload /\ j.baseline = stock
  BY <1>1 DEF Job
<1>5. job' = [job EXCEPT ![s] = j] /\ UNCHANGED registry
  BY DEF Pin
<1> HIDE DEF j
<1>6. JobOK(j)
  BY <1>1, <1>2, <1>4 DEF JobOK, HasPlan
<1>7. Core'
  BY <1>1, <1>5, <1>6, QuietStep, IInvParts
<1>8. TypeOK'
  BY <1>2, <1>3, <1>5 DEF IInv, TypeOK, Pin, registry, world, files
<1> QED BY <1>7, <1>8 DEF IInv, Core

LEMMA PlanStep ==
  ASSUME IInv, NEW s \in Server, Plan(s)
  PROVE  IInv'
<1>1. /\ job \in [Server -> Job] /\ job[s] \in Job /\ job[s].stage = "pinned" /\ JobOK(job[s])
      /\ leases \in LeaseTable /\ UniqueValues(leases)
  BY DEF Plan, IInv, TypeOK, JobsOK, NoDuplicateLease
<1>2. PICK f \in [Fresh(job[s].want, leases) -> FirstCandidate(job[s].baseline) .. LastCandidate] :
        /\ FirstFit(f, leases, external, job[s].baseline)
        /\ job' = [job EXCEPT ![s].stage = "planned",
                     ![s].plan = PlanRows(job[s].want, f, leases, job[s].baseline, job[s].number)]
  BY DEF Plan
<1> DEFINE rows == PlanRows(job[s].want, f, leases, job[s].baseline, job[s].number)
           j == [job[s] EXCEPT !.stage = "planned", !.plan = rows]
<1>3. rows \in LeaseTable /\ PlanHolds(rows, job[s].want, leases)
  <2>1. /\ job[s].want \in SUBSET Identity
        /\ ReplacementsResolve({i[1] : i \in job[s].want})
        /\ job[s].number \in Number
        /\ Reusable(job[s].want, leases, external, job[s].baseline, job[s].known)
    BY <1>1 DEF Job, JobOK, Plan
  <2>2. job[s].baseline \in Baseline
    BY <1>1 DEF JobOK
  <2> QED BY <1>1, <1>2, <2>1, <2>2, PlanRowsHold
<1>4. j \in Job
  BY <1>1, <1>3 DEF Job, Stage
<1>5. /\ j.stage = "planned" /\ j.number = job[s].number /\ j.want = job[s].want
      /\ j.payload = job[s].payload /\ j.plan = rows
  BY <1>1 DEF Job
<1>6. job' = [job EXCEPT ![s] = j] /\ UNCHANGED registry
  BY <1>2 DEF Plan
<1> HIDE DEF j, rows
<1>7. JobOK(j)
  BY <1>1, <1>3, <1>5 DEF JobOK
<1>8. Core'
  BY <1>1, <1>6, <1>7, QuietStep, IInvParts
<1>9. TypeOK'
  BY <1>4, <1>6 DEF IInv, TypeOK, Plan, registry, baselines, world, files
<1> QED BY <1>8, <1>9 DEF IInv, Core

\* Steps that advance a job past its plan, touching none of what it planned.
LEMMA AdvanceStep ==
  ASSUME IInv, NEW s \in Server, HasPlan(job[s]), NEW stage \in Stage,
         stage \notin {"idle", "prepared", "pinned"},
         job' = [job EXCEPT ![s].stage = stage], UNCHANGED registry
  PROVE  Core' /\ job' \in [Server -> Job]
<1> DEFINE j == [job[s] EXCEPT !.stage = stage]
<1>1. job \in [Server -> Job] /\ job[s] \in Job /\ JobOK(job[s]) /\ job[s].stage # "idle"
  BY DEF IInv, TypeOK, JobsOK, HasPlan
<1>2. j \in Job
  BY <1>1 DEF Job
<1>3. /\ j.stage = stage /\ j.number = job[s].number /\ j.want = job[s].want
      /\ j.payload = job[s].payload /\ j.plan = job[s].plan
  BY <1>1 DEF Job
<1>4. job' = [job EXCEPT ![s] = j]
  OBVIOUS
<1> HIDE DEF j
<1>5. JobOK(j)
  BY <1>1, <1>3 DEF JobOK, NumberFree
<1>6. Core'
  BY <1>1, <1>4, <1>5, QuietStep, IInvParts
<1> QED BY <1>1, <1>2, <1>4, <1>6

\* The artifact of a job that is not idle.
LEMMA JobArtifact ==
  ASSUME TypeOK, JobsOK, NEW s \in Server, job[s].stage # "idle"
  PROVE  /\ job[s] \in Job
         /\ job[s].number \in Number
         /\ Content(job[s]) \in Artifact
         /\ Content(job[s]).values = [i \in DOMAIN job[s].plan |-> job[s].plan[i].value]
<1>1. job[s] \in Job /\ job[s].payload \in Payload /\ job[s].number \in Number
  BY DEF TypeOK, JobsOK, JobOK
<1> QED BY <1>1, ContentType

LEMMA LinkStep ==
  ASSUME IInv, NEW s \in Server, Link(s)
  PROVE  IInv'
<1>1. HasPlan(job[s]) /\ job[s].stage # "idle" /\ job' = [job EXCEPT ![s].stage = "linked"]
      /\ UNCHANGED registry
  BY DEF Link, HasPlan
<1>2. Core' /\ job' \in [Server -> Job]
  BY <1>1, AdvanceStep DEF Stage
<1>3. mpq' \in [Dir -> Recorded]
  <2>1. DirOf[s] \in Dir /\ mpq \in [Dir -> Recorded]
    BY BuildAssumption DEF IInv, TypeOK
  <2>2. With(mpq[DirOf[s]], job[s].number, Content(job[s])) \in Recorded
    BY <1>1, <2>1, JobArtifact, WithType DEF IInv
  <2> QED BY <2>1, <2>2 DEF Link
<1>4. TypeOK'
  BY <1>2, <1>3 DEF IInv, TypeOK, Link, registry, baselines, world
<1> QED BY <1>2, <1>4 DEF IInv, Core

LEMMA SidecarStep ==
  ASSUME IInv, NEW s \in Server, WriteSidecars(s)
  PROVE  IInv'
<1>1. HasPlan(job[s]) /\ job[s].stage # "idle" /\ job' = [job EXCEPT ![s].stage = "assembled"]
      /\ UNCHANGED registry
  BY DEF WriteSidecars, HasPlan
<1>2. Core' /\ job' \in [Server -> Job]
  BY <1>1, AdvanceStep DEF Stage
<1>3. sidecar' \in [Dir -> Recorded]
  <2>1. DirOf[s] \in Dir /\ sidecar \in [Dir -> Recorded]
    BY BuildAssumption DEF IInv, TypeOK
  <2>2. With(sidecar[DirOf[s]], job[s].number, Content(job[s])) \in Recorded
    BY <1>1, <2>1, JobArtifact, WithType DEF IInv
  <2> QED BY <2>1, <2>2 DEF WriteSidecars
<1>4. TypeOK'
  BY <1>2, <1>3 DEF IInv, TypeOK, WriteSidecars, registry, baselines, world
<1> QED BY <1>2, <1>4 DEF IInv, Core

LEMMA PrepareStep ==
  ASSUME IInv, NEW s \in Server, Prepare(s)
  PROVE  IInv'
<1> DEFINE j == [job[s] EXCEPT !.stage = "prepared", !.before = leases]
<1>1. /\ job \in [Server -> Job] /\ job[s] \in Job /\ JobOK(job[s])
      /\ job[s].stage = "assembled" /\ leases \in LeaseTable
  BY DEF Prepare, IInv, TypeOK, JobsOK
<1>2. j \in Job
  BY <1>1 DEF Job, Stage
<1>3. /\ j.stage = "prepared" /\ j.number = job[s].number /\ j.want = job[s].want
      /\ j.payload = job[s].payload /\ j.plan = job[s].plan /\ j.before = leases
  BY <1>1 DEF Job
<1>4. job' = [job EXCEPT ![s] = j] /\ UNCHANGED registry
  BY DEF Prepare
<1> HIDE DEF j
<1>5. JobOK(j)
  BY <1>1, <1>3 DEF JobOK, NumberFree, HasPlan
<1>6. Core'
  BY <1>1, <1>4, <1>5, QuietStep, IInvParts
<1>7. TypeOK'
  BY <1>2, <1>4 DEF IInv, TypeOK, Prepare, registry, baselines, world, files
<1> QED BY <1>6, <1>7 DEF IInv, Core

LEMMA EndStep ==
  ASSUME IInv, NEW s \in Server, RollbackTx(s) \/ Verify(s)
  PROVE  IInv'
<1>1. PICK stage \in {"submitted", "recorded"} :
        HasPlan(job[s]) /\ job' = [job EXCEPT ![s].stage = stage]
  BY DEF RollbackTx, Verify, HasPlan
<1>2. UNCHANGED <<registry, baselines, world, files>>
  BY DEF RollbackTx, Verify
<1>3. Core' /\ job' \in [Server -> Job]
  BY <1>1, <1>2, AdvanceStep DEF Stage
<1>4. TypeOK'
  BY <1>2, <1>3 DEF IInv, TypeOK, registry, baselines, world, files
<1> QED BY <1>3, <1>4 DEF IInv, Core

LEMMA FailStep ==
  ASSUME IInv, NEW s \in Server, Fail(s)
  PROVE  IInv'
<1>1. job \in [Server -> Job] /\ job' = [job EXCEPT ![s] = NoJob] /\ UNCHANGED registry
  BY DEF Fail, IInv, TypeOK
<1>2. JobOK(NoJob)
  BY NoJobIsJob, NothingResolved DEF JobOK, HasPlan
<1>3. Core'
  BY <1>1, <1>2, QuietStep, IInvParts
<1>4. TypeOK'
  BY <1>1, NoJobIsJob DEF Fail, IInv, TypeOK, registry, baselines, world, files
<1> QED BY <1>3, <1>4 DEF IInv, Core

LEMMA AdministratorStep ==
  ASSUME IInv,
         \/ \E b \in Baseline : ReplaceStock(b)
         \/ Approve
         \/ \E v \in Occupiable : Occupy(v)
         \/ \E d \in Dir, n \in Number : MoveAside(d, n)
  PROVE  IInv'
<1>1. UNCHANGED registry /\ job' = job
  BY DEF ReplaceStock, Approve, Occupy, MoveAside
<1>2. Core'
  BY <1>1, IdleStep, IInvParts
<1>3. TypeOK'
  <2>1. ASSUME NEW b \in Baseline, ReplaceStock(b) PROVE TypeOK'
    BY <2>1 DEF ReplaceStock, IInv, TypeOK, registry, baselines, files
  <2>2. ASSUME Approve PROVE TypeOK'
    BY <2>2 DEF Approve, IInv, TypeOK, registry, world, files
  <2>3. ASSUME NEW v \in Occupiable, Occupy(v) PROVE TypeOK'
    BY <2>3 DEF Occupy, IInv, TypeOK, registry, baselines, files
  <2>4. ASSUME NEW d \in Dir, NEW n \in Number, MoveAside(d, n) PROVE TypeOK'
    <3>1. \A t \in Recorded : [m \in DOMAIN t \ {n} |-> t[m]] \in Recorded
      <4>1. SUFFICES ASSUME NEW t \in Recorded PROVE [m \in DOMAIN t \ {n} |-> t[m]] \in Recorded
        OBVIOUS
      <4>2. DOMAIN t \subseteq Number /\ t \in [DOMAIN t -> Artifact]
        BY DEF Recorded
      <4>3. [m \in DOMAIN t \ {n} |-> t[m]] \in [DOMAIN t \ {n} -> Artifact]
        BY <4>2
      <4>4. DOMAIN t \ {n} \in SUBSET Number
        BY <4>2
      <4> QED BY <4>3, <4>4 DEF Recorded
    <3>2. mpq' \in [Dir -> Recorded] /\ sidecar' \in [Dir -> Recorded]
      BY <2>4, <3>1 DEF MoveAside, IInv, TypeOK
    <3> QED BY <2>4, <3>2 DEF MoveAside, IInv, TypeOK, registry, baselines, world
  <2> QED BY <2>1, <2>2, <2>3, <2>4
<1> QED BY <1>2, <1>3 DEF IInv, Core

-----------------------------------------------------------------------------
(* The one step that changes the registry.                                 *)

\* What a transaction that commits meets: a plan that holds of the table it
\* was prepared against, and the number after the last recorded one.
LEMMA CommitContext ==
  ASSUME IInv, NEW s \in Server, CommitTx(s)
  PROVE  /\ job[s] \in Job /\ leases \in LeaseTable /\ UniqueValues(leases)
         /\ job[s].number \in Number /\ NumberFree(job[s]) /\ job[s].stage = "prepared"
         /\ job[s].before = leases
         /\ PlanHolds(job[s].plan, job[s].want, leases)
         /\ leases' = Committed(job[s])
         /\ builds' = With(builds, job[s].number, Content(job[s]))
         /\ builds \in Recorded /\ Content(job[s]) \in Artifact
         /\ job' = [job EXCEPT ![s].stage = "submitted"]
         /\ \E k \in 0 .. MaxBuild : DOMAIN builds = 1 .. k /\ job[s].number = k + 1
<1>1. job[s].stage = "prepared" /\ NumberFree(job[s]) /\ HasPlan(job[s]) /\ job[s].stage # "idle"
  BY DEF CommitTx, HasPlan
<1>2. JobOK(job[s]) /\ leases \in LeaseTable /\ builds \in Recorded /\ UniqueValues(leases)
  BY DEF IInv, TypeOK, JobsOK, NoDuplicateLease
<1>3. job[s] \in Job /\ job[s].number \in Number /\ Content(job[s]) \in Artifact
  BY <1>1, JobArtifact DEF IInv
<1>4. job[s].before = leases /\ PlanHolds(job[s].plan, job[s].want, leases)
  BY <1>1, <1>2 DEF JobOK
<1>5. \E k \in 0 .. MaxBuild : DOMAIN builds = 1 .. k /\ job[s].number = k + 1
  <2>1. PICK k \in 0 .. MaxBuild : DOMAIN builds = 1 .. k
    BY DEF IInv, Dense
  <2>2. job[s].number = k + 1
    BY <1>1, <1>2, <2>1, FreeIsNext
  <2> QED BY <2>1, <2>2
<1> QED BY <1>1, <1>2, <1>3, <1>4, <1>5 DEF CommitTx

LEMMA CommitStep ==
  ASSUME IInv, NEW s \in Server, CommitTx(s)
  PROVE  IInv'
<1> DEFINE j == job[s]
           n == job[s].number
<1>1. /\ j \in Job /\ leases \in LeaseTable /\ UniqueValues(leases)
      /\ n \in Number /\ NumberFree(j) /\ j.stage = "prepared"
      /\ j.before = leases /\ PlanHolds(j.plan, j.want, leases)
      /\ leases' = Committed(j) /\ builds' = With(builds, n, Content(j))
      /\ builds \in Recorded /\ Content(j) \in Artifact
      /\ job' = [job EXCEPT ![s].stage = "submitted"]
  BY CommitContext
<1>2. PICK k \in 0 .. MaxBuild : DOMAIN builds = 1 .. k /\ n = k + 1
  BY CommitContext
<1>3. /\ builds' \in Recorded /\ DOMAIN builds' = DOMAIN builds \cup {n}
      /\ builds'[n] = Content(j)
      /\ \A m \in DOMAIN builds : builds'[m] = builds[m]
  <2>1. n \notin DOMAIN builds
    BY <1>1 DEF NumberFree
  <2> DEFINE a == Content(j)
             m0 == n
  <2>2. builds \in Recorded /\ m0 \in Number /\ a \in Artifact /\ builds' = With(builds, m0, a)
    BY <1>1
  <2> HIDE DEF a, m0
  <2>3. /\ builds' \in Recorded /\ DOMAIN builds' = DOMAIN builds \cup {m0}
        /\ builds'[m0] = a
        /\ \A m \in DOMAIN builds : m # m0 => builds'[m] = builds[m]
    BY <2>2, WithType
  <2> QED BY <2>1, <2>3 DEF a, m0
<1>4. DOMAIN builds' = 1 .. n /\ n \in 0 .. MaxBuild /\ n \in Nat
  <2>1. k \in Nat /\ n \in Nat /\ n <= MaxBuild
    BY <1>1, PlanAssumption DEF Number
  <2>2. (1 .. k) \cup {k + 1} = 1 .. (k + 1)
    BY <2>1
  <2>3. DOMAIN builds' = 1 .. n
    BY <1>2, <1>3, <2>2
  <2> QED BY <2>1, <2>3, PlanAssumption
<1>5. job \in [Server -> Job] /\ job' \in [Server -> Job]
  <2>1. [job[s] EXCEPT !.stage = "submitted"] \in Job
    BY <1>1 DEF Job, Stage
  <2> QED BY <1>1, <2>1 DEF IInv, TypeOK
<1>6. /\ leases' \in LeaseTable /\ UniqueValues(leases')
      /\ DOMAIN leases' = (DOMAIN leases \ Gone(j)) \cup j.want
      /\ \A i \in Movers(j) : leases'[i] = [leases[Source(i, j)] EXCEPT !.last = n]
      /\ \A i \in Inserts(j) : leases'[i] = [j.plan[i] EXCEPT !.first = n, !.last = n]
      /\ \A i \in Retained(j.want, leases) : leases'[i] = [leases[i] EXCEPT !.last = n]
      /\ \A i \in DOMAIN leases \ (Gone(j) \cup j.want) : leases'[i] = leases[i]
  BY <1>1, CommitTable
<1>7. TypeOK'
  BY <1>3, <1>5, <1>6 DEF CommitTx, IInv, TypeOK, baselines, world, files
<1>8. Dense'
  BY <1>4 DEF Dense
<1>9. JobsOK'
  <2>1. SUFFICES ASSUME NEW t \in Server PROVE JobOK(job[t])'
    BY DEF JobsOK
  <2>2. JobOK(job[t])
    BY DEF IInv, JobsOK
  <2>3. job[t].stage # "idle" => job[t].number \in 1 .. n
    <3>1. CASE job[t].stage # "idle" /\ NumberFree(job[t])
      BY <1>2, <1>4, <2>2, <3>1, FreeIsNext, PlanAssumption
    <3>2. CASE ~NumberFree(job[t])
      BY <1>3, <1>4, <3>2 DEF NumberFree
    <3> QED BY <3>1, <3>2
  <2>4. /\ job'[t].number = job[t].number /\ job'[t].want = job[t].want
        /\ job'[t].payload = job[t].payload /\ job'[t].baseline = job[t].baseline
        /\ job'[t].stage # "idle" <=> job[t].stage # "idle"
        /\ job'[t].stage = "pinned" => job[t].stage = "pinned"
        /\ HasPlan(job'[t]) => job[t].stage # "idle"
        /\ job'[t].stage = "prepared" => job[t].stage = "prepared"
    BY <1>1, <1>5 DEF Job, HasPlan
  <2>5. job'[t].stage # "idle" => job'[t].number \in DOMAIN builds'
    BY <1>4, <2>3, <2>4
  <2>6. DOMAIN builds \subseteq DOMAIN builds'
    BY <1>3
  <2>7. HasPlan(job'[t]) => job'[t].stage # "idle"
    BY <2>4
  <2> QED BY <2>2, <2>4, <2>5, <2>6, <2>7 DEF JobOK, NumberFree
<1>10. NoDuplicateLease'
  BY <1>6 DEF NoDuplicateLease
<1> HIDE DEF j
<1>11. \A m \in DOMAIN builds' : m \in Nat /\ m <= n
  BY <1>4
<1>12. \A i \in DOMAIN leases' : \/ i \in Movers(j) \/ i \in Inserts(j)
                                 \/ i \in Retained(j.want, leases)
                                 \/ i \in DOMAIN leases \ (Gone(j) \cup j.want)
  <2>1. Movers(j) = Inherited(j.want, leases) /\ Inserts(j) = Fresh(j.want, leases)
    BY <1>1, CommitShape
  <2> QED BY <1>6, <2>1 DEF Inherited, Fresh, Retained
<1>13. \A i \in DOMAIN leases : /\ leases[i] \in Lease /\ leases[i].first <= leases[i].last
                                /\ leases[i].last \in DOMAIN builds /\ leases[i].last <= n
                                /\ leases[i].first <= n
  <2>1. ASSUME NEW i \in DOMAIN leases
        PROVE  /\ leases[i] \in Lease /\ leases[i].first <= leases[i].last
               /\ leases[i].last \in DOMAIN builds /\ leases[i].last <= n
               /\ leases[i].first <= n
    <3>1. leases[i] \in Lease /\ leases[i].first \in Nat /\ leases[i].last \in Nat
      BY <1>1, TableFacts, PlanAssumption DEF Number
    <3>2. leases[i].first <= leases[i].last /\ leases[i].last \in DOMAIN builds
      BY DEF IInv, LeasesDated
    <3>3. leases[i].last <= n
      BY <1>3, <1>11, <3>2
    <3> QED BY <1>4, <3>1, <3>2, <3>3
  <2> QED BY <2>1
<1>14. \A i \in Movers(j) : /\ Source(i, j) \in DOMAIN leases
                            /\ Source(i, j) \in Predecessors(i, leases)
  BY <1>1, CommitShape
<1>15. LeasesDated'
  <2>1. \A l \in Lease : /\ [l EXCEPT !.last = n].first = l.first
                         /\ [l EXCEPT !.last = n].last = n
                         /\ [l EXCEPT !.first = n, !.last = n].first = n
                         /\ [l EXCEPT !.first = n, !.last = n].last = n
    BY DEF Lease
  <2>2. n \in DOMAIN builds' /\ n <= n
    BY <1>3, <1>4
  <2>3. \A i \in Inserts(j) : j.plan[i] \in Lease
    <3>1. j.plan \in LeaseTable /\ DOMAIN j.plan = j.want
      BY <1>1 DEF PlanHolds, Job
    <3>2. Inserts(j) \subseteq j.want
      BY <1>1, CommitShape DEF Fresh
    <3> QED BY <3>1, <3>2, TableFacts
  <2>4. SUFFICES ASSUME NEW i \in DOMAIN leases'
                 PROVE  leases'[i].first <= leases'[i].last /\ leases'[i].last \in DOMAIN builds'
    BY DEF LeasesDated
  <2>5. CASE i \in Movers(j)
    <3>1. leases[Source(i, j)] \in Lease /\ leases[Source(i, j)].first <= n
      BY <1>13, <1>14, <2>5
    <3>2. leases'[i] = [leases[Source(i, j)] EXCEPT !.last = n]
      BY <1>6, <2>5
    <3> QED BY <2>1, <2>2, <3>1, <3>2
  <2>6. CASE i \in Inserts(j)
    <3>1. leases'[i] = [j.plan[i] EXCEPT !.first = n, !.last = n]
      BY <1>6, <2>6
    <3> QED BY <2>1, <2>2, <2>3, <2>6, <3>1
  <2>7. CASE i \in Retained(j.want, leases)
    <3>1. leases[i] \in Lease /\ leases[i].first <= n
      BY <1>13, <2>7 DEF Retained
    <3>2. leases'[i] = [leases[i] EXCEPT !.last = n]
      BY <1>6, <2>7
    <3> QED BY <2>1, <2>2, <3>1, <3>2
  <2>8. CASE i \in DOMAIN leases \ (Gone(j) \cup j.want)
    <3>1. leases'[i] = leases[i]
      BY <1>6, <2>8
    <3> QED BY <1>3, <1>13, <2>8, <3>1
  <2> QED BY <1>12, <2>5, <2>6, <2>7, <2>8
<1>16. BuildsStayBacked'
  <2>1. \A l \in Lease : /\ [l EXCEPT !.last = n].value = l.value
                         /\ [l EXCEPT !.last = n].first = l.first
                         /\ [l EXCEPT !.last = n].last = n
                         /\ [l EXCEPT !.first = n, !.last = n].value = l.value
                         /\ [l EXCEPT !.first = n, !.last = n].first = n
                         /\ [l EXCEPT !.first = n, !.last = n].last = n
    BY DEF Lease
  <2>2. n <= n
    BY <1>4
  <2>3. ASSUME NEW m \in DOMAIN builds, NEW i \in DOMAIN builds[m].values
        PROVE  \E x \in DOMAIN leases' :
                 /\ leases'[x].value = builds[m].values[i] /\ x[2] = i[2]
                 /\ leases'[x].first <= m /\ m <= leases'[x].last
    <3>1. PICK x \in DOMAIN leases : /\ leases[x].value = builds[m].values[i] /\ x[2] = i[2]
                                     /\ leases[x].first <= m /\ m <= leases[x].last
      BY DEF IInv, BuildsStayBacked
    <3>2. leases[x] \in Lease /\ m <= n
      BY <1>3, <1>11, <1>13
    <3>3. CASE x \in Gone(j)
      <4>1. PICK y \in Movers(j) : x = Source(y, j)
        BY <3>3 DEF Gone
      <4>2. y \in DOMAIN leases' /\ y[2] = x[2]
        <5>1. y \in j.want
          BY <1>1, <4>1, CommitShape DEF Inherited
        <5> QED BY <1>6, <1>14, <4>1, <5>1 DEF Predecessors
      <4>3. leases'[y] = [leases[x] EXCEPT !.last = n]
        BY <1>6, <4>1
      <4>4. /\ leases'[y].value = leases[x].value /\ leases'[y].first = leases[x].first
            /\ leases'[y].last = n
        BY <2>1, <3>2, <4>3
      <4> QED BY <3>1, <3>2, <4>2, <4>4
    <3>4. CASE x \in j.want
      <4>1. leases'[x] = [leases[x] EXCEPT !.last = n]
        BY <1>6, <3>4 DEF Retained
      <4>2. /\ leases'[x].value = leases[x].value /\ leases'[x].first = leases[x].first
            /\ leases'[x].last = n
        BY <2>1, <3>2, <4>1
      <4> QED BY <1>6, <3>1, <3>2, <3>4, <4>2
    <3>5. CASE x \notin Gone(j) /\ x \notin j.want
      <4>1. x \in DOMAIN leases' /\ leases'[x] = leases[x]
        BY <1>6, <3>5
      <4> QED BY <3>1, <4>1
    <3> QED BY <3>3, <3>4, <3>5
  <2>4. ASSUME NEW i \in DOMAIN Content(j).values
        PROVE  \E x \in DOMAIN leases' :
                 /\ leases'[x].value = Content(j).values[i] /\ x[2] = i[2]
                 /\ leases'[x].first <= n /\ n <= leases'[x].last
    <3>1. i \in j.want /\ Content(j).values[i] = j.plan[i].value /\ i \in DOMAIN leases'
      BY <1>1, <1>6 DEF Content, PlanHolds
    <3>2. CASE i \in Movers(j)
      <4>1. /\ leases[Source(i, j)] \in Lease /\ leases[Source(i, j)].first <= n
            /\ leases[Source(i, j)].value = j.plan[i].value
        BY <1>1, <1>13, <1>14, <3>2, CommitShape
      <4>2. leases'[i] = [leases[Source(i, j)] EXCEPT !.last = n]
        BY <1>6, <3>2
      <4>3. leases'[i].value = j.plan[i].value /\ leases'[i].first <= n /\ leases'[i].last = n
        BY <2>1, <4>1, <4>2
      <4> QED BY <2>2, <3>1, <4>3
    <3>3. CASE i \in Inserts(j)
      <4>1. j.plan \in LeaseTable /\ DOMAIN j.plan = j.want
        BY <1>1 DEF PlanHolds, Job
      <4>2. j.plan[i] \in Lease
        BY <3>1, <4>1, TableFacts
      <4>3. leases'[i] = [j.plan[i] EXCEPT !.first = n, !.last = n]
        BY <1>6, <3>3
      <4>4. leases'[i].value = j.plan[i].value /\ leases'[i].first = n /\ leases'[i].last = n
        BY <2>1, <4>2, <4>3
      <4> QED BY <2>2, <3>1, <4>4
    <3>4. CASE i \in Retained(j.want, leases)
      <4>1. /\ leases[i] \in Lease /\ leases[i].first <= n /\ leases[i].value = j.plan[i].value
        BY <1>1, <1>13, <3>4 DEF Retained, PlanHolds
      <4>2. leases'[i] = [leases[i] EXCEPT !.last = n]
        BY <1>6, <3>4
      <4>3. leases'[i].value = j.plan[i].value /\ leases'[i].first <= n /\ leases'[i].last = n
        BY <2>1, <4>1, <4>2
      <4> QED BY <2>2, <3>1, <4>3
    <3> QED BY <1>12, <3>1, <3>2, <3>3, <3>4
  <2>5. \A m \in DOMAIN builds' : (m = n /\ builds'[m] = Content(j))
                                    \/ (m \in DOMAIN builds /\ builds'[m] = builds[m])
    BY <1>3
  <2> QED BY <2>3, <2>4, <2>5 DEF BuildsStayBacked
<1> QED BY <1>7, <1>8, <1>9, <1>10, <1>15, <1>16 DEF IInv

LEMMA Inductive == IInv /\ [Next]_vars => IInv'
<1> SUFFICES ASSUME IInv, [Next]_vars PROVE IInv'
  OBVIOUS
<1>1. ASSUME NEW s \in Server, NEW want \in SUBSET Identity, NEW payload \in Payload,
             Start(s, want, payload)
      PROVE  IInv'
  BY <1>1, StartStep
<1>2. ASSUME NEW s \in Server, Pin(s) PROVE IInv'
  BY <1>2, PinStep
<1>3. ASSUME NEW s \in Server, Plan(s) PROVE IInv'
  BY <1>3, PlanStep
<1>4. ASSUME NEW s \in Server, Link(s) PROVE IInv'
  BY <1>4, LinkStep
<1>5. ASSUME NEW s \in Server, WriteSidecars(s) PROVE IInv'
  BY <1>5, SidecarStep
<1>6. ASSUME NEW s \in Server, Prepare(s) PROVE IInv'
  BY <1>6, PrepareStep
<1>7. ASSUME NEW s \in Server, CommitTx(s) PROVE IInv'
  BY <1>7, CommitStep
<1>8. ASSUME NEW s \in Server, RollbackTx(s) \/ Verify(s) PROVE IInv'
  BY <1>8, EndStep
<1>9. ASSUME NEW s \in Server, Fail(s) PROVE IInv'
  BY <1>9, FailStep
<1>10. ASSUME \/ \E b \in Baseline : ReplaceStock(b)
              \/ Approve
              \/ \E v \in Occupiable : Occupy(v)
              \/ \E d \in Dir, n \in Number : MoveAside(d, n)
       PROVE  IInv'
  BY <1>10, AdministratorStep
<1>11. CASE UNCHANGED vars
  <2>1. Core'
    BY <1>11, IdleStep, IInvParts DEF vars, registry
  <2>2. TypeOK'
    BY <1>11 DEF vars, registry, baselines, world, files, IInv, TypeOK
  <2> QED BY <2>1, <2>2 DEF IInv, Core
<1> QED BY <1>1, <1>2, <1>3, <1>4, <1>5, <1>6, <1>7, <1>8, <1>9, <1>10, <1>11 DEF Next

LEMMA Invariance == Spec => []IInv
BY Initially, Inductive, PTL DEF Spec

-----------------------------------------------------------------------------
(* What follows.                                                           *)

\* Every reachable state is of its type.
THEOREM TypeCorrect == Spec => []TypeOK
<1>1. IInv => TypeOK
  BY DEF IInv
<1> QED BY <1>1, Invariance, PTL

\* A plan that holds fits in the sense of the abstract build.
LEMMA HoldingPlanFits ==
  ASSUME NEW j \in Job, PlanHolds(j.plan, j.want, leases)
  PROVE  Abstract!Fits(Content(j).values, leases)
<1>1. /\ DOMAIN Content(j).values = j.want
      /\ \A i \in j.want : Content(j).values[i] = j.plan[i].value
  BY DEF Content, PlanHolds
<1>2. /\ Abstract!Retained(j.want, leases) = Retained(j.want, leases)
      /\ Abstract!Inherited(j.want, leases) = Inherited(j.want, leases)
      /\ Abstract!Fresh(j.want, leases) = Fresh(j.want, leases)
      /\ Abstract!Values(leases) = Values(leases)
      /\ \A i : Abstract!Predecessors(i, leases) = Predecessors(i, leases)
  BY DEF Abstract!Retained, Abstract!Inherited, Abstract!Fresh, Abstract!Values,
         Abstract!Predecessors, Retained, Inherited, Fresh, Values, Predecessors
<1>3. Retained(j.want, leases) \subseteq j.want /\ Inherited(j.want, leases) \subseteq j.want
      /\ Fresh(j.want, leases) \subseteq j.want
  BY DEF Retained, Inherited, Fresh
<1> QED BY <1>1, <1>2, <1>3 DEF Abstract!Fits, PlanHolds

\* The build number is an optimistic lock on the lease table: a plan fits
\* the table for as long as the number read before planning is unrecorded.
THEOREM NumberGuardsPlan == Spec => []PlanStillFits
<1>1. IInv => PlanStillFits
  <2>1. SUFFICES ASSUME IInv, NEW s \in Server, HasPlan(job[s]), NumberFree(job[s])
                 PROVE  Abstract!Fits(Content(job[s]).values, leases)
    BY DEF PlanStillFits
  <2>2. job[s] \in Job /\ PlanHolds(job[s].plan, job[s].want, leases)
    BY <2>1 DEF IInv, TypeOK, JobsOK, JobOK
  <2> QED BY <2>2, HoldingPlanFits
<1> QED BY <1>1, Invariance, PTL

\* No ID is leased twice.
THEOREM LeasesAreUnique == Spec => []NoDuplicateLease
<1>1. IInv => NoDuplicateLease
  BY DEF IInv
<1> QED BY <1>1, Invariance, PTL

\* Leases are never recycled: the IDs of every recorded build stay leased.
THEOREM LeasesAreNeverRecycled == Spec => []BuildsStayBacked
<1>1. IInv => BuildsStayBacked
  BY DEF IInv
<1> QED BY <1>1, Invariance, PTL

\* When the number is free no other guard of the transaction can fail: the
\* migration guards and the lease keys are a second line of defence.
THEOREM OtherGuardsAreRedundant == Spec => []NumberCollidesFirst
<1>1. IInv => NumberCollidesFirst
  <2>1. SUFFICES ASSUME IInv, NEW s \in Server, job[s].stage = "prepared", NumberFree(job[s])
                 PROVE  SourcesIntact(job[s]) /\ KeysFree(job[s])
    BY DEF NumberCollidesFirst
  <2> DEFINE j == job[s]
  <2>2. /\ j \in Job /\ leases \in LeaseTable /\ UniqueValues(leases)
        /\ j.before = leases /\ PlanHolds(j.plan, j.want, leases)
    BY <2>1 DEF IInv, TypeOK, JobsOK, JobOK, NoDuplicateLease, HasPlan
  <2> HIDE DEF j
  <2>3. /\ Movers(j) = Inherited(j.want, leases) /\ Inserts(j) = Fresh(j.want, leases)
        /\ \A i \in Movers(j) : Source(i, j) \in DOMAIN leases
    BY <2>2, CommitShape
  <2>4. SourcesIntact(j)
    BY <2>2, <2>3 DEF SourcesIntact
  <2>5. KeysFree(j)
    BY <2>2, <2>3 DEF KeysFree, Inherited, Fresh, PlanHolds
  <2> QED BY <2>4, <2>5 DEF j
<1> QED BY <1>1, Invariance, PTL

\* No step ends a lease or rewrites its value, baseline or first build; a key
\* moves to a successor of its package only.
THEOREM LeasesAlwaysEndure == Spec => LeasesEndure
<1>1. IInv /\ [Next]_vars => [LeaseEndures]_vars
  <2>1. SUFFICES ASSUME IInv, Next PROVE LeaseEndures
    OBVIOUS
  <2>2. CASE leases' = leases
    <3>1. \A i \in DOMAIN leases : /\ leases[i] = [leases[i] EXCEPT !.last = leases[i].last]
                                   /\ leases[i].last \in Nat
      <4>1. \A l \in Lease : l = [l EXCEPT !.last = l.last] /\ l.last \in Nat
        BY PlanAssumption DEF Lease, Number
      <4> QED BY <2>1, <4>1, TableFacts DEF IInv, TypeOK
    <3>2. \A i \in DOMAIN leases : leases[i].last <= leases[i].last
      BY <3>1
    <3> QED BY <2>2, <3>1, <3>2 DEF LeaseEndures
  <2>3. ASSUME NEW s \in Server, CommitTx(s) PROVE LeaseEndures
    <3> DEFINE j == job[s]
               n == job[s].number
    <3>1. /\ j \in Job /\ leases \in LeaseTable /\ UniqueValues(leases)
          /\ n \in Number /\ j.before = leases /\ PlanHolds(j.plan, j.want, leases)
          /\ leases' = Committed(j)
      BY <2>1, <2>3, CommitContext
    <3>2. PICK k \in 0 .. MaxBuild : DOMAIN builds = 1 .. k /\ n = k + 1
      BY <2>1, <2>3, CommitContext
    <3>3. /\ DOMAIN leases' = (DOMAIN leases \ Gone(j)) \cup j.want
          /\ \A i \in Movers(j) : leases'[i] = [leases[Source(i, j)] EXCEPT !.last = n]
          /\ \A i \in Retained(j.want, leases) : leases'[i] = [leases[i] EXCEPT !.last = n]
          /\ \A i \in DOMAIN leases \ (Gone(j) \cup j.want) : leases'[i] = leases[i]
      BY <3>1, CommitTable
    <3> HIDE DEF j
    <3>4. \A l \in Lease : /\ [l EXCEPT !.last = n].last = n
                           /\ l = [l EXCEPT !.last = l.last]
      BY DEF Lease
    <3>5. ASSUME NEW i \in DOMAIN leases
          PROVE  leases[i] \in Lease /\ leases[i].last <= n /\ leases[i].last <= leases[i].last
      <4>1. leases[i] \in Lease /\ leases[i].last \in Nat
        BY <3>1, TableFacts, PlanAssumption DEF Number
      <4>2. leases[i].last \in 1 .. k
        BY <2>1, <3>2 DEF IInv, LeasesDated
      <4> QED BY <3>2, <4>1, <4>2, PlanAssumption
    <3>6. SUFFICES ASSUME NEW i \in DOMAIN leases
                   PROVE  \/ /\ i \in DOMAIN leases'
                             /\ leases'[i] = [leases[i] EXCEPT !.last = leases'[i].last]
                             /\ leases[i].last <= leases'[i].last
                          \/ \E m \in DOMAIN leases' \ DOMAIN leases :
                               /\ i \in Predecessors(m, leases)
                               /\ leases'[m] = [leases[i] EXCEPT !.last = leases'[m].last]
                               /\ leases[i].last <= leases'[m].last
      BY DEF LeaseEndures
    <3>7. CASE i \in Gone(j)
      <4>1. PICK m \in Movers(j) : i = Source(m, j)
        BY <3>7 DEF Gone
      <4>2. m \in j.want /\ m \notin DOMAIN leases /\ i \in Predecessors(m, leases)
        BY <3>1, <4>1, CommitShape DEF Inherited
      <4>3. leases'[m] = [leases[i] EXCEPT !.last = n]
        BY <3>3, <4>1
      <4>4. leases'[m].last = n
        BY <3>4, <3>5, <4>3
      <4> QED BY <3>3, <3>5, <4>2, <4>3, <4>4
    <3>8. CASE i \in j.want
      <4>1. leases'[i] = [leases[i] EXCEPT !.last = n]
        BY <3>3, <3>8 DEF Retained
      <4>2. leases'[i].last = n
        BY <3>4, <3>5, <4>1
      <4> QED BY <3>3, <3>5, <3>8, <4>1, <4>2
    <3>9. CASE i \notin Gone(j) /\ i \notin j.want
      <4>1. i \in DOMAIN leases' /\ leases'[i] = leases[i]
        BY <3>3, <3>9
      <4> QED BY <3>4, <3>5, <4>1
    <3> QED BY <3>7, <3>8, <3>9
  <2>4. leases' = leases \/ \E s \in Server : CommitTx(s)
    BY <2>1 DEF Next, Start, Pin, Plan, Link, WriteSidecars, Prepare, RollbackTx, Verify, Fail,
                ReplaceStock, Approve, Occupy, MoveAside, registry
  <2> QED BY <2>2, <2>3, <2>4
<1> QED BY <1>1, Invariance, PTL DEF Spec, LeasesEndure

-----------------------------------------------------------------------------
(* Refinement.                                                             *)

\* The committed table is the one the abstract build asks for.
LEMMA CommitRecords ==
  ASSUME NEW j \in Job, leases \in LeaseTable, UniqueValues(leases), j.number \in Number,
         j.before = leases, PlanHolds(j.plan, j.want, leases),
         leases' = Committed(j), NEW values, DOMAIN values = j.want,
         \A i \in j.want : values[i] = j.plan[i].value
  PROVE  Abstract!Record(j.number, values, leases, leases')
<1> DEFINE n == j.number
<1>1. /\ Abstract!Retained(j.want, leases) = Retained(j.want, leases)
      /\ Abstract!Inherited(j.want, leases) = Inherited(j.want, leases)
      /\ Abstract!Fresh(j.want, leases) = Fresh(j.want, leases)
      /\ \A i : Abstract!Predecessors(i, leases) = Predecessors(i, leases)
  BY DEF Abstract!Retained, Abstract!Inherited, Abstract!Fresh,
         Abstract!Predecessors, Retained, Inherited, Fresh, Predecessors
<1>2. /\ DOMAIN leases' = (DOMAIN leases \ Gone(j)) \cup j.want
      /\ \A i \in Movers(j) : leases'[i] = [leases[Source(i, j)] EXCEPT !.last = n]
      /\ \A i \in Inserts(j) : leases'[i] = [j.plan[i] EXCEPT !.first = n, !.last = n]
      /\ \A i \in Retained(j.want, leases) : leases'[i] = [leases[i] EXCEPT !.last = n]
      /\ \A i \in DOMAIN leases \ (Gone(j) \cup j.want) : leases'[i] = leases[i]
  BY CommitTable
<1>3. /\ Movers(j) = Inherited(j.want, leases) /\ Inserts(j) = Fresh(j.want, leases)
      /\ \A i \in Movers(j) : /\ Source(i, j) \in Predecessors(i, leases)
                              /\ Source(i, j) \in DOMAIN leases
                              /\ leases[Source(i, j)].value = j.plan[i].value
      /\ \A i \in Movers(j), k \in DOMAIN leases :
           leases[k].value = j.plan[i].value => k = Source(i, j)
  BY CommitShape
<1>4. Inherited(j.want, leases) \subseteq j.want /\ Fresh(j.want, leases) \subseteq j.want
  BY DEF Inherited, Fresh
<1>5. Abstract!Moved(values, leases) = Gone(j)
  <2>1. ASSUME NEW p \in Gone(j) PROVE p \in Abstract!Moved(values, leases)
    <3>1. PICK i \in Movers(j) : p = Source(i, j)
      BY DEF Gone
    <3> QED BY <1>1, <1>3, <1>4, <3>1 DEF Abstract!Moved
  <2>2. ASSUME NEW p \in Abstract!Moved(values, leases) PROVE p \in Gone(j)
    <3>1. PICK i \in Inherited(j.want, leases) : p \in DOMAIN leases /\ values[i] = leases[p].value
      BY <1>1 DEF Abstract!Moved
    <3>2. p = Source(i, j)
      BY <1>3, <1>4, <3>1
    <3> QED BY <1>3, <3>2 DEF Gone
  <2> QED BY <2>1, <2>2
<1>6. \A i \in Fresh(j.want, leases) :
        leases'[i].value = values[i] /\ leases'[i].first = n /\ leases'[i].last = n
  <2>1. \A l \in Lease : /\ [l EXCEPT !.first = n, !.last = n].value = l.value
                         /\ [l EXCEPT !.first = n, !.last = n].first = n
                         /\ [l EXCEPT !.first = n, !.last = n].last = n
    BY DEF Lease
  <2>2. ASSUME NEW i \in Fresh(j.want, leases)
        PROVE  leases'[i].value = values[i] /\ leases'[i].first = n /\ leases'[i].last = n
    <3>1. j.plan \in LeaseTable /\ DOMAIN j.plan = j.want
      BY DEF PlanHolds, Job
    <3>2. j.plan[i] \in Lease /\ values[i] = j.plan[i].value
      BY <1>4, <3>1, TableFacts
    <3>3. i \in Inserts(j)
      BY <1>3
    <3>4. leases'[i] = [j.plan[i] EXCEPT !.first = n, !.last = n]
      BY <1>2, <3>3
    <3> QED BY <2>1, <3>2, <3>4
  <2> QED BY <2>2
<1>7. \A i \in Inherited(j.want, leases) :
        \E p \in Predecessors(i, leases) :
          values[i] = leases[p].value /\ leases'[i] = [leases[p] EXCEPT !.last = n]
  <2>1. ASSUME NEW i \in Inherited(j.want, leases)
        PROVE  \E p \in Predecessors(i, leases) :
                 values[i] = leases[p].value /\ leases'[i] = [leases[p] EXCEPT !.last = n]
    <3>1. i \in Movers(j) /\ i \in j.want
      BY <1>3, <1>4
    <3>2. leases'[i] = [leases[Source(i, j)] EXCEPT !.last = n]
      BY <1>2, <3>1
    <3>3. Source(i, j) \in Predecessors(i, leases) /\ leases[Source(i, j)].value = values[i]
      BY <1>3, <3>1
    <3> QED BY <3>2, <3>3
  <2> QED BY <2>1
<1>8. DOMAIN leases \ (Abstract!Moved(values, leases) \cup DOMAIN values)
        = DOMAIN leases \ (Gone(j) \cup j.want)
  BY <1>5
<1>9. \A i \in Abstract!Inherited(DOMAIN values, leases) :
        \E p \in Abstract!Predecessors(i, leases) :
          values[i] = leases[p].value /\ leases'[i] = [leases[p] EXCEPT !.last = n]
  <2>1. ASSUME NEW i \in Abstract!Inherited(DOMAIN values, leases)
        PROVE  \E p \in Abstract!Predecessors(i, leases) :
                 values[i] = leases[p].value /\ leases'[i] = [leases[p] EXCEPT !.last = n]
    <3>1. PICK p \in Predecessors(i, leases) :
            values[i] = leases[p].value /\ leases'[i] = [leases[p] EXCEPT !.last = n]
      BY <1>1, <1>7
    <3>2. p \in Abstract!Predecessors(i, leases)
      BY <1>1
    <3> QED BY <3>1, <3>2
  <2> QED BY <2>1
<1>10. \A i \in Abstract!Fresh(DOMAIN values, leases) :
         leases'[i].value = values[i] /\ leases'[i].first = n /\ leases'[i].last = n
  BY <1>1, <1>6
<1>11. \A i \in Abstract!Retained(DOMAIN values, leases) :
         leases'[i] = [leases[i] EXCEPT !.last = n]
  <2>1. Abstract!Retained(DOMAIN values, leases) = Retained(j.want, leases)
    BY <1>1
  <2>2. \A i \in Retained(j.want, leases) : leases'[i] = [leases[i] EXCEPT !.last = n]
    BY <1>2
  <2> QED BY <2>1, <2>2
<1>12. DOMAIN leases' = (DOMAIN leases \ Abstract!Moved(values, leases)) \cup DOMAIN values
  BY <1>2, <1>5
<1>13. \A i \in DOMAIN leases \ (Abstract!Moved(values, leases) \cup DOMAIN values) :
         leases'[i] = leases[i]
  BY <1>2, <1>8
<1> QED BY <1>9, <1>10, <1>11, <1>12, <1>13 DEF Abstract!Record

\* Every step of every server is an indivisible build or changes nothing.
THEOREM ImplementsAtomicBuild == Spec => BuildsAreAtomic
<1>1. Init => Abstract!Init
  BY DEF Init, Abstract!Init, Nothing, NoLeases, Abstract!NoLeases
<1>2. IInv /\ [Next]_vars => [Abstract!Next]_(Abstract!vars)
  <2>1. SUFFICES ASSUME IInv, [Next]_vars
                 PROVE  Abstract!Next \/ UNCHANGED <<builds, leases>>
    BY DEF Abstract!vars
  <2>2. ASSUME NEW s \in Server, CommitTx(s) PROVE Abstract!Next
    <3> DEFINE j == job[s]
               n == job[s].number
               a == Content(job[s])
    <3>1. /\ j \in Job /\ leases \in LeaseTable /\ UniqueValues(leases)
          /\ n \in Number /\ j.before = leases /\ PlanHolds(j.plan, j.want, leases)
          /\ leases' = Committed(j) /\ builds' = With(builds, n, a)
          /\ builds \in Recorded /\ a \in Artifact /\ n \notin DOMAIN builds
      BY <2>1, <2>2, CommitContext DEF NumberFree
    <3>2. PICK k \in 0 .. MaxBuild : DOMAIN builds = 1 .. k /\ n = k + 1
      BY <2>1, <2>2, CommitContext
    <3>3. DOMAIN builds = 1 .. (n - 1) /\ DOMAIN builds \cup {n} = 1 .. n
      BY <3>2, PlanAssumption
    <3>4. builds' = [m \in 1 .. n |-> IF m = n THEN a ELSE builds[m]]
      BY <3>1, <3>3 DEF With
    <3>5. /\ DOMAIN a.values = j.want
          /\ \A i \in j.want : a.values[i] = j.plan[i].value
      BY <3>1 DEF Content, PlanHolds
    <3>6. Abstract!Fits(a.values, leases)
      BY <3>1, HoldingPlanFits
    <3>7. Abstract!ReplacementsResolve({i[1] : i \in DOMAIN a.values})
      BY <3>1, <3>5 DEF PlanHolds, ReplacementsResolve, Abstract!ReplacementsResolve
    <3>8. a \in Abstract!Artifact /\ n \in Abstract!Number
      BY <3>1 DEF Artifact, Abstract!Artifact, Abstract!Identity, Abstract!Value,
                  Abstract!Number, Identity, Value, Number
    <3> HIDE DEF a
    <3>9. Abstract!Record(n, a.values, leases, leases')
      BY <3>1, <3>5, CommitRecords
    <3>10. Abstract!Build(n, a)
      BY <3>3, <3>4, <3>6, <3>7, <3>9 DEF Abstract!Build
    <3> QED BY <3>8, <3>10 DEF Abstract!Next
  <2>3. UNCHANGED <<builds, leases>> \/ \E s \in Server : CommitTx(s)
    BY <2>1 DEF Next, vars, Start, Pin, Plan, Link, WriteSidecars, Prepare, RollbackTx, Verify,
                Fail, ReplaceStock, Approve, Occupy, MoveAside, registry
  <2> QED BY <2>2, <2>3
<1> QED BY <1>1, <1>2, Invariance, PTL DEF Spec, BuildsAreAtomic, Abstract!Spec

-----------------------------------------------------------------------------
(* The files.  An archive is linked under a name that is free, so whoever  *)
(* links it has the only archive of that name until it is recorded, and    *)
(* nobody removes one that is in use or recorded.                          *)

Holds(table, n, artifact) == n \in DOMAIN table /\ table[n] = artifact

\* What a job has published, and that what it reports is recorded.
Backed(j, archives, sidecars, records) ==
  /\ j.stage \in {"linked", "assembled", "prepared", "submitted", "recorded"}
       => Holds(archives, j.number, Content(j))
  /\ j.stage \in {"assembled", "prepared", "submitted", "recorded"}
       => Holds(sidecars, j.number, Content(j))
  /\ j.stage = "recorded" => Holds(records, j.number, Content(j))
JobsBacked ==
  \A s \in Server : Backed(job[s], mpq[DirOf[s]], sidecar[DirOf[s]], builds)

FilesInv == IInv /\ JobsBacked /\ RecordedHasFiles

\* A table under a free name keeps all it holds.
LEMMA WithKeeps ==
  ASSUME NEW t, NEW n, n \notin DOMAIN t, NEW a
  PROVE  /\ Holds(With(t, n, a), n, a)
         /\ \A m, b : Holds(t, m, b) => Holds(With(t, n, a), m, b)
BY DEF With, Holds

\* What a step of a server keeps when the files and the registry only grow.
LEMMA GrowingFiles ==
  ASSUME JobsBacked, NEW s \in Server, NEW j, job \in [Server -> Job],
         job' = [job EXCEPT ![s] = j], Backed(j, mpq'[DirOf[s]], sidecar'[DirOf[s]], builds'),
         \A d \in Dir : \A n, a : Holds(mpq[d], n, a) => Holds(mpq'[d], n, a),
         \A d \in Dir : \A n, a : Holds(sidecar[d], n, a) => Holds(sidecar'[d], n, a),
         \A n, a : Holds(builds, n, a) => Holds(builds', n, a)
  PROVE  JobsBacked'
<1> SUFFICES ASSUME NEW t \in Server PROVE Backed(job'[t], mpq'[DirOf[t]], sidecar'[DirOf[t]], builds')
  BY DEF JobsBacked
<1>1. CASE t = s
  BY <1>1
<1>2. CASE t # s
  <2>1. job'[t] = job[t] /\ DirOf[t] \in Dir /\ Backed(job[t], mpq[DirOf[t]], sidecar[DirOf[t]], builds)
    BY <1>2, BuildAssumption DEF JobsBacked
  <2> QED BY <2>1 DEF Backed, Content
<1> QED BY <1>1, <1>2

\* And the builds recorded before keep their files.
LEMMA KeptFiles ==
  ASSUME RecordedHasFiles,
         \A d \in Dir : \A n, a : Holds(mpq[d], n, a) => Holds(mpq'[d], n, a),
         \A d \in Dir : \A n, a : Holds(sidecar[d], n, a) => Holds(sidecar'[d], n, a)
  PROVE  \A n \in DOMAIN builds : \E d \in Dir :
           Holds(mpq'[d], n, builds[n]) /\ Holds(sidecar'[d], n, builds[n])
BY DEF RecordedHasFiles, Holds

\* The artifact of a job does not depend on its stage.
LEMMA StageKeepsContent ==
  ASSUME NEW j \in Job, NEW stage
  PROVE  LET k == [j EXCEPT !.stage = stage]
         IN  k.stage = stage /\ k.number = j.number /\ Content(k) = Content(j)
BY DEF Job, Content

LEMMA FilesStep ==
  ASSUME FilesInv, [Next]_vars, IInv'
  PROVE  FilesInv'
<1> USE DEF FilesInv
<1>1. job \in [Server -> Job] /\ DirOf \in [Server -> Dir]
      /\ mpq \in [Dir -> Recorded] /\ sidecar \in [Dir -> Recorded]
  BY BuildAssumption DEF IInv, TypeOK
\* Steps that touch neither files nor builds.
<1>2. ASSUME NEW s \in Server, NEW j, job' = [job EXCEPT ![s] = j], Backed(j, mpq[DirOf[s]], sidecar[DirOf[s]], builds),
             mpq' = mpq, sidecar' = sidecar, builds' = builds
      PROVE  FilesInv'
  <2>1. Backed(j, mpq'[DirOf[s]], sidecar'[DirOf[s]], builds')
    BY <1>2 DEF Backed, Content
  <2>2. JobsBacked'
    BY <1>1, <1>2, <2>1, GrowingFiles
  <2>3. RecordedHasFiles'
    BY <1>2 DEF RecordedHasFiles
  <2> QED BY <2>2, <2>3
<1>3. ASSUME NEW s \in Server, NEW want \in SUBSET Identity, NEW payload \in Payload,
             Start(s, want, payload)
      PROVE  FilesInv'
  <2> DEFINE j == [NoJob EXCEPT !.stage = IF want = {} THEN "planned" ELSE "numbered",
                                !.number = NextNumber, !.want = want, !.payload = payload]
  <2>1. job' = [job EXCEPT ![s] = j] /\ j.stage \in {"planned", "numbered"}
    BY <1>3 DEF Start, NoJob
  <2>2. mpq' = mpq /\ sidecar' = sidecar /\ builds' = builds
    BY <1>3 DEF Start, files, registry
  <2> HIDE DEF j
  <2>3. Backed(j, mpq[DirOf[s]], sidecar[DirOf[s]], builds)
    BY <2>1 DEF Backed
  <2> QED BY <1>2, <2>1, <2>2, <2>3
<1>4. ASSUME NEW s \in Server, Pin(s) PROVE FilesInv'
  <2> DEFINE j == [job[s] EXCEPT !.stage = "pinned", !.baseline = stock,
                                 !.known = history \cup {stock}]
  <2>1. job' = [job EXCEPT ![s] = j] /\ j.stage = "pinned"
    BY <1>1, <1>4 DEF Pin, Job
  <2>2. mpq' = mpq /\ sidecar' = sidecar /\ builds' = builds
    BY <1>4 DEF Pin, files, registry
  <2> HIDE DEF j
  <2>3. Backed(j, mpq[DirOf[s]], sidecar[DirOf[s]], builds)
    BY <2>1 DEF Backed
  <2> QED BY <1>2, <2>1, <2>2, <2>3
<1>5. ASSUME NEW s \in Server, Plan(s) PROVE FilesInv'
  <2>1. PICK f \in [Fresh(job[s].want, leases) -> FirstCandidate(job[s].baseline) .. LastCandidate] :
          job' = [job EXCEPT ![s].stage = "planned",
                    ![s].plan = PlanRows(job[s].want, f, leases, job[s].baseline, job[s].number)]
    BY <1>5 DEF Plan
  <2> DEFINE rows == PlanRows(job[s].want, f, leases, job[s].baseline, job[s].number)
             j == [job[s] EXCEPT !.stage = "planned", !.plan = rows]
  <2> HIDE DEF rows
  <2>2. job' = [job EXCEPT ![s] = j] /\ j.stage = "planned"
    BY <1>1, <2>1 DEF rows, Job
  <2>3. mpq' = mpq /\ sidecar' = sidecar /\ builds' = builds
    BY <1>5 DEF Plan, files, registry
  <2> HIDE DEF j
  <2>4. Backed(j, mpq[DirOf[s]], sidecar[DirOf[s]], builds)
    BY <2>2 DEF Backed
  <2> QED BY <1>2, <2>2, <2>3, <2>4
<1>6. ASSUME NEW s \in Server, Link(s) PROVE FilesInv'
  <2> DEFINE d == DirOf[s]
             j == [job[s] EXCEPT !.stage = "linked"]
             a == Content(job[s])
             n == job[s].number
  <2>1. /\ job[s] \in Job /\ d \in Dir /\ n \notin DOMAIN mpq[d]
        /\ job' = [job EXCEPT ![s] = j]
        /\ mpq' = [mpq EXCEPT ![d] = With(mpq[d], n, a)]
        /\ sidecar' = sidecar /\ builds' = builds
    BY <1>1, <1>6 DEF Link, registry
  <2>2. j.stage = "linked" /\ j.number = n /\ Content(j) = a
    BY <2>1, StageKeepsContent
  <2> HIDE DEF j, a, n, d
  <2>3. /\ Holds(mpq'[d], n, a)
        /\ \A e \in Dir : \A m, b : Holds(mpq[e], m, b) => Holds(mpq'[e], m, b)
    BY <1>1, <2>1, WithKeeps
  <2>4. Backed(j, mpq'[d], sidecar'[d], builds')
    BY <2>2, <2>3 DEF Backed, Content
  <2>5. JobsBacked'
    BY <1>1, <2>1, <2>3, <2>4, GrowingFiles DEF d
  <2>6. RecordedHasFiles'
    BY <2>1, <2>3, KeptFiles DEF RecordedHasFiles, Holds
  <2> QED BY <2>5, <2>6
<1>7. ASSUME NEW s \in Server, WriteSidecars(s) PROVE FilesInv'
  <2> DEFINE d == DirOf[s]
             j == [job[s] EXCEPT !.stage = "assembled"]
             a == Content(job[s])
             n == job[s].number
  <2>1. /\ job[s] \in Job /\ d \in Dir /\ n \notin DOMAIN sidecar[d]
        /\ job' = [job EXCEPT ![s] = j] /\ job[s].stage = "linked"
        /\ sidecar' = [sidecar EXCEPT ![d] = With(sidecar[d], n, a)]
        /\ mpq' = mpq /\ builds' = builds
    BY <1>1, <1>7 DEF WriteSidecars, registry
  <2>2. j.stage = "assembled" /\ j.number = n /\ Content(j) = a
    BY <2>1, StageKeepsContent
  <2>3. Holds(mpq[d], n, a)
    BY <2>1 DEF JobsBacked, Backed
  <2> HIDE DEF j, a, n, d
  <2>4. /\ Holds(sidecar'[d], n, a)
        /\ \A e \in Dir : \A m, b : Holds(sidecar[e], m, b) => Holds(sidecar'[e], m, b)
    BY <1>1, <2>1, WithKeeps
  <2>5. Backed(j, mpq'[d], sidecar'[d], builds')
    BY <2>1, <2>2, <2>3, <2>4 DEF Backed, Content
  <2>6. JobsBacked'
    BY <1>1, <2>1, <2>4, <2>5, GrowingFiles DEF d
  <2>7. RecordedHasFiles'
    BY <2>1, <2>4, KeptFiles DEF RecordedHasFiles, Holds
  <2> QED BY <2>6, <2>7
<1>8. ASSUME NEW s \in Server, Prepare(s) PROVE FilesInv'
  <2> DEFINE j == [job[s] EXCEPT !.stage = "prepared", !.before = leases]
  <2>1. /\ job' = [job EXCEPT ![s] = j] /\ job[s].stage = "assembled"
        /\ j.stage = "prepared" /\ j.number = job[s].number /\ Content(j) = Content(job[s])
    BY <1>1, <1>8 DEF Prepare, Job, Content
  <2>2. mpq' = mpq /\ sidecar' = sidecar /\ builds' = builds
    BY <1>8 DEF Prepare, files, registry
  <2> HIDE DEF j
  <2>3. Backed(j, mpq[DirOf[s]], sidecar[DirOf[s]], builds)
    BY <2>1 DEF JobsBacked, Backed
  <2> QED BY <1>2, <2>1, <2>2, <2>3
<1>9. ASSUME NEW s \in Server, CommitTx(s) PROVE FilesInv'
  <2> DEFINE d == DirOf[s]
             j == [job[s] EXCEPT !.stage = "submitted"]
             a == Content(job[s])
             n == job[s].number
  <2>1. /\ job[s] \in Job /\ d \in Dir /\ n \notin DOMAIN builds
        /\ job' = [job EXCEPT ![s] = j] /\ job[s].stage = "prepared"
        /\ builds' = With(builds, n, a)
        /\ mpq' = mpq /\ sidecar' = sidecar
    BY <1>1, <1>9 DEF CommitTx, NumberFree, files
  <2>2. j.stage = "submitted" /\ j.number = n /\ Content(j) = a
    BY <2>1, StageKeepsContent
  <2>3. Holds(mpq[d], n, a) /\ Holds(sidecar[d], n, a)
    BY <2>1 DEF JobsBacked, Backed
  <2> HIDE DEF j, a, n, d
  <2>4. \A m, b : Holds(builds, m, b) => Holds(builds', m, b)
    BY <2>1, WithKeeps
  <2>5. Backed(j, mpq'[d], sidecar'[d], builds')
    BY <2>1, <2>2, <2>3 DEF Backed, Content
  <2>6. JobsBacked'
    BY <1>1, <2>1, <2>4, <2>5, GrowingFiles DEF d
  <2>7. \A m \in DOMAIN builds' :
          \/ m = n /\ builds'[m] = a
          \/ m \in DOMAIN builds /\ builds'[m] = builds[m]
    BY <2>1 DEF With
  <2>8. RecordedHasFiles'
    BY <2>1, <2>3, <2>7 DEF RecordedHasFiles, Holds
  <2> QED BY <2>6, <2>8
<1>10. ASSUME NEW s \in Server, RollbackTx(s) PROVE FilesInv'
  <2> DEFINE j == [job[s] EXCEPT !.stage = "submitted"]
  <2>1. job' = [job EXCEPT ![s] = j] /\ job[s].stage = "prepared" /\ job[s] \in Job
    BY <1>1, <1>10 DEF RollbackTx
  <2>2. j.stage = "submitted" /\ j.number = job[s].number /\ Content(j) = Content(job[s])
    BY <2>1, StageKeepsContent
  <2>3. mpq' = mpq /\ sidecar' = sidecar /\ builds' = builds
    BY <1>10 DEF RollbackTx, files, registry
  <2> HIDE DEF j
  <2>4. Backed(j, mpq[DirOf[s]], sidecar[DirOf[s]], builds)
    BY <2>1, <2>2 DEF JobsBacked, Backed
  <2> QED BY <1>2, <2>1, <2>3, <2>4
<1>11. ASSUME NEW s \in Server, Verify(s) PROVE FilesInv'
  <2> DEFINE j == [job[s] EXCEPT !.stage = "recorded"]
  <2>1. /\ job' = [job EXCEPT ![s] = j] /\ job[s].stage = "submitted" /\ job[s] \in Job
        /\ Holds(builds, job[s].number, Content(job[s]))
    BY <1>1, <1>11 DEF Verify, Holds
  <2>2. j.stage = "recorded" /\ j.number = job[s].number /\ Content(j) = Content(job[s])
    BY <2>1, StageKeepsContent
  <2>3. mpq' = mpq /\ sidecar' = sidecar /\ builds' = builds
    BY <1>11 DEF Verify, files, registry
  <2> HIDE DEF j
  <2>4. Backed(j, mpq[DirOf[s]], sidecar[DirOf[s]], builds)
    BY <2>1, <2>2 DEF JobsBacked, Backed
  <2> QED BY <1>2, <2>1, <2>3, <2>4
<1>12. ASSUME NEW s \in Server, Fail(s) PROVE FilesInv'
  <2>1. Backed(NoJob, mpq[DirOf[s]], sidecar[DirOf[s]], builds)
    BY NoJobIsJob DEF Backed
  <2> QED BY <1>2, <1>12, <2>1 DEF Fail, files, registry
<1>13. ASSUME NEW d \in Dir, NEW n \in Number, MoveAside(d, n) PROVE FilesInv'
  <2>1. /\ job' = job /\ builds' = builds /\ n \notin DOMAIN builds /\ ~InFlight(n, d)
        /\ mpq' = [mpq EXCEPT ![d] = [m \in DOMAIN mpq[d] \ {n} |-> mpq[d][m]]]
        /\ sidecar' = [sidecar EXCEPT ![d] = [m \in DOMAIN sidecar[d] \ {n} |-> sidecar[d][m]]]
    BY <1>13 DEF MoveAside, registry
  <2>2. \A e \in Dir : \A m, a : Holds(mpq[e], m, a) /\ (e # d \/ m # n) => Holds(mpq'[e], m, a)
    BY <1>1, <2>1 DEF Holds
  <2>3. \A e \in Dir : \A m, a : Holds(sidecar[e], m, a) /\ (e # d \/ m # n)
          => Holds(sidecar'[e], m, a)
    BY <1>1, <2>1 DEF Holds
  <2>4. JobsBacked'
    <3> SUFFICES ASSUME NEW s \in Server PROVE Backed(job'[s], mpq'[DirOf[s]], sidecar'[DirOf[s]], builds')
      BY DEF JobsBacked
    <3> DEFINE j == job[s]
    <3>1. job'[s] = j /\ DirOf[s] \in Dir /\ Backed(j, mpq[DirOf[s]], sidecar[DirOf[s]], builds)
      BY <1>1, <2>1 DEF JobsBacked
    <3>2. j.stage \in {"linked", "assembled", "prepared", "submitted"}
            => DirOf[s] # d \/ j.number # n
      BY <2>1 DEF InFlight
    <3>3. j.stage = "recorded" => j.number # n
      BY <2>1, <3>1 DEF Backed, Holds
    <3> HIDE DEF j
    <3> QED BY <2>1, <2>2, <2>3, <3>1, <3>2, <3>3 DEF Backed, Content
  <2>5. RecordedHasFiles'
    <3> SUFFICES ASSUME NEW m \in DOMAIN builds
                 PROVE  \E e \in Dir : Holds(mpq'[e], m, builds[m])
                                       /\ Holds(sidecar'[e], m, builds[m])
      <4>1. builds' = builds
        BY <2>1
      <4> HIDE <2>1
      <4> QED BY <4>1 DEF RecordedHasFiles, Holds
    <3>1. PICK e \in Dir : Holds(mpq[e], m, builds[m]) /\ Holds(sidecar[e], m, builds[m])
      BY DEF RecordedHasFiles, Holds
    <3>2. m # n
      BY <2>1
    <3> QED BY <2>2, <2>3, <3>1, <3>2
  <2> QED BY <2>4, <2>5
<1>14. ASSUME UNCHANGED <<builds, mpq, sidecar, job>> PROVE FilesInv'
  BY <1>14 DEF JobsBacked, Backed, Content, RecordedHasFiles
<1>15. ASSUME \/ \E b \in Baseline : ReplaceStock(b)
              \/ Approve
              \/ \E v \in Occupiable : Occupy(v)
              \/ UNCHANGED vars
       PROVE  FilesInv'
  BY <1>14, <1>15 DEF ReplaceStock, Approve, Occupy, vars, registry, files
<1> QED BY <1>3, <1>4, <1>5, <1>6, <1>7, <1>8, <1>9, <1>10, <1>11, <1>12, <1>13, <1>15 DEF Next

LEMMA FilesInvariance == Spec => []FilesInv
<1>1. Init => FilesInv
  <2> SUFFICES ASSUME Init PROVE FilesInv
    OBVIOUS
  <2>1. IInv
    BY Initially
  <2>2. JobsBacked
    BY NoJobIsJob DEF Init, JobsBacked, Backed
  <2>3. RecordedHasFiles
    BY DEF Init, Nothing, RecordedHasFiles
  <2> QED BY <2>1, <2>2, <2>3 DEF FilesInv
<1>2. FilesInv /\ [Next]_vars => FilesInv'
  BY Inductive, FilesStep DEF FilesInv
<1> QED BY <1>1, <1>2, PTL DEF Spec

\* A recorded build has its archive and its sidecars in some directory.
THEOREM RecordedKeepFiles == Spec => []RecordedHasFiles
<1>1. FilesInv => RecordedHasFiles
  BY DEF FilesInv
<1> QED BY <1>1, FilesInvariance, PTL

\* A build reported as successful is recorded, and published, as it was made.
THEOREM ReportedBuildsAreBacked == Spec => []SuccessIsBacked
<1>1. FilesInv => SuccessIsBacked
  BY DEF FilesInv, JobsBacked, Backed, Holds, SuccessIsBacked
<1> QED BY <1>1, FilesInvariance, PTL

-----------------------------------------------------------------------------
(* What a build writes is no stock ID.                                     *)

\* A plan is clear of the baseline it was made for, and made for the requests.
ClearJob(j) ==
  HasPlan(j) =>
    /\ DOMAIN j.plan = j.want
    /\ j.want # {} => j.baseline \in Baseline
    /\ \A i \in DOMAIN j.plan : j.plan[i].value > StockMax[j.baseline]
JobsClear == \A s \in Server : ClearJob(job[s])

\* The allocator starts above the stock IDs, and keeps only what is above them.
LEMMA PlanRowsClear ==
  ASSUME NEW table \in LeaseTable, NEW used, NEW b \in Baseline, NEW known,
         NEW want \in SUBSET Identity, NEW n \in Number,
         Reusable(want, table, used, b, known),
         NEW f \in [Fresh(want, table) -> FirstCandidate(b) .. LastCandidate]
  PROVE  /\ DOMAIN PlanRows(want, f, table, b, n) = want
         /\ \A i \in want : PlanRows(want, f, table, b, n)[i].value > StockMax[b]
<1> DEFINE rows == PlanRows(want, f, table, b, n)
           pred(i) == CHOOSE p \in Predecessors(i, table) : TRUE
<1>1. StockMax[b] \in Nat /\ LastCandidate \in Nat
  BY PlanAssumption
<1>2. \A i \in DOMAIN table : table[i] \in Lease /\ table[i].value \in Nat \ {0}
  BY <1>1 DEF LeaseTable, Lease, Value
<1>3. ASSUME NEW i \in Retained(want, table) PROVE rows[i].value > StockMax[b]
  <2>1. i \in want /\ i \in DOMAIN table /\ table[i].value \notin 1 .. StockMax[b]
    BY <1>3 DEF Reusable, Retained, Occupied
  <2>2. rows[i].value = table[i].value
    BY <1>2, <2>1 DEF PlanRows, Lease
  <2> QED BY <1>1, <1>2, <2>1, <2>2
<1>4. ASSUME NEW i \in Inherited(want, table) PROVE rows[i].value > StockMax[b]
  <2>1. i \in want /\ i \notin DOMAIN table /\ i \notin DOMAIN f
    BY <1>4 DEF Inherited, Fresh
  <2>2. PICK p \in Predecessors(i, table) :
          Predecessors(i, table) = {p} /\ table[p].value >= FirstCandidate(b)
    BY <1>4 DEF Reusable
  <2>3. pred(i) = p /\ p \in DOMAIN table
    BY <2>2 DEF Predecessors
  <2>4. rows[i].value = table[p].value
    BY <1>2, <2>1, <2>3 DEF PlanRows, Lease
  <2> QED BY <1>1, <1>2, <2>2, <2>3, <2>4 DEF FirstCandidate
<1>5. ASSUME NEW i \in Fresh(want, table) PROVE rows[i].value > StockMax[b]
  <2>1. i \in want /\ i \notin DOMAIN table /\ i \in DOMAIN f /\ f[i] \in FirstCandidate(b) .. LastCandidate
    BY <1>5 DEF Fresh
  <2>2. rows[i].value = f[i]
    BY <2>1 DEF PlanRows
  <2> QED BY <1>1, <2>1, <2>2 DEF FirstCandidate
<1>6. want = Retained(want, table) \cup Inherited(want, table) \cup Fresh(want, table)
  BY DEF Retained, Inherited, Fresh
<1>7. DOMAIN rows = want
  BY DEF PlanRows
<1> QED BY <1>3, <1>4, <1>5, <1>6, <1>7

LEMMA ClearStep ==
  ASSUME IInv, JobsClear, [Next]_vars
  PROVE  JobsClear'
<1>1. job \in [Server -> Job]
  BY DEF IInv, TypeOK
\* One job moves to a stage, with whatever plan it had.
<1>2. ASSUME NEW s \in Server, NEW j, job' = [job EXCEPT ![s] = j], ClearJob(j)
      PROVE  JobsClear'
  <2>1. \A t \in Server : job'[t] = job[t] \/ job'[t] = j
    BY <1>1, <1>2
  <2> QED BY <1>2, <2>1 DEF JobsClear, ClearJob, HasPlan
<1>3. ASSUME NEW s \in Server, NEW want \in SUBSET Identity, NEW payload \in Payload,
             Start(s, want, payload)
      PROVE  JobsClear'
  <2> DEFINE j == [NoJob EXCEPT !.stage = IF want = {} THEN "planned" ELSE "numbered",
                                !.number = NextNumber, !.want = want, !.payload = payload]
  <2>1. j.want = want /\ j.plan = NoLeases /\ (j.stage = "planned" => want = {})
        /\ j.stage \in {"planned", "numbered"}
    BY DEF NoJob
  <2>2. job' = [job EXCEPT ![s] = j]
    BY <1>3 DEF Start
  <2> HIDE DEF j
  <2>3. ClearJob(j)
    BY <2>1, NoLeasesIsTable DEF ClearJob, HasPlan
  <2> QED BY <1>2, <2>2, <2>3
<1>4. ASSUME NEW s \in Server, Pin(s) PROVE JobsClear'
  <2> DEFINE j == [job[s] EXCEPT !.stage = "pinned", !.baseline = stock,
                                 !.known = history \cup {stock}]
  <2>1. j.stage = "pinned" /\ job' = [job EXCEPT ![s] = j]
    BY <1>1, <1>4 DEF Pin, Job
  <2> HIDE DEF j
  <2> QED BY <1>2, <2>1 DEF ClearJob, HasPlan
<1>5. ASSUME NEW s \in Server, Plan(s) PROVE JobsClear'
  <2>1. /\ job[s] \in Job /\ job[s].stage = "pinned" /\ JobOK(job[s]) /\ leases \in LeaseTable
    BY <1>5 DEF Plan, IInv, TypeOK, JobsOK
  <2>2. PICK f \in [Fresh(job[s].want, leases) -> FirstCandidate(job[s].baseline) .. LastCandidate] :
          job' = [job EXCEPT ![s].stage = "planned",
                    ![s].plan = PlanRows(job[s].want, f, leases, job[s].baseline, job[s].number)]
    BY <1>5 DEF Plan
  <2> DEFINE rows == PlanRows(job[s].want, f, leases, job[s].baseline, job[s].number)
             j == [job[s] EXCEPT !.stage = "planned", !.plan = rows]
  <2>3. job[s].baseline \in Baseline /\ job[s].number \in Number /\ job[s].want \in SUBSET Identity
        /\ Reusable(job[s].want, leases, external, job[s].baseline, job[s].known)
    BY <1>5, <2>1 DEF JobOK, Job, Plan
  <2>4. /\ DOMAIN rows = job[s].want
        /\ \A i \in job[s].want : rows[i].value > StockMax[job[s].baseline]
    BY <2>1, <2>3, PlanRowsClear
  <2>5. j.plan = rows /\ j.want = job[s].want /\ j.baseline = job[s].baseline
        /\ job' = [job EXCEPT ![s] = j]
    BY <2>1, <2>2 DEF Job
  <2> HIDE DEF j, rows
  <2>6. ClearJob(j)
    BY <2>3, <2>4, <2>5 DEF ClearJob
  <2> QED BY <1>2, <2>5, <2>6
<1>6. ASSUME NEW s \in Server, NEW stage, HasPlan(job[s]), job' = [job EXCEPT ![s].stage = stage]
      PROVE  JobsClear'
  <2> DEFINE j == [job[s] EXCEPT !.stage = stage]
  <2>1. j.plan = job[s].plan /\ j.want = job[s].want /\ j.baseline = job[s].baseline
        /\ job' = [job EXCEPT ![s] = j]
    BY <1>1, <1>6 DEF Job
  <2> HIDE DEF j
  <2> QED BY <1>2, <1>6, <2>1 DEF ClearJob, JobsClear
<1>7. ASSUME NEW s \in Server,
             Link(s) \/ WriteSidecars(s) \/ CommitTx(s) \/ RollbackTx(s) \/ Verify(s)
      PROVE  JobsClear'
  <2>1. HasPlan(job[s]) /\ \E stage : job' = [job EXCEPT ![s].stage = stage]
    BY <1>7 DEF Link, WriteSidecars, CommitTx, RollbackTx, Verify, HasPlan
  <2> QED BY <1>6, <2>1
<1>8. ASSUME NEW s \in Server, Prepare(s) PROVE JobsClear'
  <2> DEFINE j == [job[s] EXCEPT !.stage = "prepared", !.before = leases]
  <2>1. j.plan = job[s].plan /\ j.want = job[s].want /\ j.baseline = job[s].baseline
        /\ job' = [job EXCEPT ![s] = j] /\ HasPlan(job[s])
    BY <1>1, <1>8 DEF Prepare, Job, HasPlan
  <2> HIDE DEF j
  <2> QED BY <1>2, <2>1 DEF ClearJob, JobsClear
<1>9. ASSUME NEW s \in Server, Fail(s) PROVE JobsClear'
  <2>1. ClearJob(NoJob) /\ job' = [job EXCEPT ![s] = NoJob]
    BY <1>9, NoJobIsJob DEF Fail, ClearJob, HasPlan
  <2> QED BY <1>2, <2>1
<1>10. CASE \/ \E b \in Baseline : ReplaceStock(b)
            \/ Approve
            \/ \E v \in Occupiable : Occupy(v)
            \/ \E d \in Dir, n \in Number : MoveAside(d, n)
            \/ UNCHANGED vars
  <2>1. job' = job
    BY <1>10 DEF ReplaceStock, Approve, Occupy, MoveAside, vars
  <2> QED BY <2>1 DEF JobsClear, ClearJob, HasPlan
<1> QED BY <1>3, <1>4, <1>5, <1>7, <1>8, <1>9, <1>10 DEF Next

\* No build is recorded with a stock ID of the baseline accepted at that
\* moment, although it was planned against the one accepted earlier.
THEOREM RecordedIDsAreClear == Spec => BuildsClearOfStock
<1>1. Init => JobsClear
  BY NoJobIsJob DEF Init, JobsClear, ClearJob, HasPlan
<1>2. IInv /\ JobsClear /\ [Next]_vars => JobsClear'
  BY ClearStep
<1>3. Spec => []JobsClear
  BY <1>1, <1>2, Invariance, PTL DEF Spec
<1>4. ASSUME IInv, JobsClear, Next PROVE ClearOfAcceptedStock
  <2>1. ASSUME NEW s \in Server, CommitTx(s) PROVE ClearOfAcceptedStock
    <3> DEFINE j == job[s]
    <3>1. builds' = With(builds, j.number, Content(j)) /\ BaselineGuard(j) /\ HasPlan(j)
      BY <2>1 DEF CommitTx, HasPlan
    <3>2. \A n \in DOMAIN builds' \ DOMAIN builds : builds'[n] = Content(j)
      BY <3>1 DEF With
    <3>3. /\ Content(j).values = [i \in DOMAIN j.plan |-> j.plan[i].value]
          /\ ClearJob(j)
      BY <1>4 DEF Content, JobsClear
    <3>4. ASSUME NEW i \in DOMAIN j.plan
          PROVE  accepted # None /\ j.plan[i].value > StockMax[accepted]
      <4>1. j.want # {} /\ accepted = j.baseline /\ j.baseline \in Baseline
        BY <3>1, <3>3, <3>4 DEF ClearJob, BaselineGuard
      <4> QED BY <3>1, <3>3, <4>1, BuildAssumption DEF ClearJob
    <3> QED BY <3>2, <3>3, <3>4 DEF ClearOfAcceptedStock
  <2>2. builds' = builds \/ \E s \in Server : CommitTx(s)
    BY <1>4 DEF Next, Start, Pin, Plan, Link, WriteSidecars, Prepare, RollbackTx, Verify, Fail,
                ReplaceStock, Approve, Occupy, MoveAside, registry
  <2> QED BY <2>1, <2>2 DEF ClearOfAcceptedStock
<1>5. IInv /\ JobsClear => [Next => ClearOfAcceptedStock]_vars
  BY <1>4
<1> QED BY <1>3, <1>4, Invariance, PTL DEF Spec, BuildsClearOfStock
=============================================================================
