---------------------------- MODULE ResourcePlan ----------------------------
(***************************************************************************)
(* The planning arithmetic of ContentResourceAllocator::Plan for one realm *)
(* and one resource kind, and the replacement declarations that let a      *)
(* successor package inherit a retired package's lease.                    *)
(*                                                                         *)
(* A lease is keyed by its identity, the pair <<package, symbol>>.  The    *)
(* lease table is a function whose domain is the set of identities that    *)
(* have a row, so the primary key of content_manager_allocation holds by   *)
(* construction, and the unique key on the value does not.                 *)
(***************************************************************************)
EXTENDS Naturals, FiniteSets

CONSTANTS
  Package,        \* package keys, ordered as the sorted requests are
  Symbol,         \* resource symbols inside a package
  Replaces,       \* manifest "replaces": successor -> retired packages
  Baseline,       \* identities (SHA-256) of stock baseline files
  StockMax,       \* the highest stock ID a baseline file contains
  LastCandidate,  \* ResourceAllocationPolicy.lastCandidate
  MaxBuild        \* the last build number, 2^32 - 1 in the code

ASSUME PlanAssumption ==
  /\ Package \subseteq Nat
  /\ Symbol \subseteq Nat
  /\ Replaces \in [Package -> SUBSET Package]
  /\ StockMax \in [Baseline -> Nat]
  /\ LastCandidate \in Nat
  /\ MaxBuild \in Nat

Identity == Package \X Symbol
Value == 1 .. LastCandidate
Number == 1 .. MaxBuild

\* One row of content_manager_allocation.
Lease == [value : Value, first : Number, last : Number, baseline : Baseline]

\* The tables these rows may form: at most one row per identity.
LeaseTable == UNION {[S -> Lease] : S \in SUBSET Identity}
NoLeases == [i \in {} |-> i]

Values(table) == {table[i].value : i \in DOMAIN table}

\* uq_allocation_value: no two rows of the kind hold one value.
UniqueValues(table) ==
  \A i, j \in DOMAIN table : table[i].value = table[j].value => i = j

\* The order of std::sort over (packageKey, symbol).
Precedes(i, j) == i[1] < j[1] \/ (i[1] = j[1] /\ i[2] < j[2])

\* ResolveContentPackageReplacements: a predecessor is not selected in the
\* same build, and no two selected packages claim one predecessor.
ReplacementsResolve(selected) ==
  /\ \A p \in selected : Replaces[p] \cap selected = {}
  /\ \A p, q \in selected : p # q => Replaces[p] \cap Replaces[q] = {}

\* The retained leases of retired packages that a request may inherit: the
\* same symbol under a package its own package replaces.
Predecessors(i, table) ==
  {j \in DOMAIN table : j[1] \in Replaces[i[1]] /\ j[2] = i[2]}

FirstCandidate(b) == StockMax[b] + 1

\* What the allocator must keep clear of: rows of the world database and of
\* the accepted stock baseline.
Occupied(external, b) == external \cup 1 .. StockMax[b]

Retained(want, table) == want \cap DOMAIN table
Inherited(want, table) ==
  {i \in want \ DOMAIN table : Predecessors(i, table) # {}}
Fresh(want, table) ==
  {i \in want \ DOMAIN table : Predecessors(i, table) = {}}

\* First fit in request order: each fresh request takes the lowest candidate
\* that is neither occupied, nor leased, nor taken by an earlier request.
FirstFit(f, table, external, b) ==
  LET taken(i) == Occupied(external, b) \cup Values(table)
                    \cup {f[j] : j \in {k \in DOMAIN f : Precedes(k, i)}}
  IN  \A i \in DOMAIN f :
        /\ f[i] \notin taken(i)
        /\ \A v \in FirstCandidate(b) .. LastCandidate : v < f[i] => v \in taken(i)

\* A request that has a row, or inherits one, keeps its value or the whole
\* plan is refused: the value must still be clear, the baseline it was pinned
\* to must be one that was accepted, and the predecessor must be unique.
Reusable(want, table, external, b, history) ==
  /\ \A i \in Retained(want, table) :
       /\ table[i].baseline \in history
       /\ table[i].value \notin Occupied(external, b)
  /\ \A i \in Inherited(want, table) :
       \E j \in Predecessors(i, table) :
         /\ Predecessors(i, table) = {j}
         /\ table[j].baseline \in history
         /\ table[j].value >= FirstCandidate(b)
         /\ table[j].value \notin Occupied(external, b)

\* The rows of a plan, from the values chosen for its fresh requests.
PlanRows(want, f, table, b, n) ==
  [i \in want |->
     IF i \in DOMAIN table THEN [table[i] EXCEPT !.last = n]
     ELSE IF i \in DOMAIN f
       THEN [value |-> f[i], first |-> n, last |-> n, baseline |-> b]
     ELSE [table[CHOOSE j \in Predecessors(i, table) : TRUE] EXCEPT !.last = n]]
=============================================================================
