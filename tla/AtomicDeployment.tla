-------------------------- MODULE AtomicDeployment --------------------------
(***************************************************************************)
(* What `.content server apply` promises about the server rows, whatever   *)
(* the number of worldservers: an apply is one indivisible step that looks *)
(* at the rows, their provenance, the leases and the cache version of that *)
(* very moment, refuses what is not its own, and writes all rows of the    *)
(* build or none.  Nobody else writes provenance or the cache version.     *)
(*                                                                         *)
(* ServerDeployment, where the rows are read and judged before the         *)
(* transaction that writes them, implements this specification.            *)
(***************************************************************************)
EXTENDS Naturals

CONSTANTS
  Build,
  Resource,
  KindOf,
  Package,
  Row,
  Bundle,    \* build -> resource -> the package and row its bundle wants
  CacheMax,
  None

VARIABLES
  applied,   \* the builds that have been applied
  lease,     \* the package each resource is leased for
  live,      \* the live server rows
  owner,     \* their provenance: package, row, applied build
  cacheId    \* version.cache_id

vars == <<applied, lease, live, owner, cacheId>>

Init ==
  /\ applied = {}
  /\ lease = [r \in Resource |-> None]
  /\ live = [r \in Resource |-> None]
  /\ owner = [r \in Resource |-> None]
  /\ cacheId \in 0 .. CacheMax

Vacant(r) == live[r] = None /\ owner[r] = None

\* A row that the package owns and that is as it was applied - or, an item,
\* as it is wanted.  Costs and vendors are not changed at all.
Updatable(r, want) ==
  /\ owner[r] # None
  /\ owner[r].package = want.package
  /\ live[r] = owner[r].row \/ (KindOf[r] = "item" /\ live[r] = want.row)
  /\ KindOf[r] \in {"cost", "vendor", "planned"} => owner[r].row = want.row

Allowed(r, want) == Vacant(r) \/ Updatable(r, want)

\* One indivisible apply.
Apply(b) ==
  LET rows == DOMAIN Bundle[b]
  IN  /\ b \notin applied
      /\ \A r \in rows : KindOf[r] \in {"vendor", "planned"} \/ lease[r] = Bundle[b][r].package
      /\ \A r \in rows : Allowed(r, Bundle[b][r])
      /\ applied' = applied \cup {b}
      /\ live' = [r \in Resource |-> IF r \in rows THEN Bundle[b][r].row ELSE live[r]]
      /\ owner' = [r \in Resource |->
           IF r \in rows
           THEN [package |-> Bundle[b][r].package, row |-> Bundle[b][r].row, build |-> b]
           ELSE owner[r]]
      /\ cacheId' = IF \A r \in rows : KindOf[r] # "item" THEN cacheId
                    ELSE IF cacheId = CacheMax THEN 1 ELSE cacheId + 1
      /\ UNCHANGED lease

\* Builds take leases and pass them on.
Lease ==
  /\ lease' \in [Resource -> Package \cup {None}]
  /\ UNCHANGED <<applied, live, owner, cacheId>>

\* A live row is edited by hand.
Edit ==
  /\ \E r \in Resource, row \in Row \cup {None} : live' = [live EXCEPT ![r] = row]
  /\ UNCHANGED <<applied, lease, owner, cacheId>>

Next == Lease \/ Edit \/ \E b \in Build : Apply(b)

Spec == Init /\ [][Next]_vars
=============================================================================
