-------------------------- MODULE ServerDeployment --------------------------
(***************************************************************************)
(* `.content server apply`: ContentServerDeployment::Apply and Inspect with *)
(* the ownership checks of every kind of server row.                       *)
(*                                                                         *)
(* A build's server bundle wants one row per resource it leases.  Apply    *)
(* reads the live rows and their provenance, then commits one transaction  *)
(* whose guards re-check what it read, and reads the result back.  Other   *)
(* worldservers apply, build and activate against the same database in     *)
(* between, and an administrator may edit a live row by hand.              *)
(*                                                                         *)
(* A resource is one leased identity of one realm; its kind decides which  *)
(* checks the code runs on it:                                             *)
(*   "item"     item_template, provenance in content_manager_item_owner;   *)
(*   "managed"  creature, game object and spawn rows, provenance in        *)
(*              content_manager_server_resource_owner, as that of          *)
(*   "spell"    rows of spell_dbc;                                         *)
(*   "currency" rows of currencytypes_dbc, content_manager_currency_owner; *)
(*   "cost"     extended costs, content_manager_extended_cost_owner;       *)
(*   "vendor"   what an existing creature sells, and that it does;         *)
(*   "planned"  what a creature of the same bundle sells.                  *)
(* A vendor has no lease; its owner is content_manager_vendor_owner.       *)
(***************************************************************************)
EXTENDS Naturals, FiniteSets

CONSTANTS
  Server,     \* worldserver processes, one Apply each (deploymentMutex)
  LastBuild,  \* builds are numbered 1 .. LastBuild
  Resource,
  KindOf,
  Package,
  Replaces,   \* package -> the packages whose leases it may take over
  Row,        \* what a live row can hold
  Bundle,     \* build -> resource -> the package and row its bundle wants
  CacheMax,   \* largest version.cache_id (2147483647)
  Editable,   \* resources whose live rows may be edited by hand
  Selectable, \* builds that other servers may activate
  None

Build == 1 .. LastBuild
Want == [package : Package, row : Row]
Kind == {"item", "managed", "spell", "currency", "cost", "vendor", "planned"}

Provenance == [package : Package, row : Row, build : Build]

ASSUME DeploymentAssumption ==
  /\ LastBuild \in Nat
  /\ KindOf \in [Resource -> Kind]
  /\ Replaces \in [Package -> SUBSET Package]
  /\ Bundle \in [Build -> UNION {[S -> Want] : S \in SUBSET Resource}]
  /\ CacheMax \in Nat /\ CacheMax > 1
  /\ Editable \subseteq Resource
  /\ Selectable \subseteq Build
  /\ None \notin Row \cup Package \cup Provenance

VARIABLES
  state,        \* content_manager_build.state, "NONE" when not recorded
  serverState,  \* content_manager_server_build.server_state
  lease,        \* the package each resource is leased for
  live,         \* the live server rows
  owner,        \* their provenance: package, row, applied build
  cacheId,      \* version.cache_id
  apply         \* the Apply call of each server

vars == <<state, serverState, lease, live, owner, cacheId, apply>>
registry == <<state, serverState, lease>>
content == <<live, owner, cacheId>>

BuildState == {"NONE", "STAGED", "ACTIVE", "SUPERSEDED"}
Call == [stage : {"idle", "read", "submitted", "applied", "refused"},
         build : Build \cup {0},
         before : [Resource -> Provenance \cup {None}],
         cache : 0 .. CacheMax]

NoCall == [stage |-> "idle", build |-> 0, before |-> [r \in Resource |-> None], cache |-> 0]

Init ==
  /\ state = [b \in Build |-> "NONE"]
  /\ serverState = [b \in Build |-> "STAGED"]
  /\ lease = [r \in Resource |-> None]
  /\ live = [r \in Resource |-> None]
  /\ owner = [r \in Resource |-> None]
  /\ cacheId \in 0 .. CacheMax
  /\ apply = [s \in Server |-> NoCall]

Desired(b) == DOMAIN Bundle[b]
DesiredItems(b) == {r \in Desired(b) : KindOf[r] = "item"}

\* A vendor: what one creature sells, and for which cost.
Sold(r) == KindOf[r] \in {"vendor", "planned"}
Leased(b) == {r \in Desired(b) : ~Sold(r)}

-----------------------------------------------------------------------------
(* Ownership: what a live row and its provenance say about each other.     *)

\* Nothing there and nothing recorded.
Absent(r) == live[r] = None /\ owner[r] = None

\* Classify = Converge: owned for this package, and as last applied.
Undrifted(r, package) ==
  /\ owner[r] # None
  /\ owner[r].package = package
  /\ live[r] = owner[r].row

\* Kinds whose owned rows are only ever stamped again, never redefined.
Fixed(r) == KindOf[r] = "cost" \/ Sold(r)

\* Mutant: a fixed row may be redefined like any other.
ApplicableRedefines(r, want) ==
  \/ Absent(r)
  \/ KindOf[r] = "planned"
  \/ KindOf[r] = "spell" /\ live[r] = None
  \/ Undrifted(r, want.package)

\* What Apply accepts before its transaction: an absent row or an undrifted
\* one.  A spell's provenance is only looked at when its row exists, and a
\* planned vendor not at all.
Applicable(r, want) ==
  \/ Absent(r)
  \/ KindOf[r] = "planned"
  \/ KindOf[r] = "spell" /\ live[r] = None
  \/ Undrifted(r, want.package) /\ (Fixed(r) => live[r] = want.row)

\* Occupancy: all provenance of a kind the build has rows of, also that of
\* other builds and packages, must be backed by a lease and undrifted.
OwnersLeased(b, kinds) ==
  \A r \in Resource :
    /\ owner[r] # None
    /\ KindOf[r] \in kinds
    /\ \E d \in Desired(b) : KindOf[d] = KindOf[r]
    => lease[r] = owner[r].package /\ live[r] = owner[r].row
CurrencyOccupancy(b) == OwnersLeased(b, {"currency"})
CostOccupancy(b) == OwnersLeased(b, {"cost"})

\* Verify: the row is as wanted and this very build put it there.
Verified(r, b) ==
  /\ Undrifted(r, Bundle[b][r].package)
  /\ live[r] = Bundle[b][r].row
  /\ owner[r].build = b

\* The parity manifest names leases the database still holds.
ParityHolds(b) == \A r \in Leased(b) : lease[r] = Bundle[b][r].package

\* Inspect of an applied build verifies every row but those of items, of
\* which it asks only that they have not drifted.
RowInspected(r, b) ==
  IF KindOf[r] = "item" THEN Undrifted(r, Bundle[b][r].package) ELSE Verified(r, b)

Inspected(b) ==
  /\ state[b] # "NONE"
  /\ ParityHolds(b)
  /\ serverState[b] = "APPLIED" => \A r \in Desired(b) : RowInspected(r, b)

-----------------------------------------------------------------------------
(* Apply.                                                                  *)

\* Mutant: the version is incremented past what its column holds.
NextCacheForgetsWrap(c) == c + 1

\* The version that follows: 1 after the largest, so that 0 never returns.
NextCache(c) == IF c = CacheMax THEN 1 ELSE c + 1

\* A build already applied is verified and nothing is written; for items the
\* provenance must show the row of this bundle, whichever build applied it.
AlreadyApplied(b) ==
  /\ serverState[b] = "APPLIED"
  /\ \A r \in Desired(b) :
       IF KindOf[r] = "item" THEN owner[r] # None /\ owner[r].row = Bundle[b][r].row
       ELSE Verified(r, b)

\* The provenance Apply goes by: none where it took the row for absent, as it
\* takes every planned vendor.
Found(r) == IF live[r] = None \/ KindOf[r] = "planned" THEN None ELSE owner[r]

\* What a call for a build holds once it has read the rows.
Reading(b) ==
  [stage |-> "read", build |-> b, cache |-> cacheId,
   before |-> [r \in Resource |-> IF r \in Desired(b) THEN Found(r) ELSE None]]

\* The checks of a build that is STAGED, against the rows of the moment.
BeginApply(s, b) ==
  /\ apply[s].stage = "idle"
  /\ state[b] = "STAGED"
  /\ Desired(b) # {}
  /\ ParityHolds(b)
  /\ CurrencyOccupancy(b)
  /\ CostOccupancy(b)
  /\ \A r \in Desired(b) : Applicable(r, Bundle[b][r])
  /\ \/ /\ AlreadyApplied(b)
        /\ apply' = [apply EXCEPT ![s] = [NoCall EXCEPT !.stage = "applied", !.build = b]]
     \/ /\ serverState[b] = "STAGED"
        /\ apply' = [apply EXCEPT ![s] = Reading(b)]
  /\ UNCHANGED <<registry, content>>

\* Mutant: another server may have moved the cache version on.
CacheGuardForgotten(j) == TRUE

\* The guards the transaction starts with.
RegistryGuard(b) == state[b] = "STAGED" /\ serverState[b] = "STAGED"
CacheGuard(j) == DesiredItems(j.build) # {} => cacheId = j.cache

\* UPDATE ... WHERE cache_id = the value read, and the guard after it.
BumpedCache(j) ==
  IF DesiredItems(j.build) # {} /\ cacheId = j.cache THEN NextCache(j.cache) ELSE cacheId
CacheBumped(j) == DesiredItems(j.build) # {} => BumpedCache(j) = NextCache(j.cache)

\* Mutant: rows other than items are written as they were read, unguarded.
RowGuardItemsOnly(r, j) ==
  KindOf[r] = "item" =>
    IF j.before[r] = None THEN Absent(r)
    ELSE owner[r] # None /\ owner[r].row = j.before[r].row

\* A row that was absent still is; one that was owned has the provenance that
\* was read and, but for items, is as recorded there.
RowGuard(r, j) ==
  IF j.before[r] = None THEN Absent(r)
  ELSE /\ owner[r] # None
       /\ owner[r].package = Bundle[j.build][r].package
       /\ owner[r].row = j.before[r].row
       /\ KindOf[r] = "item" \/ live[r] = j.before[r].row

\* The row the statements leave: an owned item is updated only where it is
\* still as it was read.
Written(r, j) ==
  IF KindOf[r] = "item" /\ j.before[r] # None /\ live[r] # j.before[r].row THEN live[r]
  ELSE Bundle[j.build][r].row

\* The provenance of a row that a build wrote.
Stamp(r, b) == [package |-> Bundle[b][r].package, row |-> Bundle[b][r].row, build |-> b]

\* Mutant: the statement that converges provenance leaves the build in it.
StampedKeepsBuild(r, j) ==
  [Stamp(r, j.build) EXCEPT !.build = IF owner[r] = None THEN j.build ELSE owner[r].build]

\* The provenance they leave: that of an item only where the row matches.
Stamped(r, j) ==
  IF Written(r, j) = Bundle[j.build][r].row THEN Stamp(r, j.build) ELSE owner[r]

\* Mutant: no condition over the written rows.
FinalConditionForgotten(j) == TRUE

\* The condition under which the build becomes APPLIED.
FinalCondition(j) ==
  \A r \in Desired(j.build) :
    /\ Written(r, j) = Bundle[j.build][r].row
    /\ Stamped(r, j).row = Bundle[j.build][r].row

\* Either all of it happens or a guard rolled all of it back.
CommitApply(s) ==
  LET j == apply[s]
      b == j.build
  IN  /\ j.stage = "read"
      /\ RegistryGuard(b)
      /\ CacheGuard(j)
      /\ CacheBumped(j)
      /\ ParityHolds(b)
      /\ \A r \in Desired(b) : RowGuard(r, j)
      /\ FinalCondition(j)
      /\ live' = [r \in Resource |-> IF r \in Desired(b) THEN Written(r, j) ELSE live[r]]
      /\ owner' = [r \in Resource |-> IF r \in Desired(b) THEN Stamped(r, j) ELSE owner[r]]
      /\ cacheId' = BumpedCache(j)
      /\ serverState' = [serverState EXCEPT ![b] = "APPLIED"]
      /\ apply' = [apply EXCEPT ![s].stage = "submitted"]
      /\ UNCHANGED <<state, lease>>

\* DirectCommitTransaction reports neither a failed guard nor a lost
\* connection.
RollbackApply(s) ==
  /\ apply[s].stage = "read"
  /\ apply' = [apply EXCEPT ![s].stage = "submitted"]
  /\ UNCHANGED <<registry, content>>

\* Success is what reading everything back shows.
VerifyApply(s) ==
  LET j == apply[s]
      b == j.build
  IN  /\ j.stage = "submitted"
      /\ serverState[b] = "APPLIED"
      /\ DesiredItems(b) # {} => cacheId = NextCache(j.cache)
      /\ \A r \in Desired(b) : Verified(r, b)
      /\ apply' = [apply EXCEPT ![s] = [NoCall EXCEPT !.stage = "applied", !.build = b]]
      /\ UNCHANGED <<registry, content>>

\* A failed check, an exception or a crash.
FailApply(s) ==
  /\ apply[s].stage \in {"read", "submitted"}
  /\ apply' = [apply EXCEPT ![s] = [NoCall EXCEPT !.stage = "refused", !.build = apply[s].build]]
  /\ UNCHANGED <<registry, content>>

\* Apply returns to its caller.
Return(s) ==
  /\ apply[s].stage \in {"applied", "refused"}
  /\ apply' = [apply EXCEPT ![s] = NoCall]
  /\ UNCHANGED <<registry, content>>

-----------------------------------------------------------------------------
(* What else changes the database.                                         *)

\* A new build refuses to plan over provenance it cannot account for.  Items
\* are checked whatever the build contains, other kinds when it has some.
ExcludeOwned(r) ==
  lease[r] # None /\ live[r] # None /\ owner[r] # None
    => owner[r].package = lease[r] /\ live[r] = owner[r].row
OccupancyReadable(b) ==
  /\ \A r \in Resource : KindOf[r] = "item" => ExcludeOwned(r)
  /\ OwnersLeased(b, {"managed", "spell"})
  /\ CurrencyOccupancy(b)
  /\ CostOccupancy(b)

\* Rows of some kinds are checked as Apply will check them; of others it only
\* counts that an existing row is somebody's; a planned vendor's is not read.
Plannable(r, want) ==
  /\ KindOf[r] \in {"item", "spell", "currency"} => (live[r] # None => owner[r] # None)
  /\ KindOf[r] \in {"managed", "cost", "vendor"} => Applicable(r, want)

\* `.content build` checks the rows of the build, records the next build and
\* leases its rows, or takes their leases over from packages it replaces (see
\* BuildAllocation).
RecordBuild(b) ==
  /\ state[b] = "NONE"
  /\ \A c \in 1 .. (b - 1) : state[c] # "NONE"
  /\ OccupancyReadable(b)
  /\ \A r \in Desired(b) :
       /\ Plannable(r, Bundle[b][r])
       /\ lease[r] \in {None, Bundle[b][r].package} \cup Replaces[Bundle[b][r].package]
  /\ lease' = [r \in Resource |-> IF r \in Leased(b) THEN Bundle[b][r].package ELSE lease[r]]
  /\ state' = [state EXCEPT ![b] = "STAGED"]
  /\ UNCHANGED <<serverState, content, apply>>

\* ActivateBuild on some server selects a recorded build, which then has left
\* STAGED for good, and demotes the one selected before (BuildLifecycle).
Lifecycle(b) ==
  /\ state[b] # "NONE"
  /\ state' = [c \in Build |->
       IF c = b THEN "ACTIVE"
       ELSE IF state[c] = "ACTIVE" THEN "SUPERSEDED" ELSE state[c]]
  /\ UNCHANGED <<serverState, lease, content, apply>>

\* A live row is edited, inserted or deleted by hand.
Edit(r, row) ==
  /\ live[r] # row
  /\ live' = [live EXCEPT ![r] = row]
  /\ UNCHANGED <<registry, owner, cacheId, apply>>

Step(s) ==
  \/ \E b \in Build : BeginApply(s, b)
  \/ CommitApply(s)
  \/ RollbackApply(s)
  \/ VerifyApply(s)
  \/ FailApply(s)
  \/ Return(s)

Next ==
  \/ \E s \in Server : Step(s)
  \/ \E b \in Build : RecordBuild(b)
  \/ \E b \in Selectable : Lifecycle(b)
  \/ \E r \in Editable, row \in Row \cup {None} : Edit(r, row)

Spec == Init /\ [][Next]_vars

-----------------------------------------------------------------------------
(* What has to hold.                                                       *)

\* Every variable holds what its table or process can hold.
TypeOK ==
  /\ state \in [Build -> BuildState]
  /\ serverState \in [Build -> {"STAGED", "APPLIED"}]
  /\ lease \in [Resource -> Package \cup {None}]
  /\ live \in [Resource -> Row \cup {None}]
  /\ owner \in [Resource -> Provenance \cup {None}]
  /\ cacheId \in 0 .. CacheMax
  /\ apply \in [Server -> Call]

\* Provenance is exact: it names an applied build whose bundle holds exactly
\* that row for that package, and an applied build left provenance on every
\* row of its bundle, so no apply was ever half done.
ProvenanceIsExact ==
  /\ \A r \in Resource : owner[r] # None =>
       LET b == owner[r].build
       IN  /\ serverState[b] = "APPLIED"
           /\ r \in Desired(b)
           /\ Bundle[b][r] = [package |-> owner[r].package, row |-> owner[r].row]
  /\ \A b \in Build : serverState[b] = "APPLIED" => \A r \in Desired(b) : owner[r] # None

\* A build becomes APPLIED only together with all of its rows, although an
\* edit by hand may leave a guarded UPDATE without a row to update.
AppliedWhole ==
  [][\A b \in Build : serverState'[b] # serverState[b] =>
       \A r \in Desired(b) :
         live'[r] = Bundle[b][r].row /\ owner'[r] # None /\ owner'[r].build = b]_vars

\* No apply overwrites a row it does not own or that changed since it was
\* applied, even when the change falls between its reads and its transaction.
Overwritten == {r \in Resource : live'[r] # live[r]}
ForeignRowsSurvive ==
  [][serverState' # serverState => \A r \in Overwritten :
       Absent(r) \/ (owner[r] # None /\ live[r] = owner[r].row)]_vars

\* Clients cache item data under the cache version: an apply that changes an
\* item leaves a version that differs from the one the old item was served
\* under, also when another server's apply moved the version in between.
ItemChangesAdvanceCache ==
  [][serverState' # serverState /\ (\E r \in Overwritten : KindOf[r] = "item")
       => cacheId' # cacheId]_vars

\* A deployment never redefines an extended cost or a vendor, whatever a later
\* bundle that was planned before it holds.
FixedRowsAreImmutable ==
  [][owner' # owner => \A r \in Resource : Fixed(r) /\ owner[r] # None =>
       owner'[r] # None /\ owner'[r].row = owner[r].row]_vars

\* The promise of an apply, about the rows and the builds that are APPLIED.
Atomic == INSTANCE AtomicDeployment WITH
  applied <- {b \in Build : serverState[b] = "APPLIED"}

\* Applies on any number of servers amount to indivisible ones, each of which
\* judges the rows of the moment in which it writes them, although every one
\* of them judged the rows it had read before and others wrote in between.
AppliesAreAtomic == Atomic!Spec

-----------------------------------------------------------------------------
(* What the documentation says, and the code does not do.                  *)

\* The build wants nothing but what its packages own already.
Rederived(b) ==
  \A r \in Desired(b) :
    Undrifted(r, Bundle[b][r].package) /\ live[r] = Bundle[b][r].row

\* README: owned rows that are as they were applied are not refused, and later
\* builds "re-derive the same content": the transaction of a build that does
\* accepts every row, if nothing happens between its reads and its guards.
RederivedContentApplies ==
  \A b \in Build : RegistryGuard(b) /\ ParityHolds(b) /\ Rederived(b) =>
    \A r \in Desired(b) : RowGuard(r, Reading(b))
=============================================================================
