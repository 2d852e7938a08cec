# A TLA+ model of mod-content-manager

mod-content-manager is an AzerothCore module that turns *content packages*
into client archives (MPQ) and rows of the world database.  Most of its code
composes files; what is hard in it is the bookkeeping around that: numbered
builds, leases of IDs that must never be recycled, stock baselines, rows it
owns among rows it must not touch, and one selection that all clients follow.
Several worldservers may run against one world database, each command runs
through many statements, and the database client does not report whether a
transaction took effect.  This directory models that bookkeeping, checks it
with TLC and proves the main results with TLAPS.

Paths below are relative to the repository; a file without a directory is in
`src/`.

## 1. The system

| Component | State it keeps | Operations | What is hard | What makes it correct |
|---|---|---|---|---|
| Build service (`ContentBuildService.cpp`) | staged files, the artifact and sidecars in `OutputDirectory` | `Build` | number, baseline and leases are read long before they are committed; files precede the record | builds behave as if indivisible; a recorded build has its files |
| Resource allocator (`ContentResourceAllocator.cpp`, `ContentPackageReplacement.h`) | none | `Plan`, `PlanFixed` | first fit around occupied, leased and inherited values | no value twice; a symbol keeps its value |
| Allocation registry (`ContentAllocationRegistry.cpp`) | `content_manager_allocation` | `Read`, `OccupiedWorldItems`, `CommitComposed` | concurrent commits, migrations, read-back | leases are unique, never end, move only to a successor |
| Build registry (`ContentBuildRegistry.cpp`) | `content_manager_build` | `NextNumber`, `Record`, `Get`, `ActivateBuild` | concurrent activations | one selection, never lost |
| Build publisher (`ContentBuildPublisher.cpp`) | `PublishDirectory` | `Publish` | files change while they are copied | what is selected is published as recorded |
| MPQ builder (`MpqBuilder.cpp`) | the archive | `Build` | servers with one output directory | an archive is never overwritten |
| Baseline registry (`ContentBaselineRegistry.cpp`) | `content_manager_baseline`, its history, reviews | `Pin`, `Accept`, `Review`, `Approve` | stale and repeated reviews, legacy leases | every revision was reviewed as the successor of the one before |
| Server deployment (`ContentServerDeployment.cpp`, `ContentManagedServer.cpp`, `ContentExtendedCostServer.cpp`, ...) | live world rows, `version.cache_id`, `content_manager_server_build` | `Inspect`, `Apply`, `Activate` | edits by hand and other applies between read and write | whole or nothing; foreign rows survive; clients see a new cache version |
| Server ownership (`ContentServerOwnership.cpp`) | `content_manager_item_owner` and the other owner tables | `Classify`, `ExcludeOwned` | provenance must match rows that anybody can edit | provenance is exact |
| Commands (`ContentCommands.cpp`) | none | `.content build`, `activate`, `server apply`, `dbc review`, `dbc approve`, reports | compose all of the above | activation never selects what the server lacks |
| Package registry, lifecycle report (`ContentPackageRegistry.cpp`, `ContentPackageLifecycle.cpp`) | `content_manager_package` | `Install`, `Uninstall`, `Analyse` | two servers install at once; a survey is four queries | a selected version is never rewritten; a survey does not overlook the ACTIVE build |
| Package discovery (`ContentManager.cpp`, `ContentPackage.cpp`) | none | `ScanAvailablePackages`, `Validate`, `StageInto` | a file is opened up to three times and may be replaced in between | an archive is one selection, every target has one owner |
| Typed declarations and sidecars (`ContentPackage.cpp`, `ContentServerBundle.cpp`) | server bundle and parity manifest of a build | `Validate`, `ServerJson`, `ParityJson`, `ParseServer`, `ReadParityAllocations`, `VerifyParity` | what one part of the code writes, another one judges, builds later | what a build writes can be applied and activated |
| World-map composer (`WorldMapDbcComposer.cpp`) | none | `AppendRequests`, `SameRow`, `Compose` | symbols of several releases name one row | a row is recognised under every symbol it had, and under no other row's |
| FrameXML composer (`ContentFrameXml.cpp`) | none | `Collect`, `Merge`, `ValidateTargets`, `ComposeToc` | entries follow stock files or each other, across packages | every entry is loaded once, after its anchor; the stock list is kept |
| Spell composer (`SpellDbcComposer.cpp`, `DbcReader.cpp`) | none | `Compose`, `Parse`, `Serialize` | texts are shared by offsets into one string block | stock and new texts read as they were meant |
| Other composers (`*Dbc*.cpp`, `ContentFrameForgeWowUi.cpp`) | none | binary and text composition | data | - |
| Capability provider (`ContentCapabilityProvider.cpp`) | none | look up symbols for other modules | several reads, no lock, while servers activate | only what was released resolves |

They interact through the world database, two directories and the stock DBC
files; nothing is sent between servers.  In one process each command holds its
own mutex (`buildMutex`, `lifecycleMutex`, `deploymentMutex`, ...), so a server
runs one build, one apply, one activation at a time; between processes only
the database orders things.

Two idioms of the code recur in every model.  A *guard* is the statement
`INSERT INTO content_manager_build_lock SELECT 1 WHERE NOT (condition)`: it
duplicates the key and so aborts its transaction when the condition is false.
And because `DirectCommitTransaction` returns nothing, a handler submits a
transaction and then *reads back* whether it happened.  Each transaction is
therefore one action, with the guards as conjuncts; beside it stands an action
that rolls it back for any reason, and the read-back is a third.

`PROJECT.json` lists the hazards by line, the code each definition stands for,
and the mutant that shows for each property that it can fail.

## 2. The modules

### Builds and leases

* `ResourcePlan` - the leases of one realm and one resource kind, and what
  `ContentResourceAllocator::Plan` computes.  A lease table is a function from
  identities (package, symbol) to rows: the primary key holds by construction,
  the unique key on values does not.  First fit is stated as the property of
  the chosen values that makes them unique: nothing smaller was free when the
  request's turn came.  No definition is recursive.
* `BuildAllocation` - `.content build` on any number of servers.  A call goes
  through `Start` (selection and build number), `Pin` (the stock baseline),
  `Plan`, `Link` (the exclusive hard link of the archive), `WriteSidecars`,
  `Prepare` (the plan compared with the leases once more), `CommitTx` or
  `RollbackTx`, and `Verify`; `Fail` ends it anywhere, by refusal, exception
  or crash, and leaves its files.  Administrators replace and approve the
  stock file, occupy IDs by hand and move the files of failed builds aside.
* `AtomicBuild` - the abstract specification: a build is one step that takes
  the next number and plans against the leases of that moment.
  `BuildAllocation` implements it (`BuildsAreAtomic`).
* `WorldMapRows` - the rows whose IDs the author chooses:
  `WorldMapDbcComposer::AppendRequests` and `SameRow`, `PlanFixed`, the row IDs
  the composer refuses, and the same commit seen from these rows.  A symbol is
  a record of the position of the map in its manifest (only in the form of
  earlier releases), the area and the row.  A behaviour starts with any leases
  an earlier release may have left (`Historical`), so the migration of old
  symbols is part of every step.  `Plan` numbers a build and plans the rows of
  both tables, `Compose` compares the manifests with the stock file, `Commit`
  is the check and the transaction, `Fail` ends a build anywhere.  The exception
  in `OwnedRowsRebuild` is the refusal `docs/WORLD_MAP_DBC.md` lists as
  "Resource-kind mismatch": it also meets rows the package already owns, and it
  compares numbers with the leases of every kind, so items, currencies and the like
  are there as `OtherLeases`.  Two tables stand for four: one whose rows belong to
  an area and one whose rows do not.

### Packages

* `PackageSelection` - `.content install`, `uninstall` and the preflight and
  staging of `build`, over EPF files that module updates replace at any
  moment.  An EPF is its manifest: key, version, targets, typed rows,
  entries for FrameXML.toc, names of floors, spells, and whether it is valid.  `Look` opens one file of a scan after the other, `Validate` and
  `Preflight` open it again, `StageInto` a third time.  `TakeNumber` has what
  the composers refuse before a number is taken, `Record` what they refuse when
  files are staged; an archive has the staged files and the planned rows
  (`Archived`).  `Insert` and `Delete` are the statements after
  `IsInstalled` looked (`FindAbsent`, `FindPresent`).  The survey of a removal
  is its four queries: `SurveyRow`, `SurveyLeases`, `SurveyOwners`,
  `SurveyActive`.  `Apply` and `Activate` keep what the survey reads of builds,
  leases and owners, and ask of a build's sidecars what the code asks.

Three modules without variables hold what a build composes out of the
manifests; `PackageSelection` extends them and applies them to packages whose
files change under it.

* `FrameXmlToc` - the client's list of interface files.  `Composes` are the
  refusals of `ComposeToc`, `Composed` the emitted list, and `Extends` says,
  without following the algorithm, what a list must be that loads the entries.
* `SpellTable` - `Spell.dbc`: rows appended in the order of their IDs, texts
  interned into the string block.  `ReadsBack` reads the table the way
  `DbcReader` and the client do, by offset up to the terminating zero.
* `SidecarParity` - typed rows through three judges.  `WellFormed` is what
  `ContentPackage::Validate` demands of one manifest, `PricesResolve` what the
  build resolves across manifests, `Sidecars` what is written, and `Accepts`
  what `ParseServer`, `ReadParityAllocations` and `VerifyParity` demand when the
  files are read again.  A row is its package, kind, symbol and the resources
  it refers to.

### Deployment to the server

* `ServerDeployment` - `Inspect` and `Apply` over the live rows and their
  provenance.  A resource has one of seven kinds, after the checks the code
  makes: `item` (verified by its ownership record), `managed` (creatures, game
  objects, spawns), `spell` (whose provenance is looked at only when its row
  exists), `currency` (whose occupancy judges other builds' rows), `cost`
  (extended costs, never redefined), `vendor` (offers of a stock creature, no
  lease) and `planned` (offers of a creature of the same bundle, never looked
  up before the transaction).  `BeginApply` reads and checks, `CommitApply` is
  the transaction with every guard, `VerifyApply` the read-back.  Other
  servers record builds and activate them, and rows are edited by hand.
* `AtomicDeployment` - the abstract specification: an apply is one step that
  judges the rows, provenance, leases and cache version of that moment and writes
  all rows of the build or none.  `ServerDeployment` implements it
  (`AppliesAreAtomic`, under the mapping of its `Atomic` instance): builds that
  take leases are `Lease`, edits are `Edit`, `CommitApply` is `Apply`.

### Activation for clients

* `BuildLifecycle` - `ActivateBuild` with the publisher: read the record,
  reuse or copy through a private temporary file, verify, rename, verify,
  select in one transaction, read back.  Files are seen through their SHA-256:
  as recorded, something else, or absent.  Sources are replaced, published
  files damaged and records deleted meanwhile.
* `ContentActivation` - composes both with the commands `activate`, `server
  apply` and `build`, through `INSTANCE`: the handlers' actions are those of
  the two modules, which share the state of a build.
* `ContentRelease` - the abstract specification of activation: apply, publish,
  select; select only what is applied and published.  `ContentActivation`
  implements it under the mapping of its `Release` instance.
* `ContentCapability` - `ContentCapabilityProvider` on top of that: a lookup
  reads the ACTIVE build, and inspects it, its rows and its leases in a later
  step, without a lock.  Here is also the fairness of the commands
  (`CapabilitySpec`).

### Baselines

* `BaselineRegistry` - `Accept`, `Review` and `Approve` on several servers,
  with a stock file each or in common and optional pins, over leases that may
  be older than the registry.

`*_proofs` modules hold the theorems: one for each component, with
`ContentCapability`'s in `ContentActivation_proofs`; those about the composed
tables are in `PackageContents_proofs`, which `PackageSelection_proofs` extends.
`MC*` modules hold the constants of the TLC runs.

## 3. What TLC checks

One run of each module also checks its type invariant.

| Run | Instance | What it shows |
|---|---|---|
| `build_concurrent` | 2 servers with a directory each, 2 packages of which one replaces the other, an ID occupied by hand, 2 builds | `PlanStillFits`, `BuildsAreAtomic`: the build number is an optimistic lock on the lease table; `RecordedHasFiles`: through failures and clean-ups |
| `build_chain` | 3 builds, shared directory, 2 stock files | `BuildsStayBacked`, `LeasesEndure`: IDs are not recycled; `SuccessIsBacked`, `BuildsClearOfStock` |
| `world_map_rows` | 2 servers, 2 packages of which one replaces the other, 2 rows of 2 areas in 2 tables, an item of the replaced package, up to 2 old leases and 2 declarations a build, 2 builds | `RowsKeepMeaning`, `BuildRowsAreLeased`: a row ID keeps its meaning, owner and lease; `OwnedRowsRebuild`; `PlannedCommits`: planner and registry agree |
| `selection` | 2 servers (one installs and builds, one installs and removes), 2 packages and 8 manifests: rows of every kind, spells that share texts with each other and with the stock, entries that follow another package's file or themselves; one change of a file, 2 builds | `BuildsAreSelections`, `TargetsHaveOneOwner`: an archive is one selection in its installed versions; `TocLoads`, `SpellsRead`, `SidecarsVerify`: what is composed can be loaded, read and accepted; `SurveyMissesNothing` |
| `deploy` | 4 builds, 8 resources of all seven kinds, cache versions 0 to 2 | `AppliedWhole`, `ItemChangesAdvanceCache`, `ProvenanceIsExact`, `ForeignRowsSurvive`, `FixedRowsAreImmutable`; `AppliesAreAtomic`: what changed since it was read is judged anew |
| `lifecycle` | 2 servers, 3 builds; one source is replaced, one published file damaged, one record deleted | `ActiveIsPublished`, `SuccessIsPublished`, `SelectionEndures`: a selection is only ever replaced by exactly one other |
| `activate_items` | 2 servers, 2 builds of one item, lookups | `ActiveIsDeployed`, `ActivationIsRelease`, `AnswersAreReleased`, and under fairness `CommandsEnd` |
| `baselines` | 2 servers, one of them pinned, one stock file with 2 contents; 3 reviews, 4 revisions | `LeasesHaveHistory`, `RevisionsAreReviewed`, `ReviewsAreSpentOnce`: of servers that approve one review at once, one spends it |
| `deploy_again` | 1 server, 2 builds of one content: all eight resources of `deploy` | a statement of the README on owned rows that the code does not keep for vendors of new creatures |
| `activate_stale_item`, `activate_rollback`, `activate_transfer` | 1 server, 2 builds | three statements of the README that the code does not keep |

**Bounds.** Two servers are what every race of this code takes: each guard
compares what one call read with what another one wrote.  Three builds are
needed where a build is overtaken by another while a third is involved; two
elsewhere, and four in `deploy`, where each kind needs a build that meets its
row again.  Four revisions and three reviews let the stock file return to
contents that a review is still open against.  A value range of four leaves
first fit a choice next to a stock, a leased and an occupied one.  Two rows and
two declarations are what a row that is taken by another declaration needs; row 2
of the floors is a stock row.  The cache version wraps at 2 instead of
2147483647: the step past the end is the only one that is special.
`MaxBuild`, `LastBuild` and `MaxRevision` end a behaviour: where nothing is left
to do then, the build and row runs and the four refutations of builds and rows say
`CHECK_DEADLOCK FALSE`.

`Editable` names the rows that are edited by hand: in `deploy` an item and a
spell, whose checks differ most; the other six resources are the server's alone.
`HandRow` is what an edit leaves in the composition: a deletion in
`activate_items`, where any row that differs from the recorded one has the same
effect.  `Selectable` are the builds other servers activate in `deploy`: two of
four, so that calls meet builds that may change state under them and builds
that do not.

`MaxDeploys` is one replacement of a file: it may fall between any two openings,
and every check compares two of them.  `Runs` gives each server the commands
that race with those of the other: an install and a removal against a build,
and an install of another package.  (That two servers install one package at
once is left to the proofs of `RowsNeverUpgrade` and `BuildsAreSelections`,
which restrict nobody.)  The stock list has two files and the marker between
them, so that an entry can follow a file before and after the generated module.
`LastSlot` 2 with languages 0 and 2 has a slot that authors cannot name.
`BlockLimit` 20 stands for 2^32: the texts of all spells fit.  The eight manifests of `selection` are few
combinations of typed rows, so `SidecarsVerify` includes `AnyRowsVerify`, which
lets TLC evaluate its formula for every subset of fourteen rows of two packages.

Servers and review numbers are permuted (`MCSymmetry`) only in runs of safety
properties, none of which tells them apart.

**Fairness.** `CapabilitySpec` assumes weak fairness of each server's `Handle`:
a command that has begun goes on.  The code justifies it because no step of a
handler waits for anybody - the mutexes are its own process's, a busy one is an
answer and not a wait - and every call it makes returns or throws.  Nobody is
assumed to start a command, edit a row or replace a file, and a handler may
always end in a refusal.  `CommandsEnd` then says of a
command that is spread over three services: whichever of them refuses, its
caller takes the refusal, and no stage waits for a handler that is idle.  (The
mutexes themselves are scoped and not modelled.)  It is
stated of one of the interchangeable servers.  No other liveness is
promised: the code has no retry, timer or background task, so what a command
achieves is stated of the moment it reports success.

## 4. Where code and documentation differ

Each of these is a run that TLC refutes; the traces are short.

* `VerifiedContentIsLive` - README: "Activation applies or verifies any
  managed server content before client publication."  Build 1 applies a row
  for an item, build 2 another one for the same item.  Activating build 1 finds
  it APPLIED; `ContentServerDeployment.cpp:223-246` compares the row with the
  ownership record and not with the bundle of build 1, and publishes build 1's
  client files over build 2's row.
* `SupersededCanReturn` - README: "A SUPERSEDED build can become ACTIVE again:"
  and "retained and available for rollback".  For managed rows `QueryVerify`
  (`ContentManagedServer.cpp:517`) wants this build to be the last that applied
  them; once a later build was applied no activation of the earlier one passes.
* `RebuildsSurviveTransfer` - README: after a transfer "ordinary successor
  rebuilds reuse the successor row".  The transfer moves the lease and not the
  ownership of the row that was applied under it, and
  `ContentServerOwnership.cpp:97` refuses the mismatch in every later build.

* `RederivedContentApplies` - README: an existing row that has "matching Content
  Manager provenance" and matches "the last recorded managed-field snapshot" is
  not refused, "owned rows converge", and builds of a reinstalled package
  "re-derive the same content".  A vendor whose creature is in the same bundle is
  never looked up before the transaction (`ContentServerDeployment.cpp:549`), only
  demanded to be absent in it, so once it is applied, every later build that still
  contains it is refused.  For rows of all other kinds the formula holds.

One more restriction is kept as a property that holds, because nothing in
the documentation contradicts it outright:

* `SidecarsVerify` - a package may declare items without server rows (`README.md:404-452`
  describes nothing else), and such a build is composed, recorded and leased.  But
  `VerifyParity` takes the presence of a composed `Item.dbc` and of the `Item`
  baseline from the server rows (`ContentServerBundle.cpp:1083` and `1117`), so
  when *all* items of a build are client-only it is never accepted again and can
  never be activated.  This is the one exception in the property.

A smaller one is in the model and has no run.  `ContentPackage.h:395` says that
staging "revalidates against the preflight manifest", but the comparison
(`ContentPackage.cpp:2091`, `SameManifest`) lists fields and leaves out `spells`.
An EPF that was replaced by one with other spells after preflight is therefore
staged: `Archived` has files of one release and spell rows of another.

## 5. What is proved

TLAPS proves the following for every number of servers, builds, packages,
symbols, rows, files and reviews.  The only assumptions are the named `ASSUME`s
of the constants (which TLC evaluates in every run): packages and symbols are
natural numbers so that requests have an order, `None` is none of the values it
stands beside, tables of the configuration have their domains, and a package's
spells and a list's files are finite sets.

* `BuildAllocation_proofs`.  The invariant is `TypeOK`, `NoDuplicateLease`,
  `BuildsStayBacked` and three parts that make them inductive: build numbers
  are dense (`Dense`), no lease is newer than the last build (`LeasesDated`)
  and every job keeps what its plan was made from (`JobsOK`): while its number is
  unrecorded, the table is the one it planned against, because whoever changes
  the table takes the next number.  From it follow `PlanStillFits`,
  `NumberCollidesFirst`, `LeasesEndure` and the refinement
  `ImplementsAtomicBuild`, in which `CommitTx` is the abstract build and all
  other steps stutter.  A second invariant (`FilesInv`) is about
  files: an archive is linked only under a name that is free, so whoever links
  it has the only archive of that name until it is recorded; `RecordedHasFiles`
  and `SuccessIsBacked` follow.  `LeasesAreUnique` is the uniqueness of leased values
  from the plan alone, not from the unique key of the table.  A third
  (`JobsClear`) has for every job in flight that its plan is clear of the stock of
  the baseline it was made for; the transaction commits only while that is the
  accepted one, hence `BuildsClearOfStock`.
* `WorldMapRows_proofs`.  All properties of the run, and two that no
  run needs: the composer refuses no planned row (`PlannedComposes`) and leases
  change hands only to successors (`ReusedInPlace`).  The invariant is
  `TypeOK`, `Sound` (a row has one lease, under the canonical or a historical
  symbol of an authored row that is no stock row), `JobsOK` (while its number is
  free a plan is the plan of the present leases), `RowsBacked` and
  `RowsKeepMeaning`.  Uniqueness makes inheritance and relocation unambiguous:
  the one lease to take over is the one that holds the row (`GrantedHolder`).
  `IdentityIsTheRow` says that two rows with a symbol in common are one, which
  is why a relocation cannot change what an ID means.
* `ServerDeployment_proofs`.  The invariant is `TypeOK`, `ProvenanceIsExact`
  and `SnapshotsOK`: a call in flight remembers the owner records of exactly
  the rows of its build, and for a cost or a vendor they already show the wanted
  row.  Lemmas say which row a committed statement writes under the guards
  (`CommitWrites`); the four action properties follow from them.  `CommitJudges` shows that
  the guards of the transaction, which compare with what was read earlier, accept
  a row only if the abstract apply accepts it at that moment; with `CommitWrites`
  it gives the refinement `ImplementsAtomicDeployment`.
* `BuildLifecycle_proofs`.  The invariant adds to `OneActive` and
  `ActiveIsPublished` that a call past its last check has a published build
  (`PublishedIsGood`).  That a published file stays as recorded is why
  verification and selection may be separate steps.  `SelectionEndures` has an
  exact count: whatever was selected, after any step exactly one build is.
* `ContentActivation_proofs`.  Nothing a command has checked is undone while it
  runs: an APPLIED build stays so, a good published file stays so.  A command
  carries what it found through its stages (`CommandsOK`); with it
  `SelectionOK` is inductive, and the selecting transaction is the abstract
  `Select` (`ImplementsRelease`), every other step an abstract apply, offer or
  stutter.
  The same module proves that a lookup, which holds nothing between its reads,
  does not need to: what it read as ACTIVE stays released (`ReleasedStays`) and on
  offer (`LookupOK`), and rows of an applied build keep their provenance.
  About how commands end it has the two safety halves of `CommandsEnd`:
  `CommandsInStep` says that the handlers of a server are busy exactly while its
  command is at the stage that calls them, so at each stage a step is left to take,
  and `CommandsGetOn` that every such step lowers `StepsLeft`, a bound of at most
  twelve that nobody else raises.
* `BaselineRegistry_proofs`.  The invariant adds that the history is dense
  (`HistoryIsDense`), ends in the accepted file, and what a call holds at each stage of its command
  (`CallsOK`).  A review names the revision it was made against, and revisions only
  grow, which is what makes a stale or repeated review fail, and why no two approved
  reviews name one revision (`ReviewsAreSpentOnce`).
* `PackageContents_proofs`.  What `FrameXmlToc`, `SpellTable` and `SidecarParity`
  compose, for every set of manifests: the sidecars of packages that pass
  `WellFormed` and `PricesResolve`, with the one exception of section 4, are accepted
  (`BuildableVerifies`); a composed spell table reads back (`ComposedReadsBack`); a
  composed list loads its entries in an order that they and the stock list allow
  (`ComposedExtends`).  The emitted list and the string block are recursive
  functions over sets.  No induction scheme is needed: numbers that miss a property
  have a least one, and the definition of the function at that number refutes it.
  The string block only grows (`Grows`), so what was interned is
  found again; the entries form a forest (`Forest`), in which those below one file
  follow it.
* `PackageSelection_proofs`.  The type invariant, `TargetsHaveOneOwner`,
  `SurveyMissesNothing`, `BuildsAreSelections` and `RowsNeverUpgrade`, for any
  set of manifests and commands.  A job carries its
  selection: what it planned and staged agrees with the rows it read
  (`Faithful`), although the files do not stay what they were, because each
  opening is compared with the one before.  A survey carries markers that cover
  the builds there were when it read the leases (`Surveyed`); numbers have no
  gaps (`Dense`), so later builds are younger, and markers only widen
  (`SpansCover`, `WidenedCovers`).  What a job staged is what the composers
  judged (`Composable`, a part of `Faithful`), so with the results of
  `PackageContents_proofs` every record satisfies `SidecarsVerify`, `SpellsRead` and
  `TocLoads`.

Some of the proved statements are in no run, because no plausible slip of a
single guard breaks them, or another property says more: `NumberCollidesFirst` and `NoDuplicateLease` (other
guards hold them too), `OneActive` (implied by `SelectionEndures`),
`RowsNeverUpgrade` (the statement has no update clause), `PlannedComposes`,
`ReusedInPlace`, `CommandsInStep` and `CommandsGetOn` (which a run sees through
`CommandsEnd`).

Only model-checked: `CommandsEnd`, because liveness and `ENABLED` are out of the
prover's reach (from weak fairness, `CommandsInStep` and `CommandsGetOn` it follows
on paper), and the refuted statements of section 4.

## 6. Abstractions

* A transaction is one action.  The code's transactions begin by writing one
  lock row and are serialized by it; a statement an administrator runs by hand
  *inside* such a transaction is not modelled, between two of them it is.
* The reads of one check (`Inspect`, `BeginApply`, `Plan`) are one step; what they
  read is used in later steps, which is where it may be stale.
* The `Replaces` relation holds for every build; the optional historical package
  file is not modelled, so a build may inherit whenever its manifest allows it.
* One realm and, for leases, one resource kind (two in `WorldMapRows`, where those of
  other kinds are constant).  Leases of other kinds
  have their own tables' occupancy but the same commit.
* All columns of a row are one value, everything in an artifact that does not
  come from leases is one payload, and a descriptor version is part of a file's
  identity.  Hashes are injective.
* In `ServerDeployment` the bit of a currency and its item are one resource; that
  categories are unique, in which order overlays are written, and that a cost
  names items that exist are left to `SidecarParity`.  Donor rows of spells and
  creatures, the policy on spell behaviour and the schema checks of a table are
  not modelled.  `Absent` and `Undrifted` stand for the conditions of every kind.
* In `SidecarParity` resources have no IDs: that an identity has one ID in the
  bundle, the manifest and the registry is `BuildsStayBacked`.  Stock vendors'
  creatures are left out of `VendorsResolve`, the bag family of a currency's item
  is part of its declaration.
* In `FrameXmlToc` paths are numbers in their case-folded order; line endings, the
  byte comparison of two packages' stock lists and the text of the generated
  module are left out.  In `SpellTable` the fields of a row other than its ID and
  one text are carried along; spell IDs are given, as the allocation of them is
  `BuildAllocation`'s.
* The read-back of an approval cannot tell whose approval of the review it sees: of
  two servers that approve one review at once, the one that was rolled back also
  reports success.  `ApproveVerify` does the same.
* A lookup of the capability provider may also refuse because of what the
  worldserver loaded when it started; a refusal is always possible here.
* In the composition the sidecars are intact exactly when `source` is, as `Inspect`
  hashes them with the archive.
* Leaving a row untouched because nothing changed (the "no change" answers of
  the commands) is a step that changes nothing.
* `ServerDeployment.Lifecycle` is the switch of an activation, at any moment and
  without its publication.
* In `PackageSelection` leases stay with their package.  The markers of the code
  are declared "best-effort": after a successor took its leases over, or when
  it holds none, a package has no markers and its survey says nothing; and
  because they are an interval, the survey may name a build that lacks the
  package.  A build that is recorded after the survey read the leases and
  activated before it reads the ACTIVE build is missed too, which
  `SurveyMissesNothing` exempts by `horizon`, a variable of the model only.
  Files that appear while a directory is listed may be seen or not.
* Any read may fail, which is why every call may end at any step.
* A package's rows of `WorldMapRows` are any set of rows; that a manifest
  declares the area of a floor, and a floor once, is left to `ClaimedOnce`.  The
  stock files of the world-map tables are pinned by constants of the code
  (`VerifiedBaselineSha256`), so their rows are constant.  The registry is read
  once per table in the code and once per build here: a commit between two such
  reads takes the number of the build, as `BuildAllocation` shows.

Not modelled, and why: the JSON grammar of manifests and sidecars and the ranges of
their fields (a pure parser; what it refuses is one validity flag), the item,
currency, category and cost tables (they append rows as `SpellTable` does, without
a string block of interest), the texts of FrameForge and of the Lua module,
hashing and the module loader (library code), the classification of recorded
source paths and the texts of the commands, and `.content stage`, which unpacks
one EPF for inspection.

## 7. Plan

1. `PackageSelection` with replacement of packages: what a survey says of a
   package whose leases moved, and the selection rules of
   `ContentPackageReplacement.h`.
2. `docs/PHASE4.md:74` on the order of currency IDs against the guard on
   external rows: an item and its bit as two keys of one resource.
3. The ID columns of the sidecars, and the schema checks of each table.
4. `.content stage` and `ContentBuildPaths` on a work directory that two
   commands share; the claim of `README.md:46-48` that builds are refused while the recorded
   source of a package is missing (a build looks for the key, not for the path).
5. Proofs: abstract specifications of installation and of the baseline registry
   as `AtomicBuild` is of builds, and the refinements; that provenance stays exact
   in the composition of deployment and activation too.
