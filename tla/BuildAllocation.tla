-------------------------- MODULE BuildAllocation ---------------------------
(***************************************************************************)
(* `.content build` as several worldservers run it against one world       *)
(* database: ContentBuildService::Build with the registries it calls.      *)
(*                                                                         *)
(* Nothing locks the database while a build runs.  A server reads the next *)
(* build number, pins the stock baseline, reads the lease table and plans, *)
(* publishes its MPQ and sidecars into its output directory, checks the    *)
(* plan against the table once more and commits one transaction.  What     *)
(* keeps concurrent builds apart is that the transaction inserts the build *)
(* number it read BEFORE planning.  AtomicBuild says what that achieves.   *)
(*                                                                         *)
(* One realm and one resource kind are modelled: item.id, whose lease is   *)
(* pinned to the Item.dbc baseline and whose occupancy is read from world  *)
(* tables.                                                                 *)
(***************************************************************************)
EXTENDS ResourcePlan

CONSTANTS
  Server,      \* worldserver processes; each admits one build (buildMutex)
  Dir,         \* output directories
  DirOf,       \* the output directory each server is configured with
  Payload,     \* everything in an artifact that does not come from leases
  Occupiable,  \* values an administrator may put into world tables by hand
  None

ASSUME BuildAssumption ==
  /\ DirOf \in [Server -> Dir]
  /\ Occupiable \subseteq Nat
  /\ None \notin Baseline

VARIABLES
  builds,    \* content_manager_build: number -> artifact it records
  leases,    \* content_manager_allocation
  accepted,  \* content_manager_baseline: the accepted stock file, or None
  history,   \* content_manager_baseline_history
  stock,     \* the stock file in BaselineDbcDirectory
  external,  \* IDs that world tables use and no lease owns
  mpq,       \* MPQ files: directory -> number -> artifact
  sidecar,   \* server bundle and parity manifest beside each MPQ
  job        \* the build each server is running

vars == <<builds, leases, accepted, history, stock, external, mpq, sidecar, job>>
registry == <<builds, leases>>
files == <<mpq, sidecar>>
baselines == <<accepted, history>>
world == <<stock, external>>

Artifact == [payload : Payload, values : UNION {[S -> Value] : S \in SUBSET Identity}]
Recorded == UNION {[S -> Artifact] : S \in SUBSET Number}
Nothing == [n \in {} |-> n]

Stage == {"idle", "numbered", "pinned", "planned", "linked", "assembled",
          "prepared", "submitted", "recorded"}

Job == [stage : Stage, number : Number \cup {0}, want : SUBSET Identity,
        payload : Payload \cup {None}, baseline : Baseline \cup {None},
        known : SUBSET Baseline, plan : LeaseTable, before : LeaseTable]

NoJob == [stage |-> "idle", number |-> 0, want |-> {}, payload |-> None,
          baseline |-> None, known |-> {}, plan |-> NoLeases, before |-> NoLeases]

Init ==
  /\ builds = Nothing
  /\ leases = NoLeases
  /\ accepted = None
  /\ history = {}
  /\ stock \in Baseline
  /\ external = {}
  /\ mpq = [d \in Dir |-> Nothing]
  /\ sidecar = [d \in Dir |-> Nothing]
  /\ job = [s \in Server |-> NoJob]

-----------------------------------------------------------------------------
(* The steps of one build.                                                 *)

\* Mutant: the highest number itself is handed out.
NextNumberReuses ==
  IF DOMAIN builds = {} THEN 0
  ELSE CHOOSE n \in DOMAIN builds : \A m \in DOMAIN builds : m <= n

\* SELECT COALESCE(MAX(build_number), 0) + 1.
NextNumber ==
  IF DOMAIN builds = {} THEN 1
  ELSE 1 + CHOOSE n \in DOMAIN builds : \A m \in DOMAIN builds : m <= n

\* try_lock succeeds, the installed packages resolve their replacements, and
\* the number is taken.  Without composed content `want` is empty.
Start(s, want, payload) ==
  /\ job[s].stage \in {"idle", "recorded"}
  /\ ReplacementsResolve({i[1] : i \in want})
  /\ NextNumber <= MaxBuild
  /\ job' = [job EXCEPT ![s] =
               [NoJob EXCEPT !.stage = IF want = {} THEN "planned" ELSE "numbered",
                             !.number = NextNumber, !.want = want, !.payload = payload]]
  /\ UNCHANGED <<registry, baselines, world, files>>

\* loadBaseline: inspect the file, accept it when the table has no accepted
\* baseline yet and refuse it when another one is accepted, read the history.
Pin(s) ==
  /\ job[s].stage = "numbered"
  /\ accepted \in {None, stock}
  /\ accepted' = stock
  /\ history' = history \cup {stock}
  /\ job' = [job EXCEPT ![s].stage = "pinned", ![s].baseline = stock,
                        ![s].known = history \cup {stock}]
  /\ UNCHANGED <<registry, world, files>>

\* Read the leases and the occupied IDs, and plan.  There is at most one f.
Plan(s) ==
  LET j == job[s]
  IN  /\ j.stage = "pinned"
      /\ Reusable(j.want, leases, external, j.baseline, j.known)
      /\ \E f \in [Fresh(j.want, leases) -> FirstCandidate(j.baseline) .. LastCandidate] :
           /\ FirstFit(f, leases, external, j.baseline)
           /\ job' = [job EXCEPT ![s].stage = "planned",
                        ![s].plan = PlanRows(j.want, f, leases, j.baseline, j.number)]
      /\ UNCHANGED <<registry, baselines, world, files>>

\* The artifact a job assembles: its files, with the planned IDs in them.
Content(j) == [payload |-> j.payload, values |-> [i \in DOMAIN j.plan |-> j.plan[i].value]]

With(table, n, artifact) ==
  [m \in DOMAIN table \cup {n} |-> IF m = n THEN artifact ELSE table[m]]

\* Mutant: the archive is renamed over whatever has its name.
LinkOverwrites(s) ==
  LET j == job[s]
      d == DirOf[s]
  IN  /\ j.stage = "planned"
      /\ mpq' = [mpq EXCEPT ![d] = With(mpq[d], j.number, Content(j))]
      /\ job' = [job EXCEPT ![s].stage = "linked"]
      /\ UNCHANGED <<registry, baselines, world, sidecar>>

\* The accepted snapshot is inspected again, then the archive is published
\* under its final name by a hard link, which fails when the name is taken.
Link(s) ==
  LET j == job[s]
      d == DirOf[s]
  IN  /\ j.stage = "planned"
      /\ j.want # {} => stock = j.baseline
      /\ j.number \notin DOMAIN mpq[d] \cup DOMAIN sidecar[d]
      /\ mpq' = [mpq EXCEPT ![d] = With(mpq[d], j.number, Content(j))]
      /\ job' = [job EXCEPT ![s].stage = "linked"]
      /\ UNCHANGED <<registry, baselines, world, sidecar>>

WriteSidecars(s) ==
  LET j == job[s]
      d == DirOf[s]
  IN  /\ j.stage = "linked"
      /\ j.number \notin DOMAIN sidecar[d]
      /\ sidecar' = [sidecar EXCEPT ![d] = With(sidecar[d], j.number, Content(j))]
      /\ job' = [job EXCEPT ![s].stage = "assembled"]
      /\ UNCHANGED <<registry, baselines, world, mpq>>

\* The row whose value a planned row without a row of its own holds.
Owner(i, plan, table) == {j \in DOMAIN table : table[j].value = plan[i].value}

\* CommitComposed reads the table again: a row must be as it was planned, and
\* a held value may only be taken over from a package that i's replaces.
StillPlanned(plan, table) ==
  \A i \in DOMAIN plan :
    IF i \in DOMAIN table
      THEN table[i].value = plan[i].value /\ table[i].baseline = plan[i].baseline
      ELSE \A j \in Owner(i, plan, table) :
             j[1] \in Replaces[i[1]] /\ table[j].baseline = plan[i].baseline

\* Its checks before the transaction; Record has none for a raw build.
Prepare(s) ==
  LET j == job[s]
  IN  /\ j.stage = "assembled"
      /\ StillPlanned(j.plan, leases)
      /\ \A i \in DOMAIN j.plan : j.plan[i].value \notin external
      /\ job' = [job EXCEPT ![s].stage = "prepared", ![s].before = leases]
      /\ UNCHANGED <<registry, baselines, world, files>>

-----------------------------------------------------------------------------
(* The transaction.  Its statements are fixed by the plan and by the table *)
(* read in Prepare; a statement that fails rolls all of them back.         *)

Movers(j) == {i \in DOMAIN j.plan \ DOMAIN j.before : Owner(i, j.plan, j.before) # {}}
Source(i, j) == CHOOSE k \in Owner(i, j.plan, j.before) : TRUE
Gone(j) == {Source(i, j) : i \in Movers(j)}
Inserts(j) == DOMAIN j.plan \ (DOMAIN j.before \cup Movers(j))

\* The guard of each migration: the predecessor's row is still the one read.
SourcesIntact(j) ==
  \A i \in Movers(j) :
    LET k == Source(i, j)
    IN  /\ k \in DOMAIN leases
        /\ leases[k].value = j.before[k].value
        /\ leases[k].baseline = j.before[k].baseline

\* The primary key and the value key of content_manager_allocation.
KeysFree(j) ==
  /\ (Movers(j) \cup Inserts(j)) \cap DOMAIN leases = {}
  /\ \A i \in Inserts(j) : j.plan[i].value \notin Values(leases)
  /\ \A i, k \in Inserts(j) : j.plan[i].value = j.plan[k].value => i = k

\* Mutants: the transaction has no baseline guard; it records the build with
\* REPLACE, whatever has its number.
BaselineUnguarded(j) == TRUE
NumberReplaced(j) == TRUE

BaselineGuard(j) == j.want # {} => accepted = j.baseline
NumberFree(j) == j.number \notin DOMAIN builds

\* Mutants: rows of packages outside the build are recycled; a touched or
\* moved row is stamped with the build as if it were new.
CommittedRecycles(j) ==
  [i \in DOMAIN j.plan |-> [j.plan[i] EXCEPT !.last = j.number]]
CommittedRestamps(j) ==
  [i \in (DOMAIN leases \ Gone(j)) \cup DOMAIN j.plan |->
     IF i \in DOMAIN j.plan THEN [j.plan[i] EXCEPT !.first = j.number, !.last = j.number]
     ELSE leases[i]]

\* The table the statements leave: moved, inserted, touched, other rows.
Committed(j) ==
  [i \in (DOMAIN leases \ Gone(j)) \cup Movers(j) \cup Inserts(j) |->
     IF i \in Movers(j) THEN [leases[Source(i, j)] EXCEPT !.last = j.number]
     ELSE IF i \in Inserts(j) THEN [j.plan[i] EXCEPT !.first = j.number, !.last = j.number]
     ELSE IF i \in DOMAIN j.plan /\ leases[i].value = j.plan[i].value
       THEN [leases[i] EXCEPT !.last = j.number]
     ELSE leases[i]]

CommitTx(s) ==
  LET j == job[s]
  IN  /\ j.stage = "prepared"
      /\ SourcesIntact(j)
      /\ BaselineGuard(j)
      /\ KeysFree(j)
      /\ NumberFree(j)
      /\ leases' = Committed(j)
      /\ builds' = With(builds, j.number, Content(j))
      /\ job' = [job EXCEPT ![s].stage = "submitted"]
      /\ UNCHANGED <<baselines, world, files>>

\* DirectCommitTransaction does not say that it rolled back, whatever made
\* it: a guard, a duplicate key, or a lost connection.
RollbackTx(s) ==
  /\ job[s].stage = "prepared"
  /\ job' = [job EXCEPT ![s].stage = "submitted"]
  /\ UNCHANGED <<registry, baselines, world, files>>

\* So success is what reading back the build and the leases shows.
Verify(s) ==
  LET j == job[s]
  IN  /\ j.stage = "submitted"
      /\ j.number \in DOMAIN builds
      /\ builds[j.number] = Content(j)
      /\ \A i \in DOMAIN j.plan :
           /\ i \in DOMAIN leases
           /\ leases[i].value = j.plan[i].value
           /\ leases[i].last = j.number
           /\ leases[i].baseline = j.plan[i].baseline
      /\ job' = [job EXCEPT ![s].stage = "recorded"]
      /\ UNCHANGED <<registry, baselines, world, files>>

\* Mutants: a build that fails retries its plan under a fresh number; it
\* removes the archive it published.
FailRetries(s) ==
  /\ job[s].stage = "submitted"
  /\ NextNumber <= MaxBuild
  /\ job' = [job EXCEPT ![s].stage = "planned", ![s].number = NextNumber]
  /\ UNCHANGED <<registry, baselines, world, files>>
FailCleansUp(s) ==
  LET n == job[s].number
      d == DirOf[s]
  IN  /\ job[s].stage = "submitted"
      /\ mpq' = [mpq EXCEPT ![d] = [m \in DOMAIN mpq[d] \ {n} |-> mpq[d][m]]]
      /\ job' = [job EXCEPT ![s] = NoJob]
      /\ UNCHANGED <<registry, baselines, world, sidecar>>

\* Any refusal, exception or crash ends the build; the files it published
\* are preserved, never removed.
Fail(s) ==
  /\ job[s].stage \notin {"idle", "recorded"}
  /\ job' = [job EXCEPT ![s] = NoJob]
  /\ UNCHANGED <<registry, baselines, world, files>>

-----------------------------------------------------------------------------
(* The administrators.                                                     *)

ReplaceStock(b) ==
  /\ b # stock
  /\ stock' = b
  /\ UNCHANGED <<registry, baselines, external, files, job>>

\* `.content baseline approve` of the file on disk, abstracted.
Approve ==
  /\ accepted \notin {None, stock}
  /\ accepted' = stock
  /\ history' = history \cup {stock}
  /\ UNCHANGED <<registry, world, files, job>>

\* A custom row is inserted by hand over an ID.
Occupy(v) ==
  /\ v \notin external
  /\ external' = external \cup {v}
  /\ UNCHANGED <<registry, baselines, stock, files, job>>

InFlight(n, d) ==
  \E s \in Server : /\ DirOf[s] = d
                    /\ job[s].number = n
                    /\ job[s].stage \notin {"idle", "recorded"}

\* The files of a failed build are moved away after inspection.
MoveAside(d, n) ==
  LET Without(table) == [m \in DOMAIN table \ {n} |-> table[m]]
  IN  /\ n \in DOMAIN mpq[d] \cup DOMAIN sidecar[d]
      /\ n \notin DOMAIN builds
      /\ ~InFlight(n, d)
      /\ mpq' = [mpq EXCEPT ![d] = Without(@)]
      /\ sidecar' = [sidecar EXCEPT ![d] = Without(@)]
      /\ UNCHANGED <<registry, baselines, world, job>>

Next ==
  \/ \E s \in Server :
       \/ \E want \in SUBSET Identity, payload \in Payload : Start(s, want, payload)
       \/ Pin(s)
       \/ Plan(s)
       \/ Link(s)
       \/ WriteSidecars(s)
       \/ Prepare(s)
       \/ CommitTx(s)
       \/ RollbackTx(s)
       \/ Verify(s)
       \/ Fail(s)
  \/ \E b \in Baseline : ReplaceStock(b)
  \/ Approve
  \/ \E v \in Occupiable : Occupy(v)
  \/ \E d \in Dir, n \in Number : MoveAside(d, n)

Spec == Init /\ [][Next]_vars

-----------------------------------------------------------------------------
(* What has to hold.                                                       *)

Abstract == INSTANCE AtomicBuild

\* Every variable holds what its table, directory or process can hold.
TypeOK ==
  /\ builds \in Recorded
  /\ leases \in LeaseTable
  /\ accepted \in Baseline \cup {None}
  /\ history \subseteq Baseline
  /\ stock \in Baseline
  /\ external \subseteq Occupiable
  /\ mpq \in [Dir -> Recorded]
  /\ sidecar \in [Dir -> Recorded]
  /\ job \in [Server -> Job]

HasPlan(j) == j.stage \notin {"idle", "numbered", "pinned"}

\* The build number is an optimistic lock on the lease table: as long as the
\* number a job took is unrecorded, its plan fits the table as it is now, no
\* matter what other servers committed since it was planned.
PlanStillFits ==
  \A s \in Server :
    HasPlan(job[s]) /\ NumberFree(job[s])
      => Abstract!Fits(Content(job[s]).values, leases)

\* Hence a transaction whose number is free cannot meet a duplicate lease or
\* a vanished predecessor: those guards only ever back the number up.
NumberCollidesFirst ==
  \A s \in Server :
    job[s].stage = "prepared" /\ NumberFree(job[s])
      => SourcesIntact(job[s]) /\ KeysFree(job[s])

\* Leases are never recycled: every ID a recorded build was made with is
\* still leased, for the same symbol, in a row that spans that build.  The
\* key may have moved to a successor package, the row never ended.
BuildsStayBacked ==
  \A n \in DOMAIN builds : \A i \in DOMAIN builds[n].values :
    \E k \in DOMAIN leases :
      /\ leases[k].value = builds[n].values[i]
      /\ k[2] = i[2]
      /\ leases[k].first <= n /\ n <= leases[k].last

NoDuplicateLease == UniqueValues(leases)

\* A build reported as successful is recorded with the content this server
\* assembled, and its own directory holds exactly that artifact, complete.
SuccessIsBacked ==
  \A s \in Server :
    LET j == job[s]
    IN  j.stage = "recorded" =>
          /\ j.number \in DOMAIN builds /\ builds[j.number] = Content(j)
          /\ j.number \in DOMAIN mpq[DirOf[s]] /\ mpq[DirOf[s]][j.number] = Content(j)
          /\ j.number \in DOMAIN sidecar[DirOf[s]]
          /\ sidecar[DirOf[s]][j.number] = Content(j)

\* A recorded build never lost or never had its files: some directory holds
\* the MPQ and the sidecars it was recorded with.
RecordedHasFiles ==
  \A n \in DOMAIN builds :
    \E d \in Dir : /\ n \in DOMAIN mpq[d] /\ mpq[d][n] = builds[n]
                   /\ n \in DOMAIN sidecar[d] /\ sidecar[d][n] = builds[n]

\* A row survives every step with its value, its baseline and the build that
\* created it; its last build only grows; its key moves to a successor of
\* its package and nowhere else.
LeaseEndures ==
  LET Same(old, new) == new = [old EXCEPT !.last = new.last] /\ old.last <= new.last
  IN  \A i \in DOMAIN leases :
        \/ i \in DOMAIN leases' /\ Same(leases[i], leases'[i])
        \/ \E k \in DOMAIN leases' \ DOMAIN leases :
             /\ i \in Predecessors(k, leases)
             /\ Same(leases[i], leases'[k])
LeasesEndure == [][LeaseEndures]_vars

\* At the moment a composed build is recorded none of its IDs is a stock ID
\* of the baseline accepted at that moment, even when an approval or a new
\* stock file overtook the build after it was planned.
ClearOfAcceptedStock ==
  \A n \in DOMAIN builds' \ DOMAIN builds :
    \A i \in DOMAIN builds'[n].values :
      accepted # None /\ builds'[n].values[i] > StockMax[accepted]
BuildsClearOfStock == [][ClearOfAcceptedStock]_vars

\* Every interleaving of servers amounts to indivisible builds, in the order
\* of their numbers, each planned against the leases the previous ones left.
BuildsAreAtomic == Abstract!Spec
=============================================================================
