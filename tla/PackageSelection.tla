-------------------------- MODULE PackageSelection --------------------------
(***************************************************************************)
(* Which packages a build contains: `.content install`, `.content          *)
(* uninstall` and the preflight and staging of `.content build`, run by    *)
(* worldservers that share one world database, over EPF files that module  *)
(* updates replace, move and remove at any moment.                         *)
(*                                                                         *)
(* The desired set is content_manager_package.  It records where an EPF    *)
(* was and which version it had, never its contents: every command scans   *)
(* the directories anew, and a build opens each EPF three times - when it  *)
(* is discovered, in preflight, and when its files are extracted.          *)
(*                                                                         *)
(* An EPF is its manifest: the package key and version, the archive        *)
(* targets it declares, its typed rows, its entries for FrameXML.toc, its   *)
(* names of dungeon floors and its spells.  How a build numbers and leases is BuildAllocation's subject;   *)
(* here a build number is taken and recorded if it is still free.          *)
(***************************************************************************)
EXTENDS FrameXmlToc, SpellTable, SidecarParity

CONSTANTS
  Server,      \* worldserver processes, one command each
  Runs,        \* the commands that a server's administrators use
  Path,        \* where discovery finds EPFs, numbered in scan order
  Key,         \* package keys, numbered in their order
  Version, Target,
  Floor, Name, \* dungeon floors and what they are called
  Declares,    \* the typed rows that a manifest can have, by a name
  Epf,         \* the manifests that files can hold
  Shipped,     \* what the paths may hold at first
  MaxBuild,    \* the last build number
  MaxDeploys,  \* how often files change
  None

Manifest == [key : Key, version : Version, files : SUBSET Target,
             rows : DOMAIN Declares, loads : SUBSET LoadEntry,
             labels : SUBSET (Floor \X Name), spells : SUBSET Spells, valid : BOOLEAN]

Command == [op : {"install", "uninstall"}, key : Key] \cup [op : {"build"}, key : {None}]

ASSUME SelectionAssumption ==
  /\ Runs \in [Server -> SUBSET Command]
  /\ Path \cup Key \subseteq Nat
  /\ Epf \subseteq Manifest
  /\ MaxBuild \in Nat
  /\ MaxDeploys \in Nat
  /\ Shipped \subseteq [Path -> Epf \cup {None}]
  /\ None \notin Epf
  /\ None \notin Key
  /\ Declares \in [DOMAIN Declares -> SUBSET Rows]
  /\ \A e \in Epf :
       /\ \A r \in Declares[e.rows] : r.package = e.key /\ r.kind # "spell"
       /\ e.valid => WellFormed(Declares[e.rows])

VARIABLES
  disk,       \* the EPF file at each path
  deploys,    \* how often files have changed
  installed,  \* content_manager_package
  builds,     \* content_manager_build, the manifests of the archive
  span,       \* first and last build of the leases a package retains
  owned,      \* the latest applied build of the server rows it owns
  applied,    \* the builds whose server rows were applied
  active,     \* the ACTIVE build
  job         \* the command each server is running

vars == <<disk, deploys, installed, builds, span, owned, applied, active, job>>
discovery == <<disk, deploys>>
history == <<builds, span, owned, applied, active>>

Number == 1 .. MaxBuild
Row == [version : Version, source : Path]
Partial(f, S, T) == DOMAIN f \subseteq S /\ f \in [DOMAIN f -> T]
Empty == [k \in {} |-> k]
Put(f, k, v) == [x \in DOMAIN f \cup {k} |-> IF x = k THEN v ELSE f[x]]

\* The EPF that preflight accepted for a package, and where it was.
Source == [path : Path, epf : Epf]

Span == [first : 0 .. MaxBuild, last : 0 .. MaxBuild]
NoSpan == [first |-> 0, last |-> 0]

Stage == {"idle", "scanning",
          "validated", "absent",                               \* install
          "found", "counted", "spanned", "surveyed", "present", \* uninstall
          "staging"}                                           \* build

Job(stage, op, key, rows) ==
  [stage |-> stage, op |-> op, key |-> key, seen |-> Empty, rows |-> rows, marks |-> NoSpan,
   active |-> 0, horizon |-> 0, number |-> 0, planned |-> Empty, staged |-> Empty]

NoJob == Job("idle", "none", None, Empty)

Init ==
  /\ disk \in Shipped
  /\ deploys = 0
  /\ installed = Empty
  /\ builds = Empty
  /\ span = [k \in Key |-> NoSpan]
  /\ owned = [k \in Key |-> 0]
  /\ applied = {}
  /\ active = 0
  /\ job = [s \in Server |-> NoJob]

-----------------------------------------------------------------------------
(* Discovery.  ScanAvailablePackages lists the files and each is validated *)
(* in turn; what it says of its key counts even when the rest is invalid.  *)

Declared(e) == IF e = None THEN None ELSE e.key

\* A build reads what is installed first, and refuses to build nothing.
Begin(s, c) ==
  /\ job[s].stage = "idle"
  /\ c.op = "build" => installed # Empty
  /\ job' = [job EXCEPT ![s] =
       Job("scanning", c.op, c.key, IF c.op = "build" THEN installed ELSE Empty)]
  /\ UNCHANGED <<discovery, installed, history>>

Unseen(j) == Path \ DOMAIN j.seen

Look(s) ==
  LET j == job[s]
  IN  /\ j.stage = "scanning"
      /\ \E p \in Unseen(j) :
           /\ \A q \in Unseen(j) : p <= q
           /\ job' = [job EXCEPT ![s].seen = Put(j.seen, p, Declared(disk[p]))]
      /\ UNCHANGED <<discovery, installed, history>>

\* Packages are taken in the order of their keys.
Leads(k, keys) == k \in keys /\ \A l \in keys : k <= l

Scanned(j, op) == j.stage = "scanning" /\ j.op = op /\ Unseen(j) = {}

\* The only file that declared the key; an ambiguous key is never resolved.
SoleSource(j, k, p) == {q \in DOMAIN j.seen : j.seen[q] = k} = {p}

Valid(p, k) == disk[p] # None /\ disk[p].valid /\ disk[p].key = k

-----------------------------------------------------------------------------
(* `.content install`.                                                     *)

\* The one candidate is validated again, and what it holds now is recorded.
Validate(s) ==
  LET j == job[s]
  IN  /\ Scanned(j, "install")
      /\ \E p \in Path :
           /\ SoleSource(j, j.key, p)
           /\ Valid(p, j.key)
           /\ job' = [job EXCEPT ![s] =
                Job("validated", "install", j.key,
                    Put(Empty, j.key, [version |-> disk[p].version, source |-> p]))]
      /\ UNCHANGED <<discovery, installed, history>>

\* IsInstalled: a key that has a row keeps it.
FindAbsent(s) ==
  /\ job[s].stage = "validated"
  /\ job[s].key \notin DOMAIN installed
  /\ job' = [job EXCEPT ![s].stage = "absent"]
  /\ UNCHANGED <<discovery, installed, history>>

\* INSERT ... ON DUPLICATE KEY UPDATE package_key = package_key.
Inserted(j) ==
  IF j.key \in DOMAIN installed THEN installed
  ELSE Put(installed, j.key, j.rows[j.key])

\* The read-back only decides what is reported.
Insert(s) ==
  /\ job[s].stage = "absent"
  /\ installed' = Inserted(job[s])
  /\ job' = [job EXCEPT ![s] = NoJob]
  /\ UNCHANGED <<discovery, history>>

-----------------------------------------------------------------------------
(* `.content uninstall`: a survey of what is known of the package, made of *)
(* four queries, and then the removal of its row, whatever it holds then.  *)

SurveyRow(s) ==
  LET j == job[s]
  IN  /\ Scanned(j, "uninstall")
      /\ job' = [job EXCEPT ![s] =
           Job("found", "uninstall", j.key,
               [k \in {j.key} \cap DOMAIN installed |-> installed[k]])]
      /\ UNCHANGED <<discovery, installed, history>>

Last == IF DOMAIN builds = {} THEN 0
        ELSE CHOOSE n \in DOMAIN builds : \A m \in DOMAIN builds : m <= n

\* FindByPackage.  `horizon` is no part of the code: it remembers which
\* builds existed when the leases were read.
SurveyLeases(s) ==
  /\ job[s].stage = "found"
  /\ job' = [job EXCEPT ![s].stage = "spanned", ![s].marks = span[job[s].key],
                        ![s].horizon = Last]
  /\ UNCHANGED <<discovery, installed, history>>

\* Mutant: an applied build replaces the markers of the leases.
WidenedToOwner(m, n) == IF n = 0 THEN m ELSE [first |-> n, last |-> n]

\* The markers of the leases, widened to an applied build.
Widened(m, n) ==
  IF n = 0 THEN m
  ELSE [first |-> IF m.first = 0 \/ n < m.first THEN n ELSE m.first,
        last |-> IF n > m.last THEN n ELSE m.last]

\* CountOwned.
SurveyOwners(s) ==
  /\ job[s].stage = "spanned"
  /\ job' = [job EXCEPT ![s].stage = "counted",
                        ![s].marks = Widened(job[s].marks, owned[job[s].key])]
  /\ UNCHANGED <<discovery, installed, history>>

\* GetActiveBuild completes the survey.
SurveyActive(s) ==
  /\ job[s].stage = "counted"
  /\ job' = [job EXCEPT ![s].stage = "surveyed", ![s].active = active]
  /\ UNCHANGED <<discovery, installed, history>>

ActiveIncludes(j) ==
  j.active # 0 /\ j.marks.first # 0 /\ j.marks.first <= j.active /\ j.active <= j.marks.last

\* A package that was not installed is only reported on; the registry looks
\* again before it deletes.
FindPresent(s) ==
  LET j == job[s]
  IN  /\ j.stage = "surveyed"
      /\ j.key \in DOMAIN j.rows
      /\ j.key \in DOMAIN installed
      /\ job' = [job EXCEPT ![s] = Job("present", "uninstall", j.key, Empty)]
      /\ UNCHANGED <<discovery, installed, history>>

Delete(s) ==
  /\ job[s].stage = "present"
  /\ installed' = [k \in DOMAIN installed \ {job[s].key} |-> installed[k]]
  /\ job' = [job EXCEPT ![s] = NoJob]
  /\ UNCHANGED <<discovery, history>>

-----------------------------------------------------------------------------
(* `.content build`.                                                       *)

\* Composed files, and the directories that lead to a file, are targets too.
Targets(sources) == UNION {sources[k].epf.files : k \in DOMAIN sources}

\* Mutant: the discovered version is built, an automatic upgrade.
AcceptedUpgrades(k, row, p, planned) ==
  Valid(p, k) /\ disk[p].files \cap Targets(planned) = {}

\* What preflight demands of the EPF of an installed package.
Accepted(k, row, p, planned) ==
  /\ Valid(p, k)
  /\ disk[p].version = row.version
  /\ disk[p].files \cap Targets(planned) = {}

\* One installed package after the other is validated again.
Preflight(s) ==
  LET j == job[s]
  IN  /\ Scanned(j, "build")
      /\ \E k \in Key, p \in Path :
           /\ Leads(k, DOMAIN j.rows \ DOMAIN j.planned)
           /\ SoleSource(j, k, p)
           /\ Accepted(k, j.rows[k], p, j.planned)
           /\ job' = [job EXCEPT ![s].planned = Put(j.planned, k, [path |-> p, epf |-> disk[p]])]
      /\ UNCHANGED <<discovery, installed, history>>

Loads(sources) == UNION {sources[k].epf.loads : k \in DOMAIN sources}
Labels(sources) == UNION {sources[k].epf.labels : k \in DOMAIN sources}
ComposesToc(sources) == Loads(sources) # {} \/ Labels(sources) # {}

\* Collect, Merge and ValidateTargets: no floor has two names, and what is to
\* be loaded is in the archive, whichever package it comes from.
TocCovered(sources) ==
  /\ \A a, b \in Labels(sources) : a[1] = b[1] => a[2] = b[2]
  /\ ComposesToc(sources) => Covered(Loads(sources), Labels(sources) # {}, Targets(sources))

SpellsOf(sources) == UNION {sources[k].epf.spells : k \in DOMAIN sources}

\* The typed rows of a manifest; its spells are rows too.
Typed(epf) ==
  Declares[epf.rows] \cup {[package |-> epf.key, kind |-> "spell", symbol |-> spell.id, uses |-> {}] :
                  spell \in epf.spells}

RowsOf(sources) == UNION {Typed(sources[k].epf) : k \in DOMAIN sources}

\* All are accepted: the build takes its number, plans, and composes what is
\* written when its files are staged.
TakeNumber(s) ==
  LET j == job[s]
  IN  /\ Scanned(j, "build")
      /\ DOMAIN j.planned = DOMAIN j.rows
      /\ TocCovered(j.planned)
      /\ SpellsCompose(SpellsOf(j.planned))
      /\ PricesResolve(RowsOf(j.planned))
      /\ Last < MaxBuild
      /\ job' = [job EXCEPT ![s].stage = "staging", ![s].seen = Empty,
                            ![s].number = Last + 1]
      /\ UNCHANGED <<discovery, installed, history>>

\* Mutant: the EPF is extracted as it is found.
SameKeyOnly(actual, expected) == actual.key = expected.key

\* StageInto compares the manifest it finds with the one of preflight, field
\* by field, and the spells are not among the fields.
SameManifest(actual, expected) == actual = [expected EXCEPT !.spells = actual.spells]

\* The EPF is opened for the third time and its files are extracted.
StageInto(s) ==
  LET j == job[s]
  IN  /\ j.stage = "staging"
      /\ \E k \in DOMAIN j.planned :
           LET p == j.planned[k].path
           IN  /\ Leads(k, DOMAIN j.planned \ DOMAIN j.staged)
               /\ Valid(p, k)
               /\ SameManifest(disk[p], j.planned[k].epf)
               /\ job' = [job EXCEPT ![s].staged = Put(j.staged, k, disk[p])]
      /\ UNCHANGED <<discovery, installed, history>>

\* ComposeToc, for the manifests that preflight accepted: two packages do not
\* add one file.
TocComposes(sources) ==
  ComposesToc(sources) =>
    /\ \A k, l \in DOMAIN sources :
         k # l => Added(sources[k].epf.loads) \cap Added(sources[l].epf.loads) = {}
    /\ Composes(Loads(sources), Labels(sources) # {})

\* Mutant: a build number off by one is stamped on the leases.
TouchedLate(m, n) == [first |-> IF m.first = 0 THEN n ELSE m.first, last |-> n + 1]

\* CommitComposed: new leases begin, old ones are touched.
Touched(m, n) == [first |-> IF m.first = 0 THEN n ELSE m.first, last |-> n]

\* An archive has the files that were staged; its typed rows and its spells are
\* those that were planned.
Archived(j) ==
  [k \in DOMAIN j.staged |->
     [j.staged[k] EXCEPT !.rows = j.planned[k].epf.rows, !.spells = j.planned[k].epf.spells]]

\* The build is recorded, unless another server recorded its number.
Record(s) ==
  LET j == job[s]
      n == j.number
  IN  /\ j.stage = "staging"
      /\ DOMAIN j.staged = DOMAIN j.planned
      /\ TocComposes(j.planned)
      /\ n \notin DOMAIN builds
      /\ builds' = Put(builds, n, Archived(j))
      /\ span' = [k \in Key |->
           IF k \in DOMAIN j.planned /\ Typed(j.planned[k].epf) # {} THEN Touched(span[k], n)
           ELSE span[k]]
      /\ job' = [job EXCEPT ![s] = NoJob]
      /\ UNCHANGED <<discovery, installed, owned, applied, active>>

-----------------------------------------------------------------------------
(* Everything else.                                                        *)

\* A refusal, a statement that fails, an exception or a crash; or a key that
\* is installed already, or not installed, so that nothing is left to do.
Finish(s) ==
  /\ job[s].stage # "idle"
  /\ job' = [job EXCEPT ![s] = NoJob]
  /\ UNCHANGED <<discovery, installed, history>>

\* The packages a build leased rows of, and all its rows.
Leasing(n) == {k \in DOMAIN builds[n] : Typed(builds[n][k]) # {}}
BuiltRows(n) == UNION {Typed(builds[n][k]) : k \in DOMAIN builds[n]}

\* The rows that manifests can declare together and whose sidecars Inspect and
\* Apply accept; the files cannot change, their hashes are recorded.
Verified ==
  {rows \in {UNION {Typed(e) : e \in epfs} : epfs \in SUBSET Epf} : Accepts(Sidecars(rows))}

\* `.content server apply` (ServerDeployment): once, while never selected,
\* if the sidecars agree and there is a row to write.
Apply(n) ==
  /\ n \in DOMAIN builds
  /\ n \notin applied
  /\ BuiltRows(n) \in Verified
  /\ ServerJson(BuiltRows(n)) # {}
  /\ applied' = applied \cup {n}
  /\ owned' = [k \in Key |->
       IF \E r \in ServerJson(BuiltRows(n)) : r.package = k THEN n ELSE owned[k]]
  /\ UNCHANGED <<discovery, installed, builds, span, active, job>>

\* `.content activate` (ContentActivation).
Activate(n) ==
  /\ n \in DOMAIN builds
  /\ active # n
  /\ BuiltRows(n) \in Verified
  /\ ServerJson(BuiltRows(n)) # {} => n \in applied
  /\ active' = n
  /\ UNCHANGED <<discovery, installed, builds, span, owned, applied, job>>

\* A module update replaces, adds or removes an EPF.
Deploy(p, e) ==
  /\ deploys < MaxDeploys
  /\ disk[p] # e
  /\ disk' = [disk EXCEPT ![p] = e]
  /\ deploys' = deploys + 1
  /\ UNCHANGED <<installed, history, job>>

Step(s) ==
  \/ \E c \in Runs[s] : Begin(s, c)
  \/ Look(s)
  \/ Validate(s)
  \/ FindAbsent(s)
  \/ Insert(s)
  \/ SurveyRow(s)
  \/ SurveyLeases(s)
  \/ SurveyOwners(s)
  \/ SurveyActive(s)
  \/ FindPresent(s)
  \/ Delete(s)
  \/ Preflight(s)
  \/ TakeNumber(s)
  \/ StageInto(s)
  \/ Record(s)
  \/ Finish(s)

Next ==
  \/ \E s \in Server : Step(s)
  \/ \E n \in Number : Apply(n) \/ Activate(n)
  \/ \E p \in Path, e \in Epf \cup {None} : Deploy(p, e)

Spec == Init /\ [][Next]_vars

-----------------------------------------------------------------------------
(* What has to hold.                                                       *)

\* Every variable holds what its table, directory or process can hold.
JobOK(j) ==
  /\ j = [stage |-> j.stage, op |-> j.op, key |-> j.key, seen |-> j.seen, rows |-> j.rows,
           marks |-> j.marks, active |-> j.active, horizon |-> j.horizon,
           number |-> j.number, planned |-> j.planned, staged |-> j.staged]
  /\ j.stage \in Stage
  /\ j.op \in {"none", "install", "uninstall", "build"}
  /\ j.key \in Key \cup {None}
  /\ Partial(j.seen, Path, Key \cup {None})
  /\ Partial(j.rows, Key, Row)
  /\ j.marks \in Span
  /\ {j.active, j.horizon, j.number} \subseteq 0 .. MaxBuild
  /\ Partial(j.planned, Key, Source)
  /\ Partial(j.staged, Key, Epf)

TypeOK ==
  /\ disk \in [Path -> Epf \cup {None}]
  /\ deploys \in 0 .. MaxDeploys
  /\ Partial(installed, Key, Row)
  /\ DOMAIN builds \subseteq Number
  /\ \A n \in DOMAIN builds : Partial(builds[n], Key, Manifest)
  /\ span \in [Key -> Span]
  /\ owned \in [Key -> 0 .. MaxBuild]
  /\ applied \subseteq Number
  /\ active \in 0 .. MaxBuild
  /\ DOMAIN job = Server /\ \A s \in Server : JobOK(job[s])

\* A row is never updated: servers that install a package at once, each from
\* the EPF it sees, cannot change the version that one of them selected.
RowsNeverUpgrade ==
  [][\A k \in DOMAIN installed \cap DOMAIN installed' : installed'[k] = installed[k]]_vars

\* A build is one selection: it has exactly the packages that were installed
\* at the moment it read them, each staged in the version it was installed
\* in, whatever was installed, removed or deployed while it ran.
BuildsAreSelections ==
  [][\A n \in DOMAIN builds' \ DOMAIN builds : \E s \in Server :
       LET staged == builds'[n]
       IN  /\ DOMAIN staged = DOMAIN job[s].rows
           /\ \A k \in DOMAIN staged :
                staged[k].key = k /\ staged[k].version = job[s].rows[k].version]_vars

\* No two packages of an archive own one target, although the collision was
\* looked for in files that may have been replaced before they were staged.
TargetsHaveOneOwner ==
  \A n \in DOMAIN builds : \A k, l \in DOMAIN builds[n] :
    k # l => builds[n][k].files \cap builds[n][l].files = {}

\* The interface of a recorded build loads: FrameXML.toc, composed for the
\* manifests of preflight, is the stock list and, each once and after the file
\* it follows, the entries of the packages that were staged, and the archive
\* has their files.
TocLoads ==
  [][\A s \in Server : Record(s) =>
       LET j == job[s]
           staged(k) == j.staged[k].loads
           loads == UNION {staged(k) : k \in DOMAIN j.staged}
           labelled == \E k \in DOMAIN j.staged : j.staged[k].labels # {}
       IN  ComposesToc(j.planned) =>
             /\ Extends(Composed(Loads(j.planned), Labels(j.planned) # {}), loads, labelled)
             /\ Added(loads) \subseteq UNION {j.staged[k].files : k \in DOMAIN j.staged}]_vars

\* The spells of a recorded build read as their packages declared them when
\* preflight accepted them, in every language and next to the stock spells,
\* however many packages share a text.
SpellsRead ==
  [][\A s \in Server : Record(s) => ReadsBack(SpellsOf(job[s].planned))]_vars

\* What a build writes to its sidecars, an apply and an activation accept -
\* whatever typed rows packages declare (here, and had they declared any of
\* the other rows) and whichever package a price comes from - except that of
\* a build whose items all lack server rows: it is recorded, its IDs are
\* leased, and it can never be activated.
SidecarsVerify ==
  [][\A s \in Server : Record(s) =>
       Verifies(RowsOf(job[s].planned)) /\ AnyRowsVerify]_vars

\* The survey that precedes a removal says so whenever the ACTIVE build has
\* leased rows of the package, unless that build is younger than the leases
\* it read: its four queries are made while servers record and activate.
\* (A package whose leases went to a successor has none to survey; here
\* leases stay with their package.)
SurveyMissesNothing ==
  \A s \in Server :
    LET j == job[s]
    IN  j.stage = "surveyed" /\ j.active \in 1 .. j.horizon /\ j.key \in Leasing(j.active)
          => ActiveIncludes(j)
=============================================================================
