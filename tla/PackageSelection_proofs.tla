---------------------- MODULE PackageSelection_proofs ----------------------
(***************************************************************************)
(* Proofs about PackageSelection for any number of servers, packages,      *)
(* manifests and paths.                                                    *)
(*                                                                         *)
(* A job carries its selection from the moment it read the registry: what  *)
(* it planned and staged agrees with it (Faithful), although the files do  *)
(* not stay what they were, and so the contents that were established to   *)
(* compose when the build took its number (Composable) still do when it is *)
(* recorded; what they compose to is PackageContents_proofs' subject.      *)
(*                                                                         *)
(* A survey carries markers that cover the builds there were when the      *)
(* leases were read (Surveyed); builds are numbered without gaps (Dense),  *)
(* so later ones have greater numbers, and leases only widen (SpansCover). *)
(***************************************************************************)
EXTENDS PackageSelection, PackageContents_proofs

\* The build n leased rows of the package k.
LeasedIn(bs, n, k) == n \in DOMAIN bs /\ k \in DOMAIN bs[n] /\ Typed(bs[n][k]) # {}

\* Markers that cover the builds up to h that leased rows of a package.
Covers(m, k, h, bs) ==
  \A n \in Nat : n <= h /\ LeasedIn(bs, n, k) => m.first # 0 /\ m.first <= n /\ n <= m.last

\* What two openings of an EPF have in common when the second is accepted.
Alike(e, f) ==
  /\ e.key = f.key /\ e.version = f.version /\ e.files = f.files
  /\ e.loads = f.loads /\ e.labels = f.labels

\* What a build has established of its plan when it takes its number.
Composable(planned) ==
  /\ TocCovered(planned)
  /\ SpellsCompose(SpellsOf(planned))
  /\ PricesResolve(RowsOf(planned))

\* The plan of a build is made of valid manifests, in the installed versions
\* and without collisions, and what was staged is like what was planned.
Faithful(j) ==
  /\ DOMAIN j.planned \subseteq DOMAIN j.rows
  /\ \A k \in DOMAIN j.planned :
       /\ j.planned[k].epf.key = k /\ j.planned[k].epf.version = j.rows[k].version
       /\ j.planned[k].epf.valid
  /\ \A k, l \in DOMAIN j.planned :
       k # l => j.planned[k].epf.files \cap j.planned[l].epf.files = {}
  /\ DOMAIN j.staged \subseteq DOMAIN j.planned
  /\ \A k \in DOMAIN j.staged : Alike(j.staged[k], j.planned[k].epf)
  /\ j.stage = "staging" => DOMAIN j.planned = DOMAIN j.rows /\ Composable(j.planned)
  /\ j.op # "build" => DOMAIN j.planned = {}
  /\ j.stage # "staging" => DOMAIN j.staged = {}

\* A survey that has read the leases covers the builds there were then.
Surveyed(j, bs) ==
  j.stage \in {"spanned", "counted", "surveyed"} =>
    /\ j.key \in Key
    /\ \A n \in 1 .. j.horizon : n \in DOMAIN bs
    /\ Covers(j.marks, j.key, j.horizon, bs)

\* The number of a build follows a recorded one.
Numbered(j, bs) ==
  j.stage = "staging" => j.number \in Number /\ (j.number = 1 \/ j.number - 1 \in DOMAIN bs)


\* What each stage knows of its command.
Staged(j) ==
  /\ j.op \in {"install", "uninstall"} => j.key \in Key
  /\ j.stage \in {"validated", "absent"} => j.op = "install" /\ j.key \in DOMAIN j.rows
  /\ j.stage \in {"found", "spanned", "counted", "surveyed", "present"} => j.op = "uninstall"
  /\ j.stage = "staging" => j.op = "build"

JobInv(j, bs) ==
  JobOK(j) /\ Staged(j) /\ Faithful(j) /\ Surveyed(j, bs) /\ Numbered(j, bs)

JobsOK == \A s \in Server : JobInv(job[s], builds)

\* Builds are numbered without gaps.
Dense == \E m \in 0 .. MaxBuild : DOMAIN builds = 1 .. m

\* The leases a package retains span the builds that leased rows of it.
SpansCover ==
  \A k \in Key : /\ Covers(span[k], k, MaxBuild, builds)
                 /\ span[k].first = 0 \/ span[k].first \in DOMAIN builds

IInv ==
  /\ TypeOK
  /\ JobsOK
  /\ Dense
  /\ SpansCover
  /\ TargetsHaveOneOwner

\* A job is a record of these fields.
LEMMA JobFields ==
  ASSUME NEW j, JobOK(j)
  PROVE  DOMAIN j = {"stage", "op", "key", "seen", "rows", "marks", "active", "horizon",
                     "number", "planned", "staged"}
BY DEF JobOK

\* A command that has read nothing but rows so far.
LEMMA NewJob ==
  ASSUME NEW stage \in Stage, NEW op \in {"none", "install", "uninstall", "build"},
         NEW key \in Key \cup {None}, NEW rows, Partial(rows, Key, Row)
  PROVE  JobOK(Job(stage, op, key, rows))
<1> DEFINE X == Job(stage, op, key, rows)
<1>1. X = [stage |-> stage, op |-> op, key |-> key, seen |-> Empty, rows |-> rows,
           marks |-> NoSpan, active |-> 0, horizon |-> 0, number |-> 0, planned |-> Empty,
           staged |-> Empty]
  BY DEF Job
<1> HIDE DEF X
<1>2. \A S, T : Partial(Empty, S, T)
  BY DEF Partial, Empty
<1>3. NoSpan \in Span /\ {0} \subseteq 0 .. MaxBuild
  BY SelectionAssumption DEF NoSpan, Span
<1> QED BY <1>1, <1>2, <1>3 DEF JobOK, X

\* An idle server satisfies every condition on its job.
LEMMA IdleOK == ASSUME NEW bs PROVE JobInv(NoJob, bs)
<1>1. JobOK(NoJob)
  BY NewJob, SelectionAssumption DEF NoJob, Stage, Partial, Empty
<1>2. Staged(NoJob) /\ Faithful(NoJob) /\ Surveyed(NoJob, bs) /\ Numbered(NoJob, bs)
  BY DEF NoJob, Job, Staged, Faithful, Surveyed, Numbered, Empty
<1> QED BY <1>1, <1>2 DEF JobInv

LEMMA InitIInv == Init => IInv
<1> SUFFICES ASSUME Init PROVE IInv
  OBVIOUS
<1>1. JobsOK
  BY IdleOK DEF Init, JobsOK
<1>2. TypeOK
  <2>1. \A s \in Server : JobOK(job[s])
    BY <1>1 DEF JobsOK, JobInv
  <2>2. DOMAIN job = Server /\ disk \in [Path -> Epf \cup {None}] /\ deploys \in 0 .. MaxDeploys
    BY SelectionAssumption DEF Init
  <2>3. Partial(installed, Key, Row) /\ DOMAIN builds \subseteq Number
        /\ \A n \in DOMAIN builds : Partial(builds[n], Key, Manifest)
    BY DEF Init, Empty, Partial
  <2>4. span \in [Key -> Span] /\ owned \in [Key -> 0 .. MaxBuild] /\ applied \subseteq Number
        /\ active \in 0 .. MaxBuild
    BY SelectionAssumption DEF Init, Span, NoSpan
  <2> QED BY <2>1, <2>2, <2>3, <2>4 DEF TypeOK
<1>3. DOMAIN builds = {}
  BY DEF Init, Empty
<1>4. Dense
  <2>1. 0 \in 0 .. MaxBuild /\ DOMAIN builds = 1 .. 0
    BY <1>3, SelectionAssumption
  <2> QED BY <2>1 DEF Dense
<1>5. SpansCover
  BY <1>3 DEF Init, SpansCover, Covers, LeasedIn, NoSpan
<1>6. TargetsHaveOneOwner
  BY <1>3 DEF TargetsHaveOneOwner
<1> QED BY <1>1, <1>2, <1>4, <1>5, <1>6 DEF IInv

\* A step of one job keeps the conditions on all jobs when it keeps them on its own.
LEMMA JobsStep ==
  ASSUME IInv, NEW s \in Server, NEW X, JobInv(X, builds), job' = [job EXCEPT ![s] = X],
         UNCHANGED builds
  PROVE  JobsOK' /\ DOMAIN job' = Server /\ \A t \in Server : JobOK(job'[t])
<1>1. DOMAIN job = Server /\ \A t \in Server : JobInv(job[t], builds)
  BY DEF IInv, TypeOK, JobsOK
<1>2. \A t \in Server : job'[t] = IF t = s THEN X ELSE job[t]
  BY <1>1
<1>3. \A t \in Server : JobInv(job'[t], builds')
  BY <1>1, <1>2
<1> QED BY <1>1, <1>3 DEF JobsOK, JobInv

\* A step that changes a job only keeps the invariant when it keeps the job's part.
LEMMA JobOnlyStep ==
  ASSUME IInv, NEW s \in Server, NEW X, JobInv(X, builds), job' = [job EXCEPT ![s] = X],
         UNCHANGED <<discovery, installed, history>>
  PROVE  IInv'
<1> USE DEF discovery, history
<1>1. JobsOK' /\ DOMAIN job' = Server /\ \A t \in Server : JobOK(job'[t])
  BY JobsStep
<1>2. TypeOK'
  BY <1>1 DEF IInv, TypeOK
<1>3. Dense' /\ SpansCover' /\ TargetsHaveOneOwner'
  BY DEF IInv, Dense, SpansCover, TargetsHaveOneOwner
<1> QED BY <1>1, <1>2, <1>3 DEF IInv

\* Partial functions.
LEMMA PutPartial ==
  ASSUME NEW f, NEW S, NEW T, Partial(f, S, T), NEW k \in S, NEW v \in T
  PROVE  /\ Partial(Put(f, k, v), S, T)
         /\ DOMAIN Put(f, k, v) = DOMAIN f \cup {k}
         /\ \A x \in DOMAIN f \cup {k} : Put(f, k, v)[x] = IF x = k THEN v ELSE f[x]
BY DEF Partial, Put

LEMMA EmptyPartial == ASSUME NEW S, NEW T PROVE Partial(Empty, S, T) /\ DOMAIN Empty = {}
BY DEF Partial, Empty

\* The last build of a dense registry.
LEMMA LastBuild ==
  ASSUME NEW m \in 0 .. MaxBuild, DOMAIN builds = 1 .. m
  PROVE  Last = m
<1> USE SelectionAssumption
<1>1. CASE m = 0
  BY <1>1 DEF Last
<1>2. CASE m # 0
  <2>1. DOMAIN builds # {} /\ m \in DOMAIN builds
    BY <1>2
  <2>2. \A n \in DOMAIN builds : (\A i \in DOMAIN builds : i <= n) <=> n = m
    BY <1>2
  <2>3. Last = CHOOSE n \in DOMAIN builds : \A i \in DOMAIN builds : i <= n
    BY <2>1 DEF Last
  <2> QED BY <2>1, <2>2, <2>3
<1> QED BY <1>1, <1>2

\* What the invariant says of the job of a server.
LEMMA JobFacts ==
  ASSUME IInv, NEW s \in Server
  PROVE  JobInv(job[s], builds) /\ JobOK(job[s])
BY DEF IInv, JobsOK, JobInv

-----------------------------------------------------------------------------
(* The steps that change a job only.                                       *)

LEMMA BeginStep ==
  ASSUME IInv, NEW s \in Server, NEW c \in Runs[s], Begin(s, c)
  PROVE  IInv'
<1> DEFINE rows == IF c.op = "build" THEN installed ELSE Empty
           X == Job("scanning", c.op, c.key, rows)
<1>1. c \in Command
  BY SelectionAssumption
<1>2. Partial(rows, Key, Row)
  BY EmptyPartial DEF IInv, TypeOK
<1> HIDE DEF rows
<1>3. JobOK(X)
  BY <1>1, <1>2, NewJob DEF Command, Stage
<1>4. Staged(X) /\ Faithful(X) /\ Surveyed(X, builds) /\ Numbered(X, builds)
  BY <1>1, EmptyPartial DEF Job, Staged, Faithful, Surveyed, Numbered, Command
<1>5. JobInv(X, builds)
  BY <1>3, <1>4 DEF JobInv
<1>6. job' = [job EXCEPT ![s] = X] /\ UNCHANGED <<discovery, installed, history>>
  BY DEF Begin, rows
<1> HIDE DEF X
<1> QED BY <1>5, <1>6, JobOnlyStep

LEMMA LookStep ==
  ASSUME IInv, NEW s \in Server, Look(s)
  PROVE  IInv'
<1> DEFINE j == job[s]
<1>1. PICK p \in Path : job' = [job EXCEPT ![s].seen = Put(j.seen, p, Declared(disk[p]))]
  BY DEF Look, Unseen
<1> DEFINE seen == Put(j.seen, p, Declared(disk[p]))
           X == [j EXCEPT !.seen = seen]
<1>2. JobInv(j, builds) /\ j.stage = "scanning"
  BY JobFacts DEF Look
<1>3. Partial(j.seen, Path, Key \cup {None}) /\ Declared(disk[p]) \in Key \cup {None}
  <2>1. disk[p] \in Epf \cup {None}
    BY DEF IInv, TypeOK
  <2> QED BY <2>1, <1>2, SelectionAssumption DEF JobInv, JobOK, Declared, Manifest
<1>4. Partial(seen, Path, Key \cup {None})
  BY <1>3, PutPartial
<1>5. job' = [job EXCEPT ![s] = X] /\ UNCHANGED <<discovery, installed, history>>
  BY <1>1 DEF Look
<1> HIDE DEF seen
<1>6. X = [stage |-> j.stage, op |-> j.op, key |-> j.key, seen |-> seen, rows |-> j.rows,
           marks |-> j.marks, active |-> j.active, horizon |-> j.horizon,
           number |-> j.number, planned |-> j.planned, staged |-> j.staged]
  BY <1>2 DEF JobInv, JobOK
<1> HIDE DEF X
<1>7. JobOK(X)
  BY <1>2, <1>4, <1>6 DEF JobInv, JobOK
<1>8. Staged(X) /\ Faithful(X) /\ Surveyed(X, builds) /\ Numbered(X, builds)
  BY <1>2, <1>6 DEF JobInv, Staged, Faithful, Surveyed, Numbered
<1>9. JobInv(X, builds)
  BY <1>7, <1>8 DEF JobInv
<1> QED BY <1>5, <1>9, JobOnlyStep

LEMMA FinishStep ==
  ASSUME IInv, NEW s \in Server, Finish(s)
  PROVE  IInv'
<1>1. job' = [job EXCEPT ![s] = NoJob] /\ UNCHANGED <<discovery, installed, history>>
  BY DEF Finish
<1> QED BY <1>1, IdleOK, JobOnlyStep

LEMMA ValidateStep ==
  ASSUME IInv, NEW s \in Server, Validate(s)
  PROVE  IInv'
<1> DEFINE j == job[s]
<1>1. PICK p \in Path :
        /\ Valid(p, j.key)
        /\ job' = [job EXCEPT ![s] =
             Job("validated", "install", j.key,
                 Put(Empty, j.key, [version |-> disk[p].version, source |-> p]))]
  BY DEF Validate
<1> DEFINE row == [version |-> disk[p].version, source |-> p]
           rows == Put(Empty, j.key, row)
           X == Job("validated", "install", j.key, rows)
<1>2. j.key \in Key
  BY JobFacts DEF Validate, Scanned, JobInv, Staged
<1>3. row \in Row
  BY <1>1, SelectionAssumption DEF IInv, TypeOK, Valid, Manifest, Row
<1>4. job' = [job EXCEPT ![s] = X] /\ UNCHANGED <<discovery, installed, history>>
  BY <1>1 DEF Validate
<1> HIDE DEF row
<1>5. Partial(rows, Key, Row) /\ j.key \in DOMAIN rows
  BY <1>2, <1>3 DEF Partial, Put, Empty
<1> HIDE DEF rows
<1>6. JobOK(X)
  BY <1>2, <1>5, NewJob DEF Stage
<1>7. Staged(X) /\ Faithful(X) /\ Surveyed(X, builds) /\ Numbered(X, builds)
  BY <1>2, <1>5, EmptyPartial DEF Job, Staged, Faithful, Surveyed, Numbered
<1>8. JobInv(X, builds)
  BY <1>6, <1>7 DEF JobInv
<1> HIDE DEF X
<1> QED BY <1>4, <1>8, JobOnlyStep

LEMMA FindStep ==
  ASSUME IInv, NEW s \in Server, FindAbsent(s) \/ FindPresent(s)
  PROVE  IInv'
<1> DEFINE j == job[s]
<1>1. JobInv(j, builds)
  BY JobFacts
<1>2. CASE FindAbsent(s)
  <2> DEFINE X == [j EXCEPT !.stage = "absent"]
  <2>1. X = [stage |-> "absent", op |-> j.op, key |-> j.key, seen |-> j.seen, rows |-> j.rows,
             marks |-> j.marks, active |-> j.active, horizon |-> j.horizon,
             number |-> j.number, planned |-> j.planned, staged |-> j.staged]
    BY <1>1 DEF JobInv, JobOK
  <2>2. job' = [job EXCEPT ![s] = X] /\ UNCHANGED <<discovery, installed, history>>
        /\ j.stage = "validated"
    BY <1>2 DEF FindAbsent
  <2> HIDE DEF X
  <2>3. JobInv(X, builds)
    BY <1>1, <2>1, <2>2 DEF JobInv, JobOK, Stage, Staged, Faithful, Surveyed, Numbered
  <2> QED BY <2>2, <2>3, JobOnlyStep
<1>3. CASE FindPresent(s)
  <2> DEFINE X == Job("present", "uninstall", j.key, Empty)
  <2>1. job' = [job EXCEPT ![s] = X] /\ UNCHANGED <<discovery, installed, history>>
        /\ j.stage = "surveyed"
    BY <1>3 DEF FindPresent
  <2>2. j.key \in Key
    BY <1>1, <2>1 DEF JobInv, Staged
  <2>3. JobOK(X)
    BY <2>2, EmptyPartial, NewJob DEF Stage
  <2>4. Staged(X) /\ Faithful(X) /\ Surveyed(X, builds) /\ Numbered(X, builds)
    BY <2>2, EmptyPartial DEF Job, Staged, Faithful, Surveyed, Numbered
  <2>5. JobInv(X, builds)
    BY <2>3, <2>4 DEF JobInv
  <2> HIDE DEF X
  <2> QED BY <2>1, <2>5, JobOnlyStep
<1> QED BY <1>2, <1>3

LEMMA SurveyRowStep ==
  ASSUME IInv, NEW s \in Server, SurveyRow(s)
  PROVE  IInv'
<1> DEFINE j == job[s]
           rows == [k \in {j.key} \cap DOMAIN installed |-> installed[k]]
           X == Job("found", "uninstall", j.key, rows)
<1>1. j.key \in Key
  BY JobFacts DEF SurveyRow, Scanned, JobInv, Staged
<1>2. Partial(rows, Key, Row)
  BY <1>1 DEF IInv, TypeOK, Partial
<1>3. job' = [job EXCEPT ![s] = X] /\ UNCHANGED <<discovery, installed, history>>
  BY DEF SurveyRow
<1> HIDE DEF rows
<1>4. JobOK(X)
  BY <1>1, <1>2, NewJob DEF Stage
<1>5. Staged(X) /\ Faithful(X) /\ Surveyed(X, builds) /\ Numbered(X, builds)
  BY <1>1, EmptyPartial DEF Job, Staged, Faithful, Surveyed, Numbered
<1>6. JobInv(X, builds)
  BY <1>4, <1>5 DEF JobInv
<1> HIDE DEF X
<1> QED BY <1>3, <1>6, JobOnlyStep

\* What the leases say covers the builds that there are when they are read.
LEMMA SurveyLeasesStep ==
  ASSUME IInv, NEW s \in Server, SurveyLeases(s)
  PROVE  IInv'
<1> DEFINE j == job[s]
           marks == span[j.key]
           X == [j EXCEPT !.stage = "spanned", !.marks = marks, !.horizon = Last]
<1>1. JobInv(j, builds) /\ j.stage = "found" /\ j.op = "uninstall" /\ j.key \in Key
  BY JobFacts DEF SurveyLeases, JobInv, Staged
<1>2. PICK m \in 0 .. MaxBuild : DOMAIN builds = 1 .. m
  BY DEF IInv, Dense
<1>3. Last = m
  BY <1>2, LastBuild
<1>4. marks \in Span /\ Covers(marks, j.key, MaxBuild, builds)
  BY <1>1 DEF IInv, TypeOK, SpansCover
<1>5. job' = [job EXCEPT ![s] = X] /\ UNCHANGED <<discovery, installed, history>>
  BY DEF SurveyLeases
<1> HIDE DEF marks
<1>6. X = [stage |-> "spanned", op |-> j.op, key |-> j.key, seen |-> j.seen,
           rows |-> j.rows, marks |-> marks, active |-> j.active,
           horizon |-> Last, number |-> j.number, planned |-> j.planned,
           staged |-> j.staged]
  <2> DEFINE Y == [j EXCEPT !.stage = "spanned"]
           Z == [Y EXCEPT !.marks = marks]
  <2>1. X = [Z EXCEPT !.horizon = Last]
    OBVIOUS
  <2>2. Y = [stage |-> "spanned", op |-> j.op, key |-> j.key, seen |-> j.seen,
             rows |-> j.rows, marks |-> j.marks, active |-> j.active,
             horizon |-> j.horizon, number |-> j.number, planned |-> j.planned,
             staged |-> j.staged]
    BY <1>1 DEF JobInv, JobOK
  <2> HIDE DEF X, Y
  <2>3. Z = [stage |-> "spanned", op |-> j.op, key |-> j.key, seen |-> j.seen,
             rows |-> j.rows, marks |-> marks, active |-> j.active,
             horizon |-> j.horizon, number |-> j.number, planned |-> j.planned,
             staged |-> j.staged]
    BY <2>2
  <2> HIDE DEF Z
  <2> QED BY <2>1, <2>3
<1> HIDE DEF X
<1>7. JobOK(X)
  BY <1>1, <1>3, <1>4, <1>6 DEF JobInv, JobOK, Stage
<1>8. Covers(marks, j.key, Last, builds) /\ \A n \in 1 .. Last : n \in DOMAIN builds
  BY <1>2, <1>3, <1>4, SelectionAssumption DEF Covers
<1>9. Staged(X) /\ Faithful(X) /\ Surveyed(X, builds) /\ Numbered(X, builds)
  BY <1>1, <1>6, <1>8 DEF JobInv, Staged, Faithful, Surveyed, Numbered
<1>10. JobInv(X, builds)
  BY <1>7, <1>9 DEF JobInv
<1> QED BY <1>5, <1>10, JobOnlyStep

\* An applied build only widens the markers.
LEMMA WidenedCovers ==
  ASSUME NEW m \in Span, NEW n \in 0 .. MaxBuild, NEW k, NEW h, NEW bs, Covers(m, k, h, bs)
  PROVE  Widened(m, n) \in Span /\ Covers(Widened(m, n), k, h, bs)
BY SelectionAssumption DEF Widened, Covers, Span

LEMMA SurveyOwnersStep ==
  ASSUME IInv, NEW s \in Server, SurveyOwners(s)
  PROVE  IInv'
<1> DEFINE j == job[s]
           marks == Widened(j.marks, owned[j.key])
           X == [j EXCEPT !.stage = "counted", !.marks = marks]
<1>1. JobInv(j, builds) /\ j.stage = "spanned" /\ j.op = "uninstall" /\ j.key \in Key
  BY JobFacts DEF SurveyOwners, JobInv, Staged
<1>2. j.marks \in Span /\ owned[j.key] \in 0 .. MaxBuild /\ Covers(j.marks, j.key, j.horizon, builds)
  BY <1>1 DEF IInv, TypeOK, JobInv, JobOK, Surveyed
<1>3. marks \in Span /\ Covers(marks, j.key, j.horizon, builds)
  BY <1>2, WidenedCovers
<1>4. job' = [job EXCEPT ![s] = X] /\ UNCHANGED <<discovery, installed, history>>
  BY DEF SurveyOwners
<1> HIDE DEF marks
<1>5. X = [stage |-> "counted", op |-> j.op, key |-> j.key, seen |-> j.seen,
           rows |-> j.rows, marks |-> marks, active |-> j.active,
           horizon |-> j.horizon, number |-> j.number, planned |-> j.planned,
           staged |-> j.staged]
  <2> DEFINE Y == [j EXCEPT !.stage = "counted"]
  <2>1. X = [Y EXCEPT !.marks = marks]
    OBVIOUS
  <2>2. Y = [stage |-> "counted", op |-> j.op, key |-> j.key, seen |-> j.seen,
             rows |-> j.rows, marks |-> j.marks, active |-> j.active,
             horizon |-> j.horizon, number |-> j.number, planned |-> j.planned,
             staged |-> j.staged]
    BY <1>1 DEF JobInv, JobOK
  <2> HIDE DEF X, Y
  <2> QED BY <2>1, <2>2
<1> HIDE DEF X
<1>6. JobOK(X)
  BY <1>1, <1>3, <1>5 DEF JobInv, JobOK, Stage
<1>7. Staged(X) /\ Faithful(X) /\ Surveyed(X, builds) /\ Numbered(X, builds)
  BY <1>1, <1>3, <1>5 DEF JobInv, Staged, Faithful, Surveyed, Numbered
<1>8. JobInv(X, builds)
  BY <1>6, <1>7 DEF JobInv
<1> QED BY <1>4, <1>8, JobOnlyStep

LEMMA SurveyActiveStep ==
  ASSUME IInv, NEW s \in Server, SurveyActive(s)
  PROVE  IInv'
<1> DEFINE j == job[s]
           X == [j EXCEPT !.stage = "surveyed", !.active = active]
<1>1. JobInv(j, builds) /\ j.stage = "counted"
  BY JobFacts DEF SurveyActive
<1>2. job' = [job EXCEPT ![s] = X] /\ UNCHANGED <<discovery, installed, history>>
  BY DEF SurveyActive
<1>3. X = [stage |-> "surveyed", op |-> j.op, key |-> j.key, seen |-> j.seen,
           rows |-> j.rows, marks |-> j.marks, active |-> active,
           horizon |-> j.horizon, number |-> j.number, planned |-> j.planned,
           staged |-> j.staged]
  <2> DEFINE Y == [j EXCEPT !.stage = "surveyed"]
  <2>1. X = [Y EXCEPT !.active = active]
    OBVIOUS
  <2>2. Y = [stage |-> "surveyed", op |-> j.op, key |-> j.key, seen |-> j.seen,
             rows |-> j.rows, marks |-> j.marks, active |-> j.active,
             horizon |-> j.horizon, number |-> j.number, planned |-> j.planned,
             staged |-> j.staged]
    BY <1>1 DEF JobInv, JobOK
  <2> HIDE DEF X, Y
  <2> QED BY <2>1, <2>2
<1> HIDE DEF X
<1>4. JobOK(X)
  BY <1>1, <1>3 DEF IInv, TypeOK, JobInv, JobOK, Stage
<1>5. Staged(X) /\ Faithful(X) /\ Surveyed(X, builds) /\ Numbered(X, builds)
  BY <1>1, <1>3 DEF JobInv, Staged, Faithful, Surveyed, Numbered
<1>6. JobInv(X, builds)
  BY <1>4, <1>5 DEF JobInv
<1> QED BY <1>2, <1>6, JobOnlyStep

-----------------------------------------------------------------------------
(* A build.                                                                *)

\* Preflight keeps the plan free of collisions and true to the selection.
LEMMA PreflightStep ==
  ASSUME IInv, NEW s \in Server, Preflight(s)
  PROVE  IInv'
<1> DEFINE j == job[s]
<1>1. PICK k \in Key, p \in Path :
        /\ Leads(k, DOMAIN j.rows \ DOMAIN j.planned)
        /\ Accepted(k, j.rows[k], p, j.planned)
        /\ job' = [job EXCEPT ![s].planned = Put(j.planned, k, [path |-> p, epf |-> disk[p]])]
  BY DEF Preflight
<1> DEFINE source == [path |-> p, epf |-> disk[p]]
           planned == Put(j.planned, k, source)
           X == [j EXCEPT !.planned = planned]
<1>2. JobInv(j, builds) /\ j.stage = "scanning" /\ j.op = "build"
  BY JobFacts DEF Preflight, Scanned
<1>3. k \in DOMAIN j.rows /\ k \notin DOMAIN j.planned
  BY <1>1 DEF Leads
<1>4. /\ disk[p] \in Epf /\ disk[p].valid
      /\ disk[p].key = k /\ disk[p].version = j.rows[k].version
      /\ disk[p].files \cap Targets(j.planned) = {}
  BY <1>1 DEF Accepted, Valid, IInv, TypeOK
<1>5. job' = [job EXCEPT ![s] = X] /\ UNCHANGED <<discovery, installed, history>>
  BY <1>1 DEF Preflight
<1>6. source \in Source /\ source.epf = disk[p]
  BY <1>4 DEF Source
<1> HIDE DEF source
<1>7. /\ Partial(planned, Key, Source) /\ DOMAIN planned = DOMAIN j.planned \cup {k}
      /\ planned[k] = source /\ \A l \in DOMAIN j.planned : planned[l] = j.planned[l]
  <2>1. Partial(j.planned, Key, Source)
    BY <1>2 DEF JobInv, JobOK
  <2> QED BY <1>3, <1>6, <2>1 DEF Partial, Put
<1> HIDE DEF planned
<1>8. X = [stage |-> j.stage, op |-> j.op, key |-> j.key, seen |-> j.seen,
           rows |-> j.rows, marks |-> j.marks, active |-> j.active,
           horizon |-> j.horizon, number |-> j.number, planned |-> planned,
           staged |-> j.staged]
  BY <1>2 DEF JobInv, JobOK
<1> HIDE DEF X
<1>9. JobOK(X)
  BY <1>2, <1>7, <1>8 DEF JobInv, JobOK
<1>10. \A l \in DOMAIN j.planned : planned[k].epf.files \cap planned[l].epf.files = {}
  <2> SUFFICES ASSUME NEW l \in DOMAIN j.planned
               PROVE  disk[p].files \cap j.planned[l].epf.files = {}
    BY <1>6, <1>7
  <2>1. j.planned[l].epf.files \subseteq Targets(j.planned)
    BY DEF Targets
  <2> QED BY <1>4, <2>1
<1>11. Faithful(X)
  <2>1. DOMAIN X.planned \subseteq DOMAIN X.rows
    BY <1>2, <1>3, <1>7, <1>8 DEF JobInv, Faithful
  <2>2. \A l \in DOMAIN X.planned :
          /\ X.planned[l].epf.key = l /\ X.planned[l].epf.version = X.rows[l].version
          /\ X.planned[l].epf.valid
    BY <1>2, <1>4, <1>6, <1>7, <1>8 DEF JobInv, Faithful
  <2>3. \A l, m \in DOMAIN X.planned :
          l # m => X.planned[l].epf.files \cap X.planned[m].epf.files = {}
    BY <1>2, <1>7, <1>8, <1>10 DEF JobInv, Faithful
  <2>4. DOMAIN X.staged = {}
    BY <1>2, <1>8 DEF JobInv, Faithful
  <2> QED BY <1>2, <1>8, <2>1, <2>2, <2>3, <2>4 DEF Faithful
<1>12. Staged(X) /\ Surveyed(X, builds) /\ Numbered(X, builds)
  BY <1>2, <1>8 DEF JobInv, Staged, Surveyed, Numbered
<1>13. JobInv(X, builds)
  BY <1>9, <1>11, <1>12 DEF JobInv
<1> QED BY <1>5, <1>13, JobOnlyStep

LEMMA TakeNumberStep ==
  ASSUME IInv, NEW s \in Server, TakeNumber(s)
  PROVE  IInv'
<1> DEFINE j == job[s]
           number == Last + 1
           X == [j EXCEPT !.stage = "staging", !.seen = Empty, !.number = number]
<1>1. /\ JobInv(j, builds) /\ j.stage = "scanning" /\ j.op = "build"
      /\ DOMAIN j.planned = DOMAIN j.rows /\ Composable(j.planned)
  BY JobFacts DEF TakeNumber, Scanned, Composable
<1>2. number \in Number /\ (number = 1 \/ number - 1 \in DOMAIN builds)
  <2>1. PICK m \in 0 .. MaxBuild : DOMAIN builds = 1 .. m
    BY DEF IInv, Dense
  <2>2. Last = m
    BY <2>1, LastBuild
  <2> QED BY <2>1, <2>2, SelectionAssumption DEF TakeNumber, Number
<1>3. job' = [job EXCEPT ![s] = X] /\ UNCHANGED <<discovery, installed, history>>
  BY DEF TakeNumber
<1> HIDE DEF number
<1>4. X = [stage |-> "staging", op |-> j.op, key |-> j.key, seen |-> Empty,
           rows |-> j.rows, marks |-> j.marks, active |-> j.active,
           horizon |-> j.horizon, number |-> number, planned |-> j.planned,
           staged |-> j.staged]
  <2> DEFINE Y == [j EXCEPT !.stage = "staging"]
             Z == [Y EXCEPT !.seen = Empty]
  <2>1. X = [Z EXCEPT !.number = number]
    OBVIOUS
  <2>2. Y = [stage |-> "staging", op |-> j.op, key |-> j.key, seen |-> j.seen,
             rows |-> j.rows, marks |-> j.marks, active |-> j.active,
             horizon |-> j.horizon, number |-> j.number, planned |-> j.planned,
             staged |-> j.staged]
    BY <1>1 DEF JobInv, JobOK
  <2> HIDE DEF X, Y
  <2>3. Z = [stage |-> "staging", op |-> j.op, key |-> j.key, seen |-> Empty,
             rows |-> j.rows, marks |-> j.marks, active |-> j.active,
             horizon |-> j.horizon, number |-> j.number, planned |-> j.planned,
             staged |-> j.staged]
    BY <2>2
  <2> HIDE DEF Z
  <2> QED BY <2>1, <2>3
<1> HIDE DEF X
<1>5. number \in 0 .. MaxBuild
  BY <1>2, SelectionAssumption DEF Number
<1>6. Partial(Empty, Path, Key \cup {None})
  BY EmptyPartial
<1>7. JobOK(X)
  BY <1>1, <1>4, <1>5, <1>6 DEF JobInv, JobOK, Stage
<1>8. Staged(X) /\ Faithful(X) /\ Surveyed(X, builds) /\ Numbered(X, builds)
  BY <1>1, <1>2, <1>4 DEF JobInv, Staged, Faithful, Surveyed, Numbered
<1>9. JobInv(X, builds)
  BY <1>7, <1>8 DEF JobInv
<1> QED BY <1>3, <1>9, JobOnlyStep

\* What is staged is like what was planned, though the EPF may be another one.
LEMMA StageIntoStep ==
  ASSUME IInv, NEW s \in Server, StageInto(s)
  PROVE  IInv'
<1> DEFINE j == job[s]
<1>1. PICK k \in DOMAIN j.planned :
        LET p == j.planned[k].path
        IN  /\ Valid(p, k)
            /\ SameManifest(disk[p], j.planned[k].epf)
            /\ job' = [job EXCEPT ![s].staged = Put(j.staged, k, disk[p])]
  BY DEF StageInto
<1> DEFINE epf == disk[j.planned[k].path]
           staged == Put(j.staged, k, epf)
           X == [j EXCEPT !.staged = staged]
<1>2. JobInv(j, builds) /\ j.stage = "staging"
  BY JobFacts DEF StageInto
<1>3. j.planned[k] \in Source /\ k \in Key
  BY <1>2 DEF JobInv, JobOK, Partial
<1>4. epf \in Epf /\ Alike(epf, j.planned[k].epf)
  <2>1. epf \in Epf
    BY <1>1, <1>3 DEF IInv, TypeOK, Valid, Source
  <2>2. j.planned[k].epf \in Manifest
    BY <1>3, SelectionAssumption DEF Source
  <2>3. SameManifest(epf, j.planned[k].epf)
    BY <1>1
  <2> HIDE DEF epf
  <2>4. Alike(epf, j.planned[k].epf)
    BY <2>2, <2>3 DEF SameManifest, Alike, Manifest
  <2> QED BY <2>1, <2>4
<1>5. job' = [job EXCEPT ![s] = X] /\ UNCHANGED <<discovery, installed, history>>
  BY <1>1 DEF StageInto
<1> HIDE DEF epf
<1>6. /\ Partial(staged, Key, Epf) /\ DOMAIN staged = DOMAIN j.staged \cup {k}
      /\ staged[k] = epf /\ \A l \in DOMAIN j.staged : l # k => staged[l] = j.staged[l]
  <2>1. Partial(j.staged, Key, Epf)
    BY <1>2 DEF JobInv, JobOK
  <2> QED BY <1>3, <1>4, <2>1 DEF Partial, Put
<1> HIDE DEF staged
<1>7. X = [stage |-> j.stage, op |-> j.op, key |-> j.key, seen |-> j.seen,
           rows |-> j.rows, marks |-> j.marks, active |-> j.active,
           horizon |-> j.horizon, number |-> j.number, planned |-> j.planned,
           staged |-> staged]
  BY <1>2 DEF JobInv, JobOK
<1> HIDE DEF X
<1>8. JobOK(X)
  BY <1>2, <1>6, <1>7 DEF JobInv, JobOK
<1>9. Faithful(X)
  <2>1. DOMAIN X.staged \subseteq DOMAIN X.planned
    BY <1>2, <1>6, <1>7 DEF JobInv, Faithful
  <2>2. \A l \in DOMAIN X.staged : Alike(X.staged[l], X.planned[l].epf)
    BY <1>2, <1>4, <1>6, <1>7 DEF JobInv, Faithful
  <2> QED BY <1>2, <1>7, <2>1, <2>2 DEF JobInv, Faithful
<1>10. Staged(X) /\ Surveyed(X, builds) /\ Numbered(X, builds)
  BY <1>2, <1>7 DEF JobInv, Staged, Surveyed, Numbered
<1>11. JobInv(X, builds)
  BY <1>8, <1>9, <1>10 DEF JobInv
<1> QED BY <1>5, <1>11, JobOnlyStep

\* A registry that only grows keeps what is known of a job.
LEMMA GrownJob ==
  ASSUME NEW j, NEW bs, NEW cs, JobInv(j, bs), DOMAIN bs \subseteq DOMAIN cs,
         DOMAIN cs \subseteq Number, \A n \in DOMAIN bs : cs[n] = bs[n]
  PROVE  JobInv(j, cs)
<1>1. j.horizon \in 0 .. MaxBuild
  BY DEF JobInv, JobOK
<1>2. ASSUME j.stage \in {"spanned", "counted", "surveyed"}
      PROVE  Covers(j.marks, j.key, j.horizon, cs)
  <2>1. Covers(j.marks, j.key, j.horizon, bs) /\ \A n \in 1 .. j.horizon : n \in DOMAIN bs
    BY <1>2 DEF JobInv, Surveyed
  <2>2. \A n \in Nat : n <= j.horizon /\ LeasedIn(cs, n, j.key) => LeasedIn(bs, n, j.key)
    <3> SUFFICES ASSUME NEW n \in Nat, n <= j.horizon, LeasedIn(cs, n, j.key)
                 PROVE  LeasedIn(bs, n, j.key)
      OBVIOUS
    <3>1. n \in 1 .. j.horizon
      BY <1>1, SelectionAssumption DEF LeasedIn, Number
    <3> QED BY <2>1, <3>1 DEF LeasedIn
  <2> QED BY <2>1, <2>2 DEF Covers
<1>3. Surveyed(j, cs)
  BY <1>2 DEF JobInv, Surveyed
<1>4. Numbered(j, cs)
  BY DEF JobInv, Numbered
<1> QED BY <1>3, <1>4 DEF JobInv

\* What is archived has the files that were planned, and the rows.
LEMMA ArchivedAsPlanned ==
  ASSUME NEW j, JobInv(j, builds), NEW k \in DOMAIN j.staged
  PROVE  LET a == Archived(j)[k]
             e == j.planned[k].epf
         IN  /\ a \in Manifest
             /\ a.key = k /\ a.version = j.rows[k].version /\ a.files = e.files
             /\ Typed(a) = Typed(e)
<1> DEFINE a == Archived(j)[k]
           e == j.planned[k].epf
<1>1. /\ k \in DOMAIN j.planned /\ Alike(j.staged[k], e)
      /\ e.key = k /\ e.version = j.rows[k].version
  BY DEF JobInv, Faithful
<1>2. j.staged[k] \in Manifest /\ e \in Manifest
  BY <1>1, SelectionAssumption DEF JobInv, JobOK, Partial, Source
<1>3. a = [j.staged[k] EXCEPT !.rows = e.rows, !.spells = e.spells]
  BY DEF Archived
<1> HIDE DEF a, e
<1>4. /\ a \in Manifest /\ a.rows = e.rows /\ a.spells = e.spells
      /\ a.key = k /\ a.version = j.rows[k].version /\ a.files = e.files
  BY <1>1, <1>2, <1>3 DEF Manifest, Alike
<1>5. Typed(a) = Typed(e)
  BY <1>1, <1>4 DEF Typed
<1> QED BY <1>4, <1>5 DEF a, e

\* A build takes the next number, its leases begin or are touched.
LEMMA RecordStep ==
  ASSUME IInv, NEW s \in Server, Record(s)
  PROVE  IInv'
<1> DEFINE j == job[s]
           n == j.number
<1>1. /\ JobInv(j, builds) /\ j.stage = "staging"
      /\ DOMAIN j.staged = DOMAIN j.planned /\ n \notin DOMAIN builds
      /\ builds' = Put(builds, n, Archived(j))
      /\ job' = [job EXCEPT ![s] = NoJob]
      /\ UNCHANGED <<discovery, installed, owned, applied, active>>
  BY JobFacts DEF Record
<1>2. \A k \in Key : span'[k] = IF k \in DOMAIN j.planned /\ Typed(j.planned[k].epf) # {}
                                THEN Touched(span[k], n) ELSE span[k]
  BY DEF Record
<1>3. PICK m \in 0 .. MaxBuild : DOMAIN builds = 1 .. m
  BY DEF IInv, Dense
<1>4. n = m + 1 /\ n \in Number
  BY <1>1, <1>3, SelectionAssumption DEF JobInv, Numbered, Number
<1>5. /\ DOMAIN builds' = DOMAIN builds \cup {n} /\ builds'[n] = Archived(j)
      /\ \A i \in DOMAIN builds : builds'[i] = builds[i]
  BY <1>1 DEF Put
<1>6. DOMAIN builds' \subseteq Number
  BY <1>4, <1>5 DEF IInv, TypeOK
<1>7. Dense'
  <2>1. DOMAIN builds' = 1 .. n
    BY <1>3, <1>4, <1>5
  <2>2. n \in 0 .. MaxBuild
    BY <1>4, SelectionAssumption DEF Number
  <2> QED BY <2>1, <2>2 DEF Dense
<1>8. \A t \in Server : JobInv(job'[t], builds')
  <2> SUFFICES ASSUME NEW t \in Server PROVE JobInv(job'[t], builds')
    OBVIOUS
  <2>1. DOMAIN job = Server
    BY DEF IInv, TypeOK
  <2>2. CASE t = s
    BY <1>1, <2>1, <2>2, IdleOK
  <2>3. CASE t # s
    <3>1. job'[t] = job[t] /\ JobInv(job[t], builds)
      BY <1>1, <2>1, <2>3, JobFacts
    <3> QED BY <1>5, <1>6, <3>1, GrownJob
  <2> QED BY <2>2, <2>3
<1>9. Partial(Archived(j), Key, Manifest)
  <2>1. DOMAIN Archived(j) = DOMAIN j.staged /\ DOMAIN j.staged \subseteq Key
        /\ Archived(j) = [k \in DOMAIN j.staged |-> Archived(j)[k]]
    BY <1>1 DEF JobInv, JobOK, Partial, Archived
  <2>2. \A k \in DOMAIN j.staged : Archived(j)[k] \in Manifest
    BY <1>1, ArchivedAsPlanned
  <2> QED BY <2>1, <2>2 DEF Partial
<1>10. DOMAIN span' = Key /\ span' \in [Key -> Span]
  <2>1. \A k \in Key : span'[k] \in Span
    <3> SUFFICES ASSUME NEW k \in Key PROVE span'[k] \in Span
      OBVIOUS
    <3>1. span[k] \in Span /\ n \in 0 .. MaxBuild
      BY <1>4, SelectionAssumption DEF IInv, TypeOK, Number
    <3>2. Touched(span[k], n) \in Span
      BY <3>1 DEF Touched, Span
    <3> QED BY <1>2, <3>1, <3>2
  <2>2. DOMAIN span' = Key /\ span' = [k \in DOMAIN span' |-> span'[k]]
    BY DEF Record
  <2> QED BY <2>1, <2>2
<1>11. TypeOK'
  <2>1. DOMAIN job' = Server /\ \A t \in Server : JobOK(job'[t])
    BY <1>1, <1>8 DEF IInv, TypeOK, JobInv
  <2>2. \A i \in DOMAIN builds' : Partial(builds'[i], Key, Manifest)
    BY <1>5, <1>9 DEF IInv, TypeOK
  <2> QED BY <1>1, <1>6, <1>10, <2>1, <2>2 DEF IInv, TypeOK, discovery
<1>12. SpansCover'
  <2> SUFFICES ASSUME NEW k \in Key
               PROVE  /\ Covers(span'[k], k, MaxBuild, builds')
                      /\ span'[k].first = 0 \/ span'[k].first \in DOMAIN builds'
    BY DEF SpansCover
  <2>1. /\ Covers(span[k], k, MaxBuild, builds) /\ span[k] \in Span
        /\ span[k].first = 0 \/ span[k].first \in DOMAIN builds
    BY DEF IInv, TypeOK, SpansCover
  <2>2. LeasedIn(builds', n, k) => k \in DOMAIN j.planned /\ Typed(j.planned[k].epf) # {}
    <3>1. DOMAIN Archived(j) = DOMAIN j.staged
      BY DEF Archived
    <3>2. \A l \in DOMAIN j.staged : Typed(Archived(j)[l]) = Typed(j.planned[l].epf)
      BY <1>1, ArchivedAsPlanned
    <3> QED BY <1>1, <1>5, <3>1, <3>2 DEF LeasedIn
  <2>3. \A i \in Nat : i # n /\ LeasedIn(builds', i, k) => LeasedIn(builds, i, k)
    BY <1>5 DEF LeasedIn
  <2>4. CASE k \in DOMAIN j.planned /\ Typed(j.planned[k].epf) # {}
    <3> DEFINE new == Touched(span[k], n)
    <3>1. span'[k] = new
      BY <1>2, <2>4
    <3>2. new.last = n /\ new.first = IF span[k].first = 0 THEN n ELSE span[k].first
      BY DEF Touched
    <3>3. new.first # 0 /\ new.first <= n /\ new.first \in DOMAIN builds'
      BY <1>3, <1>4, <1>5, <2>1, <3>2
    <3> HIDE DEF new
    <3>4. \A i \in Nat : LeasedIn(builds, i, k) => i <= m /\ new.first <= i
      <4> SUFFICES ASSUME NEW i \in Nat, LeasedIn(builds, i, k)
                   PROVE  i <= m /\ new.first <= i
        OBVIOUS
      <4>1. i \in 1 .. m
        BY <1>3 DEF LeasedIn
      <4>2. i <= MaxBuild
        BY <4>1, SelectionAssumption
      <4>3. span[k].first # 0 /\ span[k].first <= i
        BY <2>1, <4>2 DEF Covers
      <4> QED BY <3>2, <4>1, <4>3
    <3>5. \A i \in Nat : LeasedIn(builds', i, k) => new.first <= i /\ i <= n
      BY <1>4, <2>3, <3>3, <3>4
    <3>6. Covers(new, k, MaxBuild, builds')
      BY <3>2, <3>3, <3>5 DEF Covers
    <3> QED BY <3>1, <3>3, <3>6
  <2>5. CASE ~ (k \in DOMAIN j.planned /\ Typed(j.planned[k].epf) # {})
    <3>1. span'[k] = span[k]
      BY <1>2, <2>5
    <3>2. \A i \in Nat : LeasedIn(builds', i, k) => LeasedIn(builds, i, k)
      BY <2>2, <2>3, <2>5
    <3> QED BY <1>5, <2>1, <3>1, <3>2 DEF Covers
  <2> QED BY <2>4, <2>5
<1>13. TargetsHaveOneOwner'
  <2> SUFFICES ASSUME NEW i \in DOMAIN builds',
                      NEW k \in DOMAIN builds'[i], NEW l \in DOMAIN builds'[i], k # l
               PROVE  builds'[i][k].files \cap builds'[i][l].files = {}
    BY DEF TargetsHaveOneOwner
  <2>1. CASE i \in DOMAIN builds
    BY <1>5, <2>1 DEF IInv, TargetsHaveOneOwner
  <2>2. CASE i = n
    <3>1. k \in DOMAIN j.staged /\ l \in DOMAIN j.staged /\ builds'[i] = Archived(j)
      BY <1>5, <2>2 DEF Archived
    <3>2. Archived(j)[k].files = j.planned[k].epf.files /\ Archived(j)[l].files = j.planned[l].epf.files
      BY <1>1, <3>1, ArchivedAsPlanned
    <3>3. j.planned[k].epf.files \cap j.planned[l].epf.files = {}
      BY <1>1, <3>1 DEF JobInv, Faithful
    <3> QED BY <3>1, <3>2, <3>3
  <2> QED BY <1>5, <2>1, <2>2
<1>14. JobsOK'
  BY <1>8 DEF JobsOK
<1> QED BY <1>7, <1>11, <1>12, <1>13, <1>14 DEF IInv

-----------------------------------------------------------------------------
(* The steps that change the registry of packages, and everything else.    *)

LEMMA RegistryStep ==
  ASSUME IInv, NEW s \in Server, Insert(s) \/ Delete(s)
  PROVE  IInv'
<1> DEFINE j == job[s]
<1>1. job' = [job EXCEPT ![s] = NoJob] /\ UNCHANGED <<discovery, history>>
  BY DEF Insert, Delete
<1>2. JobsOK' /\ DOMAIN job' = Server /\ \A t \in Server : JobOK(job'[t])
  BY <1>1, IdleOK, JobsStep DEF history
<1>3. Partial(installed, Key, Row) /\ JobInv(j, builds)
  BY JobFacts DEF IInv, TypeOK
<1>4. Partial(installed', Key, Row)
  <2>1. CASE Insert(s)
    <3>1. j.key \in Key /\ j.rows[j.key] \in Row
      BY <1>3, <2>1 DEF Insert, JobInv, JobOK, Staged, Partial
    <3>2. installed' = Inserted(j)
      BY <2>1 DEF Insert
    <3> QED BY <1>3, <3>1, <3>2 DEF Inserted, Put, Partial
  <2>2. CASE Delete(s)
    BY <1>3, <2>2 DEF Delete, Partial
  <2> QED BY <2>1, <2>2
<1>5. TypeOK'
  BY <1>1, <1>2, <1>4 DEF IInv, TypeOK, discovery, history
<1>6. Dense' /\ SpansCover' /\ TargetsHaveOneOwner'
  BY <1>1 DEF IInv, Dense, SpansCover, TargetsHaveOneOwner, history
<1> QED BY <1>2, <1>5, <1>6 DEF IInv

LEMMA OtherStep ==
  ASSUME IInv,
         \/ \E n \in Number : Apply(n) \/ Activate(n)
         \/ \E p \in Path, e \in Epf \cup {None} : Deploy(p, e)
         \/ UNCHANGED vars
  PROVE  IInv'
<1>1. UNCHANGED <<builds, span, job>>
  BY DEF Apply, Activate, Deploy, vars, history
<1>2. JobsOK' /\ Dense' /\ SpansCover' /\ TargetsHaveOneOwner'
  BY <1>1 DEF IInv, JobsOK, Dense, SpansCover, TargetsHaveOneOwner
<1>3. TypeOK'
  <2>1. CASE \E n \in Number : Apply(n) \/ Activate(n)
    <3> PICK n \in Number : Apply(n) \/ Activate(n)
      BY <2>1
    <3>1. n \in 0 .. MaxBuild
      BY SelectionAssumption DEF Number
    <3>2. CASE Apply(n)
      BY <1>1, <3>1, <3>2 DEF IInv, TypeOK, Apply, discovery
    <3>3. CASE Activate(n)
      BY <1>1, <3>1, <3>3 DEF IInv, TypeOK, Activate, discovery
    <3> QED BY <3>2, <3>3
  <2>2. CASE \E p \in Path, e \in Epf \cup {None} : Deploy(p, e)
    BY <1>1, <2>2, SelectionAssumption DEF IInv, TypeOK, Deploy, history
  <2>3. CASE UNCHANGED vars
    BY <1>1, <2>3 DEF IInv, TypeOK, vars
  <2> QED BY <2>1, <2>2, <2>3
<1> QED BY <1>2, <1>3 DEF IInv

LEMMA NextIInv == IInv /\ [Next]_vars => IInv'
<1> SUFFICES ASSUME IInv, [Next]_vars PROVE IInv'
  OBVIOUS
<1>1. ASSUME NEW s \in Server, Step(s) PROVE IInv'
  BY <1>1, BeginStep, LookStep, ValidateStep, FindStep, RegistryStep, SurveyRowStep,
     SurveyLeasesStep, SurveyOwnersStep, SurveyActiveStep, PreflightStep, TakeNumberStep,
     StageIntoStep, RecordStep, FinishStep
     DEF Step
<1> QED BY <1>1, OtherStep DEF Next

LEMMA Invariance == Spec => []IInv
BY InitIInv, NextIInv, PTL DEF Spec

-----------------------------------------------------------------------------
(* The theorems.                                                           *)

\* Every variable holds what its table, directory or process can hold.
THEOREM SelectionTypeCorrect == Spec => []TypeOK
<1>1. IInv => TypeOK
  BY DEF IInv
<1> QED BY <1>1, Invariance, PTL

\* No two packages of an archive own one target, whatever files modules
\* replace between the preflight of a build and its staging.
THEOREM TargetsAlwaysHaveOneOwner == Spec => []TargetsHaveOneOwner
<1>1. IInv => TargetsHaveOneOwner
  BY DEF IInv
<1> QED BY <1>1, Invariance, PTL

\* A survey never overlooks that the ACTIVE build has rows of the package.
THEOREM SurveysMissNothing == Spec => []SurveyMissesNothing
<1>1. IInv => SurveyMissesNothing
  <2> SUFFICES ASSUME IInv, NEW s \in Server, job[s].stage = "surveyed",
                      job[s].active \in 1 .. job[s].horizon,
                      job[s].key \in Leasing(job[s].active)
               PROVE  ActiveIncludes(job[s])
    BY DEF SurveyMissesNothing
  <2> DEFINE j == job[s]
  <2>1. Surveyed(j, builds) /\ j.horizon \in 0 .. MaxBuild
    BY JobFacts DEF JobInv, JobOK
  <2>2. /\ Covers(j.marks, j.key, j.horizon, builds)
        /\ \A n \in 1 .. j.horizon : n \in DOMAIN builds
    BY <2>1 DEF Surveyed
  <2>3. LeasedIn(builds, j.active, j.key)
    BY <2>2 DEF LeasedIn, Leasing
  <2> QED BY <2>1, <2>2, <2>3 DEF Covers, ActiveIncludes
<1> QED BY <1>1, Invariance, PTL

\* The row of an installed package is never updated, by any interleaving of
\* commands on any number of servers.
THEOREM RowsAreNeverUpgraded == Spec => RowsNeverUpgrade
<1> DEFINE A == \A k \in DOMAIN installed \cap DOMAIN installed' : installed'[k] = installed[k]
<1>1. ASSUME NEW s \in Server, Step(s) PROVE A
  BY <1>1 DEF Step, Begin, Look, Validate, FindAbsent, FindPresent, Insert, Inserted, Put,
     Delete, SurveyRow, SurveyLeases, SurveyOwners, SurveyActive, Preflight, TakeNumber,
     StageInto, Record, Finish
<1>2. [Next]_vars => [A]_vars
  BY <1>1 DEF Next, Apply, Activate, Deploy, vars
<1> QED BY <1>2, PTL DEF Spec, RowsNeverUpgrade

\* A build is one selection, in the versions that were installed.
THEOREM BuildsAreOneSelection == Spec => BuildsAreSelections
<1> DEFINE Selects(n, s) ==
             LET staged == builds'[n]
             IN  /\ DOMAIN staged = DOMAIN job[s].rows
                 /\ \A k \in DOMAIN staged :
                      staged[k].key = k /\ staged[k].version = job[s].rows[k].version
           A == \A n \in DOMAIN builds' \ DOMAIN builds : \E s \in Server : Selects(n, s)
<1>1. ASSUME IInv, NEW s \in Server, Record(s) PROVE A
  <2> DEFINE j == job[s]
  <2>1. /\ JobInv(j, builds) /\ j.stage = "staging" /\ DOMAIN j.staged = DOMAIN j.planned
        /\ builds' = Put(builds, j.number, Archived(j))
    BY <1>1, JobFacts DEF Record
  <2>2. DOMAIN Archived(j) = DOMAIN j.rows
    BY <2>1 DEF JobInv, Faithful, Archived
  <2>3. \A k \in DOMAIN Archived(j) :
          Archived(j)[k].key = k /\ Archived(j)[k].version = j.rows[k].version
    BY <2>1, ArchivedAsPlanned DEF Archived
  <2>4. \A n \in DOMAIN builds' \ DOMAIN builds : builds'[n] = Archived(j)
    BY <2>1 DEF Put
  <2> QED BY <2>2, <2>3, <2>4
<1>2. ASSUME NEW s \in Server, Step(s), ~ Record(s) PROVE UNCHANGED builds
  BY <1>2 DEF Step, Begin, Look, Validate, FindAbsent, FindPresent, Insert, Delete, SurveyRow,
     SurveyLeases, SurveyOwners, SurveyActive, Preflight, TakeNumber, StageInto, Finish, history
<1>3. UNCHANGED builds => A
  OBVIOUS
<1>4. IInv /\ [Next]_vars => [A]_vars
  <2>1. \A n \in Number : Apply(n) \/ Activate(n) => UNCHANGED builds
    BY DEF Apply, Activate
  <2>2. \A p \in Path, e \in Epf \cup {None} : Deploy(p, e) => UNCHANGED builds
    BY DEF Deploy, history
  <2> HIDE DEF A
  <2> QED BY <1>1, <1>2, <1>3, <2>1, <2>2 DEF Next
<1> QED BY <1>4, Invariance, PTL DEF Spec, BuildsAreSelections
-----------------------------------------------------------------------------
(* What a build writes.                                                    *)

\* What a build knows when it is recorded.
LEMMA RecordFacts ==
  ASSUME IInv, NEW s \in Server, Record(s)
  PROVE  LET j == job[s]
         IN  /\ Partial(j.planned, Key, Source) /\ Faithful(j) /\ Composable(j.planned)
             /\ DOMAIN j.staged = DOMAIN j.planned /\ TocComposes(j.planned)
             /\ \A k \in DOMAIN j.planned : j.planned[k].epf \in Epf /\ j.planned[k].epf \in Manifest
<1> DEFINE j == job[s]
<1>1. JobInv(j, builds) /\ j.stage = "staging"
      /\ DOMAIN j.staged = DOMAIN j.planned /\ TocComposes(j.planned)
  BY JobFacts DEF Record
<1>2. Partial(j.planned, Key, Source) /\ Faithful(j) /\ Composable(j.planned)
  BY <1>1 DEF JobInv, JobOK, Faithful
<1>3. \A k \in DOMAIN j.planned : j.planned[k].epf \in Epf /\ j.planned[k].epf \in Manifest
  BY <1>2, SelectionAssumption DEF Partial, Source
<1> HIDE DEF j
<1> QED BY <1>1, <1>2, <1>3 DEF j

\* The rows of valid manifests of different packages, whose prices resolve.
LEMMA PlannedIsJudged ==
  ASSUME NEW planned,
         \A k \in DOMAIN planned : /\ planned[k].epf \in Epf /\ planned[k].epf.valid
                                   /\ planned[k].epf \in Manifest /\ planned[k].epf.key = k,
         PricesResolve(RowsOf(planned))
  PROVE  Judged(RowsOf(planned))
<1> DEFINE rows == RowsOf(planned)
           declared(k) == Declares[planned[k].epf.rows]
           spell(k, x) == [package |-> k, kind |-> "spell", symbol |-> x.id, uses |-> {}]
           written(k) == {spell(k, x) : x \in planned[k].epf.spells}
<1>1. \A k \in DOMAIN planned :
        /\ declared(k) \subseteq Rows /\ WellFormed(declared(k))
        /\ \A r \in declared(k) : r.package = k /\ r.kind # "spell"
  BY SelectionAssumption DEF Manifest
<1>2. \A k \in DOMAIN planned : \A r \in written(k) :
        r.package = k /\ r.kind = "spell" /\ r.uses = {}
  OBVIOUS
<1>3. \A k \in DOMAIN planned : Typed(planned[k].epf) = declared(k) \cup written(k)
  BY DEF Typed
<1>4. rows = UNION {Typed(planned[k].epf) : k \in DOMAIN planned}
  BY DEF RowsOf
<1>5. \A k \in DOMAIN planned : \A a, b \in written(k) : a.symbol = b.symbol => a = b
  OBVIOUS
<1> HIDE DEF rows, declared, written
<1>6. ASSUME NEW r \in rows
      PROVE  \E k \in DOMAIN planned :
               /\ r.package = k /\ r \in declared(k) \cup written(k)
               /\ r.kind = "spell" <=> r \in written(k)
               /\ r.kind # "spell" <=> r \in declared(k)
  <2>1. PICK k \in DOMAIN planned : r \in declared(k) \cup written(k)
    BY <1>3, <1>4, <1>6
  <2> QED BY <1>1, <1>2, <2>1
<1>7. \A k \in DOMAIN planned : declared(k) \subseteq rows /\ Ids(declared(k)) \subseteq Ids(rows)
  BY <1>3, <1>4 DEF Ids
<1>8. ASSUME NEW r \in rows PROVE r.kind \in Kind /\ References(r)
  <2>1. CASE r.kind = "spell"
    <3>1. r.uses = {}
      BY <1>2, <1>6, <1>8, <2>1
    <3> QED BY <2>1, <3>1 DEF Kind, LeasedKind, ClientTable, References
  <2>2. CASE r.kind # "spell"
    BY <1>1, <1>6, <1>8, <2>2, RowAssumption
  <2> QED BY <2>1, <2>2
<1>9. ASSUME NEW a \in rows, NEW b \in rows, a.kind \notin MapTable, Id(a) = Id(b)
      PROVE  a = b
  <2>1. a.package = b.package /\ a.kind = b.kind /\ a.symbol = b.symbol
    BY <1>9 DEF Id
  <2>2. CASE a.kind = "spell"
    <3>1. PICK k \in DOMAIN planned : a \in written(k) /\ b \in written(k)
      BY <1>6, <1>9, <2>1, <2>2
    <3> QED BY <1>5, <2>1, <3>1
  <2>3. CASE a.kind # "spell"
    <3>1. PICK k \in DOMAIN planned : a \in declared(k) /\ b \in declared(k)
      BY <1>6, <1>9, <2>1, <2>3
    <3>2. ServerRowsPaired(declared(k)) /\ SymbolsUnique(declared(k))
      BY <1>1, <3>1 DEF WellFormed
    <3>3. CASE a.kind = "server"
      BY <2>1, <3>1, <3>2, <3>3 DEF ServerRowsPaired, Of
    <3>4. CASE a.kind # "server"
      BY <1>9, <2>1, <3>1, <3>2, <3>4 DEF SymbolsUnique
    <3> QED BY <3>3, <3>4
  <2> QED BY <2>2, <2>3
<1>10. ASSUME NEW kind \in Kind \ {"spell"}, NEW r \in Of(kind, rows)
       PROVE  \E k \in DOMAIN planned : r \in Of(kind, declared(k)) /\ WellFormed(declared(k))
  BY <1>1, <1>6, <1>10 DEF Of
<1>11. {"server", "currency", "spawn", "vendor", "category"} \subseteq Kind \ {"spell"}
  BY DEF Kind, LeasedKind, ClientTable, Managed
<1>12. \A r \in Of("server", rows) : ItemOf(r) \in Ids(rows)
  <2> SUFFICES ASSUME NEW r \in Of("server", rows) PROVE ItemOf(r) \in Ids(rows)
    OBVIOUS
  <2>1. PICK k \in DOMAIN planned : r \in Of("server", declared(k)) /\ WellFormed(declared(k))
    BY <1>10, <1>11
  <2> QED BY <1>7, <2>1 DEF WellFormed, ServerRowsPaired
<1>13. ASSUME NEW kind \in {"currency", "spawn", "vendor"}, NEW r \in Of(kind, rows)
       PROVE  r.uses \subseteq Ids(rows)
  <2>1. PICK k \in DOMAIN planned : r \in Of(kind, declared(k)) /\ WellFormed(declared(k))
    BY <1>10, <1>11, <1>13
  <2>2. r.uses \subseteq Ids(declared(k))
    BY <1>13, <2>1 DEF WellFormed, CurrenciesResolve, SpawnsResolve, VendorsResolve
  <2> QED BY <1>7, <2>2
<1>14. \A r \in Of("cost", rows) : r.uses \subseteq Ids(rows)
  BY DEF PricesResolve, rows
<1>15. \A c \in Of("category", rows) : \E r \in Of("currency", rows) : Id(c) \in r.uses
  <2> SUFFICES ASSUME NEW c \in Of("category", rows)
               PROVE  \E r \in Of("currency", rows) : Id(c) \in r.uses
    OBVIOUS
  <2>1. PICK k \in DOMAIN planned : c \in Of("category", declared(k)) /\ WellFormed(declared(k))
    BY <1>10, <1>11
  <2> QED BY <1>7, <2>1 DEF WellFormed, CurrenciesResolve, Of
<1>16. \A r \in Of("currency", rows) \cup Of("spawn", rows) \cup Of("vendor", rows)
                 \cup Of("cost", rows) : r.uses \subseteq Ids(rows)
  BY <1>13, <1>14
<1>17. Judged(rows)
  BY <1>8, <1>9, <1>12, <1>15, <1>16 DEF Judged
<1> QED BY <1>17 DEF rows

\* The sidecars that a build writes are accepted when an apply or an activation
\* reads them, whatever rows its packages declare, unless all its items lack
\* server rows.
THEOREM SidecarsAlwaysVerify == Spec => SidecarsVerify
<1> DEFINE A == \A s \in Server : Record(s) => Verifies(RowsOf(job[s].planned)) /\ AnyRowsVerify
<1>1. ASSUME IInv, NEW s \in Server, Record(s) PROVE Verifies(RowsOf(job[s].planned))
  <2> DEFINE planned == job[s].planned
  <2>1. /\ \A k \in DOMAIN planned : /\ planned[k].epf \in Epf /\ planned[k].epf.valid
                                     /\ planned[k].epf \in Manifest /\ planned[k].epf.key = k
        /\ PricesResolve(RowsOf(planned))
    BY <1>1, RecordFacts DEF Faithful, Composable
  <2> HIDE DEF planned
  <2>2. Verifies(RowsOf(planned))
    BY <2>1, PlannedIsJudged, JudgedVerifies
  <2> QED BY <2>2 DEF planned
<1>2. IInv => A
  BY <1>1, BuildableVerifies
<1>3. IInv => [A]_vars
  BY <1>2
<1> QED BY <1>3, Invariance, PTL DEF SidecarsVerify

\* The spells that a build writes read as their packages declared them, in
\* every language and next to the stock spells, however many they are.
THEOREM SpellsAreRead == Spec => SpellsRead
<1> DEFINE A == \A s \in Server : Record(s) => ReadsBack(SpellsOf(job[s].planned))
<1>1. ASSUME IInv, NEW s \in Server, Record(s) PROVE ReadsBack(SpellsOf(job[s].planned))
  <2> DEFINE planned == job[s].planned
  <2>1. /\ \A k \in DOMAIN planned : planned[k].epf \in Manifest
        /\ SpellsCompose(SpellsOf(planned))
    BY <1>1, RecordFacts DEF Composable
  <2> HIDE DEF planned
  <2>2. SpellsOf(planned) \in SUBSET Spells
    BY <2>1 DEF SpellsOf, Manifest
  <2>3. ReadsBack(SpellsOf(planned))
    BY <2>1, <2>2, ComposedReadsBack
  <2> QED BY <2>3 DEF planned
<1>2. IInv => [A]_vars
  BY <1>1
<1> QED BY <1>2, Invariance, PTL DEF SpellsRead

\* The list of interface files that a build writes loads what its packages
\* add, in its order, and their files are in the archive, though the EPFs
\* they were extracted from may be others than those that were planned.
THEOREM TocAlwaysLoads == Spec => TocLoads
<1> DEFINE loads(s) == UNION {job[s].staged[k].loads : k \in DOMAIN job[s].staged}
           labelled(s) == \E k \in DOMAIN job[s].staged : job[s].staged[k].labels # {}
           files(s) == UNION {job[s].staged[k].files : k \in DOMAIN job[s].staged}
           toc(s) == Composed(Loads(job[s].planned), Labels(job[s].planned) # {})
           A == \A s \in Server : Record(s) =>
                  (ComposesToc(job[s].planned) =>
                     /\ Extends(toc(s), loads(s), labelled(s))
                     /\ Added(loads(s)) \subseteq files(s))
<1>1. ASSUME IInv, NEW s \in Server, Record(s), ComposesToc(job[s].planned)
      PROVE  Extends(toc(s), loads(s), labelled(s)) /\ Added(loads(s)) \subseteq files(s)
  <2> DEFINE planned == job[s].planned
             staged == job[s].staged
  <2>1. /\ DOMAIN staged = DOMAIN planned
        /\ \A k \in DOMAIN planned : planned[k].epf \in Manifest
        /\ \A k \in DOMAIN staged : Alike(staged[k], planned[k].epf)
        /\ TocComposes(planned) /\ TocCovered(planned)
    BY <1>1, RecordFacts DEF Faithful, Composable
  <2>2. ComposesToc(planned) /\ toc(s) = Composed(Loads(planned), Labels(planned) # {})
        /\ loads(s) = UNION {staged[k].loads : k \in DOMAIN staged}
        /\ (labelled(s) <=> \E k \in DOMAIN staged : staged[k].labels # {})
        /\ files(s) = UNION {staged[k].files : k \in DOMAIN staged}
    BY <1>1
  <2> HIDE DEF planned, staged, toc, loads, labelled, files
  <2>3. loads(s) = Loads(planned)
    BY <2>1, <2>2 DEF Loads, Alike
  <2>4. labelled(s) <=> Labels(planned) # {}
    BY <2>1, <2>2 DEF Labels, Alike
  <2>5. files(s) = Targets(planned)
    BY <2>1, <2>2 DEF Targets, Alike
  <2>6. Loads(planned) \in SUBSET LoadEntry
    BY <2>1 DEF Loads, Manifest
  <2>7. Extends(toc(s), Loads(planned), Labels(planned) # {})
    BY <2>1, <2>2, <2>6, ComposedExtends DEF TocComposes
  <2>8. Added(Loads(planned)) \subseteq Targets(planned)
    BY <2>1, <2>2 DEF TocCovered, Covered
  <2>9. labelled(s) \in BOOLEAN
    BY DEF labelled
  <2> QED BY <2>3, <2>4, <2>5, <2>7, <2>8, <2>9
<1>2. IInv => [A]_vars
  BY <1>1
<1> QED BY <1>2, Invariance, PTL DEF TocLoads
=============================================================================
