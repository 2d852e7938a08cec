---------------------- MODULE ServerDeployment_proofs -----------------------
(***************************************************************************)
(* Proofs about ServerDeployment for any servers, builds, resources and    *)
(* bundles: type correctness, that provenance is exact, that an apply is   *)
(* whole or nothing, that it overwrites no foreign row, redefines no fixed *)
(* row and never leaves a changed item under an old cache version, and     *)
(* that all of it amounts to the indivisible applies of AtomicDeployment.  *)
(*                                                                         *)
(* Only CommitApply writes rows and provenance.  What it writes is exactly *)
(* the bundle's, because its last condition rolls everything else back     *)
(* (CommitWrites), and what it relies on from before the transaction is    *)
(* the snapshot of provenance taken then (SnapshotOK), which its guards    *)
(* compare with the provenance of the moment.                              *)
(***************************************************************************)
EXTENDS ServerDeployment, TLAPS

\* A call in flight works on a build; the provenance it read for a fixed row
\* already shows the row it wants.
SnapshotOK(j) ==
  /\ j.stage # "idle" => j.build \in Build
  /\ j.stage = "read" =>
       \A r \in Desired(j.build) :
         Fixed(r) /\ j.before[r] # None => j.before[r].row = Bundle[j.build][r].row
SnapshotsOK == \A s \in Server : SnapshotOK(apply[s])

IInv ==
  /\ TypeOK
  /\ SnapshotsOK
  /\ ProvenanceIsExact

-----------------------------------------------------------------------------
(* Bundles and cache versions.                                             *)

LEMMA BundleFacts ==
  ASSUME NEW b \in Build
  PROVE  /\ Desired(b) \subseteq Resource
         /\ \A r \in Desired(b) : Bundle[b][r] \in Want
         /\ \A r \in Desired(b) : Bundle[b][r].row \in Row /\ Bundle[b][r].package \in Package
<1>1. Bundle[b] \in UNION {[S -> Want] : S \in SUBSET Resource}
  BY DeploymentAssumption
<1>2. PICK S \in SUBSET Resource : Bundle[b] \in [S -> Want]
  BY <1>1
<1>3. Desired(b) = S
  BY <1>2 DEF Desired
<1>4. \A r \in S : Bundle[b][r] \in Want
  BY <1>2
<1> QED BY <1>3, <1>4 DEF Want

LEMMA CacheFacts ==
  ASSUME NEW c \in 0 .. CacheMax
  PROVE  NextCache(c) \in 0 .. CacheMax /\ NextCache(c) # c
BY DeploymentAssumption DEF NextCache

\* The transaction either writes the build's rows, with provenance that
\* names the build, or does not commit.
LEMMA CommitWrites ==
  ASSUME IInv, NEW s \in Server, CommitApply(s)
  PROVE  /\ apply[s].build \in Build
         /\ serverState[apply[s].build] = "STAGED"
         /\ serverState' = [serverState EXCEPT ![apply[s].build] = "APPLIED"]
         /\ \A r \in Desired(apply[s].build) :
              /\ live'[r] = Bundle[apply[s].build][r].row
              /\ owner'[r] = [package |-> Bundle[apply[s].build][r].package,
                              row |-> Bundle[apply[s].build][r].row,
                              build |-> apply[s].build]
              /\ live'[r] \in Row /\ owner'[r] \in Provenance
         /\ \A r \in Resource \ Desired(apply[s].build) :
              live'[r] = live[r] /\ owner'[r] = owner[r]
<1> DEFINE b == apply[s].build
<1>1. b \in Build
  BY DEF IInv, SnapshotsOK, SnapshotOK, CommitApply
<1>2. Desired(b) \subseteq Resource
  BY <1>1, BundleFacts
<1>3. \A r \in Desired(b) : Written(r, apply[s]) = Bundle[b][r].row
  BY DEF CommitApply, FinalCondition
<1>4. \A r \in Desired(b) :
        Stamped(r, apply[s]) = [package |-> Bundle[b][r].package,
                                row |-> Bundle[b][r].row, build |-> b]
  BY <1>3 DEF Stamped, Stamp
<1>5. /\ live' = [r \in Resource |-> IF r \in Desired(b) THEN Written(r, apply[s]) ELSE live[r]]
      /\ owner' = [r \in Resource |-> IF r \in Desired(b) THEN Stamped(r, apply[s]) ELSE owner[r]]
  BY DEF CommitApply
<1>6. serverState[b] = "STAGED" /\ serverState' = [serverState EXCEPT ![b] = "APPLIED"]
  BY DEF CommitApply, RegistryGuard
<1>7. ASSUME NEW r \in Desired(b)
      PROVE  /\ Bundle[b][r].row \in Row
             /\ [package |-> Bundle[b][r].package, row |-> Bundle[b][r].row, build |-> b]
                  \in Provenance
  <2>1. Bundle[b][r].row \in Row /\ Bundle[b][r].package \in Package
    BY <1>1, BundleFacts
  <2> QED BY <1>1, <2>1 DEF Provenance
<1> QED BY <1>1, <1>2, <1>3, <1>4, <1>5, <1>6, <1>7

\* Steps of a server other than the commit leave the database alone.
LEMMA OnlyCommitWrites ==
  ASSUME NEW s \in Server, Step(s)
  PROVE  CommitApply(s) \/ UNCHANGED <<registry, content>>
BY DEF Step, BeginApply, RollbackApply, VerifyApply, FailApply, Return

-----------------------------------------------------------------------------
(* The invariant.                                                          *)

LEMMA NoCallFacts ==
  /\ NoCall \in Call
  /\ \A b \in Build, stage \in {"applied", "refused"} :
       [NoCall EXCEPT !.stage = stage, !.build = b] \in Call
<1> DEFINE Snapshot == [Resource -> Provenance \cup {None}]
           none == [r \in Resource |-> None]
<1>2. none \in Snapshot
  OBVIOUS
<1>3. 0 \in 0 .. CacheMax
  BY DeploymentAssumption
<1>4. Call = [stage : {"idle", "read", "submitted", "applied", "refused"},
              build : Build \cup {0}, before : Snapshot, cache : 0 .. CacheMax]
  BY DEF Call
<1>5. NoCall = [stage |-> "idle", build |-> 0, before |-> none, cache |-> 0]
  BY DEF NoCall
<1> HIDE DEF none, Snapshot
<1> QED BY <1>2, <1>3, <1>4, <1>5

LEMMA InitIInv == Init => IInv
<1> SUFFICES ASSUME Init PROVE IInv
  OBVIOUS
<1>1. TypeOK
  BY NoCallFacts DEF Init, TypeOK, BuildState
<1>2. SnapshotsOK
  BY DEF Init, SnapshotsOK, SnapshotOK, NoCall
<1>3. ProvenanceIsExact
  BY DEF Init, ProvenanceIsExact
<1> QED BY <1>1, <1>2, <1>3 DEF IInv

\* Each step of a server gives its call a typed record that stands for the
\* snapshot it took.
LEMMA ApplyStep ==
  ASSUME IInv, NEW s \in Server, Step(s)
  PROVE  apply' \in [Server -> Call] /\ SnapshotsOK'
<1>1. /\ TypeOK /\ apply \in [Server -> Call] /\ apply[s] \in Call /\ SnapshotsOK
      /\ SnapshotOK(apply[s])
  BY DEF IInv, TypeOK, SnapshotsOK
<1>2. SUFFICES \E c \in Call : apply' = [apply EXCEPT ![s] = c] /\ SnapshotOK(c)
  <2>1. PICK c \in Call : apply' = [apply EXCEPT ![s] = c] /\ SnapshotOK(c)
    BY <1>2
  <2>2. apply' \in [Server -> Call]
    BY <1>1, <2>1
  <2>3. \A t \in Server : SnapshotOK(apply[t])'
    BY <1>1, <2>1 DEF SnapshotsOK, SnapshotOK
  <2> QED BY <2>2, <2>3 DEF SnapshotsOK
<1>3. ASSUME NEW b \in Build, BeginApply(s, b)
      PROVE  \E c \in Call : apply' = [apply EXCEPT ![s] = c] /\ SnapshotOK(c)
  <2>1. CASE apply' = [apply EXCEPT ![s] = [NoCall EXCEPT !.stage = "applied", !.build = b]]
    <3>1. [NoCall EXCEPT !.stage = "applied", !.build = b] \in Call
      BY NoCallFacts
    <3>2. SnapshotOK([NoCall EXCEPT !.stage = "applied", !.build = b])
      BY DEF SnapshotOK, NoCall
    <3> QED BY <2>1, <3>1, <3>2
  <2> DEFINE before == [r \in Resource |-> IF r \in Desired(b) THEN Found(r) ELSE None]
             c == [stage |-> "read", build |-> b, cache |-> cacheId, before |-> before]
  <2>2. CASE apply' = [apply EXCEPT ![s] = c]
    <3>1. Desired(b) \subseteq Resource /\ owner \in [Resource -> Provenance \cup {None}]
      BY <1>1, BundleFacts DEF TypeOK
    <3>2. \A r \in Desired(b) : before[r] = Found(r)
      BY <3>1
    <3>3. before \in [Resource -> Provenance \cup {None}]
      BY <3>1 DEF Found
    <3>4. c \in Call
      BY <1>1, <3>3 DEF TypeOK, Call
    <3>5. ASSUME NEW r \in Desired(b), Fixed(r), before[r] # None
          PROVE  before[r].row = Bundle[b][r].row
      BY <1>3, <3>2, <3>5 DEF BeginApply, Applicable, Absent, Undrifted, Found, Fixed
    <3>6. c.stage = "read" /\ c.build = b /\ c.before = before
      OBVIOUS
    <3> HIDE DEF before, c
    <3>7. SnapshotOK(c)
      BY <3>5, <3>6 DEF SnapshotOK
    <3> QED BY <2>2, <3>4, <3>7
  <2> QED BY <1>3, <2>1, <2>2 DEF BeginApply, Reading
<1>4. CASE CommitApply(s) \/ RollbackApply(s)
  <2> DEFINE c == [apply[s] EXCEPT !.stage = "submitted"]
  <2>1. apply' = [apply EXCEPT ![s] = c] /\ apply[s].stage = "read"
    BY <1>4 DEF CommitApply, RollbackApply
  <2>2. c \in Call
    BY <1>1 DEF Call
  <2>3. c.stage = "submitted" /\ c.build = apply[s].build
    BY <1>1 DEF Call
  <2>4. SnapshotOK(c)
    BY <1>1, <2>1, <2>3 DEF SnapshotOK
  <2> QED BY <2>1, <2>2, <2>4
<1>5. CASE VerifyApply(s) \/ FailApply(s)
  <2>1. PICK stage \in {"applied", "refused"} :
          apply' = [apply EXCEPT ![s] = [NoCall EXCEPT !.stage = stage, !.build = apply[s].build]]
    BY <1>5 DEF VerifyApply, FailApply
  <2>2. apply[s].build \in Build
    BY <1>1, <1>5 DEF SnapshotOK, VerifyApply, FailApply
  <2>3. [NoCall EXCEPT !.stage = stage, !.build = apply[s].build] \in Call
    BY <2>2, NoCallFacts
  <2>4. SnapshotOK([NoCall EXCEPT !.stage = stage, !.build = apply[s].build])
    BY <2>2 DEF SnapshotOK, NoCall
  <2> QED BY <2>1, <2>3, <2>4
<1>6. CASE Return(s)
  BY <1>6, NoCallFacts DEF Return, SnapshotOK, NoCall
<1> QED BY <1>3, <1>4, <1>5, <1>6 DEF Step

\* What else happens to the database.
Interfere ==
  \/ \E b \in Build : RecordBuild(b)
  \/ \E b \in Selectable : Lifecycle(b)
  \/ \E r \in Editable, row \in Row \cup {None} : Edit(r, row)

LEMMA TypeStep ==
  ASSUME IInv, [Next]_vars
  PROVE  TypeOK'
<1>1. TypeOK
  BY DEF IInv
<1>2. ASSUME NEW s \in Server, CommitApply(s) PROVE TypeOK'
  <2> DEFINE b == apply[s].build
             D == Desired(apply[s].build)
  <2>1. b \in Build /\ D \subseteq Resource
    BY <1>2, CommitWrites, BundleFacts
  <2>2. \A r \in D : live'[r] \in Row /\ owner'[r] \in Provenance
    BY <1>2, CommitWrites
  <2>3. /\ \A r \in Resource : live'[r] \in Row \cup {None}
        /\ \A r \in Resource : owner'[r] \in Provenance \cup {None}
    BY <1>1, <1>2, <2>2, CommitWrites DEF TypeOK
  <2>4. live' \in [Resource -> Row \cup {None}] /\ owner' \in [Resource -> Provenance \cup {None}]
    <3>1. /\ live' = [r \in Resource |-> live'[r]]
          /\ owner' = [r \in Resource |-> owner'[r]]
      BY <1>2 DEF CommitApply
    <3> QED BY <2>3, <3>1
  <2>5. cacheId' \in 0 .. CacheMax
    <3>1. apply[s].cache \in 0 .. CacheMax
      BY <1>1 DEF TypeOK, Call
    <3> QED BY <1>1, <1>2, <3>1, CacheFacts DEF TypeOK, CommitApply, BumpedCache
  <2>6. serverState' \in [Build -> {"STAGED", "APPLIED"}]
    BY <1>1, <1>2, <2>1, CommitWrites DEF TypeOK
  <2>7. apply' \in [Server -> Call]
    BY <1>2, ApplyStep DEF Step
  <2> QED BY <1>1, <1>2, <2>4, <2>5, <2>6, <2>7 DEF TypeOK, CommitApply
<1>3. ASSUME NEW s \in Server, Step(s), UNCHANGED <<registry, content>> PROVE TypeOK'
  BY <1>1, <1>3, ApplyStep DEF TypeOK, registry, content
<1>4. ASSUME NEW b \in Build, RecordBuild(b) PROVE TypeOK'
  <2>1. \A r \in Leased(b) : Bundle[b][r].package \in Package
    BY BundleFacts DEF Leased
  <2> QED BY <1>1, <1>4, <2>1 DEF TypeOK, RecordBuild, BuildState, content
<1>5. ASSUME NEW b \in Selectable, Lifecycle(b) PROVE TypeOK'
  BY <1>1, <1>5, DeploymentAssumption DEF TypeOK, Lifecycle, BuildState, content
<1>6. ASSUME NEW r \in Editable, NEW row \in Row \cup {None}, Edit(r, row) PROVE TypeOK'
  BY <1>1, <1>6, DeploymentAssumption DEF TypeOK, Edit, registry
<1>7. CASE UNCHANGED vars
  BY <1>1, <1>7 DEF TypeOK, vars
<1> QED BY <1>2, <1>3, <1>4, <1>5, <1>6, <1>7, OnlyCommitWrites DEF Next

\* Exactness is disturbed by a commit at most, whose provenance names the
\* build that becomes APPLIED by it.
LEMMA ProvenanceStep ==
  ASSUME IInv, [Next]_vars
  PROVE  ProvenanceIsExact'
<1>1. TypeOK /\ ProvenanceIsExact
  BY DEF IInv
<1>2. ASSUME NEW s \in Server, CommitApply(s) PROVE ProvenanceIsExact'
  <2> DEFINE b == apply[s].build
             D == Desired(apply[s].build)
  <2>1. /\ b \in Build /\ D \subseteq Resource
        /\ \A r \in D : Bundle[b][r] \in Want
    BY <1>2, CommitWrites, BundleFacts
  <2>2. \A r \in D : /\ owner'[r].package = Bundle[b][r].package
                     /\ owner'[r].row = Bundle[b][r].row
                     /\ owner'[r].build = b
    <3>1. ASSUME NEW r \in D
          PROVE  /\ owner'[r].package = Bundle[b][r].package
                 /\ owner'[r].row = Bundle[b][r].row
                 /\ owner'[r].build = b
      <4>1. owner'[r] = [package |-> Bundle[b][r].package,
                         row |-> Bundle[b][r].row, build |-> b]
        BY <1>2, CommitWrites
      <4> HIDE DEF b, D
      <4> QED BY <4>1
    <3> QED BY <3>1
  <2>3. \A r \in D : owner'[r] # None
    <3>1. \A r \in D : owner'[r] \in Provenance
      BY <1>2, CommitWrites
    <3> QED BY <3>1, DeploymentAssumption
  <2>4. /\ serverState'[b] = "APPLIED"
        /\ \A c \in Build : serverState'[c] = "APPLIED" => serverState[c] = "APPLIED" \/ c = b
        /\ \A c \in Build : serverState[c] = "APPLIED" => serverState'[c] = "APPLIED"
    BY <1>1, <1>2, <2>1, CommitWrites DEF TypeOK
  <2>5. ASSUME NEW r \in Resource, owner'[r] # None
        PROVE  /\ serverState'[owner'[r].build] = "APPLIED"
               /\ r \in Desired(owner'[r].build)
               /\ Bundle[owner'[r].build][r]
                    = [package |-> owner'[r].package, row |-> owner'[r].row]
    <3>1. CASE r \in D
      <4>1. Bundle[b][r] = [package |-> Bundle[b][r].package, row |-> Bundle[b][r].row]
        BY <2>1, <3>1 DEF Want
      <4>2. owner'[r].build = b /\ owner'[r].package = Bundle[b][r].package
            /\ owner'[r].row = Bundle[b][r].row
        BY <2>2, <3>1
      <4>3. Bundle[b][r] = [package |-> owner'[r].package, row |-> owner'[r].row]
        BY <4>1, <4>2
      <4> QED BY <2>4, <3>1, <4>2, <4>3
    <3>2. CASE r \notin D
      <4>1. owner'[r] = owner[r]
        BY <1>2, <3>2, CommitWrites
      <4>2. owner[r].build \in Build
        BY <1>1, <2>5, <4>1 DEF TypeOK, Provenance
      <4> QED BY <1>1, <2>4, <2>5, <4>1, <4>2 DEF ProvenanceIsExact
    <3> QED BY <3>1, <3>2
  <2>6. ASSUME NEW c \in Build, serverState'[c] = "APPLIED", NEW r \in Desired(c)
        PROVE  owner'[r] # None
    <3>1. CASE r \in D
      BY <2>3, <3>1
    <3>2. CASE r \notin D
      <4>1. serverState[c] = "APPLIED" /\ r \in Resource
        BY <2>4, <2>6, <3>2, BundleFacts
      <4>2. owner'[r] = owner[r]
        BY <1>2, <3>2, <4>1, CommitWrites
      <4> QED BY <1>1, <4>1, <4>2 DEF ProvenanceIsExact
    <3> QED BY <3>1, <3>2
  <2> QED BY <2>5, <2>6 DEF ProvenanceIsExact
<1>3. CASE UNCHANGED <<serverState, owner>>
  BY <1>1, <1>3 DEF ProvenanceIsExact
<1>4. UNCHANGED <<serverState, owner>> \/ \E s \in Server : CommitApply(s)
  BY OnlyCommitWrites DEF Next, vars, RecordBuild, Lifecycle, Edit, registry, content
<1> QED BY <1>2, <1>3, <1>4

LEMMA Invariance == Spec => []IInv
<1>1. IInv /\ [Next]_vars => IInv'
  <2> SUFFICES ASSUME IInv, [Next]_vars PROVE IInv'
    OBVIOUS
  <2>1. SnapshotsOK'
    <3>1. CASE UNCHANGED apply
      BY <3>1 DEF IInv, SnapshotsOK, SnapshotOK
    <3>2. UNCHANGED apply \/ \E s \in Server : Step(s)
      BY DEF Next, vars, RecordBuild, Lifecycle, Edit
    <3> QED BY <3>1, <3>2, ApplyStep
  <2> QED BY <2>1, TypeStep, ProvenanceStep DEF IInv
<1> QED BY <1>1, InitIInv, PTL DEF Spec

-----------------------------------------------------------------------------
(* Theorems.                                                               *)

\* A step that changes a build's server state is the commit of that build.
LEMMA AppliedByCommit ==
  ASSUME IInv, [Next]_vars, serverState' # serverState
  PROVE  \E s \in Server : CommitApply(s)
BY OnlyCommitWrites DEF Next, vars, RecordBuild, Lifecycle, Edit, registry

\* A row that a commit changes is one of its build, and was absent or as its
\* provenance showed it.
LEMMA CommitOverwrites ==
  ASSUME IInv, NEW s \in Server, CommitApply(s), NEW r \in Resource, live'[r] # live[r]
  PROVE  /\ r \in Desired(apply[s].build)
         /\ Absent(r) \/ (owner[r] # None /\ live[r] = owner[r].row)
<1>1. r \in Desired(apply[s].build)
  BY CommitWrites
<1>2. RowGuard(r, apply[s]) /\ live'[r] = Written(r, apply[s])
  BY <1>1 DEF CommitApply
<1>3. CASE apply[s].before[r] = None
  BY <1>1, <1>2, <1>3 DEF RowGuard
<1>4. CASE apply[s].before[r] # None
  BY <1>1, <1>2, <1>4 DEF RowGuard, Written
<1> QED BY <1>1, <1>3, <1>4

\* Tables and calls hold what they can hold.
THEOREM DeploymentTypeCorrect == Spec => []TypeOK
BY Invariance, PTL DEF IInv

\* Provenance names the applied build whose bundle the row is from, and no
\* applied build is without provenance.
THEOREM ProvenanceStaysExact == Spec => []ProvenanceIsExact
BY Invariance, PTL DEF IInv

\* A build becomes APPLIED together with all of its rows.
THEOREM AppliesAreWhole == Spec => AppliedWhole
<1> DEFINE A == \A b \in Build : serverState'[b] # serverState[b] =>
                  \A r \in Desired(b) :
                    live'[r] = Bundle[b][r].row /\ owner'[r] # None /\ owner'[r].build = b
<1>1. IInv /\ [Next]_vars => A
  <2> SUFFICES ASSUME IInv, [Next]_vars, NEW b \in Build, serverState'[b] # serverState[b],
                      NEW r \in Desired(b)
               PROVE  live'[r] = Bundle[b][r].row /\ owner'[r] # None /\ owner'[r].build = b
    OBVIOUS
  <2>1. PICK s \in Server : CommitApply(s)
    BY AppliedByCommit
  <2>2. apply[s].build = b
    BY <2>1, CommitWrites DEF IInv, TypeOK
  <2>3. /\ live'[r] = Bundle[b][r].row
        /\ owner'[r] = [package |-> Bundle[b][r].package, row |-> Bundle[b][r].row, build |-> b]
    BY <2>1, <2>2, CommitWrites
  <2>4. owner'[r] \in Provenance
    BY <2>1, <2>2, CommitWrites
  <2> QED BY <2>3, <2>4, DeploymentAssumption
<1>2. IInv /\ [Next]_vars => [A]_vars
  BY <1>1
<1> QED BY <1>2, Invariance, PTL DEF Spec, AppliedWhole

\* No apply overwrites a row it does not own or that changed since.
THEOREM ForeignRowsAlwaysSurvive == Spec => ForeignRowsSurvive
<1> DEFINE A == serverState' # serverState => \A r \in Overwritten :
                  Absent(r) \/ (owner[r] # None /\ live[r] = owner[r].row)
<1>1. IInv /\ [Next]_vars => A
  BY AppliedByCommit, CommitOverwrites DEF Overwritten
<1>2. IInv /\ [Next]_vars => [A]_vars
  BY <1>1
<1> QED BY <1>2, Invariance, PTL DEF Spec, ForeignRowsSurvive

\* An apply that changes an item moves the cache version on.
THEOREM ChangedItemsGetNewVersion == Spec => ItemChangesAdvanceCache
<1> DEFINE A == serverState' # serverState /\ (\E r \in Overwritten : KindOf[r] = "item")
                  => cacheId' # cacheId
<1>1. IInv /\ [Next]_vars => A
  <2> SUFFICES ASSUME IInv, [Next]_vars, serverState' # serverState,
                      NEW r \in Overwritten, KindOf[r] = "item"
               PROVE  cacheId' # cacheId
    OBVIOUS
  <2>1. PICK s \in Server : CommitApply(s)
    BY AppliedByCommit
  <2>2. DesiredItems(apply[s].build) # {}
    BY <2>1, CommitOverwrites DEF Overwritten, DesiredItems
  <2>3. cacheId \in 0 .. CacheMax /\ cacheId' = NextCache(cacheId)
    BY <2>1, <2>2 DEF IInv, TypeOK, CommitApply, CacheGuard, BumpedCache
  <2> QED BY <2>3, CacheFacts
<1>2. IInv /\ [Next]_vars => [A]_vars
  BY <1>1
<1> QED BY <1>2, Invariance, PTL DEF Spec, ItemChangesAdvanceCache

\* A fixed row keeps its definition for good.
THEOREM FixedRowsStayFixed == Spec => FixedRowsAreImmutable
<1> DEFINE A == owner' # owner => \A r \in Resource : Fixed(r) /\ owner[r] # None =>
                  owner'[r] # None /\ owner'[r].row = owner[r].row
<1>1. IInv /\ [Next]_vars => A
  <2> SUFFICES ASSUME IInv, [Next]_vars, NEW r \in Resource, Fixed(r), owner[r] # None
               PROVE  owner'[r] # None /\ owner'[r].row = owner[r].row
    OBVIOUS
  <2>1. ASSUME NEW s \in Server, CommitApply(s), r \in Desired(apply[s].build)
        PROVE  owner'[r] # None /\ owner'[r].row = owner[r].row
    <3> DEFINE j == apply[s]
    <3>1. RowGuard(r, j) /\ j.stage = "read" /\ j.build \in Build
      BY <2>1, CommitWrites DEF CommitApply
    <3>2. j.before[r] # None /\ owner[r].row = j.before[r].row
      BY <3>1 DEF RowGuard, Absent
    <3>3. j.before[r].row = Bundle[j.build][r].row
      BY <2>1, <3>1, <3>2 DEF IInv, SnapshotsOK, SnapshotOK
    <3>4. owner'[r] = [package |-> Bundle[j.build][r].package,
                       row |-> Bundle[j.build][r].row, build |-> j.build]
      BY <2>1, CommitWrites
    <3>5. owner'[r] \in Provenance
      BY <2>1, CommitWrites
    <3> QED BY <3>2, <3>3, <3>4, <3>5, DeploymentAssumption
  <2>2. owner'[r] = owner[r] \/ \E s \in Server : CommitApply(s) /\ r \in Desired(apply[s].build)
    <3>1. UNCHANGED owner \/ \E s \in Server : CommitApply(s)
      BY OnlyCommitWrites DEF Next, vars, RecordBuild, Lifecycle, Edit, registry, content
    <3> QED BY <3>1, CommitWrites
  <2> QED BY <2>1, <2>2
<1>2. IInv /\ [Next]_vars => [A]_vars
  BY <1>1
<1> QED BY <1>2, Invariance, PTL DEF Spec, FixedRowsAreImmutable

-----------------------------------------------------------------------------
(* The abstract specification.                                             *)

\* What the transaction found is what the abstract apply asks for: vacancy, or
\* an updatable row of the package.
LEMMA CommitJudges ==
  ASSUME IInv, NEW s \in Server, CommitApply(s),
         NEW r \in Desired(apply[s].build)
  PROVE  Atomic!Allowed(r, Bundle[apply[s].build][r])
<1> DEFINE j == apply[s]
           want == Bundle[j.build][r]
<1>1. /\ j.stage = "read" /\ SnapshotOK(j)
      /\ RowGuard(r, j) /\ Written(r, j) = want.row
  BY DEF IInv, SnapshotsOK, CommitApply, FinalCondition
<1>2. CASE j.before[r] = None
  BY <1>1, <1>2 DEF RowGuard, Absent, Atomic!Allowed, Atomic!Vacant
<1>3. CASE j.before[r] # None
  <2>1. /\ owner[r] # None /\ owner[r].package = want.package
        /\ owner[r].row = j.before[r].row
        /\ KindOf[r] = "item" \/ live[r] = j.before[r].row
    BY <1>1, <1>3 DEF RowGuard
  <2>2. live[r] = owner[r].row \/ (KindOf[r] = "item" /\ live[r] = want.row)
    BY <1>1, <1>3, <2>1 DEF Written
  <2>3. KindOf[r] \in {"cost", "vendor", "planned"} => owner[r].row = want.row
    BY <1>1, <1>3, <2>1 DEF SnapshotOK, Fixed, Sold
  <2> QED BY <2>1, <2>2, <2>3 DEF Atomic!Allowed, Atomic!Updatable
<1> QED BY <1>2, <1>3

\* The commit is the indivisible apply.
LEMMA CommitImplements ==
  ASSUME IInv, NEW s \in Server, CommitApply(s), NEW b \in Build, b = apply[s].build
  PROVE  Atomic!Apply(b)
<1> DEFINE j == apply[s]
           applied == {d \in Build : serverState[d] = "APPLIED"}
<1>1. /\ TypeOK /\ b \in Build /\ Desired(b) \subseteq Resource
      /\ serverState[b] = "STAGED"
      /\ serverState' = [serverState EXCEPT ![b] = "APPLIED"]
  BY CommitWrites, BundleFacts DEF IInv
<1>2. b \notin applied
  BY <1>1
<1>3. \A r \in DOMAIN Bundle[b] :
        KindOf[r] \in {"vendor", "planned"} \/ lease[r] = Bundle[b][r].package
  BY DEF CommitApply, ParityHolds, Leased, Sold, Desired
<1>4. \A r \in DOMAIN Bundle[b] : Atomic!Allowed(r, Bundle[b][r])
  BY CommitJudges DEF Desired
<1>5. {d \in Build : serverState'[d] = "APPLIED"} = applied \cup {b}
  BY <1>1 DEF TypeOK
<1>6. live' = [r \in Resource |->
                IF r \in DOMAIN Bundle[b] THEN Bundle[b][r].row ELSE live[r]]
  BY DEF CommitApply, FinalCondition, Desired
<1>7. owner' = [r \in Resource |->
                 IF r \in DOMAIN Bundle[b]
                 THEN [package |-> Bundle[b][r].package, row |-> Bundle[b][r].row, build |-> b]
                 ELSE owner[r]]
  <2>1. \A r \in Desired(b) : Stamped(r, j) = Stamp(r, b)
    BY DEF CommitApply, FinalCondition, Stamped
  <2> QED BY <2>1 DEF CommitApply, Stamp, Desired
<1>8. cacheId' = IF \A r \in DOMAIN Bundle[b] : KindOf[r] # "item" THEN cacheId
                 ELSE IF cacheId = CacheMax THEN 1 ELSE cacheId + 1
  <2>1. DesiredItems(b) = {} <=> \A r \in DOMAIN Bundle[b] : KindOf[r] # "item"
    BY DEF DesiredItems, Desired
  <2>2. CASE DesiredItems(b) = {}
    BY <2>1, <2>2 DEF CommitApply, BumpedCache
  <2>3. CASE DesiredItems(b) # {}
    BY <2>1, <2>3 DEF CommitApply, CacheGuard, BumpedCache, NextCache
  <2> QED BY <2>2, <2>3
<1>9. UNCHANGED lease
  BY DEF CommitApply
<1> QED BY <1>2, <1>3, <1>4, <1>5, <1>6, <1>7, <1>8, <1>9 DEF Atomic!Apply

LEMMA InitImplements == Init => Atomic!Init
BY DEF Init, Atomic!Init

\* A build taking leases is a Lease and an edit an Edit; every other step but
\* the commit leaves the rows and what is APPLIED alone.
LEMMA StepImplements ==
  ASSUME IInv, [Next]_vars
  PROVE  [Atomic!Next]_(Atomic!vars)
<1>1. ASSUME NEW s \in Server, CommitApply(s) PROVE Atomic!Next
  <2>1. PICK b \in Build : b = apply[s].build
    BY <1>1, CommitWrites
  <2>2. Atomic!Apply(b)
    BY <1>1, <2>1, CommitImplements
  <2> QED BY <2>2 DEF Atomic!Next
<1>2. CASE UNCHANGED <<serverState, lease, content>>
  BY <1>2 DEF content, Atomic!vars
<1>3. ASSUME NEW b \in Build, RecordBuild(b) PROVE Atomic!Next
  <2>1. TypeOK'
    BY TypeStep
  <2> QED BY <1>3, <2>1 DEF RecordBuild, TypeOK, content, Atomic!Next, Atomic!Lease
<1>4. ASSUME NEW r \in Editable, NEW row \in Row \cup {None}, Edit(r, row)
      PROVE  Atomic!Next
  <2>1. r \in Resource
    BY DeploymentAssumption
  <2> QED BY <1>4, <2>1 DEF Edit, registry, Atomic!Next, Atomic!Edit
<1>5. ASSUME NEW b \in Selectable, Lifecycle(b)
      PROVE  UNCHANGED <<serverState, lease, content>>
  BY <1>5 DEF Lifecycle, content
<1>6. ASSUME NEW s \in Server, Step(s)
      PROVE  CommitApply(s) \/ UNCHANGED <<serverState, lease, content>>
  BY <1>6, OnlyCommitWrites DEF registry, content
<1> QED BY <1>1, <1>2, <1>3, <1>4, <1>5, <1>6 DEF Next, vars, content

\* Applies on any number of servers implement indivisible ones.
THEOREM ImplementsAtomicDeployment == Spec => AppliesAreAtomic
BY InitImplements, StepImplements, Invariance, PTL DEF Spec, AppliesAreAtomic, Atomic!Spec
=============================================================================
