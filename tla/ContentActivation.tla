-------------------------- MODULE ContentActivation -------------------------
(***************************************************************************)
(* `.content activate`, `.content server apply` and `.content build` on    *)
(* several worldservers of one realm: ContentServerDeployment::Activate    *)
(* composes Inspect and Apply (ServerDeployment) with ActivateBuild        *)
(* (BuildLifecycle).  The two share the build's lifecycle state, which     *)
(* Apply guards and ActivateBuild changes.                                 *)
(*                                                                         *)
(* Inspect is one step here: its reads are not repeated later, which is    *)
(* what the interleavings with the other servers' steps are about.         *)
(***************************************************************************)
EXTENDS Naturals, FiniteSets

CONSTANTS Server, LastBuild, Resource, KindOf, Package, Replaces, Row, Bundle,
          CacheMax, Tamperable, None,
          Editable, \* resources whose live rows are edited by hand
          HandRow   \* what such an edit leaves: rows, or None for a deletion

VARIABLES
  state, serverState, lease, live, owner, cacheId, apply,  \* ServerDeployment
  source, published, call,                                 \* BuildLifecycle
  command   \* the administrator's command each server runs

Build == 1 .. LastBuild

deployment == <<serverState, lease, live, owner, cacheId, apply>>
client == <<source, published, call>>
vars == <<state, deployment, client, command>>

Deployment == INSTANCE ServerDeployment WITH Selectable <- Build
Client == INSTANCE BuildLifecycle WITH Corruptible <- {}, Removable <- {}

\* What ServerDeployment assumes of its constants, and what is edited by hand.
ASSUME ActivationAssumption ==
  /\ LastBuild \in Nat
  /\ KindOf \in [Resource -> Deployment!Kind]
  /\ Replaces \in [Package -> SUBSET Package]
  /\ Bundle \in [Build -> UNION {[S -> Deployment!Want] : S \in SUBSET Resource}]
  /\ CacheMax \in Nat /\ CacheMax > 1
  /\ Tamperable \subseteq Build
  /\ Editable \subseteq Resource
  /\ HandRow \subseteq Row \cup {None}
  /\ None \notin Row \cup Package \cup Deployment!Provenance

Managed == {b \in Build : DOMAIN Bundle[b] # {}}

Command == [stage : {"idle", "deploy", "deploying", "select", "selecting", "manual"},
            build : Build \cup {0}]
NoCommand == [stage |-> "idle", build |-> 0]
Run(s, stage, b) == command' = [command EXCEPT ![s] = [stage |-> stage, build |-> b]]
Proceed(s, stage) == command' = [command EXCEPT ![s].stage = stage]
Finish(s) == command' = [command EXCEPT ![s] = NoCommand]

Init ==
  /\ Deployment!Init
  /\ source = [b \in Build |-> "good"]
  /\ published = [b \in Build |-> "none"]
  /\ call = [s \in Server |-> Client!NoCall]
  /\ command = [s \in Server |-> NoCommand]

-----------------------------------------------------------------------------
(* Activate.                                                               *)

\* Mutant: the server state that Inspect read decides nothing.
ActivateSkipsApply(s, b) ==
  /\ command[s].stage = "idle"
  /\ source[b] = "good"
  /\ Deployment!Inspected(b)
  /\ Run(s, "select", b)
  /\ UNCHANGED <<state, deployment, client>>

\* Inspect: the recorded files are intact, the leases are held and, if the
\* build is applied already, its rows are verified.
Activate(s, b) ==
  /\ command[s].stage = "idle"
  /\ source[b] = "good"
  /\ Deployment!Inspected(b)
  /\ Run(s, IF b \in Managed /\ serverState[b] = "STAGED" THEN "deploy" ELSE "select", b)
  /\ UNCHANGED <<state, deployment, client>>

\* Content that is not applied yet is applied first ...
Deploy(s) ==
  /\ command[s].stage = "deploy"
  /\ source[command[s].build] = "good"
  /\ Deployment!BeginApply(s, command[s].build)
  /\ Proceed(s, "deploying")
  /\ UNCHANGED <<state, client>>

\* ... and must be verified before the client is touched.
Deployed(s) ==
  /\ command[s].stage = "deploying"
  /\ apply[s].stage = "applied"
  /\ Deployment!Return(s)
  /\ Proceed(s, "select")
  /\ UNCHANGED <<state, client>>

Select(s) ==
  /\ command[s].stage = "select"
  /\ Client!Begin(s, command[s].build)
  /\ Proceed(s, "selecting")
  /\ UNCHANGED deployment

Selected(s) ==
  /\ command[s].stage = "selecting"
  /\ Client!Return(s)
  /\ Finish(s)
  /\ UNCHANGED deployment

\* Mutant: a refusal of the apply itself is not passed on.
RefuseEarly(s) ==
  /\ command[s].stage = "deploy"
  /\ Finish(s)
  /\ UNCHANGED <<state, deployment, client>>

\* Apply refuses before or after it begins.
Refuse(s) ==
  /\ UNCHANGED <<state, client>>
  /\ \/ command[s].stage = "deploy" /\ UNCHANGED deployment
     \/ command[s].stage = "deploying" /\ apply[s].stage = "refused" /\ Deployment!Return(s)
  /\ Finish(s)

-----------------------------------------------------------------------------
(* The other commands, and the steps of the handlers they all call.        *)

ServerApply(s, b) ==
  /\ command[s].stage = "idle"
  /\ source[b] = "good"
  /\ Deployment!BeginApply(s, b)
  /\ Run(s, "manual", b)
  /\ UNCHANGED <<state, client>>

ServerApplied(s) ==
  /\ command[s].stage = "manual"
  /\ Deployment!Return(s)
  /\ Finish(s)
  /\ UNCHANGED <<state, client>>

RecordBuild(b) ==
  /\ Deployment!RecordBuild(b)
  /\ UNCHANGED <<client, command>>

ApplyStep(s) ==
  /\ \/ Deployment!CommitApply(s)
     \/ Deployment!RollbackApply(s)
     \/ Deployment!VerifyApply(s)
     \/ Deployment!FailApply(s)
  /\ UNCHANGED <<client, command>>

ClientStep(s) ==
  /\ \/ Client!Reuse(s)
     \/ Client!Reserve(s)
     \/ Client!Copy(s)
     \/ Client!Place(s)
     \/ Client!Check(s)
     \/ Client!AlreadyActive(s)
     \/ Client!Switch(s)
     \/ Client!LoseSwitch(s)
     \/ Client!Confirm(s)
     \/ Client!Refuse(s)
  /\ UNCHANGED <<deployment, command>>

TamperSource(b) ==
  /\ Client!Tamper(b)
  /\ UNCHANGED <<deployment, command>>

EditRow(r, row) ==
  /\ Deployment!Edit(r, row)
  /\ UNCHANGED <<client, command>>

\* What a server does for the command it runs.
Handle(s) ==
  \/ Deploy(s)
  \/ Deployed(s)
  \/ Select(s)
  \/ Selected(s)
  \/ Refuse(s)
  \/ ServerApplied(s)
  \/ ApplyStep(s)
  \/ ClientStep(s)

Next ==
  \/ \E s \in Server, b \in Build : Activate(s, b) \/ ServerApply(s, b)
  \/ \E s \in Server : Handle(s)
  \/ \E b \in Build : RecordBuild(b)
  \/ \E b \in Tamperable : TamperSource(b)
  \/ \E r \in Editable, row \in HandRow : EditRow(r, row)

Spec == Init /\ [][Next]_vars

-----------------------------------------------------------------------------
(* What has to hold.                                                       *)

\* Every variable holds what its table, directory or process can hold.
TypeOK ==
  /\ Deployment!TypeOK
  /\ Client!TypeOK
  /\ command \in [Server -> Command]

\* The selected build's server content has been applied: no interleaving of
\* applies, activations and builds hands clients a build the server lacks.
ActiveIsDeployed ==
  \A b \in Managed : state[b] = "ACTIVE" => serverState[b] = "APPLIED"

\* Every behaviour is one of the abstract release.
Release == INSTANCE ContentRelease WITH
  selected <- IF Client!Active = {} THEN None ELSE CHOOSE b \in Build : state[b] = "ACTIVE",
  applied <- {b \in Build : serverState[b] = "APPLIED"},
  offered <- {b \in Build : published[b] = "good"}

\* Activation never selects a build before its server content is applied and
\* its artifact is published, and replaces one selection by the next.
ActivationIsRelease == Release!Spec

-----------------------------------------------------------------------------
(* What the documentation says, and the code does not do.                  *)

\* README: activation applies or verifies managed server content before it
\* publishes, so when publication begins the rows are those of the build.
VerifiedContentIsLive ==
  \A s \in Server : command[s].stage = "select" =>
    LET b == command[s].build
    IN  \A r \in DOMAIN Bundle[b] : live[r] = Bundle[b][r].row

\* README: a SUPERSEDED build can become ACTIVE again.
SupersededCanReturn ==
  \A b \in Build : state[b] = "SUPERSEDED" => Deployment!Inspected(b)

\* README: after an ownership transfer ordinary successor rebuilds reuse the
\* row.
RebuildsSurviveTransfer ==
  \A b \in Build : state[b] # "NONE" => Deployment!OccupancyReadable(b)
=============================================================================
