---------------------- MODULE ContentActivation_proofs ----------------------
(***************************************************************************)
(* Proofs about ContentActivation for any servers, builds, resources and   *)
(* bundles: type correctness, that the selected build's server content is  *)
(* applied, that every behaviour is one of ContentRelease, that a symbol   *)
(* resolves only for a build that has been released, and that every step   *)
(* of a command brings it closer to its end.                               *)
(*                                                                         *)
(* Nothing a command has checked is undone while it runs: an APPLIED build *)
(* stays APPLIED, because no statement writes the server state back, and a *)
(* good published file stays good, because only verified copies replace    *)
(* it.  So a command carries what it found through its stages (CommandOK,  *)
(* CallOK), and the transaction that selects the build can rely on it.     *)
(***************************************************************************)
EXTENDS ContentCapability, TLAPS

Selecting == {"select", "selecting"}
Verified == {"published", "switched", "done"}

Active == {b \in Build : state[b] = "ACTIVE"}
Applied == {b \in Build : serverState[b] = "APPLIED"}
Offered == {b \in Build : published[b] = "good"}

\* A server's command, apply and publication: a deployment works on the
\* command's build, content that is needed is applied before the build is
\* selected, a publication belongs to a command that selects.
Agree(cmd, dep, pub, applied, offered) ==
  /\ cmd.stage # "idle" => cmd.build \in Build
  /\ cmd.stage = "deploying" => dep.build = cmd.build
  /\ cmd.stage \in Selecting /\ cmd.build \in Managed => cmd.build \in applied
  /\ dep.stage # "idle" => dep.build \in Build
  /\ dep.stage = "applied" => dep.build \in applied
  /\ pub.stage # "idle" => cmd.stage = "selecting" /\ pub.build = cmd.build
  /\ pub.stage \in Verified => pub.build \in offered

CommandsOK == \A s \in Server : Agree(command[s], apply[s], call[s], Applied, Offered)

\* An applied build has left provenance on all of its rows.
AppliedIsOwned == \A b \in Applied : \A r \in DOMAIN Bundle[b] : owner[r] # None

\* There is one selection, of a build that is on offer and deployed.
SelectionOK ==
  \A b \in Active :
    /\ b \in Offered
    /\ b \in Managed => b \in Applied
    /\ \A c \in Active : b = c

IInv ==
  /\ TypeOK
  /\ CommandsOK
  /\ AppliedIsOwned
  /\ SelectionOK

\* What has been applied or offered stays so.
Grows == Applied \subseteq Applied' /\ Offered \subseteq Offered'

-----------------------------------------------------------------------------
(* Types.                                                                  *)

LEMMA BundleFacts ==
  ASSUME NEW b \in Build
  PROVE  /\ Deployment!Desired(b) = DOMAIN Bundle[b]
         /\ DOMAIN Bundle[b] \subseteq Resource
         /\ \A r \in DOMAIN Bundle[b] : Bundle[b][r].row \in Row /\ Bundle[b][r].package \in Package
<1>1. Bundle[b] \in UNION {[S -> Deployment!Want] : S \in SUBSET Resource}
  BY ActivationAssumption
<1>2. PICK S \in SUBSET Resource : Bundle[b] \in [S -> Deployment!Want]
  BY <1>1
<1>3. DOMAIN Bundle[b] = S
  BY <1>2
<1>4. \A r \in S : Bundle[b][r] \in Deployment!Want
  BY <1>2
<1> QED BY <1>3, <1>4 DEF Deployment!Want, Deployment!Desired

LEMMA SameBuilds == Deployment!Build = Build /\ Client!Build = Build
BY DEF Build, Deployment!Build, Client!Build

\* The type invariant without the names of the instances.
LEMMA Types ==
  TypeOK <=>
    /\ state \in [Build -> {"NONE", "STAGED", "ACTIVE", "SUPERSEDED"}]
    /\ serverState \in [Build -> {"STAGED", "APPLIED"}]
    /\ lease \in [Resource -> Package \cup {None}]
    /\ live \in [Resource -> Row \cup {None}]
    /\ owner \in [Resource -> Deployment!Provenance \cup {None}]
    /\ cacheId \in 0 .. CacheMax
    /\ apply \in [Server -> Deployment!Call]
    /\ source \in [Build -> {"none", "bad", "good"}]
    /\ published \in [Build -> {"none", "bad", "good"}]
    /\ call \in [Server -> Client!Call]
    /\ command \in [Server -> Command]
BY SameBuilds DEF TypeOK, Deployment!TypeOK, Client!TypeOK, Deployment!BuildState,
   Client!BuildState, Client!File

LEMMA NoCallFacts ==
  Deployment!NoCall \in Deployment!Call /\ Client!NoCall \in Client!Call
<1>1. [r \in Resource |-> None] \in [Resource -> Deployment!Provenance \cup {None}]
  OBVIOUS
<1>2. 0 \in 0 .. CacheMax
  BY ActivationAssumption
<1> QED BY <1>1, <1>2 DEF Deployment!NoCall, Deployment!Call, Client!NoCall, Client!Call,
           Client!Stage, Client!BuildState, Client!File

\* The record of a call that has ended.
Ended(b, stage) == [Deployment!NoCall EXCEPT !.stage = stage, !.build = b]

LEMMA EndedCall ==
  ASSUME NEW b \in Build, NEW stage \in {"applied", "refused"}
  PROVE  /\ Ended(b, stage) \in Deployment!Call
         /\ Ended(b, stage).stage = stage /\ Ended(b, stage).build = b
<1> DEFINE Snapshot == [Resource -> Deployment!Provenance \cup {None}]
           none == [r \in Resource |-> None]
<1>1. none \in Snapshot
  OBVIOUS
<1>2. 0 \in 0 .. CacheMax
  BY ActivationAssumption
<1>3. Deployment!NoCall = [stage |-> "idle", build |-> 0, before |-> none, cache |-> 0]
  BY DEF Deployment!NoCall
<1>4. Deployment!Call = [stage : {"idle", "read", "submitted", "applied", "refused"},
                         build : Build \cup {0}, before : Snapshot, cache : 0 .. CacheMax]
  BY SameBuilds DEF Deployment!Call
<1> HIDE DEF none, Snapshot
<1>5. Ended(b, stage) \in Deployment!Call
  BY <1>1, <1>2, <1>3, <1>4 DEF Ended
<1>6. Ended(b, stage).stage = stage /\ Ended(b, stage).build = b
  BY <1>3 DEF Ended
<1> QED BY <1>5, <1>6

LEMMA NoCommandFacts ==
  NoCommand \in Command /\ NoCommand.stage = "idle"
BY DEF NoCommand, Command

-----------------------------------------------------------------------------
(* What the steps of ServerDeployment do.                                  *)

LEMMA BeginApplyStep ==
  ASSUME TypeOK, NEW s \in Server, NEW b \in Build, Deployment!BeginApply(s, b)
  PROVE  /\ UNCHANGED <<state, serverState, lease, live, owner, cacheId>>
         /\ \E c \in Deployment!Call :
              /\ apply' = [apply EXCEPT ![s] = c]
              /\ c.stage # "idle" /\ c.build = b
              /\ c.stage = "applied" => b \in Applied
<1>1. UNCHANGED <<state, serverState, lease, live, owner, cacheId>>
  BY DEF Deployment!BeginApply, Deployment!registry, Deployment!content
<1>2. CASE /\ Deployment!AlreadyApplied(b)
           /\ apply' = [apply EXCEPT ![s] =
                [Deployment!NoCall EXCEPT !.stage = "applied", !.build = b]]
  <2> DEFINE c == Ended(b, "applied")
  <2>1. c \in Deployment!Call /\ c.stage = "applied" /\ c.build = b
    BY EndedCall
  <2>2. b \in Applied
    BY <1>2 DEF Deployment!AlreadyApplied, Applied
  <2>3. apply' = [apply EXCEPT ![s] = c]
    BY <1>2 DEF Ended
  <2> HIDE DEF c
  <2> QED BY <1>1, <2>1, <2>2, <2>3
<1> DEFINE before == [r \in Resource |-> IF r \in Deployment!Desired(b)
                                         THEN Deployment!Found(r) ELSE None]
           c == [stage |-> "read", build |-> b, cache |-> cacheId, before |-> before]
<1>3. CASE apply' = [apply EXCEPT ![s] = c]
  <2>1. before \in [Resource -> Deployment!Provenance \cup {None}]
    BY BundleFacts, Types DEF Deployment!Found
  <2>2. c \in Deployment!Call /\ c.stage = "read" /\ c.build = b
    BY <2>1, SameBuilds, Types DEF Deployment!Call
  <2> HIDE DEF c
  <2> QED BY <1>1, <1>3, <2>2
<1> QED BY <1>2, <1>3 DEF Deployment!BeginApply, Deployment!Reading

LEMMA ReturnStep ==
  ASSUME NEW s \in Server, Deployment!Return(s)
  PROVE  /\ UNCHANGED <<state, serverState, lease, live, owner, cacheId>>
         /\ apply' = [apply EXCEPT ![s] = Deployment!NoCall]
         /\ Deployment!NoCall.stage = "idle"
BY DEF Deployment!Return, Deployment!registry, Deployment!content, Deployment!NoCall

\* The transaction leaves the build's rows, with provenance, or does not commit.
LEMMA CommitStep ==
  ASSUME TypeOK, NEW s \in Server, apply[s].build \in Build, Deployment!CommitApply(s)
  PROVE  /\ state' = state /\ lease' = lease
         /\ serverState' = [serverState EXCEPT ![apply[s].build] = "APPLIED"]
         /\ live' \in [Resource -> Row \cup {None}]
         /\ owner' \in [Resource -> Deployment!Provenance \cup {None}]
         /\ cacheId' \in 0 .. CacheMax
         /\ \A r \in DOMAIN Bundle[apply[s].build] : owner'[r] # None
         /\ \A r \in Resource : owner[r] # None => owner'[r] # None
         /\ apply' = [apply EXCEPT ![s].stage = "submitted"]
<1> DEFINE b == apply[s].build
           D == DOMAIN Bundle[apply[s].build]
<1>1. D \subseteq Resource /\ Deployment!Desired(b) = D
  BY BundleFacts
<1>2. \A r \in D : Deployment!Written(r, apply[s]) = Bundle[b][r].row
  BY <1>1 DEF Deployment!CommitApply, Deployment!FinalCondition
<1>3. \A r \in D : Deployment!Stamped(r, apply[s]) =
        [package |-> Bundle[b][r].package, row |-> Bundle[b][r].row, build |-> b]
  BY <1>2 DEF Deployment!Stamped, Deployment!Stamp
<1>4. ASSUME NEW r \in D
      PROVE  /\ Deployment!Written(r, apply[s]) \in Row
             /\ Deployment!Stamped(r, apply[s]) \in Deployment!Provenance
  <2>1. Bundle[b][r].row \in Row /\ Bundle[b][r].package \in Package
    BY BundleFacts
  <2>2. Deployment!Written(r, apply[s]) \in Row
    BY <1>2, <2>1
  <2>3. [package |-> Bundle[b][r].package, row |-> Bundle[b][r].row, build |-> b]
          \in Deployment!Provenance
    BY <2>1, SameBuilds DEF Deployment!Provenance
  <2> QED BY <1>3, <2>2, <2>3
<1>5. /\ live' = [r \in Resource |-> IF r \in D THEN Deployment!Written(r, apply[s]) ELSE live[r]]
      /\ owner' = [r \in Resource |-> IF r \in D THEN Deployment!Stamped(r, apply[s]) ELSE owner[r]]
      /\ cacheId' = Deployment!BumpedCache(apply[s])
      /\ serverState' = [serverState EXCEPT ![b] = "APPLIED"]
      /\ apply' = [apply EXCEPT ![s].stage = "submitted"]
      /\ UNCHANGED <<state, lease>>
  BY <1>1 DEF Deployment!CommitApply
<1>6. \A r \in D : live'[r] \in Row /\ owner'[r] \in Deployment!Provenance /\ owner'[r] # None
  BY <1>1, <1>4, <1>5, ActivationAssumption
<1>7. \A r \in Resource \ D : live'[r] = live[r] /\ owner'[r] = owner[r]
  BY <1>5
<1>8. cacheId' \in 0 .. CacheMax
  <2>1. apply[s].cache \in 0 .. CacheMax /\ cacheId \in 0 .. CacheMax
    BY Types DEF Deployment!Call
  <2>2. CacheMax \in Nat /\ CacheMax > 1
    BY ActivationAssumption
  <2>3. Deployment!NextCache(apply[s].cache) \in 0 .. CacheMax
    BY <2>1, <2>2 DEF Deployment!NextCache
  <2> QED BY <1>5, <2>1, <2>3 DEF Deployment!BumpedCache
<1>9. \A r \in Resource : /\ live'[r] \in Row \cup {None}
                          /\ owner'[r] \in Deployment!Provenance \cup {None}
  BY <1>6, <1>7, Types
<1>10. /\ live' = [r \in Resource |-> live'[r]]
       /\ owner' = [r \in Resource |-> owner'[r]]
  BY <1>5
<1> QED BY <1>5, <1>6, <1>7, <1>8, <1>9, <1>10

\* The steps of an apply that has begun.
LEMMA ApplySteps ==
  ASSUME TypeOK, AppliedIsOwned, NEW s \in Server, apply[s].build \in Build,
         \/ Deployment!CommitApply(s)
         \/ Deployment!RollbackApply(s)
         \/ Deployment!VerifyApply(s)
         \/ Deployment!FailApply(s)
  PROVE  /\ state' = state /\ lease' = lease
         /\ serverState' \in [Build -> {"STAGED", "APPLIED"}]
         /\ live' \in [Resource -> Row \cup {None}]
         /\ owner' \in [Resource -> Deployment!Provenance \cup {None}]
         /\ cacheId' \in 0 .. CacheMax
         /\ AppliedIsOwned' /\ Applied \subseteq Applied'
         /\ \A r \in Resource : owner[r] # None => owner'[r] # None
         /\ Applied' = Applied \/ \E b \in Build : Applied' = Applied \cup {b}
         /\ \E c \in Deployment!Call :
              /\ apply' = [apply EXCEPT ![s] = c]
              /\ c.build = apply[s].build
              /\ c.stage = "applied" => c.build \in Applied'
<1> DEFINE b == apply[s].build
<1>1. CASE Deployment!CommitApply(s)
  <2> DEFINE c == [apply[s] EXCEPT !.stage = "submitted"]
  <2>1. c \in Deployment!Call /\ c.stage = "submitted" /\ c.build = b
    BY Types DEF Deployment!Call
  <2>2. apply' = [apply EXCEPT ![s] = c]
    BY <1>1, CommitStep
  <2> HIDE DEF c
  <2>3. /\ serverState' = [serverState EXCEPT ![b] = "APPLIED"]
        /\ serverState \in [Build -> {"STAGED", "APPLIED"}]
    BY <1>1, CommitStep, Types
  <2>4. Applied' = Applied \cup {b}
    BY <2>3 DEF Applied
  <2>5. AppliedIsOwned'
    BY <1>1, <2>4, CommitStep, BundleFacts DEF AppliedIsOwned, Applied
  <2> QED BY <1>1, <2>1, <2>2, <2>3, <2>4, <2>5, CommitStep
<1>2. CASE Deployment!RollbackApply(s)
  <2> DEFINE c == [apply[s] EXCEPT !.stage = "submitted"]
  <2>1. c \in Deployment!Call /\ c.stage = "submitted" /\ c.build = b
    BY Types DEF Deployment!Call
  <2>2. /\ apply' = [apply EXCEPT ![s] = c]
        /\ UNCHANGED <<state, serverState, lease, live, owner, cacheId>>
    BY <1>2 DEF Deployment!RollbackApply, Deployment!registry, Deployment!content
  <2> HIDE DEF c
  <2> QED BY <2>1, <2>2, Types DEF AppliedIsOwned, Applied
<1>3. CASE Deployment!VerifyApply(s) \/ Deployment!FailApply(s)
  <2>1. /\ UNCHANGED <<state, serverState, lease, live, owner, cacheId>>
        /\ \E stage \in {"applied", "refused"} :
             /\ stage = "applied" => b \in Applied
             /\ apply' = [apply EXCEPT ![s] = Ended(b, stage)]
    BY <1>3 DEF Ended, Deployment!VerifyApply, Deployment!FailApply, Deployment!registry,
                Deployment!content, Applied
  <2>2. PICK stage \in {"applied", "refused"} :
          /\ stage = "applied" => b \in Applied
          /\ apply' = [apply EXCEPT ![s] = Ended(b, stage)]
    BY <2>1
  <2> DEFINE c == Ended(b, stage)
  <2>3. c \in Deployment!Call /\ c.stage = stage /\ c.build = b
    BY EndedCall
  <2>4. apply' = [apply EXCEPT ![s] = c]
    BY <2>2
  <2> HIDE DEF c
  <2>5. Applied' = Applied /\ AppliedIsOwned'
    BY <2>1 DEF AppliedIsOwned, Applied
  <2> QED BY <2>1, <2>2, <2>3, <2>4, <2>5, Types
<1> QED BY <1>1, <1>2, <1>3

-----------------------------------------------------------------------------
(* What the steps of BuildLifecycle do.                                    *)

LEMMA BeginStep ==
  ASSUME TypeOK, NEW s \in Server, NEW b \in Build, Client!Begin(s, b)
  PROVE  /\ UNCHANGED <<state, source, published>>
         /\ call' \in [Server -> Client!Call]
         /\ \A t \in Server \ {s} : call'[t] = call[t]
         /\ call'[s].stage = "read" /\ call'[s].build = b
<1>1. call \in [Server -> Client!Call] /\ state[b] \in Client!BuildState
  BY Types DEF Client!BuildState
<1> QED BY <1>1, SameBuilds DEF Client!Begin, Client!NoCall, Client!Call, Client!Stage,
           Client!File, Client!BuildState

LEMMA EndStep ==
  ASSUME TypeOK, NEW s \in Server, Client!Return(s)
  PROVE  /\ UNCHANGED <<state, source, published>>
         /\ call' \in [Server -> Client!Call]
         /\ \A t \in Server \ {s} : call'[t] = call[t]
         /\ call'[s].stage = "idle"
BY Types, NoCallFacts DEF Client!Return, Client!NoCall

\* A step of a publication verifies, places a verified file, selects the build
\* it has published, or changes nothing that others see.
LEMMA ClientSteps ==
  ASSUME TypeOK, NEW s \in Server, ClientStep(s), call[s].build \in Build,
         call[s].stage \in Verified => call[s].build \in Offered
  PROVE  /\ source' = source
         /\ state' \in [Build -> {"NONE", "STAGED", "ACTIVE", "SUPERSEDED"}]
         /\ published' \in [Build -> {"none", "bad", "good"}]
         /\ call' \in [Server -> Client!Call]
         /\ \A t \in Server \ {s} : call'[t] = call[t]
         /\ call[s].stage # "idle" /\ call'[s].stage # "idle"
         /\ call'[s].build = call[s].build
         /\ call'[s].stage \in Verified => call'[s].build \in Offered'
         /\ \/ state' = state /\ Offered' = Offered
            \/ state' = state /\ Offered' = Offered \cup {call[s].build}
            \/ /\ state' = Client!Selected(call[s].build) /\ Offered' = Offered
               /\ call[s].build \in Offered
<1> DEFINE b == call[s].build
<1>1. /\ call \in [Server -> Client!Call] /\ call[s] \in Client!Call
      /\ state \in [Build -> {"NONE", "STAGED", "ACTIVE", "SUPERSEDED"}]
      /\ published \in [Build -> {"none", "bad", "good"}]
      /\ source \in [Build -> {"none", "bad", "good"}]
  BY Types
<1> USE DEF Client!Call, Client!Stage, Client!File, Client!Advance, Verified
<1>2. CASE \/ Client!Reuse(s) \/ Client!Check(s)
           \/ Client!AlreadyActive(s) \/ Client!LoseSwitch(s) \/ Client!Confirm(s)
  <2>1. /\ UNCHANGED <<state, source, published>> /\ call[s].stage # "idle"
        /\ \E stage \in Client!Stage \ {"idle"} :
             /\ call' = [call EXCEPT ![s].stage = stage]
             /\ stage \in Verified => published[b] = "good"
    BY <1>1, <1>2 DEF Client!Reuse, Client!Check, Client!AlreadyActive, Client!LoseSwitch,
       Client!Confirm, Offered
  <2>2. Offered' = Offered
    BY <2>1 DEF Offered
  <2> QED BY <1>1, <2>1, <2>2 DEF Offered
<1>3. CASE Client!Reserve(s) \/ Client!Copy(s) \/ Client!Refuse(s)
  <2>1. /\ UNCHANGED <<state, source, published>> /\ call[s].stage # "idle"
        /\ \E stage \in {"copying", "copied", "refused"}, file \in Client!File :
             call' = [call EXCEPT ![s].stage = stage, ![s].temporary = file]
    BY <1>1, <1>3 DEF Client!Reserve, Client!Copy, Client!Refuse, Client!Busy
  <2>2. PICK stage \in {"copying", "copied", "refused"}, file \in Client!File :
          call' = [call EXCEPT ![s].stage = stage, ![s].temporary = file]
    BY <2>1
  <2>3. /\ call' \in [Server -> Client!Call]
        /\ \A t \in Server \ {s} : call'[t] = call[t]
        /\ call'[s].stage = stage /\ call'[s].build = call[s].build
    BY <1>1, <2>2
  <2>4. Offered' = Offered
    BY <2>1 DEF Offered
  <2> HIDE DEF Client!Call
  <2> QED BY <1>1, <2>1, <2>3, <2>4
<1>4. CASE Client!Place(s)
  <2>1. /\ call[s].stage = "copied" /\ state' = state /\ source' = source
        /\ published' = [published EXCEPT ![b] = "good"]
        /\ call' = [call EXCEPT ![s].stage = "placed", ![s].temporary = "none"]
    BY <1>4 DEF Client!Place
  <2>2. Offered' = Offered \cup {b}
    BY <1>1, <2>1 DEF Offered
  <2> QED BY <1>1, <2>1, <2>2
<1>5. CASE Client!Switch(s)
  <2>1. /\ call[s].stage = "published" /\ state' = Client!Selected(b)
        /\ source' = source /\ published' = published
        /\ call' = [call EXCEPT ![s].stage = "switched"]
    BY <1>5 DEF Client!Switch
  <2>2. Offered' = Offered /\ b \in Offered
    BY <2>1 DEF Offered
  <2>3. state' \in [Build -> {"NONE", "STAGED", "ACTIVE", "SUPERSEDED"}]
    BY <1>1, <2>1, SameBuilds DEF Client!Selected
  <2> QED BY <1>1, <2>1, <2>2, <2>3
<1> QED BY <1>2, <1>3, <1>4, <1>5 DEF ClientStep

-----------------------------------------------------------------------------
(* The invariant.                                                          *)

\* A server's step keeps what all of them rely on.
LEMMA Frame ==
  ASSUME CommandsOK, NEW s \in Server, Grows,
         \A t \in Server \ {s} : command'[t] = command[t] /\ apply'[t] = apply[t] /\ call'[t] = call[t],
         Agree(command'[s], apply'[s], call'[s], Applied', Offered')
  PROVE  CommandsOK'
<1> SUFFICES ASSUME NEW t \in Server
             PROVE  Agree(command'[t], apply'[t], call'[t], Applied', Offered')
  BY DEF CommandsOK
<1>1. CASE t # s
  <2>1. Agree(command[t], apply[t], call[t], Applied, Offered)
    BY DEF CommandsOK
  <2> QED BY <1>1, <2>1 DEF Agree, Grows
<1> QED BY <1>1

\* The selection stays deployed and on offer until it is replaced.
LEMMA SelectionKept ==
  ASSUME SelectionOK, Grows, Active' = Active
  PROVE  SelectionOK'
BY DEF SelectionOK, Grows

\* The transaction selects one build.
LEMMA SelectedFacts ==
  ASSUME TypeOK, NEW b \in Build, state' = Client!Selected(b)
  PROVE  Active' = Active \/ Active' = {b}
<1>1. CASE state[b] = "NONE"
  BY <1>1 DEF Client!Selected, Active
<1>2. CASE state[b] # "NONE"
  <2>1. \A c \in Build : state'[c] = "ACTIVE" <=> c = b
    BY <1>2, SameBuilds DEF Client!Selected
  <2> QED BY <2>1 DEF Active
<1> QED BY <1>1, <1>2

\* What a step changes that others see: content is applied, a file offered,
\* or a build selected of which both hold.
Effect ==
  \/ Active' = Active /\ Offered' = Offered
     /\ (Applied' = Applied \/ \E b \in Build : Applied' = Applied \cup {b})
  \/ Active' = Active /\ Applied' = Applied /\ \E b \in Build : Offered' = Offered \cup {b}
  \/ /\ Applied' = Applied /\ Offered' = Offered
     /\ \E b \in Build : Active' = {b} /\ b \in Offered /\ (b \in Managed => b \in Applied)

\* An action preserves the invariant and has such an effect.
Good == IInv' /\ Effect /\ Grows
         /\ \A r \in Resource : owner[r] # None => owner'[r] # None

\* It is enough to see what a step does to the server that takes it.
LEMMA ServerStep ==
  ASSUME IInv, NEW s \in Server, NEW k \in Command,
         command' = [command EXCEPT ![s] = k],
         \A t \in Server \ {s} : apply'[t] = apply[t] /\ call'[t] = call[t],
         apply' \in [Server -> Deployment!Call], call' \in [Server -> Client!Call],
         state' = state, UNCHANGED <<serverState, lease, live, owner, cacheId, source, published>>,
         Agree(k, apply'[s], call'[s], Applied, Offered)
  PROVE  Good
<1>1. TypeOK /\ CommandsOK /\ AppliedIsOwned /\ SelectionOK /\ command \in [Server -> Command]
  BY Types DEF IInv
<1>2. Applied' = Applied /\ Offered' = Offered /\ Active' = Active
  BY DEF Applied, Offered, Active
<1>3. Grows
  BY <1>2 DEF Grows
<1>4. CommandsOK'
  <2>1. command'[s] = k /\ \A t \in Server \ {s} : command'[t] = command[t]
    BY <1>1
  <2> QED BY <1>1, <1>2, <1>3, <2>1, Frame
<1>5. SelectionOK'
  BY <1>1, <1>2, <1>3, SelectionKept
<1>6. AppliedIsOwned'
  BY <1>1, <1>2 DEF AppliedIsOwned
<1>7. TypeOK'
  <2>1. command' \in [Server -> Command]
    BY <1>1
  <2> QED BY <1>1, <2>1, Types DEF TypeOK, Deployment!TypeOK, Client!TypeOK
<1> QED BY <1>2, <1>3, <1>4, <1>5, <1>6, <1>7 DEF Good, IInv, Effect

\* The steps that only move a command on.
LEMMA CommandSteps ==
  ASSUME IInv, NEW s \in Server,
         \/ \E b \in Build : Activate(s, b) \/ ServerApply(s, b)
         \/ Deploy(s) \/ Deployed(s) \/ Select(s) \/ Selected(s) \/ Refuse(s) \/ ServerApplied(s)
  PROVE  Good
<1>1. /\ TypeOK /\ Agree(command[s], apply[s], call[s], Applied, Offered)
      /\ command \in [Server -> Command] /\ command[s] \in Command
      /\ apply \in [Server -> Deployment!Call] /\ call \in [Server -> Client!Call]
      /\ serverState \in [Build -> {"STAGED", "APPLIED"}]
  BY Types DEF IInv, CommandsOK
<1> USE DEF Agree, Selecting, Verified
<1>2. ASSUME NEW b \in Build, Activate(s, b) PROVE Good
  <2> DEFINE k == [stage |-> IF b \in Managed /\ serverState[b] = "STAGED"
                             THEN "deploy" ELSE "select", build |-> b]
  <2>1. /\ command' = [command EXCEPT ![s] = k] /\ command[s].stage = "idle"
        /\ apply' = apply /\ call' = call
        /\ UNCHANGED <<state, serverState, lease, live, owner, cacheId, source, published>>
    BY <1>2 DEF Activate, Run, deployment, client
  <2>2. k \in Command
    BY DEF Command
  <2>3. Agree(k, apply[s], call[s], Applied, Offered)
    BY <1>1, <2>1 DEF Applied
  <2> HIDE DEF k
  <2> QED BY <1>1, <2>1, <2>2, <2>3, ServerStep
<1>3. ASSUME NEW b \in Build, ServerApply(s, b) PROVE Good
  <2> DEFINE k == [stage |-> "manual", build |-> b]
  <2>1. /\ command' = [command EXCEPT ![s] = k] /\ command[s].stage = "idle" /\ call' = call
        /\ UNCHANGED <<source, published>> /\ Deployment!BeginApply(s, b)
    BY <1>3 DEF ServerApply, Run, client
  <2>2. PICK c \in Deployment!Call : /\ apply' = [apply EXCEPT ![s] = c]
                                     /\ c.stage # "idle" /\ c.build = b
                                     /\ c.stage = "applied" => b \in Applied
    BY <1>1, <2>1, BeginApplyStep
  <2>3. k \in Command
    BY DEF Command
  <2>4. Agree(k, c, call[s], Applied, Offered)
    BY <1>1, <2>1, <2>2
  <2> HIDE DEF k
  <2> QED BY <1>1, <2>1, <2>2, <2>3, <2>4, BeginApplyStep, ServerStep
<1>4. CASE Deploy(s)
  <2> DEFINE b == command[s].build
             k == [command[s] EXCEPT !.stage = "deploying"]
  <2>1. /\ command' = [command EXCEPT ![s] = k] /\ command[s].stage = "deploy" /\ call' = call
        /\ UNCHANGED <<source, published>> /\ Deployment!BeginApply(s, b) /\ b \in Build
    BY <1>1, <1>4 DEF Deploy, Proceed, client
  <2>2. PICK c \in Deployment!Call : /\ apply' = [apply EXCEPT ![s] = c]
                                     /\ c.stage # "idle" /\ c.build = b
                                     /\ c.stage = "applied" => b \in Applied
    BY <1>1, <2>1, BeginApplyStep
  <2>3. k \in Command /\ k.stage = "deploying" /\ k.build = b
    BY <1>1 DEF Command
  <2> HIDE DEF k
  <2>4. Agree(k, c, call[s], Applied, Offered)
    BY <1>1, <2>1, <2>2, <2>3
  <2> QED BY <1>1, <2>1, <2>2, <2>3, <2>4, BeginApplyStep, ServerStep
<1>5. CASE Deployed(s)
  <2> DEFINE k == [command[s] EXCEPT !.stage = "select"]
  <2>1. /\ command' = [command EXCEPT ![s] = k] /\ command[s].stage = "deploying" /\ call' = call
        /\ UNCHANGED <<source, published>> /\ Deployment!Return(s) /\ apply[s].stage = "applied"
    BY <1>1, <1>5 DEF Deployed, Proceed, client
  <2>2. k \in Command /\ k.stage = "select" /\ k.build = command[s].build
    BY <1>1 DEF Command
  <2> HIDE DEF k
  <2>3. Agree(k, Deployment!NoCall, call[s], Applied, Offered)
    BY <1>1, <2>1, <2>2, ReturnStep
  <2>4. /\ apply' \in [Server -> Deployment!Call] /\ apply'[s] = Deployment!NoCall
        /\ \A t \in Server \ {s} : apply'[t] = apply[t]
        /\ UNCHANGED <<state, serverState, lease, live, owner, cacheId>>
    BY <1>1, <2>1, ReturnStep, NoCallFacts
  <2> HIDE DEF Agree
  <2> QED BY <1>1, <2>1, <2>2, <2>3, <2>4, ServerStep
<1>6. CASE Select(s)
  <2> DEFINE b == command[s].build
             k == [command[s] EXCEPT !.stage = "selecting"]
  <2>1. /\ command' = [command EXCEPT ![s] = k] /\ command[s].stage = "select" /\ apply' = apply
        /\ UNCHANGED <<serverState, lease, live, owner, cacheId>>
        /\ Client!Begin(s, b) /\ b \in Build
    BY <1>1, <1>6 DEF Select, Proceed, deployment
  <2>2. k \in Command /\ k.stage = "selecting" /\ k.build = b
    BY <1>1 DEF Command
  <2> HIDE DEF k
  <2>3. Agree(k, apply[s], call'[s], Applied, Offered)
    BY <1>1, <2>1, <2>2, BeginStep
  <2> QED BY <1>1, <2>1, <2>2, <2>3, BeginStep, ServerStep
<1>7. CASE Selected(s)
  <2>1. /\ command' = [command EXCEPT ![s] = NoCommand] /\ apply' = apply
        /\ UNCHANGED <<serverState, lease, live, owner, cacheId>> /\ Client!Return(s)
    BY <1>7 DEF Selected, Finish, deployment
  <2>2. Agree(NoCommand, apply[s], call'[s], Applied, Offered)
    BY <1>1, <2>1, EndStep DEF NoCommand
  <2> QED BY <1>1, <2>1, <2>2, EndStep, NoCommandFacts, ServerStep
<1>8. CASE Refuse(s) \/ ServerApplied(s)
  <2>1. /\ command' = [command EXCEPT ![s] = NoCommand] /\ call' = call
        /\ UNCHANGED <<state, source, published>>
        /\ command[s].stage \in {"deploy", "deploying", "manual"}
        /\ UNCHANGED deployment \/ Deployment!Return(s)
    BY <1>8 DEF Refuse, ServerApplied, Finish, client
  <2>2. CASE UNCHANGED deployment
    <3>1. Agree(NoCommand, apply[s], call[s], Applied, Offered)
      BY <1>1, <2>1 DEF NoCommand
    <3> QED BY <1>1, <2>1, <2>2, <3>1, NoCommandFacts, ServerStep DEF deployment
  <2>3. CASE Deployment!Return(s)
    <3>1. Agree(NoCommand, Deployment!NoCall, call[s], Applied, Offered)
      BY <1>1, <2>1, <2>3, ReturnStep DEF NoCommand
    <3>2. /\ apply' \in [Server -> Deployment!Call] /\ apply'[s] = Deployment!NoCall
          /\ \A t \in Server \ {s} : apply'[t] = apply[t]
          /\ UNCHANGED <<state, serverState, lease, live, owner, cacheId>>
      BY <1>1, <2>3, ReturnStep, NoCallFacts
    <3> HIDE DEF Agree
    <3> QED BY <1>1, <2>1, <3>1, <3>2, NoCommandFacts, ServerStep
  <2> QED BY <2>1, <2>2, <2>3
<1> QED BY <1>2, <1>3, <1>4, <1>5, <1>6, <1>7, <1>8

\* A step of an apply may make a build applied.
LEMMA DeploymentStep ==
  ASSUME IInv, NEW s \in Server, ApplyStep(s)
  PROVE  Good
<1>1. /\ TypeOK /\ CommandsOK /\ AppliedIsOwned /\ SelectionOK
      /\ Agree(command[s], apply[s], call[s], Applied, Offered)
      /\ command' = command /\ call' = call /\ source' = source /\ published' = published
  BY DEF IInv, CommandsOK, ApplyStep, client
<1>2. /\ apply[s].build \in Build
      /\ \/ Deployment!CommitApply(s) \/ Deployment!RollbackApply(s)
         \/ Deployment!VerifyApply(s) \/ Deployment!FailApply(s)
  BY <1>1 DEF Agree, ApplyStep, Deployment!CommitApply, Deployment!RollbackApply,
              Deployment!VerifyApply, Deployment!FailApply
<1>3. PICK c \in Deployment!Call : /\ apply' = [apply EXCEPT ![s] = c]
                                   /\ c.build = apply[s].build
                                   /\ c.stage = "applied" => c.build \in Applied'
  BY <1>1, <1>2, ApplySteps
<1>4. /\ state' = state /\ lease' = lease
      /\ serverState' \in [Build -> {"STAGED", "APPLIED"}]
      /\ live' \in [Resource -> Row \cup {None}]
      /\ owner' \in [Resource -> Deployment!Provenance \cup {None}]
      /\ cacheId' \in 0 .. CacheMax
      /\ AppliedIsOwned' /\ Applied \subseteq Applied'
      /\ \A r \in Resource : owner[r] # None => owner'[r] # None
      /\ Applied' = Applied \/ \E b \in Build : Applied' = Applied \cup {b}
  BY <1>1, <1>2, ApplySteps
<1>5. /\ apply' \in [Server -> Deployment!Call] /\ apply'[s] = c
      /\ \A t \in Server \ {s} : apply'[t] = apply[t]
  BY <1>1, <1>3, Types
<1>6. Active' = Active /\ Offered' = Offered
  BY <1>1, <1>4 DEF Active, Offered
<1>7. Grows /\ Effect
  BY <1>4, <1>6 DEF Grows, Effect
<1>8. CommandsOK'
  <2>1. Agree(command[s], c, call[s], Applied', Offered')
    BY <1>1, <1>2, <1>3, <1>4, <1>6 DEF Agree
  <2> QED BY <1>1, <1>5, <1>7, <2>1, Frame
<1>9. SelectionOK'
  BY <1>1, <1>6, <1>7, SelectionKept
<1>10. TypeOK'
  <2>1. TypeOK
    BY <1>1
  <2> QED BY <1>1, <1>4, <1>5, <2>1, SameBuilds
          DEF TypeOK, Deployment!TypeOK, Client!TypeOK, Deployment!BuildState, Client!BuildState
<1> QED BY <1>4, <1>7, <1>8, <1>9, <1>10 DEF Good, IInv

\* A step of a publication may offer a file or select a build.
LEMMA PublicationStep ==
  ASSUME IInv, NEW s \in Server, ClientStep(s)
  PROVE  Good
<1>1. /\ TypeOK /\ CommandsOK /\ AppliedIsOwned /\ SelectionOK
      /\ Agree(command[s], apply[s], call[s], Applied, Offered)
      /\ command' = command
      /\ UNCHANGED <<serverState, lease, live, owner, cacheId, apply>>
  BY DEF IInv, CommandsOK, ClientStep, deployment
<1>2. /\ call[s].build \in Build /\ command[s].stage = "selecting"
      /\ call[s].build = command[s].build
      /\ call[s].stage \in Verified => call[s].build \in Offered
  <2>1. call[s].stage # "idle"
    BY <1>1 DEF ClientStep, Client!Reuse, Client!Reserve, Client!Copy, Client!Place, Client!Check,
       Client!AlreadyActive, Client!Switch, Client!LoseSwitch, Client!Confirm, Client!Refuse,
       Client!Busy
  <2> QED BY <1>1, <2>1 DEF Agree
<1> DEFINE b == call[s].build
<1>3. /\ source' = source
      /\ state' \in [Build -> {"NONE", "STAGED", "ACTIVE", "SUPERSEDED"}]
      /\ published' \in [Build -> {"none", "bad", "good"}]
      /\ call' \in [Server -> Client!Call]
      /\ \A t \in Server \ {s} : call'[t] = call[t]
      /\ call'[s].build = b
      /\ call'[s].stage \in Verified => call'[s].build \in Offered'
      /\ \/ state' = state /\ Offered' = Offered
         \/ state' = state /\ Offered' = Offered \cup {b}
         \/ state' = Client!Selected(b) /\ Offered' = Offered /\ b \in Offered
  BY <1>1, <1>2, ClientSteps
<1>4. Applied' = Applied /\ (b \in Managed => b \in Applied)
  BY <1>1, <1>2 DEF Applied, Agree, Selecting
<1> HIDE DEF b
<1>5. Active' = Active \/ (Active' = {b} /\ b \in Offered /\ Offered' = Offered)
  BY <1>1, <1>2, <1>3, SelectedFacts DEF Active, b
<1>6. Grows
  BY <1>3, <1>4 DEF Grows
<1>7. Effect
  BY <1>2, <1>3, <1>4, <1>5 DEF Effect, Active, b
<1>8. CommandsOK'
  <2>1. Agree(command[s], apply[s], call'[s], Applied', Offered')
    BY <1>1, <1>2, <1>3, <1>4 DEF Agree, b
  <2> QED BY <1>1, <1>3, <1>6, <2>1, Frame
<1>9. SelectionOK'
  <2>1. CASE Active' = Active
    BY <1>1, <1>6, <2>1, SelectionKept
  <2>2. CASE Active' = {b} /\ b \in Offered /\ Offered' = Offered
    BY <1>4, <2>2 DEF SelectionOK
  <2> QED BY <1>5, <2>1, <2>2
<1>10. AppliedIsOwned'
  BY <1>1, <1>4 DEF AppliedIsOwned
<1>11. TypeOK'
  <2>1. TypeOK
    BY <1>1
  <2> QED BY <1>1, <1>3, <2>1, SameBuilds
          DEF TypeOK, Deployment!TypeOK, Client!TypeOK, Deployment!BuildState, Client!BuildState,
              Client!File
<1> QED BY <1>1, <1>6, <1>7, <1>8, <1>9, <1>10, <1>11 DEF Good, IInv

\* What is not a step of a server's command.
LEMMA OtherSteps ==
  ASSUME IInv,
         \/ \E b \in Build : RecordBuild(b)
         \/ \E b \in Tamperable : TamperSource(b)
         \/ \E r \in Editable, row \in HandRow : EditRow(r, row)
         \/ UNCHANGED vars
  PROVE  Good
<1>1. /\ TypeOK /\ CommandsOK /\ AppliedIsOwned /\ SelectionOK
      /\ state \in [Build -> {"NONE", "STAGED", "ACTIVE", "SUPERSEDED"}]
      /\ lease \in [Resource -> Package \cup {None}]
      /\ live \in [Resource -> Row \cup {None}]
      /\ source \in [Build -> {"none", "bad", "good"}]
  BY Types DEF IInv
<1> DEFINE Rest ==
             /\ UNCHANGED <<serverState, owner, cacheId, apply, published, call, command>>
             /\ Active' = Active
             /\ state' \in [Build -> {"NONE", "STAGED", "ACTIVE", "SUPERSEDED"}]
             /\ lease' \in [Resource -> Package \cup {None}]
             /\ live' \in [Resource -> Row \cup {None}]
             /\ source' \in [Build -> {"none", "bad", "good"}]
<1>2. ASSUME NEW b \in Build, RecordBuild(b) PROVE Rest
  <2>1. \A r \in Deployment!Leased(b) : Bundle[b][r].package \in Package
    BY BundleFacts DEF Deployment!Leased
  <2>2. /\ UNCHANGED <<serverState, live, owner, cacheId, apply, source, published, call, command>>
        /\ lease' = [r \in Resource |-> IF r \in Deployment!Leased(b) THEN Bundle[b][r].package
                                        ELSE lease[r]]
        /\ state[b] = "NONE" /\ state' = [state EXCEPT ![b] = "STAGED"]
    BY <1>2 DEF RecordBuild, Deployment!RecordBuild, Deployment!content, client
  <2>3. Active' = Active
    BY <1>1, <2>2 DEF Active
  <2> QED BY <1>1, <2>1, <2>2, <2>3
<1>3. ASSUME NEW b \in Tamperable, TamperSource(b) PROVE Rest
  BY <1>1, <1>3 DEF TamperSource, Client!Tamper, deployment, Active
<1>4. ASSUME NEW r \in Editable, NEW row \in HandRow, EditRow(r, row) PROVE Rest
  <2>1. row \in Row \cup {None}
    BY ActivationAssumption
  <2> QED BY <1>1, <1>4, <2>1 DEF EditRow, Deployment!Edit, Deployment!registry, client, Active
<1>5. ASSUME UNCHANGED vars PROVE Rest
  BY <1>1, <1>5 DEF vars, deployment, client, Active
<1>6. Rest
  <2> HIDE DEF Rest
  <2> QED BY <1>2, <1>3, <1>4, <1>5
<1>7. Applied' = Applied /\ Offered' = Offered
  BY <1>6 DEF Applied, Offered
<1>8. Grows /\ Effect
  BY <1>6, <1>7 DEF Grows, Effect
<1>9. CommandsOK' /\ AppliedIsOwned'
  BY <1>1, <1>6, <1>7 DEF CommandsOK, AppliedIsOwned
<1>10. SelectionOK'
  BY <1>1, <1>6, <1>8, SelectionKept
<1>11. TypeOK'
  BY <1>1, <1>6, SameBuilds
     DEF TypeOK, Deployment!TypeOK, Client!TypeOK, Deployment!BuildState, Client!BuildState,
         Client!File
<1> QED BY <1>6, <1>8, <1>9, <1>10, <1>11 DEF Good, IInv

LEMMA EveryStep ==
  ASSUME IInv, [Next]_vars
  PROVE  Good
BY CommandSteps, DeploymentStep, PublicationStep, OtherSteps DEF Next, Handle

LEMMA Initially == Init => IInv
<1> SUFFICES ASSUME Init PROVE IInv
  OBVIOUS
<1>1. TypeOK
  BY NoCallFacts, NoCommandFacts, SameBuilds
     DEF Init, Deployment!Init, TypeOK, Deployment!TypeOK, Client!TypeOK, Deployment!BuildState,
         Client!BuildState, Client!File
<1>2. Active = {} /\ Applied = {}
  BY SameBuilds DEF Init, Deployment!Init, Active, Applied
<1>3. CommandsOK
  BY DEF Init, Deployment!Init, CommandsOK, Agree, NoCommand, Deployment!NoCall, Client!NoCall,
         Selecting, Verified
<1> QED BY <1>1, <1>2, <1>3 DEF IInv, AppliedIsOwned, SelectionOK

LEMMA Invariance == Spec => []IInv
<1>1. IInv /\ [Next]_vars => IInv'
  BY EveryStep DEF Good
<1> QED BY <1>1, Initially, PTL DEF Spec

-----------------------------------------------------------------------------

\* The variables hold what their tables, directories and processes can hold.
THEOREM ActivationTypeCorrect == Spec => []TypeOK
BY Invariance, PTL DEF IInv

\* The selected build's server content has been applied.
THEOREM SelectedIsDeployed == Spec => []ActiveIsDeployed
<1>1. IInv => ActiveIsDeployed
  BY DEF IInv, SelectionOK, ActiveIsDeployed, Active, Applied, Managed
<1> QED BY <1>1, Invariance, PTL

\* Every step of every server is a step of the abstract release or changes
\* nothing of it.
THEOREM ImplementsRelease == Spec => ActivationIsRelease
<1> DEFINE Selection == IF Client!Active = {} THEN None
                        ELSE CHOOSE b \in Build : state[b] = "ACTIVE"
<1>1. Client!Active = Active /\ Client!Active' = Active'
  BY SameBuilds DEF Client!Active, Active
<1>2. ASSUME SelectionOK, NEW b \in Active PROVE Selection = b
  BY <1>1, <1>2 DEF SelectionOK, Active
<1>3. ASSUME SelectionOK', NEW b \in Active' PROVE Selection' = b
  BY <1>1, <1>3 DEF SelectionOK, Active
<1>4. Active = {} => Selection = None
  BY <1>1
<1>5. Active' = {} => Selection' = None
  BY <1>1
<1>6. Init => Release!Init
  BY SameBuilds
     DEF Init, Deployment!Init, Client!Active, Release!Init
<1>7. ASSUME IInv, [Next]_vars
      PROVE  Release!Next \/ UNCHANGED <<Selection, Applied, Offered>>
  <2>1. Effect /\ SelectionOK /\ SelectionOK'
    BY <1>7, EveryStep DEF Good, IInv
  <2> DEFINE before == Selection
             after == Selection'
  <2>2. Active' = Active => after = before
    BY <1>2, <1>3, <1>4, <1>5, <2>1
  <2>3. ASSUME NEW b \in Build, Active' = Active, Offered' = Offered, Applied' = Applied \cup {b}
        PROVE  Release!Next
    BY <2>2, <2>3 DEF Release!Next, Release!Apply, Applied, Offered
  <2>4. ASSUME NEW b \in Build, Active' = Active, Applied' = Applied, Offered' = Offered \cup {b}
        PROVE  Release!Next
    BY <2>2, <2>4 DEF Release!Next, Release!Publish, Applied, Offered
  <2>5. ASSUME NEW b \in Build, Applied' = Applied, Offered' = Offered, Active' = {b},
               b \in Offered, b \in Managed => b \in Applied
        PROVE  Release!Next
    <3>1. Selection' = b
      BY <1>3, <2>1, <2>5
    <3> QED BY <2>5, <3>1 DEF Release!Next, Release!Select, Applied, Offered
  <2> QED BY <2>1, <2>2, <2>3, <2>4, <2>5 DEF Effect
<1>8. IInv /\ [Next]_vars => [Release!Next]_(Release!vars)
  BY <1>7 DEF Release!vars, Applied, Offered
<1> QED BY <1>6, <1>8, Invariance, PTL DEF Spec, ActivationIsRelease, Release!Spec

-----------------------------------------------------------------------------
(* ContentCapability.  A lookup holds nothing between its reads.  It does  *)
(* not need to: a build that was ACTIVE once never goes back to STAGED,    *)
(* its published file stays good, and the rows of an applied build keep    *)
(* their provenance whichever build is applied after it.                   *)

Released == {b \in Build : state[b] \in {"ACTIVE", "SUPERSEDED"}}

\* What a lookup has read as ACTIVE has been released, and stays on offer.
LookupOK == resolving # 0 => resolving \in Released /\ resolving \in Offered

CapabilityInv == IInv /\ LookupOK

\* Of a command's steps only the selecting transaction changes states of builds.
LEMMA HandledState ==
  ASSUME NEW s \in Server, Handle(s)
  PROVE  state' = state \/ state' = Client!Selected(call[s].build)
BY DEF Handle, Deploy, Deployed, Select, Selected, Refuse, ServerApplied, ApplyStep, ClientStep,
       Deployment!CommitApply, Deployment!RollbackApply, Deployment!VerifyApply,
       Deployment!FailApply, Deployment!registry, Client!Begin, Client!Return, Client!Reuse,
       Client!Reserve, Client!Copy, Client!Place, Client!Check, Client!AlreadyActive,
       Client!Switch, Client!LoseSwitch, Client!Confirm, Client!Refuse

\* A released build is never staged again.
LEMMA ReleasedStays ==
  ASSUME IInv, [Next]_vars
  PROVE  Released \subseteq Released'
<1>1. TypeOK /\ state \in [Build -> {"NONE", "STAGED", "ACTIVE", "SUPERSEDED"}]
  BY Types DEF IInv
<1>2. ASSUME NEW s \in Server, Handle(s) PROVE Released \subseteq Released'
  <2>1. state' = state \/ state' = Client!Selected(call[s].build)
    BY <1>2, HandledState
  <2> QED BY <1>1, <2>1, SameBuilds DEF Client!Selected, Released
<1>3. ASSUME NEW s \in Server, NEW b \in Build, Activate(s, b) \/ ServerApply(s, b)
      PROVE  Released \subseteq Released'
  BY <1>3 DEF Activate, ServerApply, Released
<1>4. ASSUME NEW b \in Build, RecordBuild(b) PROVE Released \subseteq Released'
  BY <1>1, <1>4 DEF RecordBuild, Deployment!RecordBuild, Released
<1>5. CASE \/ \E b \in Tamperable : TamperSource(b)
           \/ \E r \in Editable, row \in HandRow : EditRow(r, row)
           \/ UNCHANGED vars
  BY <1>5 DEF TamperSource, Client!Tamper, EditRow, Deployment!Edit, Deployment!registry, vars,
              Released
<1> QED BY <1>2, <1>3, <1>4, <1>5 DEF Next

LEMMA LookupStep ==
  ASSUME CapabilityInv, [CapabilityNext]_capabilityVars
  PROVE  CapabilityInv'
<1>1. CASE (Next /\ UNCHANGED resolving) \/ UNCHANGED capabilityVars
  <2>1. [Next]_vars /\ resolving' = resolving
    BY <1>1 DEF capabilityVars
  <2>2. IInv' /\ Grows
    BY <2>1, EveryStep DEF CapabilityInv, Good
  <2>3. LookupOK'
    BY <2>1, <2>2, ReleasedStays DEF CapabilityInv, LookupOK, Grows
  <2> QED BY <2>2, <2>3 DEF CapabilityInv
<1>2. CASE Resolve
  <2>1. UNCHANGED vars
    BY <1>2 DEF Resolve, ResolveBegin, ResolveReady, ResolveRefuse
  <2>2. IInv'
    BY <2>1, EveryStep DEF CapabilityInv, Good
  <2>3. Released' = Released /\ Offered' = Offered
    BY <2>1 DEF vars, client, Released, Offered
  <2>4. ASSUME NEW b \in Build, ResolveBegin(b) PROVE LookupOK'
    <3>1. resolving' = b /\ b \in Active
      BY <2>4, SameBuilds DEF ResolveBegin, Current, Client!Active, Active
    <3>2. b \in Released /\ b \in Offered
      BY <3>1 DEF CapabilityInv, IInv, SelectionOK, Active, Released
    <3> QED BY <2>3, <3>1, <3>2 DEF LookupOK
  <2>5. (\E r \in Resource : ResolveReady(r)) \/ ResolveRefuse => LookupOK'
    BY DEF ResolveReady, ResolveRefuse, LookupOK
  <2> QED BY <1>2, <2>2, <2>4, <2>5 DEF Resolve, CapabilityInv
<1> QED BY <1>1, <1>2 DEF CapabilityNext

LEMMA CapabilityInvariance == CapabilitySpec => []CapabilityInv
<1>1. CapabilityInit => CapabilityInv
  BY Initially DEF CapabilityInit, CapabilityInv, LookupOK
<1>2. CapabilityInv /\ [CapabilityNext]_capabilityVars => CapabilityInv'
  BY LookupStep
<1> QED BY <1>1, <1>2, PTL DEF CapabilitySpec

\* A symbol resolves only for a build that has been handed to clients and whose
\* rows have been applied.
THEOREM OnlyReleasedResolves == CapabilitySpec => AnswersAreReleased
<1>1. ASSUME CapabilityInv, NEW r \in Resource, ResolveReady(r)
      PROVE  /\ state[resolving] \in {"ACTIVE", "SUPERSEDED"}
             /\ published[resolving] = "good"
             /\ owner[r] # None
  <2>1. resolving \in Released /\ resolving \in Offered /\ resolving \in Build
    BY <1>1 DEF ResolveReady, CapabilityInv, LookupOK, Released
  <2>2. resolving \in Applied /\ r \in DOMAIN Bundle[resolving]
    BY <1>1, <2>1 DEF ResolveReady, Applied
  <2> QED BY <1>1, <2>1, <2>2 DEF Released, Offered, CapabilityInv, IInv, AppliedIsOwned
<1>2. CapabilityInv => [\A r \in Resource : ResolveReady(r) =>
                          /\ state[resolving] \in {"ACTIVE", "SUPERSEDED"}
                          /\ published[resolving] = "good"
                          /\ owner[r] # None]_capabilityVars
  BY <1>1
<1> QED BY <1>2, CapabilityInvariance, PTL DEF AnswersAreReleased

-----------------------------------------------------------------------------
(* How commands end.  The handlers a command calls are busy exactly while  *)
(* it is at the stage that calls them, so whichever stage it is at there   *)
(* is a step of its own to take; and every such step brings it closer to   *)
(* its end.                                                                *)

\* A server applies or publishes just when its command says so, and a command
\* is about a recorded build, as Begin asks.
InStep(s) ==
  /\ apply[s].stage # "idle" <=> command[s].stage \in {"deploying", "manual"}
  /\ call[s].stage # "idle" <=> command[s].stage = "selecting"
  /\ command[s].stage # "idle" => state[command[s].build] # "NONE"

CommandsInStep == \A s \in Server : InStep(s)

ApplyLeft(stage) ==
  CASE stage = "idle" -> 0
    [] stage = "read" -> 3
    [] stage = "submitted" -> 2
    [] stage \in {"applied", "refused"} -> 1

CallLeft(stage) ==
  CASE stage = "idle" -> 0
    [] stage = "read" -> 7
    [] stage = "copying" -> 6
    [] stage = "copied" -> 5
    [] stage = "placed" -> 4
    [] stage = "published" -> 3
    [] stage = "switched" -> 2
    [] stage \in {"done", "refused"} -> 1

\* The most steps a server can still take for its command.
StepsLeft(s) ==
  CASE command[s].stage = "idle" -> 0
    [] command[s].stage = "manual" -> ApplyLeft(apply[s].stage)
    [] command[s].stage = "deploy" -> 12
    [] command[s].stage = "deploying" -> 8 + ApplyLeft(apply[s].stage)
    [] command[s].stage = "select" -> 8
    [] command[s].stage = "selecting" -> CallLeft(call[s].stage)

\* No step a server takes for its command leads it back, and no step of anybody
\* else prolongs a command that runs.
CommandsGetOn ==
  [][\A s \in Server :
       /\ Handle(s) => StepsLeft(s)' < StepsLeft(s)
       /\ command[s].stage # "idle" => StepsLeft(s)' <= StepsLeft(s)]_vars

Untouched(s) == command'[s] = command[s] /\ apply'[s] = apply[s] /\ call'[s] = call[s]

\* Where the steps of a server lead.
Moves(s) ==
  LET c == command[s].stage
      a == apply[s].stage
      p == call[s].stage
  IN  \/ /\ c = "deploy" /\ command'[s].stage = "deploying"
         /\ command'[s].build = command[s].build
         /\ apply'[s].stage \in {"read", "applied"} /\ call'[s] = call[s]
      \/ /\ c = "deploying" /\ command'[s].stage = "select"
         /\ command'[s].build = command[s].build
         /\ apply'[s].stage = "idle" /\ call'[s] = call[s]
      \/ /\ c = "select" /\ command'[s].stage = "selecting"
         /\ command'[s].build = command[s].build
         /\ call'[s].stage = "read" /\ apply'[s] = apply[s]
      \/ /\ c = "selecting" /\ command'[s].stage = "idle"
         /\ p \in {"done", "refused"} /\ call'[s].stage = "idle" /\ apply'[s] = apply[s]
      \/ /\ c = "deploy" /\ command'[s].stage = "idle"
         /\ apply'[s] = apply[s] /\ call'[s] = call[s]
      \/ /\ c \in {"deploying", "manual"} /\ command'[s].stage = "idle"
         /\ a \in {"applied", "refused"} /\ apply'[s].stage = "idle" /\ call'[s] = call[s]
      \/ /\ command'[s] = command[s] /\ call'[s] = call[s]
         /\ \/ a = "read" /\ apply'[s].stage \in {"submitted", "refused"}
            \/ a = "submitted" /\ apply'[s].stage \in {"applied", "refused"}
      \/ /\ command'[s] = command[s] /\ apply'[s] = apply[s]
         /\ \/ p = "read" /\ call'[s].stage \in {"copying", "published", "refused"}
            \/ p = "copying" /\ call'[s].stage \in {"copied", "refused"}
            \/ p = "copied" /\ call'[s].stage \in {"placed", "refused"}
            \/ p = "placed" /\ call'[s].stage \in {"published", "refused"}
            \/ p = "published" /\ call'[s].stage \in {"switched", "done", "refused"}
            \/ p = "switched" /\ call'[s].stage \in {"done", "refused"}

LEMMA HandleMoves ==
  ASSUME TypeOK, NEW s \in Server, Handle(s)
  PROVE  Moves(s) /\ \A t \in Server \ {s} : Untouched(t)
<1>1. /\ command \in [Server -> Command] /\ command[s] \in Command
      /\ apply \in [Server -> Deployment!Call] /\ apply[s] \in Deployment!Call
      /\ call \in [Server -> Client!Call] /\ call[s] \in Client!Call
  BY Types
<1>2. /\ NoCommand.stage = "idle"
      /\ Deployment!NoCall.stage = "idle" /\ Client!NoCall.stage = "idle"
  BY DEF NoCommand, Deployment!NoCall, Client!NoCall
<1>3. CASE Deploy(s)
  <2>1. command[s].stage = "deploy" /\ call' = call
        /\ command' = [command EXCEPT ![s].stage = "deploying"]
    BY <1>3 DEF Deploy, client, Proceed
  <2>2. PICK c : apply' = [apply EXCEPT ![s] = c] /\ c.stage \in {"read", "applied"}
    <3>1. CASE apply' = [apply EXCEPT ![s] = [Deployment!NoCall EXCEPT
                           !.stage = "applied", !.build = command[s].build]]
      <4>1. [Deployment!NoCall EXCEPT !.stage = "applied", !.build = command[s].build].stage
              = "applied"
        BY DEF Deployment!NoCall
      <4> QED BY <3>1, <4>1
    <3> DEFINE b == command[s].build
               c == [stage |-> "read", build |-> b, cache |-> cacheId,
                     before |-> [r \in Resource |-> IF r \in Deployment!Desired(b)
                                                    THEN Deployment!Found(r) ELSE None]]
    <3>2. CASE apply' = [apply EXCEPT ![s] = c]
      <4>1. c.stage = "read"
        OBVIOUS
      <4> HIDE DEF c
      <4> QED BY <3>2, <4>1
    <3> QED BY <1>3, <3>1, <3>2 DEF Deploy, Deployment!BeginApply, Deployment!Reading
  <2>3. /\ command'[s].stage = "deploying" /\ command'[s].build = command[s].build
        /\ \A t \in Server \ {s} : command'[t] = command[t]
    BY <1>1, <2>1 DEF Command
  <2>4. apply'[s] = c /\ \A t \in Server \ {s} : apply'[t] = apply[t]
    BY <1>1, <2>2
  <2> QED BY <2>1, <2>2, <2>3, <2>4 DEF Moves, Untouched
<1>4. CASE Deployed(s)
  <2>1. command[s].stage = "deploying" /\ call' = call
        /\ command' = [command EXCEPT ![s].stage = "select"]
        /\ apply' = [apply EXCEPT ![s] = Deployment!NoCall]
    BY <1>4, ReturnStep DEF Deployed, client, Proceed
  <2>2. /\ command'[s].stage = "select" /\ command'[s].build = command[s].build
        /\ \A t \in Server \ {s} : command'[t] = command[t]
    BY <1>1, <2>1 DEF Command
  <2>3. /\ apply'[s].stage = "idle"
        /\ \A t \in Server \ {s} : apply'[t] = apply[t]
    BY <1>1, <1>2, <2>1
  <2> QED BY <2>1, <2>2, <2>3 DEF Moves, Untouched
<1>5. CASE Select(s)
  <2>1. /\ command[s].stage = "select" /\ apply' = apply
        /\ command' = [command EXCEPT ![s].stage = "selecting"]
    BY <1>5 DEF Select, deployment, Proceed
  <2>2. PICK c : call' = [call EXCEPT ![s] = c] /\ c.stage = "read"
    <3>1. [Client!NoCall EXCEPT !.stage = "read", !.build = command[s].build,
                                !.seen = state[command[s].build]].stage = "read"
      BY DEF Client!NoCall
    <3> QED BY <1>5, <3>1 DEF Select, Client!Begin
  <2>3. /\ command'[s].stage = "selecting" /\ command'[s].build = command[s].build
        /\ \A t \in Server \ {s} : command'[t] = command[t]
    BY <1>1, <2>1 DEF Command
  <2>4. call'[s].stage = "read" /\ \A t \in Server \ {s} : call'[t] = call[t]
    BY <1>1, <2>2
  <2> QED BY <2>1, <2>3, <2>4 DEF Moves, Untouched
<1>6. CASE Selected(s)
  <2>1. /\ command[s].stage = "selecting" /\ apply' = apply
        /\ command' = [command EXCEPT ![s] = NoCommand]
        /\ call[s].stage \in {"done", "refused"}
        /\ call' = [call EXCEPT ![s] = Client!NoCall]
    BY <1>6 DEF Selected, deployment, Finish, Client!Return
  <2>2. /\ command'[s].stage = "idle" /\ call'[s].stage = "idle"
        /\ \A t \in Server \ {s} : command'[t] = command[t] /\ call'[t] = call[t]
    BY <1>1, <1>2, <2>1
  <2> QED BY <2>1, <2>2 DEF Moves, Untouched
<1>7. CASE Refuse(s)
  <2>1. call' = call /\ command' = [command EXCEPT ![s] = NoCommand]
    BY <1>7 DEF Refuse, client, Finish
  <2>2. \/ command[s].stage = "deploy" /\ apply' = apply
        \/ /\ command[s].stage = "deploying" /\ apply[s].stage = "refused"
           /\ apply' = [apply EXCEPT ![s] = Deployment!NoCall]
    BY <1>7, ReturnStep DEF Refuse, deployment
  <2>3. /\ command'[s].stage = "idle"
        /\ \A t \in Server \ {s} : command'[t] = command[t]
    BY <1>1, <1>2, <2>1
  <2>4. \A t \in Server \ {s} : apply'[t] = apply[t]
    BY <1>1, <2>2
  <2>5. \/ command[s].stage = "deploy" /\ apply'[s] = apply[s]
        \/ /\ command[s].stage = "deploying" /\ apply[s].stage = "refused"
           /\ apply'[s].stage = "idle"
    BY <1>1, <1>2, <2>2
  <2> QED BY <2>1, <2>3, <2>4, <2>5 DEF Moves, Untouched
<1>8. CASE ServerApplied(s)
  <2>1. /\ command[s].stage = "manual" /\ call' = call
        /\ command' = [command EXCEPT ![s] = NoCommand]
        /\ apply[s].stage \in {"applied", "refused"}
        /\ apply' = [apply EXCEPT ![s] = Deployment!NoCall]
    BY <1>8 DEF ServerApplied, client, Finish, Deployment!Return
  <2>2. /\ command'[s].stage = "idle" /\ apply'[s].stage = "idle"
        /\ \A t \in Server \ {s} : command'[t] = command[t] /\ apply'[t] = apply[t]
    BY <1>1, <1>2, <2>1
  <2> QED BY <2>1, <2>2 DEF Moves, Untouched
<1>9. CASE ApplyStep(s)
  <2>1. command' = command /\ call' = call
    BY <1>9 DEF ApplyStep, client
  <2>2. PICK c : /\ apply' = [apply EXCEPT ![s] = c]
                 /\ \/ apply[s].stage = "read" /\ c.stage \in {"submitted", "refused"}
                    \/ apply[s].stage = "submitted" /\ c.stage \in {"applied", "refused"}
    <3>1. CASE Deployment!CommitApply(s) \/ Deployment!RollbackApply(s)
      <4>1. /\ apply' = [apply EXCEPT ![s] = [apply[s] EXCEPT !.stage = "submitted"]]
            /\ apply[s].stage = "read"
        BY <3>1 DEF Deployment!CommitApply, Deployment!RollbackApply
      <4>2. [apply[s] EXCEPT !.stage = "submitted"].stage = "submitted"
        BY <1>1 DEF Deployment!Call
      <4> QED BY <4>1, <4>2
    <3>2. CASE Deployment!VerifyApply(s)
      <4>1. /\ apply' = [apply EXCEPT ![s] = Ended(apply[s].build, "applied")]
            /\ apply[s].stage = "submitted"
        BY <3>2 DEF Deployment!VerifyApply, Ended
      <4>2. Ended(apply[s].build, "applied").stage = "applied"
        BY DEF Ended, Deployment!NoCall
      <4> QED BY <4>1, <4>2
    <3>3. CASE Deployment!FailApply(s)
      <4>1. /\ apply' = [apply EXCEPT ![s] = Ended(apply[s].build, "refused")]
            /\ apply[s].stage \in {"read", "submitted"}
        BY <3>3 DEF Deployment!FailApply, Ended
      <4>2. Ended(apply[s].build, "refused").stage = "refused"
        BY DEF Ended, Deployment!NoCall
      <4> QED BY <4>1, <4>2
    <3> QED BY <1>9, <3>1, <3>2, <3>3 DEF ApplyStep
  <2>3. apply'[s] = c /\ \A t \in Server \ {s} : apply'[t] = apply[t]
    BY <1>1, <2>2
  <2> QED BY <2>1, <2>2, <2>3 DEF Moves, Untouched
<1>10. CASE ClientStep(s)
  <2>1. command' = command /\ apply' = apply
    BY <1>10 DEF ClientStep, deployment
  <2> DEFINE Others == \A t \in Server \ {s} : call'[t] = call[t]
             Goes(from, to) == Others /\ call[s].stage = from /\ call'[s].stage = to
  <2> USE <1>1 DEF Client!Call, Client!Advance
  <2>2. Client!Reuse(s) => Goes("read", "published")
    BY DEF Client!Reuse
  <2>3. Client!Reserve(s) => Goes("read", "copying")
    BY DEF Client!Reserve
  <2>4. Client!Copy(s) => Goes("copying", "copied")
    BY DEF Client!Copy
  <2>5. Client!Place(s) => Goes("copied", "placed")
    BY DEF Client!Place
  <2>6. Client!Check(s) => Goes("placed", "published")
    BY DEF Client!Check
  <2>7. Client!AlreadyActive(s) => Goes("published", "done")
    BY DEF Client!AlreadyActive
  <2>8. Client!Switch(s) => Goes("published", "switched")
    BY DEF Client!Switch
  <2>9. Client!LoseSwitch(s) => Goes("published", "switched")
    BY DEF Client!LoseSwitch
  <2>10. Client!Confirm(s) => Goes("switched", "done")
    BY DEF Client!Confirm
  <2>11. Client!Refuse(s) => \E from \in Client!Stage \ {"idle", "done", "refused"} :
                               Goes(from, "refused")
    BY DEF Client!Refuse, Client!Busy
  <2>12. Others /\ Moves(s)
    <3> HIDE DEF Others
    <3> QED BY <1>10, <2>1, <2>2, <2>3, <2>4, <2>5, <2>6, <2>7, <2>8, <2>9, <2>10, <2>11
            DEF ClientStep, Moves, Client!Stage
  <2> QED BY <2>1, <2>12 DEF Untouched
<1> QED BY <1>3, <1>4, <1>5, <1>6, <1>7, <1>8, <1>9, <1>10 DEF Handle

LEMMA StepsCounted ==
  ASSUME TypeOK, NEW s \in Server
  PROVE  StepsLeft(s) \in Nat
<1>1. command[s] \in Command /\ apply[s] \in Deployment!Call /\ call[s] \in Client!Call
  BY Types
<1>2. /\ apply[s].stage \in {"idle", "read", "submitted", "applied", "refused"}
      /\ call[s].stage \in Client!Stage
      /\ command[s].stage \in {"idle", "deploy", "deploying", "select", "selecting", "manual"}
  BY <1>1 DEF Command, Deployment!Call, Client!Call
<1>3. ApplyLeft(apply[s].stage) \in Nat /\ CallLeft(call[s].stage) \in Nat
  BY <1>2 DEF ApplyLeft, CallLeft, Client!Stage
<1> QED BY <1>2, <1>3 DEF StepsLeft

\* Wherever the steps of a server lead, it is closer to the end.
LEMMA MovesGetOn ==
  ASSUME TypeOK, NEW s \in Server, InStep(s), Moves(s)
  PROVE  StepsLeft(s)' \in Nat /\ StepsLeft(s)' < StepsLeft(s)
<1>1. /\ ApplyLeft("idle") = 0 /\ ApplyLeft("read") = 3 /\ ApplyLeft("submitted") = 2
      /\ ApplyLeft("applied") = 1 /\ ApplyLeft("refused") = 1
  BY DEF ApplyLeft
<1>2. /\ CallLeft("idle") = 0 /\ CallLeft("read") = 7 /\ CallLeft("copying") = 6
      /\ CallLeft("copied") = 5 /\ CallLeft("placed") = 4 /\ CallLeft("published") = 3
      /\ CallLeft("switched") = 2 /\ CallLeft("done") = 1 /\ CallLeft("refused") = 1
  BY DEF CallLeft
<1>3. CASE command'[s] = command[s] /\ call'[s] = call[s] /\ apply[s].stage # "idle"
  <2>1. /\ command[s].stage \in {"deploying", "manual"}
        /\ \/ apply[s].stage = "read" /\ apply'[s].stage \in {"submitted", "refused"}
           \/ apply[s].stage = "submitted" /\ apply'[s].stage \in {"applied", "refused"}
    BY <1>3 DEF InStep, Moves
  <2> QED BY <1>1, <1>3, <2>1 DEF StepsLeft
<1>4. CASE command'[s] = command[s] /\ apply'[s] = apply[s] /\ call[s].stage # "idle"
  <2>1. /\ command[s].stage = "selecting"
        /\ \/ call[s].stage = "read" /\ call'[s].stage \in {"copying", "published", "refused"}
           \/ call[s].stage = "copying" /\ call'[s].stage \in {"copied", "refused"}
           \/ call[s].stage = "copied" /\ call'[s].stage \in {"placed", "refused"}
           \/ call[s].stage = "placed" /\ call'[s].stage \in {"published", "refused"}
           \/ /\ call[s].stage = "published"
              /\ call'[s].stage \in {"switched", "done", "refused"}
           \/ call[s].stage = "switched" /\ call'[s].stage \in {"done", "refused"}
    BY <1>4 DEF InStep, Moves
  <2> QED BY <1>2, <1>4, <2>1 DEF StepsLeft
<1>5. CASE command'[s].stage # command[s].stage
  <2>1. \/ command[s].stage = "deploy" /\ command'[s].stage = "idle"
        \/ /\ command[s].stage = "deploy" /\ command'[s].stage = "deploying"
           /\ apply'[s].stage \in {"read", "applied"}
        \/ /\ command[s].stage = "deploying" /\ command'[s].stage \in {"select", "idle"}
           /\ ApplyLeft(apply[s].stage) \in Nat \ {0}
        \/ /\ command[s].stage = "select" /\ command'[s].stage = "selecting"
           /\ call'[s].stage = "read"
        \/ /\ command[s].stage = "selecting" /\ command'[s].stage = "idle"
           /\ call[s].stage \in {"done", "refused"}
        \/ /\ command[s].stage = "manual" /\ command'[s].stage = "idle"
           /\ apply[s].stage \in {"applied", "refused"}
    <3>1. command[s].stage = "deploying" => ApplyLeft(apply[s].stage) \in Nat \ {0}
      BY <1>1, Types DEF InStep, Deployment!Call
    <3> QED BY <1>5, <3>1 DEF Moves
  <2> QED BY <1>1, <1>2, <2>1 DEF StepsLeft
<1> QED BY <1>3, <1>4, <1>5 DEF Moves

\* Only a step of the server itself, or the start of a command, touches it.
LEMMA OthersKeep ==
  ASSUME TypeOK, NEW s \in Server, [Next]_vars
  PROVE  \/ Handle(s)
         \/ Untouched(s)
         \/ \E b \in Build : Activate(s, b) \/ ServerApply(s, b)
<1>1. ASSUME NEW t \in Server \ {s}, NEW b \in Build, Activate(t, b) \/ ServerApply(t, b)
      PROVE  Untouched(s)
  <2>1. /\ call' = call
        /\ \E c \in Command : command' = [command EXCEPT ![t] = c]
        /\ apply' = apply \/ \E c : apply' = [apply EXCEPT ![t] = c]
    BY <1>1 DEF Activate, ServerApply, client, deployment, Run, Command, Deployment!BeginApply
  <2> QED BY <2>1, Types DEF Untouched
<1>2. ASSUME NEW t \in Server \ {s}, Handle(t) PROVE Untouched(s)
  BY <1>2, HandleMoves
<1>3. CASE \/ \E b \in Build : RecordBuild(b)
           \/ \E b \in Tamperable : TamperSource(b)
           \/ \E r \in Editable, row \in HandRow : EditRow(r, row)
           \/ UNCHANGED vars
  BY <1>3 DEF RecordBuild, Deployment!RecordBuild, TamperSource, Client!Tamper, EditRow,
     Deployment!Edit, client, deployment, vars, Untouched
<1> QED BY <1>1, <1>2, <1>3 DEF Next

\* A command starts on a server whose handlers are idle, for a recorded build.
LEMMA CommandStarts ==
  ASSUME IInv, NEW s \in Server, InStep(s), NEW b \in Build, Activate(s, b) \/ ServerApply(s, b)
  PROVE  command[s].stage = "idle" /\ InStep(s)'
<1>1. /\ command \in [Server -> Command] /\ apply \in [Server -> Deployment!Call]
  BY Types DEF IInv
<1>2. CASE Activate(s, b)
  <2> DEFINE k == [stage |-> IF b \in Managed /\ serverState[b] = "STAGED"
                             THEN "deploy" ELSE "select", build |-> b]
  <2>1. /\ command[s].stage = "idle" /\ command' = [command EXCEPT ![s] = k]
        /\ apply' = apply /\ call' = call /\ state' = state /\ state[b] # "NONE"
    BY <1>2 DEF Activate, Run, deployment, client, Deployment!Inspected
  <2>2. k.stage \in {"deploy", "select"} /\ k.build = b
    OBVIOUS
  <2> HIDE DEF k
  <2>3. command'[s] = k
    BY <1>1, <2>1
  <2> QED BY <2>1, <2>2, <2>3 DEF InStep
<1>3. CASE ServerApply(s, b)
  <2>1. /\ command[s].stage = "idle"
        /\ command' = [command EXCEPT ![s] = [stage |-> "manual", build |-> b]]
        /\ call' = call /\ Deployment!BeginApply(s, b)
    BY <1>3 DEF ServerApply, Run, client
  <2>2. PICK c \in Deployment!Call : apply' = [apply EXCEPT ![s] = c] /\ c.stage # "idle"
    BY <2>1, BeginApplyStep DEF IInv
  <2>3. command'[s].stage = "manual" /\ command'[s].build = b /\ apply'[s] = c
    BY <1>1, <2>1, <2>2
  <2>4. state[b] = "STAGED" /\ state' = state
    BY <2>1 DEF Deployment!BeginApply, Deployment!registry
  <2> QED BY <2>1, <2>2, <2>3, <2>4 DEF InStep
<1> QED BY <1>2, <1>3

\* A recorded build stays recorded.
LEMMA RecordsStay ==
  ASSUME IInv, [Next]_vars, NEW b \in Build, state[b] # "NONE"
  PROVE  state'[b] # "NONE"
<1>1. TypeOK /\ state \in [Build -> {"NONE", "STAGED", "ACTIVE", "SUPERSEDED"}]
  BY Types DEF IInv
<1>2. ASSUME NEW s \in Server, Handle(s) PROVE state'[b] # "NONE"
  <2>1. state' = state \/ state' = Client!Selected(call[s].build)
    BY <1>2, HandledState
  <2> QED BY <1>1, <2>1, SameBuilds DEF Client!Selected
<1>3. ASSUME NEW s \in Server, NEW c \in Build, Activate(s, c) \/ ServerApply(s, c)
      PROVE  state'[b] # "NONE"
  BY <1>3 DEF Activate, ServerApply
<1>4. ASSUME NEW c \in Build, RecordBuild(c) PROVE state'[b] # "NONE"
  BY <1>1, <1>4 DEF RecordBuild, Deployment!RecordBuild
<1>5. CASE \/ \E c \in Tamperable : TamperSource(c)
           \/ \E r \in Editable, row \in HandRow : EditRow(r, row)
           \/ UNCHANGED vars
  BY <1>5 DEF TamperSource, Client!Tamper, EditRow, Deployment!Edit, Deployment!registry, vars
<1> QED BY <1>2, <1>3, <1>4, <1>5 DEF Next

LEMMA InStepStays ==
  ASSUME IInv, CommandsInStep, [Next]_vars
  PROVE  CommandsInStep'
<1> SUFFICES ASSUME NEW s \in Server PROVE InStep(s)'
  BY DEF CommandsInStep
<1>1. /\ TypeOK /\ InStep(s) /\ Agree(command[s], apply[s], call[s], Applied, Offered)
  BY DEF IInv, CommandsInStep, CommandsOK
<1>2. CASE Untouched(s)
  <2>1. command[s].stage # "idle" => command[s].build \in Build
    BY <1>1 DEF Agree
  <2> QED BY <1>1, <1>2, <2>1, RecordsStay DEF InStep, Untouched
<1>3. CASE Handle(s)
  <2>1. Moves(s)
    BY <1>1, <1>3, HandleMoves
  <2>2. ASSUME command'[s].stage # "idle"
        PROVE  state'[command'[s].build] # "NONE"
    <3>1. command[s].stage # "idle"
          /\ command'[s].build = command[s].build
      BY <1>1, <2>1, <2>2 DEF Moves, InStep
    <3>2. command[s].build \in Build
      BY <1>1, <3>1 DEF Agree
    <3>3. state[command[s].build] # "NONE"
      BY <1>1, <3>1 DEF InStep
    <3> QED BY <3>1, <3>2, <3>3, RecordsStay
  <2>3. /\ apply'[s].stage # "idle" <=> command'[s].stage \in {"deploying", "manual"}
        /\ call'[s].stage # "idle" <=> command'[s].stage = "selecting"
    BY <1>1, <2>1 DEF Moves, InStep
  <2> QED BY <2>2, <2>3 DEF InStep
<1> QED BY <1>1, <1>2, <1>3, OthersKeep, CommandStarts

LEMMA StagesInvariance == Spec => [](IInv /\ CommandsInStep)
<1>1. Init => CommandsInStep
  BY DEF Init, Deployment!Init, CommandsInStep, InStep, NoCommand, Deployment!NoCall,
         Client!NoCall
<1>2. IInv /\ CommandsInStep /\ [Next]_vars => CommandsInStep'
  BY InStepStays
<1> QED BY <1>1, <1>2, Invariance, PTL DEF Spec

\* At every stage of a command there is a step of its own to take: the handler
\* it has called is busy, or what it is about to call is free.
THEOREM CommandsStayInStep == Spec => []CommandsInStep
BY StagesInvariance, PTL

\* Every step of a command brings it closer to its end, and nothing prolongs it:
\* a command takes at most twelve steps after the one that starts it.
THEOREM CommandsAlwaysGetOn == Spec => CommandsGetOn
<1> DEFINE A == \A s \in Server :
                  /\ Handle(s) => StepsLeft(s)' < StepsLeft(s)
                  /\ command[s].stage # "idle" => StepsLeft(s)' <= StepsLeft(s)
<1>1. ASSUME IInv, CommandsInStep, [Next]_vars, NEW s \in Server
      PROVE  /\ Handle(s) => StepsLeft(s)' < StepsLeft(s)
             /\ command[s].stage # "idle" => StepsLeft(s)' <= StepsLeft(s)
  <2>1. /\ TypeOK /\ InStep(s) /\ InStep(s)'
    BY <1>1, InStepStays DEF IInv, CommandsInStep
  <2>2. StepsLeft(s) \in Nat
    BY <2>1, StepsCounted
  <2>3. Handle(s) => StepsLeft(s)' \in Nat /\ StepsLeft(s)' < StepsLeft(s)
    BY <2>1, HandleMoves, MovesGetOn
  <2>4. Untouched(s) => StepsLeft(s)' = StepsLeft(s)
    BY DEF Untouched, StepsLeft
  <2>5. (\E b \in Build : Activate(s, b) \/ ServerApply(s, b)) => command[s].stage = "idle"
    BY DEF Activate, ServerApply
  <2> QED BY <1>1, <2>1, <2>2, <2>3, <2>4, <2>5, OthersKeep
<1>2. IInv /\ CommandsInStep /\ [Next]_vars => [A]_vars
  BY <1>1
<1> QED BY <1>2, StagesInvariance, PTL DEF Spec, CommandsGetOn
=============================================================================
