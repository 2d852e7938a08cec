-------------------------- MODULE ContentCapability --------------------------
(***************************************************************************)
(* ContentCapabilityProvider: other modules of a worldserver ask which ID  *)
(* a symbol of an activated package has, while servers apply and activate  *)
(* builds (ContentActivation).                                             *)
(*                                                                         *)
(* A lookup reads the ACTIVE build first, then inspects that build and the *)
(* leases, and holds no lock in between: the build may be superseded, and  *)
(* its rows applied again by a later one, before it answers.  The checks   *)
(* against what the worldserver loaded at its start are left out; they can *)
(* only refuse an answer.                                                  *)
(***************************************************************************)
EXTENDS ContentActivation

VARIABLE resolving   \* the build a lookup has read as ACTIVE, 0 between lookups

capabilityVars == <<vars, resolving>>

CapabilityInit == Init /\ resolving = 0

\* Mutant: the build applied last is taken for the active one.
CurrentApplied(b) == serverState[b] = "APPLIED"

\* GetActiveBuild: the one build in state ACTIVE.
Current(b) == Client!Active = {b}

ResolveBegin(b) ==
  /\ resolving = 0
  /\ Current(b)
  /\ resolving' = b
  /\ UNCHANGED vars

\* ResolveResource answers with the leased value: the build is intact and
\* applied, declares the resource, and the lease is held.
ResolveReady(r) ==
  /\ resolving # 0
  /\ source[resolving] = "good"
  /\ Deployment!Inspected(resolving)
  /\ serverState[resolving] = "APPLIED"
  /\ r \in DOMAIN Bundle[resolving]
  /\ lease[r] = Bundle[resolving][r].package
  /\ resolving' = 0
  /\ UNCHANGED vars

\* Any of it missing, the answer is Inactive or Invalid.
ResolveRefuse ==
  /\ resolving # 0
  /\ resolving' = 0
  /\ UNCHANGED vars

Resolve ==
  \/ \E b \in Build : ResolveBegin(b)
  \/ \E r \in Resource : ResolveReady(r)
  \/ ResolveRefuse

CapabilityNext == (Next /\ UNCHANGED resolving) \/ Resolve

\* Commands run to their end: no step of a handler waits for anybody, and the
\* calls it makes return or throw.  Nobody has to start a command or a lookup,
\* edit a row or replace a file.
CapabilitySpec ==
  /\ CapabilityInit
  /\ [][CapabilityNext]_capabilityVars
  /\ \A s \in Server : WF_capabilityVars(Handle(s) /\ UNCHANGED resolving)

-----------------------------------------------------------------------------
(* What has to hold.                                                       *)

\* A symbol is resolved only for a build that has been handed to clients and
\* whose rows have been applied, also when another one was selected or the
\* resource was applied again after the lookup read the active build: STAGED
\* artifacts and leases alone never provide anything.
AnswersAreReleased ==
  [][\A r \in Resource : ResolveReady(r) =>
       /\ state[resolving] \in {"ACTIVE", "SUPERSEDED"}
       /\ published[resolving] = "good"
       /\ owner[r] # None]_capabilityVars

\* A command ends: whichever of the handlers it calls refuses, its caller takes
\* the refusal.
CommandEnds(s) == command[s].stage # "idle" ~> command[s].stage = "idle"
=============================================================================
