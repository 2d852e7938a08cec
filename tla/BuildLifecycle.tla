--------------------------- MODULE BuildLifecycle ---------------------------
(***************************************************************************)
(* Client activation: ContentBuildRegistry::ActivateBuild with             *)
(* ContentBuildPublisher::Publish, as several worldservers run them        *)
(* against one world database, one output directory and one publish        *)
(* directory.                                                              *)
(*                                                                         *)
(* An activation reads the build's record, copies the artifact through a   *)
(* private temporary file to its published name, and then selects the      *)
(* build in one transaction that it reads back.  Files are seen through    *)
(* their SHA256: "good" is the content the build was recorded with, "bad"  *)
(* any other content, "none" no file.  A file may change at any moment it  *)
(* is administered or copied; a SHA256 is taken in one step.               *)
(***************************************************************************)
EXTENDS Naturals, FiniteSets

CONSTANTS
  Server,      \* worldserver processes, one activation each (lifecycleMutex)
  LastBuild,   \* builds are numbered 1 .. LastBuild
  Tamperable,  \* builds whose file in OutputDirectory may be replaced
  Corruptible, \* builds whose published file may be damaged or deleted
  Removable    \* builds whose record may be deleted by hand

Build == 1 .. LastBuild

ASSUME LifecycleAssumption ==
  /\ LastBuild \in Nat
  /\ Tamperable \cup Corruptible \cup Removable \subseteq Build

VARIABLES
  state,      \* content_manager_build.state, "NONE" when there is no record
  source,     \* the artifact in OutputDirectory
  published,  \* the artifact in PublishDirectory
  call        \* the ActivateBuild call of each server

vars == <<state, source, published, call>>

BuildState == {"NONE", "STAGED", "ACTIVE", "SUPERSEDED"}
File == {"none", "bad", "good"}
Stage == {"idle", "read", "copying", "copied", "placed", "published", "switched",
          "done", "refused"}
Call == [stage : Stage, build : Build \cup {0}, seen : BuildState,
         temporary : File]

NoCall == [stage |-> "idle", build |-> 0, seen |-> "NONE", temporary |-> "none"]

\* PublishDirectory may hold files of an earlier installation.
Init ==
  /\ state = [b \in Build |-> "NONE"]
  /\ source = [b \in Build |-> "good"]
  /\ published \in [Build -> {"none", "bad"}]
  /\ call = [s \in Server |-> NoCall]

Active == {b \in Build : state[b] = "ACTIVE"}
Busy(s) == call[s].stage \notin {"idle", "done", "refused"}

Advance(s, stage) == call' = [call EXCEPT ![s].stage = stage]

-----------------------------------------------------------------------------
(* The handler.                                                            *)

\* The record is read once; the state it shows may be stale when used.
Begin(s, b) ==
  /\ call[s].stage = "idle"
  /\ state[b] # "NONE"
  /\ call' = [call EXCEPT ![s] = [NoCall EXCEPT !.stage = "read", !.build = b,
                                                !.seen = state[b]]]
  /\ UNCHANGED <<state, source, published>>

\* Mutant: a published file is reused whatever it holds.
ReuseUnverified(s) ==
  LET b == call[s].build
  IN  /\ call[s].stage = "read"
      /\ source[b] = "good"
      /\ published[b] # "none"
      /\ Advance(s, "published")
      /\ UNCHANGED <<state, source, published>>

\* A published file that matches is reused.
Reuse(s) ==
  LET b == call[s].build
  IN  /\ call[s].stage = "read"
      /\ source[b] = "good"
      /\ published[b] = "good"
      /\ Advance(s, "published")
      /\ UNCHANGED <<state, source, published>>

\* Any other is left alone while a private copy is made ...
Reserve(s) ==
  LET b == call[s].build
  IN  /\ call[s].stage = "read"
      /\ source[b] = "good"
      /\ published[b] # "good"
      /\ call' = [call EXCEPT ![s].stage = "copying", ![s].temporary = "bad"]
      /\ UNCHANGED <<state, source, published>>

\* ... of whatever the source holds by then.
Copy(s) ==
  /\ call[s].stage = "copying"
  /\ call' = [call EXCEPT ![s].stage = "copied", ![s].temporary = source[call[s].build]]
  /\ UNCHANGED <<state, source, published>>

\* Mutant: the copy is renamed without being verified.
PlaceUnverified(s) ==
  /\ call[s].stage = "copied"
  /\ published' = [published EXCEPT ![call[s].build] = call[s].temporary]
  /\ call' = [call EXCEPT ![s].stage = "placed", ![s].temporary = "none"]
  /\ UNCHANGED <<state, source>>

\* The verified copy is renamed over the published name in one step.
Place(s) ==
  /\ call[s].stage = "copied"
  /\ call[s].temporary = "good"
  /\ published' = [published EXCEPT ![call[s].build] = "good"]
  /\ call' = [call EXCEPT ![s].stage = "placed", ![s].temporary = "none"]
  /\ UNCHANGED <<state, source>>

\* The published file is verified once more.
Check(s) ==
  /\ call[s].stage = "placed"
  /\ published[call[s].build] = "good"
  /\ Advance(s, "published")
  /\ UNCHANGED <<state, source, published>>

\* A build that was ACTIVE when its record was read needs no transaction.
AlreadyActive(s) ==
  /\ call[s].stage = "published"
  /\ call[s].seen = "ACTIVE"
  /\ Advance(s, "done")
  /\ UNCHANGED <<state, source, published>>

\* Mutants of the transaction: it demotes whether or not the target is still
\* there; it retires builds into a state of no meaning.
SelectedDemotesAnyway(b) ==
  [c \in Build |-> IF c = b /\ state[b] # "NONE" THEN "ACTIVE"
                   ELSE IF state[c] = "ACTIVE" THEN "SUPERSEDED" ELSE state[c]]
SelectedRetires(b) ==
  [c \in Build |-> IF c = b THEN "ACTIVE"
                   ELSE IF state[c] = "ACTIVE" THEN "RETIRED" ELSE state[c]]

\* Both updates are joined to the target's record: without it, neither does
\* anything.
Selected(b) ==
  IF state[b] = "NONE" THEN state
  ELSE [c \in Build |-> IF c = b THEN "ACTIVE"
                        ELSE IF state[c] = "ACTIVE" THEN "SUPERSEDED" ELSE state[c]]

Switch(s) ==
  /\ call[s].stage = "published"
  /\ call[s].seen # "ACTIVE"
  /\ state' = Selected(call[s].build)
  /\ Advance(s, "switched")
  /\ UNCHANGED <<source, published>>

\* DirectCommitTransaction does not report a lost transaction ...
LoseSwitch(s) ==
  /\ call[s].stage = "published"
  /\ call[s].seen # "ACTIVE"
  /\ Advance(s, "switched")
  /\ UNCHANGED <<state, source, published>>

\* ... so the one ACTIVE build is read back.
Confirm(s) ==
  /\ call[s].stage = "switched"
  /\ Active = {call[s].build}
  /\ Advance(s, "done")
  /\ UNCHANGED <<state, source, published>>

\* A check that fails, an exception, or a crash.  The temporary file is
\* private to the attempt and takes nothing published with it.
Refuse(s) ==
  /\ Busy(s)
  /\ call' = [call EXCEPT ![s].stage = "refused", ![s].temporary = "none"]
  /\ UNCHANGED <<state, source, published>>

\* The handler reports to its caller.
Return(s) ==
  /\ call[s].stage \in {"done", "refused"}
  /\ call' = [call EXCEPT ![s] = NoCall]
  /\ UNCHANGED <<state, source, published>>

-----------------------------------------------------------------------------
(* Builds and administrators.                                              *)

\* `.content build` records builds as STAGED, in order of their numbers.
Record(b) ==
  /\ state[b] = "NONE"
  /\ \A c \in Build : c < b => state[c] # "NONE" \/ c \in Removable
  /\ \A c \in Build : c > b => state[c] = "NONE"
  /\ state' = [state EXCEPT ![b] = "STAGED"]
  /\ UNCHANGED <<source, published, call>>

\* A record other than the selected one is deleted by hand.
Remove(b) ==
  /\ state[b] \in {"STAGED", "SUPERSEDED"}
  /\ state' = [state EXCEPT ![b] = "NONE"]
  /\ UNCHANGED <<source, published, call>>

Tamper(b) ==
  /\ source' = [source EXCEPT ![b] = IF @ = "good" THEN "bad" ELSE "good"]
  /\ UNCHANGED <<state, published, call>>

Corrupt(b, file) ==
  /\ published[b] # file
  /\ published' = [published EXCEPT ![b] = file]
  /\ UNCHANGED <<state, source, call>>

Step(s) ==
  \/ \E b \in Build : Begin(s, b)
  \/ Reuse(s)
  \/ Reserve(s)
  \/ Copy(s)
  \/ Place(s)
  \/ Check(s)
  \/ AlreadyActive(s)
  \/ Switch(s)
  \/ LoseSwitch(s)
  \/ Confirm(s)
  \/ Refuse(s)
  \/ Return(s)

Next ==
  \/ \E s \in Server : Step(s)
  \/ \E b \in Build : Record(b)
  \/ \E b \in Removable : Remove(b)
  \/ \E b \in Tamperable : Tamper(b)
  \/ \E b \in Corruptible, file \in {"none", "bad"} : Corrupt(b, file)

Spec == Init /\ [][Next]_vars

-----------------------------------------------------------------------------
(* What has to hold.                                                       *)

\* Every variable holds what its column, directory or process can hold.
TypeOK ==
  /\ state \in [Build -> BuildState]
  /\ source \in [Build -> File]
  /\ published \in [Build -> File]
  /\ call \in [Server -> Call]

\* There is one active selection per world database, however many servers
\* activate builds at the same time.
OneActive == \A b, c \in Active : b = c

\* The selected build's published file is the recorded artifact and stays it,
\* although the source may be replaced and another server may be publishing
\* the same name: activation publishes first, and only ever renames a copy
\* it verified.
ActiveIsPublished == \A b \in Active \ Corruptible : published[b] = "good"

\* Once a build was selected, exactly one is: activations of several servers
\* never leave two selections, nor none, not even when the record of a target
\* disappears while it publishes.
SelectionEndures == [][Active # {} => \E b \in Build : Active' = {b}]_vars

\* A successful activation, also of a build that was active already, leaves
\* the recorded artifact published: a missing or damaged copy is repaired.
SuccessIsPublished ==
  \A s \in Server :
    call[s].stage = "done" /\ call[s].build \notin Corruptible
      => published[call[s].build] = "good"
=============================================================================
