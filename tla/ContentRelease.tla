--------------------------- MODULE ContentRelease ---------------------------
(***************************************************************************)
(* What `.content activate` promises: one build at a time is selected for  *)
(* clients, and only a build whose server content has been applied and     *)
(* whose artifact is on offer to them.                                     *)
(*                                                                         *)
(* ContentActivation, where checks, apply, publication and selection are   *)
(* separate steps of several servers, implements this specification.       *)
(***************************************************************************)
CONSTANTS
  Build,
  Managed,    \* builds that have content for the server
  None

VARIABLES
  selected,   \* the build clients are given, or None
  applied,    \* builds whose server content has been applied
  offered     \* builds whose artifact is published as recorded

vars == <<selected, applied, offered>>

Init ==
  /\ selected = None
  /\ applied = {}
  /\ offered = {}

Apply(b) ==
  /\ applied' = applied \cup {b}
  /\ UNCHANGED <<selected, offered>>

Publish(b) ==
  /\ offered' = offered \cup {b}
  /\ UNCHANGED <<selected, applied>>

Select(b) ==
  /\ b \in offered
  /\ b \in Managed => b \in applied
  /\ selected' = b
  /\ UNCHANGED <<applied, offered>>

Next == \E b \in Build : Apply(b) \/ Publish(b) \/ Select(b)

Spec == Init /\ [][Next]_vars
=============================================================================
