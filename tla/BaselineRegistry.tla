-------------------------- MODULE BaselineRegistry --------------------------
(***************************************************************************)
(* The accepted identity of one stock DBC table: Inspect, Accept, Review   *)
(* and Approve of ContentBaselineRegistry, as builds and the commands      *)
(* `.content dbc review` and `.content dbc approve` call them on several   *)
(* worldservers.                                                           *)
(*                                                                         *)
(* The first validated build registers the file it finds.  After that only *)
(* a numbered review, approved while what it reviewed against is still     *)
(* accepted, replaces it.  A file is seen through its identity, the SHA256 *)
(* and descriptor version that every check compares together.              *)
(***************************************************************************)
EXTENDS Naturals

CONSTANTS
  Server,       \* worldserver processes, one call each (mutex writes)
  Source,       \* stock files: BaselineDbcDirectory/<table>.dbc
  SourceOf,     \* the file each server is configured with
  PinOf,        \* the optional SHA256 pin of its configuration, or None
  File,         \* file identities
  ReviewId,     \* content_manager_baseline_review.review_id
  MaxRevision,  \* bound on content_manager_baseline.revision
  None

VARIABLES
  accepted,  \* content_manager_baseline: revision, 0 without a row, and file
  history,   \* content_manager_baseline_history: revision -> file, or None
  reviews,   \* content_manager_baseline_review: id -> review, or None
  leased,    \* baseline_sha256 of the rows of content_manager_allocation
  disk,      \* the stock files
  call       \* the call each server runs

vars == <<accepted, history, reviews, leased, disk, call>>
registry == <<accepted, history, reviews, leased>>

Revision == 1 .. MaxRevision
Review == [file : File, source : Source, revision : Revision, expected : File,
           approved : BOOLEAN]

ASSUME BaselineAssumption ==
  /\ SourceOf \in [Server -> Source]
  /\ PinOf \in [Server -> File \cup {None}]
  /\ MaxRevision \in Nat
  /\ None \notin File \cup ReviewId \cup Review

Command == {"none", "accept", "review", "approve"}
Stage == {"idle", "inspected", "checked", "submitted", "done"}
Call == [stage : Stage, command : Command, file : File \cup {None},
         review : ReviewId \cup {None}, revision : {0} \cup Revision,
         expected : File \cup {None}]

NoCall == [stage |-> "idle", command |-> "none", file |-> None, review |-> None,
           revision |-> 0, expected |-> None]

\* Leases may be older than the registry.
Init ==
  /\ accepted = [revision |-> 0, file |-> None]
  /\ history = [n \in Revision |-> None]
  /\ reviews = [r \in ReviewId |-> None]
  /\ leased \in SUBSET File
  /\ disk \in [Source -> File]
  /\ call = [s \in Server |-> NoCall]

At(s, command, stage) == call[s].command = command /\ call[s].stage = stage
Proceed(s, stage) == call' = [call EXCEPT ![s].stage = stage]

Registered == accepted.revision # 0
PinAgrees(s) == PinOf[s] \in {None, call[s].file}

-----------------------------------------------------------------------------
(* Every command begins with the file as it is on disk then.               *)

Inspect(s, command, r) ==
  /\ call[s].stage = "idle"
  /\ command = "approve" <=> r # None
  /\ call' = [call EXCEPT ![s] = [NoCall EXCEPT !.stage = "inspected", !.command = command,
                                                !.file = disk[SourceOf[s]], !.review = r]]
  /\ UNCHANGED <<registry, disk>>

-----------------------------------------------------------------------------
(* Accept: a build pins its baseline.                                      *)

AcceptKnown(s) ==
  /\ At(s, "accept", "inspected")
  /\ PinAgrees(s)
  /\ Registered
  /\ accepted.file = call[s].file
  /\ Proceed(s, "done")
  /\ UNCHANGED <<registry, disk>>

AcceptFirst(s) ==
  /\ At(s, "accept", "inspected")
  /\ PinAgrees(s)
  /\ ~Registered
  /\ Proceed(s, "checked")
  /\ UNCHANGED <<registry, disk>>

\* Mutant: the first file is registered whatever was leased before.
LegacyUnguarded(file) == TRUE

\* Existing leases are evidence of an established baseline.
LegacyAgrees(file) == leased \subseteq {file}

\* The keys of both tables; the row lock serializes the transactions.
Register(s) ==
  /\ At(s, "accept", "checked")
  /\ LegacyAgrees(call[s].file)
  /\ ~Registered
  /\ 1 \in Revision /\ history[1] = None
  /\ accepted' = [revision |-> 1, file |-> call[s].file]
  /\ history' = [history EXCEPT ![1] = call[s].file]
  /\ Proceed(s, "submitted")
  /\ UNCHANGED <<reviews, leased, disk>>

\* DirectCommitTransaction reports nothing: the registry is read back.
AcceptVerify(s) ==
  /\ At(s, "accept", "submitted")
  /\ Registered
  /\ accepted.file = call[s].file
  /\ Proceed(s, "done")
  /\ UNCHANGED <<registry, disk>>

\* The build commits leases pinned to that file, under the guard that it is
\* still the accepted one (see BuildAllocation).
CommitLeases(s) ==
  /\ At(s, "accept", "done")
  /\ Registered
  /\ accepted.file = call[s].file
  /\ leased' = leased \cup {call[s].file}
  /\ call' = [call EXCEPT ![s] = NoCall]
  /\ UNCHANGED <<accepted, history, reviews, disk>>

-----------------------------------------------------------------------------
(* Review: the candidate, and the accepted identity it would replace.      *)

\* Mutant: a table that has no accepted file is reviewed too.
ReviewReadUnregistered(s) ==
  /\ At(s, "review", "inspected")
  /\ call' = [call EXCEPT ![s].stage = "checked", ![s].revision = accepted.revision,
                          ![s].expected = accepted.file]
  /\ UNCHANGED <<registry, disk>>

ReviewRead(s) ==
  /\ At(s, "review", "inspected")
  /\ Registered
  /\ call' = [call EXCEPT ![s].stage = "checked", ![s].revision = accepted.revision,
                          ![s].expected = accepted.file]
  /\ UNCHANGED <<registry, disk>>

\* The identity may have been replaced since it was read.
RecordReview(s, r) ==
  /\ At(s, "review", "checked")
  /\ reviews[r] = None
  /\ reviews' = [reviews EXCEPT ![r] =
       [file |-> call[s].file, source |-> SourceOf[s], revision |-> call[s].revision,
        expected |-> call[s].expected, approved |-> FALSE]]
  /\ call' = [call EXCEPT ![s] = NoCall]
  /\ UNCHANGED <<accepted, history, leased, disk>>

-----------------------------------------------------------------------------
(* Approve.                                                                *)

ApproveRead(s) ==
  LET r == call[s].review
  IN  /\ At(s, "approve", "inspected")
      /\ PinAgrees(s)
      /\ reviews[r] # None
      /\ ~reviews[r].approved
      /\ Proceed(s, "checked")
      /\ UNCHANGED <<registry, disk>>

\* Mutant: the predicate compares the expected file and not its revision.
ApprovableAgain(s, review) ==
  /\ review # None
  /\ review.file = call[s].file
  /\ review.source = SourceOf[s]
  /\ ~review.approved
  /\ review.expected = accepted.file

\* The predicate of the guard and of the update: the review is of this very
\* file and source, unused, and what it reviewed against is still accepted.
Approvable(s, review) ==
  /\ review # None
  /\ review.file = call[s].file
  /\ review.source = SourceOf[s]
  /\ ~review.approved
  /\ review.revision = accepted.revision
  /\ review.expected = accepted.file

ApproveTx(s) ==
  LET r == call[s].review
      next == accepted.revision + 1
  IN  /\ At(s, "approve", "checked")
      /\ Registered
      /\ Approvable(s, reviews[r])
      /\ next \in Revision /\ history[next] = None
      /\ accepted' = [revision |-> next, file |-> reviews[r].file]
      /\ history' = [history EXCEPT ![next] = reviews[r].file]
      /\ reviews' = [reviews EXCEPT ![r].approved = TRUE]
      /\ Proceed(s, "submitted")
      /\ UNCHANGED <<leased, disk>>

\* Mutant: the statement that marks the review is not part of the transaction.
RollbackMarksReview(s) ==
  /\ At(s, "accept", "checked") \/ At(s, "approve", "checked")
  /\ reviews' = IF At(s, "accept", "checked") THEN reviews
                ELSE [reviews EXCEPT ![call[s].review].approved = TRUE]
  /\ Proceed(s, "submitted")
  /\ UNCHANGED <<accepted, history, leased, disk>>

\* A guard, a duplicate key or a lost connection.
Rollback(s) ==
  /\ At(s, "accept", "checked") \/ At(s, "approve", "checked")
  /\ Proceed(s, "submitted")
  /\ UNCHANGED <<registry, disk>>

\* The read-back cannot tell whose approval of the review it sees.
ApproveVerify(s) ==
  LET r == call[s].review
  IN  /\ At(s, "approve", "submitted")
      /\ reviews[r].approved
      /\ accepted.revision = reviews[r].revision + 1
      /\ accepted.file = call[s].file
      /\ Proceed(s, "done")
      /\ UNCHANGED <<registry, disk>>

\* A refusal, an exception or a crash, or the call returns.
Finish(s) ==
  /\ call[s].stage # "idle"
  /\ call' = [call EXCEPT ![s] = NoCall]
  /\ UNCHANGED <<registry, disk>>

ReplaceFile(source, file) ==
  /\ disk[source] # file
  /\ disk' = [disk EXCEPT ![source] = file]
  /\ UNCHANGED <<registry, call>>

Step(s) ==
  \/ \E command \in Command \ {"none"}, r \in ReviewId \cup {None} : Inspect(s, command, r)
  \/ AcceptKnown(s)
  \/ AcceptFirst(s)
  \/ Register(s)
  \/ AcceptVerify(s)
  \/ CommitLeases(s)
  \/ ReviewRead(s)
  \/ \E r \in ReviewId : RecordReview(s, r)
  \/ ApproveRead(s)
  \/ ApproveTx(s)
  \/ Rollback(s)
  \/ ApproveVerify(s)
  \/ Finish(s)

Next ==
  \/ \E s \in Server : Step(s)
  \/ \E source \in Source, file \in File : ReplaceFile(source, file)

Spec == Init /\ [][Next]_vars

-----------------------------------------------------------------------------
(* What has to hold.                                                       *)

\* Every variable holds what its table, file or process can hold.
TypeOK ==
  /\ accepted \in [revision : {0} \cup Revision, file : File \cup {None}]
  /\ history \in [Revision -> File \cup {None}]
  /\ reviews \in [ReviewId -> Review \cup {None}]
  /\ leased \in SUBSET File
  /\ disk \in [Source -> File]
  /\ call \in [Server -> Call]

Accepted == {history[n] : n \in 1 .. accepted.revision}

\* Every lease is pinned to a file that is or was accepted, leases older than
\* the registry included: this is what later builds and applies demand of a
\* retained lease, and no step may leave one that can never be met.
LeasesHaveHistory == Registered => leased \subseteq Accepted

\* Stale reviews fail closed: every file accepted after the first was
\* reviewed as the successor of exactly the revision it replaced, also when
\* the same files come and go and several servers approve at once.
RevisionsAreReviewed ==
  \A n \in 2 .. accepted.revision :
    \E r \in ReviewId :
      /\ reviews[r] # None /\ reviews[r].approved
      /\ reviews[r].revision = n - 1
      /\ reviews[r].expected = history[n - 1]
      /\ reviews[r].file = history[n]

\* Reviews and revisions match one to one, although servers approve one review
\* or competing ones at once and none of them sees its transaction roll back: a
\* review counts as approved only with the revision that follows the one it was
\* made of, and shares it with no other review.
Spent(r) == reviews[r] # None /\ reviews[r].approved
ReviewsAreSpentOnce ==
  /\ \A r \in ReviewId : Spent(r) =>
       /\ reviews[r].revision < accepted.revision
       /\ history[reviews[r].revision] = reviews[r].expected
       /\ history[reviews[r].revision + 1] = reviews[r].file
  /\ \A q, r \in ReviewId :
       Spent(q) /\ Spent(r) /\ reviews[q].revision = reviews[r].revision => q = r
=============================================================================
