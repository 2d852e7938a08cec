---------------------- MODULE BaselineRegistry_proofs -----------------------
(***************************************************************************)
(* Proofs about BaselineRegistry for any servers, stock files, pins and    *)
(* numbers of reviews: type correctness, that every lease keeps a baseline *)
(* that was accepted, that stale reviews are never approved and that       *)
(* approved reviews and revisions match one to one.                        *)
(*                                                                         *)
(* The argument turns on HistoryIsDense: the history holds exactly the     *)
(* revisions up to the accepted one, and the last of them is the accepted  *)
(* file.  So a transaction adds a revision and disturbs no earlier one,    *)
(* and an approved review, which is never written again, keeps the         *)
(* revision it brought about.                                              *)
(***************************************************************************)
EXTENDS BaselineRegistry, TLAPS

\* The history is 1 .. accepted.revision and ends with the accepted file.
HistoryIsDense ==
  /\ \A n \in Revision : history[n] # None <=> n <= accepted.revision
  /\ Registered => history[accepted.revision] = accepted.file

\* What a call holds at each stage of its command.
CallOK(c) ==
  /\ c.stage # "idle" => c.file \in File
  /\ c.command = "approve" => c.review \in ReviewId
  /\ c.command = "approve" /\ c.stage \in {"checked", "submitted", "done"}
       => reviews[c.review] # None
  /\ c.command = "review" /\ c.stage = "checked"
       => c.revision \in Revision /\ c.expected \in File
CallsOK == \A s \in Server : CallOK(call[s])

IInv ==
  /\ TypeOK
  /\ HistoryIsDense
  /\ CallsOK
  /\ LeasesHaveHistory
  /\ RevisionsAreReviewed
  /\ ReviewsAreSpentOnce

-----------------------------------------------------------------------------
(* Facts about types and the registry.                                     *)

\* Facts of the types that the steps below rely on.
LEMMA Types ==
  ASSUME TypeOK, NEW s \in Server
  PROVE  /\ call[s] \in Call /\ SourceOf[s] \in Source
         /\ accepted.revision \in {0} \cup Revision /\ accepted.file \in File \cup {None}
         /\ accepted.revision \in Nat /\ Revision \subseteq Nat
         /\ \A r \in ReviewId : reviews[r] # None =>
              /\ reviews[r] \in Review /\ reviews[r].revision \in Nat
              /\ reviews[r].file \in File
  BY BaselineAssumption DEF TypeOK, Revision, Review

LEMMA InitIInv == Init => IInv
<1> SUFFICES ASSUME Init PROVE IInv
  OBVIOUS
<1>1. TypeOK
  BY DEF Init, TypeOK, Call, NoCall, Stage, Command
<1>2. HistoryIsDense
  BY BaselineAssumption DEF Init, HistoryIsDense, Registered, Revision
<1>3. CallsOK /\ ReviewsAreSpentOnce
  BY DEF Init, CallsOK, CallOK, ReviewsAreSpentOnce, Spent, NoCall
<1>4. LeasesHaveHistory /\ RevisionsAreReviewed
  BY DEF Init, LeasesHaveHistory, RevisionsAreReviewed, Registered
<1> QED BY <1>1, <1>2, <1>3, <1>4 DEF IInv

\* A registered file is a file.
LEMMA AcceptedIsFile ==
  ASSUME TypeOK, HistoryIsDense, Registered
  PROVE  /\ accepted.revision \in Revision /\ accepted.file \in File
         /\ accepted.file \in Accepted
<1>1. accepted.revision \in Revision
  BY DEF TypeOK, Registered
<1>2. accepted.revision <= accepted.revision
  BY <1>1, BaselineAssumption DEF Revision
<1>3. history[accepted.revision] # None /\ history[accepted.revision] = accepted.file
  BY <1>1, <1>2 DEF HistoryIsDense
<1>4. accepted.revision \in 1 .. accepted.revision
  BY <1>1, BaselineAssumption DEF Revision
<1> QED BY <1>1, <1>3, <1>4 DEF TypeOK, Accepted


-----------------------------------------------------------------------------
(* Every step keeps the invariant, conjunct by conjunct.                   *)

LEMMA TypeStep ==
  ASSUME IInv, NEW s \in Server, Step(s)
  PROVE  TypeOK'
<1> USE DEF At, Proceed, TypeOK, Call, registry
<1>0. TypeOK /\ call[s] \in Call /\ CallOK(call[s])
  BY DEF IInv, CallsOK
<1>1. ASSUME NEW command \in Command \ {"none"}, NEW r \in ReviewId \cup {None},
             Inspect(s, command, r)
      PROVE  TypeOK'
  BY <1>0, <1>1, Types DEF Inspect, NoCall, Stage, Command
<1>2. CASE AcceptKnown(s) \/ AcceptFirst(s) \/ AcceptVerify(s) \/ ApproveRead(s)
           \/ Rollback(s) \/ ApproveVerify(s)
  BY <1>0, <1>2 DEF AcceptKnown, AcceptFirst, AcceptVerify, ApproveRead, Rollback, ApproveVerify,
                    Stage
<1>3. CASE Register(s)
  BY <1>0, <1>3 DEF Register, Stage, CallOK
<1>4. CASE CommitLeases(s)
  BY <1>0, <1>4 DEF CommitLeases, CallOK, NoCall, Stage, Command
<1>5. CASE ReviewRead(s)
  BY <1>0, <1>5 DEF ReviewRead, Stage
<1>6. ASSUME NEW r \in ReviewId, RecordReview(s, r) PROVE TypeOK'
  <2>1. [file |-> call[s].file, source |-> SourceOf[s], revision |-> call[s].revision,
         expected |-> call[s].expected, approved |-> FALSE] \in Review
    BY <1>0, <1>6, Types DEF RecordReview, CallOK, Review
  <2> QED BY <1>0, <1>6, <2>1 DEF RecordReview, NoCall, Stage, Command
<1>7. CASE ApproveTx(s)
  <2> DEFINE r == call[s].review
  <2>1. r \in ReviewId /\ reviews[r] \in Review
    BY <1>0, <1>7, Types DEF ApproveTx, Approvable, CallOK
  <2>2. [reviews[r] EXCEPT !.approved = TRUE] \in Review
    BY <2>1 DEF Review
  <2>3. reviews' \in [ReviewId -> Review \cup {None}]
    BY <1>0, <1>7, <2>1, <2>2 DEF ApproveTx
  <2>4. reviews[r].file \in File
    BY <2>1 DEF Review
  <2> QED BY <1>0, <1>7, <2>3, <2>4 DEF ApproveTx, Stage
<1>8. CASE Finish(s)
  BY <1>0, <1>8 DEF Finish, NoCall, Stage, Command
<1> QED BY <1>1, <1>2, <1>3, <1>4, <1>5, <1>6, <1>7, <1>8 DEF Step

\* A recorded review is kept, but for its approval.
LEMMA ReviewsEndure ==
  ASSUME IInv, NEW s \in Server, Step(s), NEW r \in ReviewId, reviews[r] # None
  PROVE  /\ reviews'[r] # None
         /\ reviews'[r].revision = reviews[r].revision
         /\ reviews'[r].expected = reviews[r].expected
         /\ reviews'[r].file = reviews[r].file
         /\ reviews[r].approved => reviews'[r].approved
<1>1. TypeOK /\ reviews[r] \in Review /\ reviews \in [ReviewId -> Review \cup {None}]
  BY Types DEF IInv, TypeOK
<1>2. CASE UNCHANGED reviews
  BY <1>2
<1>3. ASSUME NEW q \in ReviewId, RecordReview(s, q) PROVE reviews'[r] = reviews[r]
  BY <1>1, <1>3 DEF RecordReview
<1>4. CASE ApproveTx(s)
  <2>1. reviews' = [reviews EXCEPT ![call[s].review].approved = TRUE]
    BY <1>4 DEF ApproveTx
  <2>2. CASE r = call[s].review
    <3>1. reviews'[r] = [reviews[r] EXCEPT !.approved = TRUE]
      BY <1>1, <2>1, <2>2
    <3>2. reviews'[r] \in Review
      BY <1>1, <3>1 DEF Review
    <3> QED BY <1>1, <3>1, <3>2, BaselineAssumption DEF Review
  <2>3. CASE r # call[s].review
    BY <1>1, <2>1, <2>3
  <2> QED BY <2>2, <2>3
<1> QED BY <1>2, <1>3, <1>4 DEF Step, Inspect, AcceptKnown, AcceptFirst, Register, AcceptVerify,
           CommitLeases, ReviewRead, ApproveRead, Rollback, ApproveVerify, Finish, registry

LEMMA CallsStep ==
  ASSUME IInv, NEW s \in Server, Step(s)
  PROVE  CallsOK'
<1> USE DEF At, Proceed
<1>0. /\ TypeOK /\ CallsOK /\ CallOK(call[s]) /\ call[s] \in Call
      /\ call \in [Server -> Call]
  BY DEF IInv, CallsOK, TypeOK
<1>1. ASSUME NEW t \in Server, call'[t] = call[t] PROVE CallOK(call[t])'
  <2>1. CallOK(call[t]) /\ call[t] \in Call
    BY <1>0 DEF CallsOK
  <2> QED BY <1>1, <2>1, ReviewsEndure DEF CallOK
<1>2. \A t \in Server : t # s => call'[t] = call[t]
  BY <1>0 DEF Step, Inspect, AcceptKnown, AcceptFirst, Register, AcceptVerify, CommitLeases,
              ReviewRead, RecordReview, ApproveRead, ApproveTx, Rollback, ApproveVerify, Finish
<1>3. CallOK(call[s])'
  <2>1. ASSUME call'[s] = NoCall PROVE CallOK(call[s])'
    BY <2>1 DEF CallOK, NoCall
  <2>2. ASSUME NEW command \in Command \ {"none"}, NEW r \in ReviewId \cup {None},
               Inspect(s, command, r)
        PROVE  CallOK(call[s])'
    <3>1. call'[s] = [NoCall EXCEPT !.stage = "inspected", !.command = command,
                                    !.file = disk[SourceOf[s]], !.review = r]
      BY <1>0, <2>2 DEF Inspect
    <3>2. disk[SourceOf[s]] \in File
      BY <1>0, Types DEF TypeOK
    <3>3. command = "approve" => r \in ReviewId
      BY <2>2 DEF Inspect
    <3> QED BY <3>1, <3>2, <3>3 DEF CallOK, NoCall
  <2>3. CASE AcceptKnown(s) \/ AcceptFirst(s) \/ AcceptVerify(s) \/ Register(s)
    BY <1>0, <2>3 DEF AcceptKnown, AcceptFirst, AcceptVerify, Register, CallOK, Call
  <2>4. CASE ReviewRead(s)
    BY <1>0, <2>4, AcceptedIsFile DEF ReviewRead, CallOK, Call, IInv
  <2>5. CASE ApproveRead(s)
    BY <1>0, <2>5 DEF ApproveRead, CallOK, Call, registry
  <2>6. CASE Rollback(s) \/ ApproveVerify(s) \/ ApproveTx(s)
    <3>1. /\ call' = [call EXCEPT ![s].stage = call'[s].stage]
          /\ call'[s].stage \in {"submitted", "done"}
          /\ call[s].stage \in {"checked", "submitted"}
          /\ call[s].command \in {"accept", "approve"}
      BY <1>0, <2>6 DEF Rollback, ApproveVerify, ApproveTx, Call
    <3>2. call[s].command = "approve" =>
            call[s].review \in ReviewId /\ reviews'[call[s].review] # None
      BY <1>0, <3>1, ReviewsEndure DEF CallOK
    <3> QED BY <1>0, <3>1, <3>2 DEF CallOK, Call
  <2>7. CASE CommitLeases(s) \/ Finish(s) \/ \E r \in ReviewId : RecordReview(s, r)
    BY <1>0, <2>1, <2>7 DEF CommitLeases, Finish, RecordReview
  <2> QED BY <2>2, <2>3, <2>4, <2>5, <2>6, <2>7 DEF Step
<1> QED BY <1>1, <1>2, <1>3 DEF CallsOK

\* What a transaction does to the accepted file and its history: nothing, or
\* it adds the next revision.
LEMMA RegistryStep ==
  ASSUME IInv, NEW s \in Server, Step(s)
  PROVE  \/ UNCHANGED <<accepted, history>>
         \/ Register(s) \/ ApproveTx(s)
  BY DEF Step, Inspect, AcceptKnown, AcceptFirst, AcceptVerify, CommitLeases, ReviewRead,
         RecordReview, ApproveRead, Rollback, ApproveVerify, Finish, registry

LEMMA RevisionAdded ==
  ASSUME IInv, NEW s \in Server, Register(s) \/ ApproveTx(s)
  PROVE  /\ accepted.revision \in Nat
         /\ accepted'.revision = accepted.revision + 1
         /\ accepted'.revision \in Revision
         /\ accepted'.file \in File
         /\ history' = [history EXCEPT ![accepted'.revision] = accepted'.file]
<1>1. TypeOK /\ CallOK(call[s]) /\ call[s] \in Call
  BY DEF IInv, CallsOK, TypeOK
<1>2. CASE Register(s)
  BY <1>1, <1>2, Types DEF Register, Registered, CallOK, At
<1>3. CASE ApproveTx(s)
  BY <1>1, <1>3, Types DEF ApproveTx, Approvable, CallOK, At
<1> QED BY <1>2, <1>3

LEMMA HistoryStep ==
  ASSUME IInv, NEW s \in Server, Step(s)
  PROVE  HistoryIsDense'
<1>1. TypeOK /\ HistoryIsDense
  BY DEF IInv
<1>2. CASE UNCHANGED <<accepted, history>>
  BY <1>1, <1>2 DEF HistoryIsDense, Registered
<1>3. CASE Register(s) \/ ApproveTx(s)
  <2> DEFINE m == accepted'.revision
  <2>1. /\ accepted.revision \in Nat /\ m = accepted.revision + 1 /\ m \in Revision
        /\ accepted'.file \in File /\ accepted'.file # None
        /\ history' = [history EXCEPT ![m] = accepted'.file]
        /\ history \in [Revision -> File \cup {None}]
    BY <1>1, <1>3, RevisionAdded, BaselineAssumption DEF TypeOK
  <2>2. ASSUME NEW n \in Revision PROVE history'[n] # None <=> n <= m
    BY <1>1, <2>1, BaselineAssumption DEF HistoryIsDense, Revision
  <2>3. history'[m] = accepted'.file
    BY <2>1
  <2> QED BY <2>2, <2>3 DEF HistoryIsDense, Registered
<1> QED BY <1>2, <1>3, RegistryStep

\* A step keeps every revision there was.
LEMMA RevisionsEndure ==
  ASSUME IInv, NEW s \in Server, Step(s)
  PROVE  /\ accepted.revision <= accepted'.revision
         /\ \A n \in 1 .. accepted.revision : history'[n] = history[n]
<1>1. TypeOK /\ accepted.revision \in Nat
  BY Types DEF IInv
<1>2. CASE UNCHANGED <<accepted, history>>
  BY <1>1, <1>2
<1>3. CASE Register(s) \/ ApproveTx(s)
  <2> DEFINE m == accepted'.revision
  <2>1. /\ m = accepted.revision + 1 /\ history' = [history EXCEPT ![m] = accepted'.file]
        /\ m \in Revision
    BY <1>3, RevisionAdded
  <2>2. history \in [Revision -> File \cup {None}]
    BY <1>1 DEF TypeOK
  <2> HIDE DEF m
  <2>3. ASSUME NEW n \in 1 .. accepted.revision PROVE history'[n] = history[n]
    <3>1. n # m /\ n \in Revision
      BY <1>1, <2>1, BaselineAssumption DEF Revision
    <3> QED BY <2>1, <2>2, <3>1
  <2> QED BY <1>1, <2>1, <2>3 DEF m
<1> QED BY <1>2, <1>3, RegistryStep

LEMMA LeasesStep ==
  ASSUME IInv, NEW s \in Server, Step(s)
  PROVE  LeasesHaveHistory'
<1>1. TypeOK /\ HistoryIsDense /\ LeasesHaveHistory /\ accepted.revision \in Nat
  BY Types DEF IInv
<1>2. CASE CommitLeases(s)
  <2>1. accepted.file \in Accepted
    BY <1>1, <1>2, AcceptedIsFile DEF CommitLeases
  <2> QED BY <1>1, <1>2, <2>1 DEF CommitLeases, LeasesHaveHistory, Accepted, Registered
<1>3. CASE Register(s)
  <2>1. accepted'.revision = 1 /\ history'[1] = call[s].file
    BY <1>1, <1>3 DEF Register, TypeOK
  <2>2. call[s].file \in Accepted'
    BY <2>1 DEF Accepted
  <2> QED BY <1>3, <2>2 DEF Register, LegacyAgrees, LeasesHaveHistory
<1>4. CASE UNCHANGED leased /\ ~Register(s)
  <2>1. Accepted \subseteq Accepted'
    <3>1. ASSUME NEW n \in 1 .. accepted.revision PROVE history[n] \in Accepted'
      <4>1. accepted'.revision \in Nat /\ n \in 1 .. accepted'.revision
        BY <1>1, RevisionsEndure, TypeStep, BaselineAssumption DEF TypeOK, Revision
      <4>2. history'[n] = history[n]
        BY RevisionsEndure
      <4> QED BY <4>1, <4>2 DEF Accepted
    <3> QED BY <3>1 DEF Accepted
  <2>2. Registered' => Registered
    BY <1>1, <1>4, RegistryStep DEF Registered, ApproveTx
  <2> QED BY <1>1, <1>4, <2>1, <2>2 DEF LeasesHaveHistory
<1> QED BY <1>2, <1>3, <1>4 DEF Step, Inspect, AcceptKnown, AcceptFirst, AcceptVerify, ReviewRead,
           RecordReview, ApproveRead, ApproveTx, Rollback, ApproveVerify, Finish, registry

LEMMA ReviewedStep ==
  ASSUME IInv, NEW s \in Server, Step(s)
  PROVE  RevisionsAreReviewed'
<1>1. TypeOK /\ HistoryIsDense /\ RevisionsAreReviewed /\ CallOK(call[s]) /\ accepted.revision \in Nat
  BY Types DEF IInv, CallsOK
<1>2. SUFFICES ASSUME NEW n \in 2 .. accepted'.revision
               PROVE  \E r \in ReviewId :
                        /\ reviews'[r] # None /\ reviews'[r].approved
                        /\ reviews'[r].revision = n - 1
                        /\ reviews'[r].expected = history'[n - 1]
                        /\ reviews'[r].file = history'[n]
  BY DEF RevisionsAreReviewed
<1>3. accepted'.revision \in Nat
  BY TypeStep, BaselineAssumption DEF TypeOK, Revision
<1>4. CASE n <= accepted.revision
  <2>1. n \in 2 .. accepted.revision /\ n - 1 \in 1 .. accepted.revision
    BY <1>1, <1>3, <1>4
  <2>2. history'[n] = history[n] /\ history'[n - 1] = history[n - 1]
    BY <2>1, RevisionsEndure
  <2>3. PICK r \in ReviewId :
          /\ reviews[r] # None /\ reviews[r].approved
          /\ reviews[r].revision = n - 1
          /\ reviews[r].expected = history[n - 1]
          /\ reviews[r].file = history[n]
    BY <1>1, <2>1 DEF RevisionsAreReviewed
  <2> QED BY <2>2, <2>3, ReviewsEndure
<1>5. CASE n > accepted.revision
  <2>1. ApproveTx(s)
    <3>1. Register(s) => accepted'.revision = 1
      BY DEF Register
    <3> QED BY <1>1, <1>3, <1>5, <3>1, RegistryStep
  <2> DEFINE r == call[s].review
  <2>2. /\ n = accepted.revision + 1 /\ accepted'.revision = n
        /\ history'[n] = accepted'.file
    BY <1>1, <1>3, <1>5, <2>1, RevisionAdded DEF TypeOK
  <2>3. Registered /\ history'[n - 1] = accepted.file
    <3>1. n - 1 \in 1 .. accepted.revision /\ n - 1 = accepted.revision
      BY <1>1, <1>3, <2>2
    <3> QED BY <1>1, <2>1, <3>1, RevisionsEndure DEF ApproveTx, HistoryIsDense
  <2>4. r \in ReviewId /\ reviews[r] # None /\ reviews[r] \in Review
    BY <1>1, <2>1, Types DEF ApproveTx, At, CallOK, Approvable
  <2>5. reviews'[r].approved
    BY <1>1, <2>1, <2>4 DEF ApproveTx, Review, TypeOK
  <2>6. reviews[r].revision = n - 1 /\ reviews[r].expected = accepted.file
        /\ reviews[r].file = accepted'.file
    BY <1>1, <2>1, <2>2 DEF ApproveTx, Approvable
  <2> QED BY <2>2, <2>3, <2>4, <2>5, <2>6, ReviewsEndure
<1> QED BY <1>1, <1>3, <1>4, <1>5

\* A review that a step marks as approved is the one its transaction guarded.
LEMMA SpentStep ==
  ASSUME IInv, NEW s \in Server, Step(s), NEW r \in ReviewId, Spent(r)'
  PROVE  /\ reviews[r] \in Review /\ reviews[r].revision \in Nat
         /\ reviews'[r].revision = reviews[r].revision
         /\ reviews'[r].expected = reviews[r].expected
         /\ reviews'[r].file = reviews[r].file
         /\ Spent(r) \/ (ApproveTx(s) /\ r = call[s].review)
<1>1. TypeOK /\ reviews \in [ReviewId -> Review \cup {None}]
  BY DEF IInv, TypeOK
<1>2. reviews[r] # None /\ (Spent(r) \/ (ApproveTx(s) /\ r = call[s].review))
  <2>1. CASE UNCHANGED reviews
    BY <2>1 DEF Spent
  <2>2. ASSUME NEW q \in ReviewId, RecordReview(s, q)
        PROVE  reviews'[r] = reviews[r]
    <3>1. reviews'[q].approved = FALSE
      BY <1>1, <2>2 DEF RecordReview
    <3>2. q # r
      BY <3>1 DEF Spent
    <3> QED BY <1>1, <2>2, <3>2 DEF RecordReview
  <2>3. CASE ApproveTx(s)
    <3>1. CASE r = call[s].review
      BY <2>3, <3>1 DEF ApproveTx, Approvable
    <3>2. CASE r # call[s].review
      BY <1>1, <2>3, <3>2 DEF ApproveTx, Spent
    <3> QED BY <2>3, <3>1, <3>2
  <2>4. UNCHANGED reviews \/ ApproveTx(s) \/ \E q \in ReviewId : RecordReview(s, q)
    BY DEF Step, Inspect, AcceptKnown, AcceptFirst, Register, AcceptVerify, CommitLeases, ReviewRead,
           ApproveRead, Rollback, ApproveVerify, Finish, registry
  <2> QED BY <2>1, <2>2, <2>3, <2>4 DEF Spent
<1> QED BY <1>1, <1>2, Types, ReviewsEndure

LEMMA OnceStep ==
  ASSUME IInv, NEW s \in Server, Step(s)
  PROVE  ReviewsAreSpentOnce'
<1>1. /\ TypeOK /\ HistoryIsDense /\ ReviewsAreSpentOnce /\ accepted.revision \in Nat
      /\ accepted'.revision \in Nat /\ accepted.revision <= accepted'.revision
  BY Types, TypeStep, RevisionsEndure, BaselineAssumption DEF IInv, TypeOK, Revision
<1>2. ASSUME NEW r \in ReviewId, Spent(r)
      PROVE  /\ reviews[r].revision \in 1 .. accepted.revision
             /\ reviews[r].revision + 1 \in 1 .. accepted.revision
             /\ history[reviews[r].revision] = reviews[r].expected
             /\ history[reviews[r].revision + 1] = reviews[r].file
  <2>1. reviews[r] \in Review /\ reviews[r].revision \in Revision
    BY <1>1, <1>2 DEF TypeOK, Spent, Review
  <2>2. reviews[r].revision < accepted.revision
    BY <1>1, <1>2 DEF ReviewsAreSpentOnce
  <2> QED BY <1>1, <1>2, <2>1, <2>2, BaselineAssumption DEF ReviewsAreSpentOnce, Revision
\* The approved review is made of the accepted revision, which it replaces.
<1>3. ASSUME NEW r \in ReviewId, ApproveTx(s), r = call[s].review
      PROVE  /\ reviews[r].revision = accepted.revision
             /\ accepted'.revision = accepted.revision + 1
             /\ history'[accepted.revision] = reviews[r].expected
             /\ history'[accepted.revision + 1] = reviews[r].file
  <2>1. /\ Registered /\ reviews[r].revision = accepted.revision
        /\ reviews[r].expected = accepted.file /\ accepted'.file = reviews[r].file
    BY <1>3 DEF ApproveTx, Approvable
  <2>2. /\ accepted'.revision = accepted.revision + 1 /\ accepted'.revision \in Revision
        /\ history' = [history EXCEPT ![accepted'.revision] = accepted'.file]
        /\ history \in [Revision -> File \cup {None}]
    BY <1>1, <1>3, RevisionAdded DEF TypeOK
  <2>3. history'[accepted'.revision] = accepted'.file
    BY <2>2
  <2>4. accepted.revision \in 1 .. accepted.revision
    BY <1>1, <2>1 DEF Registered
  <2>5. history'[accepted.revision] = accepted.file
    BY <1>1, <2>1, <2>4, RevisionsEndure DEF HistoryIsDense
  <2> QED BY <2>1, <2>2, <2>3, <2>5
<1>4. ASSUME NEW r \in ReviewId, Spent(r)'
      PROVE  /\ reviews'[r].revision < accepted'.revision
             /\ history'[reviews'[r].revision] = reviews'[r].expected
             /\ history'[reviews'[r].revision + 1] = reviews'[r].file
  <2>1. /\ reviews'[r].revision = reviews[r].revision /\ reviews'[r].expected = reviews[r].expected
        /\ reviews'[r].file = reviews[r].file
        /\ Spent(r) \/ (ApproveTx(s) /\ r = call[s].review)
    BY <1>4, SpentStep
  <2>2. CASE Spent(r)
    <3>1. /\ reviews[r].revision \in 1 .. accepted.revision
          /\ reviews[r].revision + 1 \in 1 .. accepted.revision
      BY <1>2, <2>2
    <3>2. /\ history'[reviews[r].revision] = history[reviews[r].revision]
          /\ history'[reviews[r].revision + 1] = history[reviews[r].revision + 1]
      BY <3>1, RevisionsEndure
    <3>3. reviews[r].revision < accepted'.revision
      BY <1>1, <3>1
    <3> QED BY <1>2, <2>1, <2>2, <3>2, <3>3
  <2>3. CASE ApproveTx(s) /\ r = call[s].review
    BY <1>1, <1>3, <2>1, <2>3
  <2> QED BY <2>1, <2>2, <2>3
<1>5. ASSUME NEW q \in ReviewId, NEW r \in ReviewId, Spent(q)', Spent(r)',
             reviews'[q].revision = reviews'[r].revision
      PROVE  q = r
  <2>1. /\ reviews[q].revision = reviews[r].revision
        /\ Spent(q) \/ (ApproveTx(s) /\ q = call[s].review)
        /\ Spent(r) \/ (ApproveTx(s) /\ r = call[s].review)
    BY <1>5, SpentStep
  <2>2. ASSUME NEW p \in {q, r}, Spent(p) PROVE reviews[p].revision # accepted.revision
    <3>1. p \in ReviewId /\ reviews[p].revision + 1 \in 1 .. accepted.revision
          /\ reviews[p].revision \in 1 .. accepted.revision
      BY <1>2, <2>2
    <3> QED BY <1>1, <3>1
  <2>3. ASSUME NEW p \in {q, r}, ApproveTx(s), p = call[s].review
        PROVE  reviews[p].revision = accepted.revision
    BY <1>3, <2>3
  <2>4. CASE Spent(q) /\ Spent(r)
    BY <1>1, <2>1, <2>4 DEF ReviewsAreSpentOnce
  <2> QED BY <2>1, <2>2, <2>3, <2>4
<1> QED BY <1>4, <1>5 DEF ReviewsAreSpentOnce

\* Stock files come and go without a trace in the registry.
LEMMA FileStep ==
  ASSUME IInv, NEW source \in Source, NEW file \in File, ReplaceFile(source, file)
  PROVE  IInv'
<1>1. UNCHANGED <<registry, call>> /\ disk' \in [Source -> File]
  BY DEF IInv, TypeOK, ReplaceFile
<1>2. TypeOK' /\ HistoryIsDense' /\ LeasesHaveHistory' /\ RevisionsAreReviewed'
  BY <1>1 DEF IInv, registry, TypeOK, HistoryIsDense, Registered, LeasesHaveHistory, Accepted,
              RevisionsAreReviewed
<1>3. CallsOK' /\ ReviewsAreSpentOnce'
  BY <1>1 DEF IInv, registry, CallsOK, CallOK, ReviewsAreSpentOnce, Spent
<1> QED BY <1>2, <1>3 DEF IInv

LEMMA Invariance == Spec => []IInv
<1>1. IInv /\ [Next]_vars => IInv'
  <2> SUFFICES ASSUME IInv, [Next]_vars PROVE IInv'
    OBVIOUS
  <2>1. ASSUME NEW s \in Server, Step(s) PROVE IInv'
    BY <2>1, TypeStep, HistoryStep, CallsStep, LeasesStep, ReviewedStep, OnceStep DEF IInv
  <2>2. ASSUME NEW source \in Source, NEW file \in File, ReplaceFile(source, file) PROVE IInv'
    BY <2>2, FileStep
  <2>3. CASE UNCHANGED vars
    BY <2>3 DEF vars, IInv, TypeOK, HistoryIsDense, Registered, LeasesHaveHistory, Accepted,
                RevisionsAreReviewed, CallsOK, CallOK, ReviewsAreSpentOnce, Spent
  <2> QED BY <2>1, <2>2, <2>3 DEF Next
<1> QED BY <1>1, InitIInv, PTL DEF Spec

-----------------------------------------------------------------------------

\* The registry, its reviews and the calls hold what they can hold.
THEOREM RegistryTypeCorrect == Spec => []TypeOK
BY Invariance, PTL DEF IInv

\* No lease is ever left without a baseline that was accepted.
THEOREM LeasesKeepAcceptedBaselines == Spec => []LeasesHaveHistory
BY Invariance, PTL DEF IInv

\* Stale reviews fail closed, whatever the number of servers and files.
THEOREM StaleReviewsFailClosed == Spec => []RevisionsAreReviewed
BY Invariance, PTL DEF IInv

\* Every approved review has a revision of its own, for any number of servers
\* that approve at once.
THEOREM ReviewsHaveOneRevision == Spec => []ReviewsAreSpentOnce
BY Invariance, PTL DEF IInv
=============================================================================
