----------------------- MODULE BuildLifecycle_proofs ------------------------
(***************************************************************************)
(* Proofs about BuildLifecycle for any number of servers and builds and    *)
(* any sets of files and records that are tampered with: there is one      *)
(* selection at most, it is never lost, and what is selected or reported   *)
(* is published as recorded.                                               *)
(*                                                                         *)
(* A published file that is good stays good, because only verified copies  *)
(* are renamed over it.  So what an activation verified before its         *)
(* transaction (PublishedIsGood) still holds when the build is selected,   *)
(* however long that takes and whatever other servers publish.             *)
(***************************************************************************)
EXTENDS BuildLifecycle, TLAPS

Verified == {"published", "switched", "done"}

\* What a call has verified stays true until it returns.
CallVerified(s) ==
  /\ call[s].stage # "idle" => call[s].build \in Build
  /\ call[s].stage \in Verified /\ call[s].build \notin Corruptible
       => published[call[s].build] = "good"
PublishedIsGood == \A s \in Server : CallVerified(s)

IInv ==
  /\ TypeOK
  /\ OneActive
  /\ ActiveIsPublished
  /\ PublishedIsGood

\* Administration: everything that is not a step of a handler.
Administer ==
  \/ \E b \in Build : Record(b)
  \/ \E b \in Removable : Remove(b)
  \/ \E b \in Tamperable : Tamper(b)
  \/ \E b \in Corruptible, file \in {"none", "bad"} : Corrupt(b, file)

LEMMA InitIInv == Init => IInv
<1> SUFFICES ASSUME Init PROVE IInv
  OBVIOUS
<1>1. TypeOK
  BY DEF Init, TypeOK, Call, NoCall, Stage, BuildState, File
<1>2. OneActive /\ ActiveIsPublished
  BY DEF Init, OneActive, ActiveIsPublished, Active
<1>3. PublishedIsGood
  BY DEF Init, PublishedIsGood, CallVerified, NoCall, Verified
<1> QED BY <1>1, <1>2, <1>3 DEF IInv

LEMMA TypeStep ==
  ASSUME IInv, NEW s \in Server, Step(s)
  PROVE  TypeOK'
<1> USE DEF TypeOK, Call, Stage, Advance
<1>1. TypeOK /\ call[s] \in Call /\ (call[s].stage # "idle" => call[s].build \in Build)
  BY DEF IInv, PublishedIsGood, CallVerified
<1>2. ASSUME NEW b \in Build, Begin(s, b) PROVE TypeOK'
  BY <1>1, <1>2 DEF Begin, NoCall, File, BuildState
<1>3. CASE Reuse(s) \/ Check(s) \/ AlreadyActive(s) \/ LoseSwitch(s) \/ Confirm(s)
  BY <1>1, <1>3 DEF Reuse, Check, AlreadyActive, LoseSwitch, Confirm
<1>4. CASE Reserve(s) \/ Copy(s) \/ Place(s) \/ Refuse(s)
  BY <1>1, <1>4 DEF Reserve, Copy, Place, Refuse, File
<1>5. CASE Switch(s)
  BY <1>1, <1>5 DEF Switch, Selected, BuildState
<1>6. CASE Return(s)
  BY <1>1, <1>6 DEF Return, NoCall, File, BuildState
<1> QED BY <1>2, <1>3, <1>4, <1>5, <1>6 DEF Step

LEMMA TypeAdminister ==
  ASSUME IInv, Administer
  PROVE  TypeOK'
<1>1. TypeOK
  BY DEF IInv
<1>2. ASSUME NEW b \in Build, Record(b) PROVE TypeOK'
  BY <1>1, <1>2 DEF TypeOK, Record, BuildState
<1>3. ASSUME NEW b \in Removable, Remove(b) PROVE TypeOK'
  BY <1>1, <1>3 DEF TypeOK, Remove, BuildState
<1>4. ASSUME NEW b \in Tamperable, Tamper(b) PROVE TypeOK'
  BY <1>1, <1>4 DEF TypeOK, Tamper, File
<1>5. ASSUME NEW b \in Corruptible, NEW file \in {"none", "bad"}, Corrupt(b, file) PROVE TypeOK'
  BY <1>1, <1>5 DEF TypeOK, Corrupt, File
<1> QED BY <1>2, <1>3, <1>4, <1>5 DEF Administer

\* Only a verified copy is renamed over a published name.
LEMMA GoodStaysGood ==
  ASSUME IInv, [Next]_vars, NEW b \in Build \ Corruptible, published[b] = "good"
  PROVE  published'[b] = "good"
<1>1. TypeOK
  BY DEF IInv
<1>2. ASSUME NEW s \in Server, Place(s) PROVE published'[b] = "good"
  BY <1>1, <1>2 DEF TypeOK, Place
<1>3. ASSUME NEW c \in Corruptible, NEW file \in {"none", "bad"}, Corrupt(c, file)
      PROVE  published'[b] = "good"
  BY <1>1, <1>3 DEF TypeOK, Corrupt
<1>4. CASE UNCHANGED published
  BY <1>4
<1> QED BY <1>2, <1>3, <1>4 DEF Next, vars, Step, Begin, Reuse, Reserve, Copy, Check,
           AlreadyActive, Switch, LoseSwitch, Confirm, Refuse, Return, Record, Remove, Tamper

\* What a step does to the selection: nothing, or one call selects the build
\* it has published.
LEMMA SelectionStep ==
  ASSUME IInv, [Next]_vars
  PROVE  \/ Active' = Active
         \/ \E s \in Server : Switch(s) /\ Active' = {call[s].build} /\ call[s].build \in Build
<1>1. TypeOK
  BY DEF IInv
<1>2. ASSUME NEW s \in Server, Switch(s)
      PROVE  Active' = Active \/ (Active' = {call[s].build} /\ call[s].build \in Build)
  <2> DEFINE b == call[s].build
  <2>1. b \in Build /\ state' = Selected(b)
    BY <1>2 DEF Switch, IInv, PublishedIsGood, CallVerified
  <2>2. CASE state[b] = "NONE"
    BY <2>1, <2>2 DEF Selected, Active
  <2>3. CASE state[b] # "NONE"
    <3>1. \A c \in Build : state'[c] = "ACTIVE" <=> c = b
      BY <2>1, <2>3 DEF Selected
    <3> QED BY <2>1, <3>1 DEF Active
  <2> QED BY <2>2, <2>3
<1>3. ASSUME NEW b \in Build, Record(b) \/ Remove(b) PROVE Active' = Active
  BY <1>1, <1>3 DEF TypeOK, Record, Remove, Active
<1>4. CASE UNCHANGED state
  BY <1>4 DEF Active
<1>5. Removable \subseteq Build
  BY LifecycleAssumption
<1> QED BY <1>2, <1>3, <1>4, <1>5 DEF Next, vars, Step, Begin, Reuse, Reserve, Copy, Place, Check,
           AlreadyActive, LoseSwitch, Confirm, Refuse, Return, Tamper, Corrupt

\* A call verifies the published file, or keeps what it verified.
LEMMA CallStep ==
  ASSUME IInv, [Next]_vars
  PROVE  PublishedIsGood'
<1>1. TypeOK /\ PublishedIsGood /\ call \in [Server -> Call]
  BY DEF IInv, TypeOK
<1>2. ASSUME NEW t \in Server, call'[t] = call[t]
      PROVE  CallVerified(t)'
  BY <1>1, <1>2, GoodStaysGood DEF PublishedIsGood, CallVerified, Verified
<1>3. ASSUME NEW s \in Server, Step(s)
      PROVE  CallVerified(s)' /\ \A t \in Server : t # s => call'[t] = call[t]
  <2> USE DEF Call, Advance, CallVerified, Verified
  <2>1. call[s] \in Call
    BY <1>1
  <2>2. ASSUME NEW b \in Build, Begin(s, b)
        PROVE  CallVerified(s)' /\ \A t \in Server : t # s => call'[t] = call[t]
    BY <1>1, <2>2 DEF Begin, NoCall
  <2>3. CASE Reserve(s) \/ Copy(s) \/ Place(s) \/ Refuse(s) \/ Return(s)
    BY <1>1, <2>1, <2>3 DEF Reserve, Copy, Place, Refuse, Return, Busy, NoCall, PublishedIsGood
  <2>4. CASE Reuse(s) \/ Check(s)
    BY <1>1, <2>1, <2>4 DEF Reuse, Check, PublishedIsGood
  <2>5. CASE AlreadyActive(s) \/ Switch(s) \/ LoseSwitch(s) \/ Confirm(s)
    BY <1>1, <2>1, <2>5 DEF AlreadyActive, Switch, LoseSwitch, Confirm, PublishedIsGood
  <2> QED BY <1>3, <2>2, <2>3, <2>4, <2>5 DEF Step
<1>4. (\E s \in Server : Step(s)) \/ UNCHANGED call
  BY DEF Next, vars, Record, Remove, Tamper, Corrupt
<1> QED BY <1>2, <1>3, <1>4 DEF PublishedIsGood, CallVerified

LEMMA Invariance == Spec => []IInv
<1>1. IInv /\ [Next]_vars => IInv'
  <2> SUFFICES ASSUME IInv, [Next]_vars PROVE IInv'
    OBVIOUS
  <2>1. TypeOK'
    <3>1. CASE UNCHANGED vars
      BY <3>1 DEF IInv, TypeOK, vars
    <3> QED BY <3>1, TypeStep, TypeAdminister DEF Next, Administer
  <2>2. PublishedIsGood'
    BY CallStep
  <2>3. OneActive'
    BY SelectionStep DEF IInv, OneActive
  <2>4. ActiveIsPublished'
    <3>1. CASE Active' = Active
      BY <3>1, GoodStaysGood DEF IInv, ActiveIsPublished, Active
    <3>2. ASSUME NEW s \in Server, Switch(s), Active' = {call[s].build}, call[s].build \in Build
          PROVE  ActiveIsPublished'
      <4>1. call[s].build \notin Corruptible => published[call[s].build] = "good"
        BY <3>2 DEF IInv, PublishedIsGood, CallVerified, Switch, Verified
      <4> QED BY <3>2, <4>1, GoodStaysGood DEF ActiveIsPublished
    <3> QED BY <3>1, <3>2, SelectionStep
  <2> QED BY <2>1, <2>2, <2>3, <2>4 DEF IInv
<1> QED BY <1>1, InitIInv, PTL DEF Spec

-----------------------------------------------------------------------------

\* The record, the files and the calls hold what they can hold.
THEOREM LifecycleTypeCorrect == Spec => []TypeOK
BY Invariance, PTL DEF IInv

\* One active selection per world database.
THEOREM OneSelection == Spec => []OneActive
BY Invariance, PTL DEF IInv

\* The selected build is published as it was recorded.
THEOREM SelectionIsPublished == Spec => []ActiveIsPublished
BY Invariance, PTL DEF IInv

\* A successful activation leaves the recorded artifact published.
THEOREM SuccessIsReal == Spec => []SuccessIsPublished
<1>1. IInv => SuccessIsPublished
  BY DEF IInv, PublishedIsGood, CallVerified, SuccessIsPublished, Verified
<1> QED BY <1>1, Invariance, PTL

\* No step leaves the database without its selection, or with two.
THEOREM SelectionAlwaysEndures == Spec => SelectionEndures
<1>1. IInv /\ [Next]_vars /\ IInv' => (Active # {} => \E b \in Build : Active' = {b})
  <2> SUFFICES ASSUME IInv, [Next]_vars, IInv', Active # {}
               PROVE  \E b \in Build : Active' = {b}
    OBVIOUS
  <2>1. Active' # {} /\ Active' \subseteq Build
    BY SelectionStep DEF Active
  <2>2. \A b, c \in Active' : b = c
    BY DEF IInv, OneActive
  <2>3. PICK b \in Active' : TRUE
    BY <2>1
  <2> QED BY <2>1, <2>2, <2>3
<1>2. IInv /\ [Next]_vars /\ IInv' => [Active # {} => \E b \in Build : Active' = {b}]_vars
  BY <1>1
<1> QED BY <1>2, Invariance, PTL DEF Spec, SelectionEndures
=============================================================================
