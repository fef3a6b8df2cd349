-------------------------- MODULE ExternalTaskProofs --------------------------
(***************************************************************************)
(* Proofs about ExternalTask, for every definition, every set of signals   *)
(* and every bound.  TypeOK is inductive.  The safety properties are not:  *)
(* they follow from ExternalInv, which says what the snapshot of an        *)
(* advance and the row still have in common, that a waiting occurrence is  *)
(* undecided, and how the armings of a round relate to retry_count.        *)
(* Timers have an invariant of their own (TimersFit).  With MailboxInv,    *)
(* every step falls into one of seven kinds, and each kind is a step of    *)
(* Mailbox or a stutter: ExternalTask implements Mailbox.                  *)
(***************************************************************************)
EXTENDS ExternalTask, SequenceTheorems, TLAPS

\* The advance works under a live lease on a row that is not settled; a snapshot of
\* a parked row is still what the row is.
LeaseHeld ==
    InFlight =>
        /\ lease = "live"
        /\ row.status \in {"running", "cancelling"}
        /\ row.task = adv.row.task
        /\ adv.row.wait = "external" => /\ row.wait = "external"
                                        /\ row.token = adv.row.token

\* The occurrence that a row waits for is undecided.
WaitIsOpen == row.wait = "external" => row.token \notin answered \cup lapsed

\* An answer and the occurrence it is for.
Fits(r) == r.result # None => /\ r.result.for = r.task
                              /\ r.result.by \in Signal \/ r.result.by = r.token

\* Requests on their way carry issued tokens; one for the current occurrence was
\* checked with the schema of its task.
InboxFits ==
    \A q \in inbox : /\ q.by \in Token
                     /\ row.wait = "external" /\ q.by = row.token => q.for = row.task

\* Armings of the round are paid for by retries.
RoundPaid(r) ==
    /\ r.retry <= Retries[r.task]
    /\ r.status \in {"running", "cancelling"} =>
           /\ round <= r.retry + 1
           /\ r.wait = "none" /\ r.result = None => round <= r.retry

\* A parked row has an issued token and no answer.
Tokened(r) == r.wait = "external" => r.token \in Token /\ r.result = None

TypeInv ==
    /\ TypeOK
    /\ round <= armings
    /\ Tokened(row)
    /\ InFlight => /\ Tokened(adv.row)
                   /\ adv.row.wait = "external" => adv.hand = None

ExternalInv ==
    /\ LeaseHeld /\ WaitIsOpen /\ InboxFits
    /\ Fits(row) /\ RoundPaid(row)
    /\ InFlight => Fits(adv.row) /\ RoundPaid(adv.row)
    /\ OneOutcomePerOccurrence /\ NoStrandedSignal

------------------------------------------------------------------------------
(* Types. *)

USE DEF InFlight, Running, Armed, instance, history

\* The initial row is a row, and nothing is in flight.
LEMMA InitType == Init => TypeInv
BY ExternalConstants DEF Init, TypeInv, TypeOK, Row, Token, Tokened

\* No answer is None.
LEMMA AnswerIsSome == \A answer \in Answer : answer # None
<1>. SUFFICES ASSUME NEW answer \in Answer PROVE answer \in [by : Signal \cup Nat, for : Task]
  BY ExternalConstants
<1>1. MaxArmings \in Nat  BY ExternalConstants
<1>. QED  BY <1>1 DEF Answer

\* Storing an answer in the row keeps the row's type.
LEMMA SetResultType ==
    ASSUME NEW answer \in Answer, TypeOK, SetExternalResult(answer)
    PROVE  row' \in Row /\ row'.wait = "none"
BY DEF SetExternalResult, TypeOK, Row

\* The API keeps all types.
LEMMA ApiType ==
    ASSUME TypeInv,
           \/ \E k \in Token : ResolveReads(k)
           \/ \E answer \in inbox : ResolveExternalTask(answer)
           \/ \E s \in Signal \ sent, t \in Task : DeliverSignal(s, t)
           \/ CancelProcess \/ RetryProcess
    PROVE  TypeInv'
<1>1. CASE \E k \in Token : ResolveReads(k)
  <2>1. PICK k \in Token : ResolveReads(k)  BY <1>1
  <2>2. k \in 1 .. MaxArmings /\ row.task \in Task
    BY ExternalConstants DEF TypeInv, TypeOK, Row, Token
  <2>3. inbox' \subseteq Answer  BY <2>1, <2>2 DEF ResolveReads, TypeInv, TypeOK, Answer
  <2>. QED  BY <2>1, <2>3 DEF ResolveReads, TypeInv, TypeOK, Token, Tokened
<1>2. ASSUME NEW answer \in inbox, Accept(answer), Armed
      PROVE  TypeInv'
  <2>1. answer \in Answer  BY DEF TypeInv, TypeOK
  <2>2. row' \in Row /\ row'.wait = "none"
    BY <1>2, <2>1, SetResultType DEF Accept, TypeInv
  <2>3. answered' \subseteq Token  BY <1>2 DEF Accept, TypeInv, TypeOK, Tokened
  <2>. QED  BY <1>2, <2>2, <2>3 DEF Accept, TypeInv, TypeOK, Token, Tokened
<1>3. ASSUME NEW answer \in inbox, Reject(answer)
      PROVE  TypeInv'
  BY <1>3 DEF Reject, TypeInv, TypeOK, Token, Tokened
<1>4. ASSUME NEW s \in Signal, NEW t \in Task, DeliverSignal(s, t)
      PROVE  TypeInv'
  <2>1. CASE row.wait = "external" /\ row.task = t /\ lease # "live"
    <3>1. [by |-> s, for |-> t] \in Answer  BY DEF Answer
    <3>2. SetExternalResult([by |-> s, for |-> t])  BY <1>4, <2>1 DEF DeliverSignal, Deliver
    <3>3. row' \in Row /\ row'.wait = "none"  BY <3>1, <3>2, SetResultType DEF TypeInv
    <3>4. answered' \subseteq Token
      BY <1>4, <2>1 DEF DeliverSignal, Deliver, TypeInv, TypeOK, Tokened
    <3>. QED  BY <1>4, <2>1, <3>3, <3>4 DEF DeliverSignal, Deliver, TypeInv, TypeOK, Token, Tokened
  <2>2. CASE ~(row.wait = "external" /\ row.task = t /\ lease # "live")
    <3>1. buffer' \in [Task -> Seq(Signal)]
      <4>1. buffer' = [buffer EXCEPT ![t] = Append(buffer[t], s)]
        BY <1>4, <2>2 DEF DeliverSignal, Deliver
      <4>2. buffer \in [Task -> Seq(Signal)]  BY DEF TypeInv, TypeOK
      <4>3. Append(buffer[t], s) \in Seq(Signal)  BY <4>2
      <4>. QED  BY <4>1, <4>2, <4>3
    <3>2. UNCHANGED <<row, lease, adv, inbox, armings, spent, answered, lapsed, round, retried>>
      BY <1>4, <2>2 DEF DeliverSignal, Deliver
    <3>3. sent' \subseteq Signal  BY <1>4 DEF DeliverSignal, Deliver, TypeInv, TypeOK
    <3>. QED  BY <3>1, <3>2, <3>3 DEF TypeInv, TypeOK, Token, Tokened
  <2>. QED  BY <2>1, <2>2
<1>5. CASE CancelProcess
  <2>1. row' \in Row /\ row'.wait = row.wait /\ row'.token = row.token /\ row'.result = row.result
    BY <1>5 DEF CancelProcess, TypeInv, TypeOK, Row
  <2>. QED  BY <1>5, <2>1 DEF CancelProcess, TypeInv, TypeOK, Token, Tokened
<1>6. CASE RetryProcess
  <2>1. row' \in Row /\ row'.wait = "none"  BY <1>6 DEF RetryProcess, TypeInv, TypeOK, Row
  <2>2. retried' \in 0 .. MaxRetry  BY <1>6, ExternalConstants DEF RetryProcess, TypeInv, TypeOK
  <2>3. armings \in Nat  BY ExternalConstants DEF TypeInv, TypeOK
  <2>. QED  BY <1>6, <2>1, <2>2, <2>3, ExternalConstants
       DEF RetryProcess, TypeInv, TypeOK, Token, Tokened
<1>. QED
  BY <1>1, <1>2, <1>3, <1>4, <1>5, <1>6 DEF ResolveExternalTask

\* What the type invariant says of an advance in flight.
LEMMA SnapshotType ==
    ASSUME TypeInv, InFlight
    PROVE  /\ adv.row \in Row /\ adv.hand \in Answer \cup {None}
           /\ Found \in Answer \cup {None}
BY DEF TypeInv, TypeOK, Found, Row

\* An advance with an answer works on a row that does not wait.
LEMMA AnswerEndsWait ==
    ASSUME TypeInv, Running, Found # None
    PROVE  adv.row.wait = "none" /\ Found \in Answer /\ adv.row \in Row
BY DEF TypeInv, TypeOK, Tokened, Found, Row

\* What the type invariant says of the token that a save leaves behind.
LEMMA KeptTokenType ==
    ASSUME TypeInv, InFlight
    PROVE  TokenKept \in 0 .. MaxArmings
<1>1. adv.row \in Row /\ MaxArmings \in Nat  BY ExternalConstants, SnapshotType
<1>. QED  BY <1>1 DEF TokenKept, Row

\* A save keeps all types if it writes a row that does not wait.
LEMMA SaveType ==
    ASSUME TypeInv, NEW r \in Row, r.wait = "none", Save(r),
           spent' \subseteq Answer, lapsed' \subseteq Token, round' \in {0, round}
    PROVE  TypeInv'
<1>1. row' \in Row /\ row'.wait = "none"  BY DEF Save
<1>2. round' \in 0 .. MaxArmings /\ round' <= armings
  BY ExternalConstants DEF TypeInv, TypeOK
<1>. QED  BY <1>1, <1>2 DEF Save, TypeInv, TypeOK, Token, Tokened

\* The engine keeps all types.
LEMMA EngineType ==
    ASSUME TypeInv, Claim \/ Advance \/ Crash \/ LeaseExpires \/ TimerDue
    PROVE  TypeInv'
<1>0. MaxArmings \in Nat /\ 0 \in 0 .. MaxArmings /\ 0 \in Nat  BY ExternalConstants
<1>1. CASE Claim  BY <1>1 DEF Claim, TypeInv, TypeOK, Token, Tokened
<1>2. CASE CancelInstance
  <2>1. adv.row \in Row  BY <1>2, SnapshotType DEF CancelInstance
  <2>. DEFINE r == [adv.row EXCEPT !.status = "cancelled", !.wait = "none",
                                   !.timer = IF adv.row.retry > 0 THEN "none" ELSE @]
  <2>2. r \in Row /\ r.wait = "none"  BY <2>1 DEF Row
  <2>. HIDE DEF r
  <2>3. Save(r)  BY <1>2 DEF CancelInstance, r
  <2>. QED  BY <1>2, <2>2, <2>3, SaveType DEF CancelInstance, TypeInv, TypeOK
<1>3. ASSUME NEW t \in Task, Proceed(t)
      PROVE  TypeInv'
  <2>1. /\ adv.row \in Row /\ adv.row.wait = "none" /\ Found \in Answer
        /\ TokenKept \in 0 .. MaxArmings
    BY <1>3, AnswerEndsWait, KeptTokenType DEF Proceed
  <2>. DEFINE r == [adv.row EXCEPT !.status = row.status, !.task = t, !.retry = 0,
                                   !.timer = "none", !.token = TokenKept, !.result = None]
  <2>2. r \in Row /\ r.wait = "none"  BY <1>0, <2>1 DEF Row, TypeInv, TypeOK
  <2>. HIDE DEF r
  <2>3. Save(r)  BY <1>3 DEF Proceed, r
  <2>. QED  BY <1>3, <2>1, <2>2, <2>3, SaveType DEF Proceed, TypeInv, TypeOK
<1>4. CASE Complete
  <2>1. /\ adv.row \in Row /\ adv.row.wait = "none" /\ Found \in Answer
        /\ TokenKept \in 0 .. MaxArmings
    BY <1>4, AnswerEndsWait, KeptTokenType DEF Complete
  <2>. DEFINE r == [adv.row EXCEPT !.status = "completed", !.retry = 0, !.timer = "none",
                                   !.token = TokenKept, !.result = None]
  <2>2. r \in Row /\ r.wait = "none"  BY <1>0, <2>1 DEF Row
  <2>. HIDE DEF r
  <2>3. Save(r)  BY <1>4 DEF Complete, r
  <2>. QED  BY <1>4, <2>1, <2>2, <2>3, SaveType DEF Complete, TypeInv, TypeOK
<1>5. CASE FailInstance
  <2>1. /\ adv.row \in Row /\ adv.row.wait = "none" /\ Found \in Answer \cup {None}
        /\ TokenKept \in 0 .. MaxArmings
    BY <1>5, SnapshotType, KeptTokenType DEF FailInstance
  <2>. DEFINE r == [adv.row EXCEPT !.status = "failed", !.timer = "none",
                       !.token = TokenKept, !.result = None]
  <2>2. r \in Row /\ r.wait = "none"  BY <1>0, <2>1 DEF Row
  <2>. HIDE DEF r
  <2>3. Save(r)  BY <1>5 DEF FailInstance, r
  <2>. QED  BY <1>5, <2>1, <2>2, <2>3, SaveType DEF FailInstance, TypeInv, TypeOK
<1>6. CASE ConsumeSignal
  <2>. DEFINE t == adv.row.task
              answer == [by |-> Head(buffer[t]), for |-> t]
  <2>1. adv.row \in Row /\ adv.row.wait = "none" /\ t \in Task /\ buffer[t] \in Seq(Signal)
        /\ buffer[t] # << >>
    BY <1>6, SnapshotType DEF ConsumeSignal, Row, TypeInv, TypeOK
  <2>2. Head(buffer[t]) \in Signal /\ Tail(buffer[t]) \in Seq(Signal)  BY <2>1
  <2>3. answer \in Answer  BY <2>1, <2>2 DEF Answer
  <2>. HIDE DEF answer
  <2>4. row' \in Row /\ row'.wait = "none"
    BY <1>0, <1>6, <2>3 DEF ConsumeSignal, Row, TypeInv, TypeOK, answer
  <2>5. adv' \in [row : Row, hand : Answer \cup {None}] /\ adv'.row = adv.row
    BY <1>6, <2>1, <2>3 DEF ConsumeSignal, TypeInv, TypeOK, answer
  <2>6. buffer' \in [Task -> Seq(Signal)]
    BY <1>6, <2>1, <2>2 DEF ConsumeSignal, TypeInv, TypeOK
  <2>. QED  BY <1>6, <2>1, <2>4, <2>5, <2>6 DEF ConsumeSignal, TypeInv, TypeOK, Token, Tokened
<1>7. CASE ArmExternal
  <2>1. adv.row \in Row /\ adv.row.result = None
    BY <1>7, SnapshotType DEF ArmExternal, Park, Found
  <2>2. armings \in Nat /\ MaxArmings \in Nat /\ armings < MaxArmings /\ armings' = armings + 1
    BY <1>7, ExternalConstants DEF ArmExternal, Park, TypeInv, TypeOK
  <2>. DEFINE timer == IF HasTimeout[adv.row.task] THEN "set" ELSE "none"
  <2>a. timer \in {"none", "set", "due"} /\ armings + 1 \in 0 .. MaxArmings  BY <2>2
  <2>. HIDE DEF timer
  <2>b. row' = [adv.row EXCEPT !.wait = "external", !.token = armings + 1,
                               !.retry = adv.row.retry, !.timer = timer]
    BY <1>7 DEF ArmExternal, Park, timer
  <2>3. row' \in Row /\ row'.token = armings + 1 /\ row'.result = None
    BY <2>1, <2>a, <2>b DEF Row
  <2>4. round' \in 0 .. MaxArmings /\ round' <= armings'
    BY <1>7, <2>2 DEF ArmExternal, Park, TypeInv, TypeOK
  <2>5. answered' \subseteq Token' /\ lapsed' \subseteq Token'
    BY <1>7, <2>2 DEF ArmExternal, Park, TypeInv, TypeOK, Token
  <2>. QED  BY <1>7, <2>2, <2>3, <2>4, <2>5
       DEF ArmExternal, Park, TypeInv, TypeOK, Token, Tokened
<1>8. CASE TimedOut
  <2>1. adv.row \in Row /\ adv.row.token \in Token /\ adv.row.task \in Task
    BY <1>8, SnapshotType DEF TimedOut, TypeInv, Tokened, Row
  <2>. DEFINE t == adv.row.task
              parked == [adv.row EXCEPT !.wait = "none", !.token = 0]
  <2>2. parked \in Row /\ parked.wait = "none"  BY <1>0, <2>1 DEF Row
  <2>. HIDE DEF parked
  <2>3. parked.retry \in Nat /\ parked.retry + 1 \in Nat  BY <2>2 DEF Row
  <2>4. ASSUME NEW r \in Row, r.wait = "none", NEW n \in {0, round}, Lapse(r, n)
        PROVE  TypeInv'
    BY <2>1, <2>4, SaveType DEF Lapse, TypeInv, TypeOK
  <2>5. CASE Lapse([parked EXCEPT !.retry = parked.retry + 1, !.timer = "set"], round)
    <3>1. [parked EXCEPT !.retry = parked.retry + 1, !.timer = "set"] \in Row
      BY <2>2, <2>3 DEF Row
    <3>. QED  BY <2>2, <2>4, <2>5, <3>1 DEF Row
  <2>6. CASE Lapse([parked EXCEPT !.status = "failed", !.timer = "none"], round)
    BY <2>2, <2>4, <2>6 DEF Row
  <2>7. CASE Lapse([parked EXCEPT !.status = "completed", !.timer = "none"], round)
    BY <2>2, <2>4, <2>7 DEF Row
  <2>8. CASE /\ OnTimeout[t] \in Task
             /\ Lapse([parked EXCEPT !.task = OnTimeout[t], !.retry = 0, !.timer = "none"], 0)
    BY <1>0, <2>2, <2>4, <2>8 DEF Row
  <2>. QED  BY <1>8, <2>5, <2>6, <2>7, <2>8 DEF TimedOut, parked
<1>9. CASE Crash  BY <1>9 DEF Crash, TypeInv, TypeOK, Token, Tokened
<1>10. CASE LeaseExpires  BY <1>10 DEF LeaseExpires, TypeInv, TypeOK, Token, Tokened
<1>11. CASE TimerDue
  <2>1. row' \in Row /\ row'.wait = row.wait /\ row'.token = row.token /\ row'.result = row.result
    BY <1>11 DEF TimerDue, TypeInv, TypeOK, Row
  <2>. QED  BY <1>11, <2>1 DEF TimerDue, TypeInv, TypeOK, Token, Tokened
<1>12. CASE FailEarly
  <2>1. adv.row \in Row  BY <1>12, SnapshotType DEF FailEarly
  <2>. DEFINE r == [adv.row EXCEPT !.status = "failed", !.wait = "none", !.timer = "none"]
  <2>2. r \in Row /\ r.wait = "none"  BY <2>1 DEF Row
  <2>. HIDE DEF r
  <2>3. Save(r)  BY <1>12 DEF FailEarly, r
  <2>. QED  BY <1>12, <2>2, <2>3, SaveType DEF FailEarly, TypeInv, TypeOK
<1>. QED
  BY <1>1, <1>2, <1>3, <1>4, <1>5, <1>6, <1>7, <1>8, <1>9, <1>10, <1>11, <1>12 DEF Advance

\* Every step keeps all types.
LEMMA TypeStep == TypeInv /\ [Next]_vars => TypeInv'
<1>1. CASE UNCHANGED vars  BY <1>1 DEF vars, TypeInv, TypeOK, Token, Tokened
<1>2. CASE Next  BY <1>2, ApiType, EngineType DEF Next
<1>. QED  BY <1>1, <1>2

\* Rows, snapshots, buffers and requests keep their types, and the tokens of decided
\* occurrences have been issued, for any definition and any bound.
THEOREM TypeCorrect == Spec => []TypeOK
<1>1. Init => TypeInv  BY InitType
<1>2. TypeInv /\ [Next]_vars => TypeInv'  BY TypeStep
<1>3. TypeInv => TypeOK  BY DEF TypeInv
<1>. QED  BY <1>1, <1>2, <1>3, PTL DEF Spec

------------------------------------------------------------------------------
(* The safety properties. *)

\* Nothing has happened yet.
LEMMA InitExternal == Init => ExternalInv
BY ExternalConstants DEF Init, ExternalInv, LeaseHeld, WaitIsOpen, InboxFits, Fits,
   RoundPaid, OneOutcomePerOccurrence, NoStrandedSignal, Token

\* A request is noted with the task the row is at; tokens of parked rows are issued.
LEMMA ResolveReadsExternal ==
    ASSUME TypeInv, ExternalInv, NEW k \in Token, ResolveReads(k)
    PROVE  ExternalInv'
BY DEF ResolveReads, ExternalInv, LeaseHeld, WaitIsOpen, InboxFits, Fits,
   RoundPaid, OneOutcomePerOccurrence, NoStrandedSignal, Token

\* An answer that ends the wait of a row nobody is at.
LEMMA AnswerExternal ==
    ASSUME TypeInv, ExternalInv, Armed, lease # "live",
           NEW answer \in Answer, SetExternalResult(answer),
           answer.for = row.task, answer.by \in Signal \/ answer.by = row.token,
           answered' = answered \cup {row.token}, inbox' \subseteq inbox,
           UNCHANGED <<lease, adv, buffer, armings, lapsed, round>>
    PROVE  ExternalInv'
<1>1. ~InFlight /\ ~InFlight'  BY DEF ExternalInv, LeaseHeld
<1>2. /\ row'.result = answer /\ row'.wait = "none" /\ row'.task = row.task
      /\ row'.token = row.token /\ row'.status = row.status /\ row'.retry = row.retry
  BY DEF SetExternalResult, TypeInv, TypeOK, Row
<1>3. Fits(row)'  BY <1>2 DEF Fits
<1>4. RoundPaid(row)'
  BY <1>2, AnswerIsSome DEF RoundPaid, ExternalInv, TypeInv, TypeOK, Row
<1>5. OneOutcomePerOccurrence'
  BY DEF OneOutcomePerOccurrence, ExternalInv, WaitIsOpen
<1>6. InboxFits'  BY <1>2 DEF InboxFits, ExternalInv, Token
<1>. QED
  BY <1>1, <1>2, <1>3, <1>4, <1>5, <1>6 DEF ExternalInv, LeaseHeld, WaitIsOpen, NoStrandedSignal

\* The API keeps the invariant.
LEMMA ApiExternal ==
    ASSUME TypeInv, ExternalInv,
           \/ \E k \in Token : ResolveReads(k)
           \/ \E answer \in inbox : ResolveExternalTask(answer)
           \/ \E s \in Signal \ sent, t \in Task : DeliverSignal(s, t)
           \/ CancelProcess \/ RetryProcess
    PROVE  ExternalInv'
<1>1. CASE \E k \in Token : ResolveReads(k)  BY <1>1, ResolveReadsExternal
<1>2. ASSUME NEW answer \in inbox, Accept(answer), Armed, lease # "live", row.token = answer.by
      PROVE  ExternalInv'
  <2>1. answer \in Answer  BY DEF TypeInv, TypeOK
  <2>2. answer.for = row.task  BY <1>2 DEF ExternalInv, InboxFits
  <2>. QED  BY <1>2, <2>1, <2>2, AnswerExternal DEF Accept
<1>3. ASSUME NEW answer \in inbox, Reject(answer)
      PROVE  ExternalInv'
  BY <1>3 DEF Reject, ExternalInv, LeaseHeld, WaitIsOpen, InboxFits, Fits, RoundPaid,
     OneOutcomePerOccurrence, NoStrandedSignal, Token
<1>4. ASSUME NEW s \in Signal, NEW t \in Task, DeliverSignal(s, t)
      PROVE  ExternalInv'
  <2>1. CASE row.wait = "external" /\ row.task = t /\ lease # "live"
    <3>. DEFINE answer == [by |-> s, for |-> t]
    <3>1. answer \in Answer /\ answer.for = t /\ answer.by = s  BY DEF Answer
    <3>2. SetExternalResult(answer)  BY <1>4, <2>1 DEF DeliverSignal, Deliver
    <3>. HIDE DEF answer
    <3>. QED  BY <1>4, <2>1, <3>1, <3>2, AnswerExternal DEF DeliverSignal, Deliver
  <2>2. CASE ~(row.wait = "external" /\ row.task = t /\ lease # "live")
    <3>1. UNCHANGED <<row, lease, adv, inbox, armings, answered, lapsed, round>>
      BY <1>4, <2>2 DEF DeliverSignal, Deliver
    <3>2. NoStrandedSignal'
      <4>1. SUFFICES ASSUME Armed, lease = "none"  PROVE  buffer'[row.task] = << >>
        BY <3>1 DEF NoStrandedSignal
      <4>2. row.task # t /\ row.task \in Task  BY <2>2, <4>1 DEF TypeInv, TypeOK, Row
      <4>3. buffer'[row.task] = buffer[row.task]
        BY <1>4, <2>2, <4>2 DEF DeliverSignal, Deliver, TypeInv, TypeOK
      <4>. QED  BY <4>1, <4>3 DEF ExternalInv, NoStrandedSignal
    <3>. QED  BY <3>1, <3>2 DEF ExternalInv, LeaseHeld, WaitIsOpen, InboxFits, Fits, RoundPaid,
         OneOutcomePerOccurrence, Token
  <2>. QED  BY <2>1, <2>2
<1>5. CASE CancelProcess
  <2>1. /\ row'.status = "cancelling" /\ row.status = "running"
        /\ row'.wait = row.wait /\ row'.task = row.task /\ row'.token = row.token
        /\ row'.result = row.result /\ row'.retry = row.retry
    BY <1>5 DEF CancelProcess, TypeInv, TypeOK, Row
  <2>. QED  BY <1>5, <2>1 DEF CancelProcess, ExternalInv, LeaseHeld, WaitIsOpen, InboxFits,
       Fits, RoundPaid, OneOutcomePerOccurrence, NoStrandedSignal, Token
<1>6. CASE RetryProcess
  <2>1. ~InFlight  BY <1>6 DEF RetryProcess, ExternalInv, LeaseHeld
  <2>2. /\ row'.wait = "none" /\ row'.task = row.task /\ row'.token = row.token
        /\ row'.result = row.result /\ row'.retry = row.retry /\ row.retry \in Nat
    BY <1>6 DEF RetryProcess, TypeInv, TypeOK, Row
  <2>. QED  BY <1>6, <2>1, <2>2 DEF RetryProcess, ExternalInv, LeaseHeld, WaitIsOpen, InboxFits,
       Fits, RoundPaid, OneOutcomePerOccurrence, NoStrandedSignal, Token
<1>. QED
  BY <1>1, <1>2, <1>3, <1>4, <1>5, <1>6 DEF ResolveExternalTask

\* The end of an advance: a row that does not wait, with its budget in order.
LEMMA SaveExternal ==
    ASSUME TypeInv, ExternalInv, NEW r \in Row, r.wait = "none", Save(r), Fits(r),
           r.retry <= Retries[r.task],
           r.status \in {"running", "cancelling"} =>
               round' <= r.retry + 1 /\ (r.result = None => round' <= r.retry),
           answered \cap lapsed' = {}
    PROVE  ExternalInv'
<1>1. row' = r /\ adv' = None /\ UNCHANGED <<inbox, armings, answered>>  BY DEF Save
<1>2. RoundPaid(row)'  BY <1>1 DEF RoundPaid
<1>3. OneOutcomePerOccurrence'  BY <1>1 DEF OneOutcomePerOccurrence
<1>4. InboxFits'  BY <1>1 DEF InboxFits, ExternalInv, Token
<1>. QED  BY <1>1, <1>2, <1>3, <1>4
     DEF ExternalInv, LeaseHeld, WaitIsOpen, Fits, NoStrandedSignal

\* The engine keeps the invariant.
LEMMA EngineExternal ==
    ASSUME TypeInv, ExternalInv, Claim \/ Advance \/ Crash \/ LeaseExpires \/ TimerDue
    PROVE  ExternalInv'
<1>0. MaxArmings \in Nat /\ 0 \in 0 .. MaxArmings /\ 0 \in Nat /\ \A t \in Task : 0 <= Retries[t]
  BY ExternalConstants
<1>a. answered \cap lapsed = {}  BY DEF ExternalInv, OneOutcomePerOccurrence
<1>1. CASE Claim
  BY <1>1 DEF Claim, Claimable, ExternalInv, LeaseHeld, WaitIsOpen, InboxFits, Fits,
     RoundPaid, OneOutcomePerOccurrence, NoStrandedSignal, Token
<1>2. CASE CancelInstance
  <2>. DEFINE r == [adv.row EXCEPT !.status = "cancelled", !.wait = "none",
                                   !.timer = IF adv.row.retry > 0 THEN "none" ELSE @]
  <2>1. adv.row \in Row /\ Fits(adv.row) /\ RoundPaid(adv.row)
    BY <1>2, SnapshotType DEF CancelInstance, ExternalInv
  <2>2. /\ r \in Row /\ r.wait = "none" /\ r.status = "cancelled" /\ r.task = adv.row.task
        /\ r.retry = adv.row.retry /\ r.result = adv.row.result /\ r.token = adv.row.token
    BY <2>1 DEF Row
  <2>. HIDE DEF r
  <2>3. Save(r) /\ UNCHANGED lapsed  BY <1>2 DEF CancelInstance, r
  <2>4. Fits(r) /\ r.retry <= Retries[r.task]  BY <2>1, <2>2 DEF Fits, RoundPaid
  <2>. QED  BY <1>a, <2>2, <2>3, <2>4, SaveExternal
<1>3. ASSUME NEW t \in Task, Proceed(t)
      PROVE  ExternalInv'
  <2>. DEFINE r == [adv.row EXCEPT !.status = row.status, !.task = t, !.retry = 0,
                                   !.timer = "none", !.token = TokenKept, !.result = None]
  <2>1. adv.row \in Row /\ adv.row.wait = "none" /\ TokenKept \in 0 .. MaxArmings
    BY <1>3, AnswerEndsWait, KeptTokenType DEF Proceed
  <2>2. r \in Row /\ r.wait = "none" /\ r.task = t /\ r.retry = 0 /\ r.result = None
    BY <1>0, <2>1 DEF Row, TypeInv, TypeOK
  <2>. HIDE DEF r
  <2>3. Save(r) /\ UNCHANGED lapsed /\ round' = 0  BY <1>3 DEF Proceed, r
  <2>4. Fits(r) /\ r.retry <= Retries[r.task]  BY <1>0, <2>2 DEF Fits
  <2>. QED  BY <1>a, <2>2, <2>3, <2>4, SaveExternal
<1>4. CASE Complete
  <2>. DEFINE r == [adv.row EXCEPT !.status = "completed", !.retry = 0, !.timer = "none",
                                   !.token = TokenKept, !.result = None]
  <2>1. adv.row \in Row /\ adv.row.wait = "none" /\ TokenKept \in 0 .. MaxArmings
    BY <1>4, AnswerEndsWait, KeptTokenType DEF Complete
  <2>2. /\ r \in Row /\ r.wait = "none" /\ r.task \in Task /\ r.retry = 0 /\ r.result = None
        /\ r.status = "completed"
    BY <1>0, <2>1 DEF Row
  <2>. HIDE DEF r
  <2>3. Save(r) /\ UNCHANGED lapsed  BY <1>4 DEF Complete, r
  <2>4. Fits(r) /\ r.retry <= Retries[r.task]  BY <1>0, <2>2 DEF Fits
  <2>. QED  BY <1>a, <2>2, <2>3, <2>4, SaveExternal
<1>5. CASE FailInstance
  <2>. DEFINE r == [adv.row EXCEPT !.status = "failed", !.timer = "none",
                       !.token = TokenKept, !.result = None]
  <2>1. /\ adv.row \in Row /\ adv.row.wait = "none" /\ RoundPaid(adv.row)
        /\ TokenKept \in 0 .. MaxArmings
    BY <1>5, SnapshotType, KeptTokenType DEF FailInstance, ExternalInv
  <2>2. /\ r \in Row /\ r.wait = "none" /\ r.task = adv.row.task /\ r.retry = adv.row.retry
        /\ r.result = None /\ r.status = "failed"
    BY <1>0, <2>1 DEF Row
  <2>. HIDE DEF r
  <2>3. Save(r) /\ UNCHANGED lapsed  BY <1>5 DEF FailInstance, r
  <2>4. Fits(r) /\ r.retry <= Retries[r.task]  BY <2>1, <2>2 DEF Fits, RoundPaid
  <2>. QED  BY <1>a, <2>2, <2>3, <2>4, SaveExternal
<1>6. CASE ConsumeSignal
  <2>. DEFINE t == adv.row.task
              answer == [by |-> Head(buffer[t]), for |-> t]
  <2>1. adv.row \in Row /\ adv.row.wait = "none" /\ t \in Task /\ buffer[t] \in Seq(Signal)
        /\ buffer[t] # << >>
    BY <1>6, SnapshotType DEF ConsumeSignal, Row, TypeInv, TypeOK
  <2>2. answer.by \in Signal /\ answer.for = t /\ answer # None
    <3>1. Head(buffer[t]) \in Signal  BY <2>1
    <3>2. answer \in Answer  BY <2>1, <3>1 DEF Answer
    <3>. QED  BY <3>1, <3>2, AnswerIsSome
  <2>. HIDE DEF answer
  <2>3. /\ row'.result = answer /\ row'.token = 0 /\ row'.wait = "none"
        /\ row'.task = row.task /\ row'.status = row.status /\ row'.retry = row.retry
        /\ row.retry \in Nat
    BY <1>6 DEF ConsumeSignal, TypeInv, TypeOK, Row, answer
  <2>4. adv'.row = adv.row /\ InFlight
    BY <1>6 DEF ConsumeSignal, TypeInv, TypeOK
  <2>5. row.task = t /\ lease = "live" /\ row.status \in {"running", "cancelling"}
    BY <2>4 DEF ExternalInv, LeaseHeld
  <2>6. UNCHANGED <<lease, inbox, armings, answered, lapsed, round>>  BY <1>6 DEF ConsumeSignal
  <2>7. Fits(row)'  BY <2>2, <2>3, <2>5 DEF Fits
  <2>8. RoundPaid(row)'  BY <2>2, <2>3, <2>6 DEF RoundPaid, ExternalInv
  <2>9. Fits(adv.row)' /\ RoundPaid(adv.row)'
    BY <2>4, <2>6 DEF Fits, RoundPaid, ExternalInv
  <2>10. LeaseHeld'  BY <2>1, <2>3, <2>4, <2>5, <2>6 DEF LeaseHeld
  <2>11. InboxFits' /\ WaitIsOpen' /\ NoStrandedSignal' /\ OneOutcomePerOccurrence'
    BY <1>a, <2>3, <2>6
    DEF InboxFits, WaitIsOpen, NoStrandedSignal, OneOutcomePerOccurrence, ExternalInv, Token
  <2>. QED  BY <2>7, <2>8, <2>9, <2>10, <2>11 DEF ExternalInv
<1>7. CASE ArmExternal
  <2>1. /\ adv.row \in Row /\ adv.row.result = None /\ RoundPaid(adv.row)
        /\ adv.row.status = "running" /\ adv.row.wait = "none" /\ adv.row.retry \in Nat
    BY <1>7, SnapshotType DEF ArmExternal, Park, Found, ExternalInv, Row
  <2>. DEFINE timer == IF HasTimeout[adv.row.task] THEN "set" ELSE "none"
  <2>2. row' = [adv.row EXCEPT !.wait = "external", !.token = armings + 1,
                               !.retry = adv.row.retry, !.timer = timer]
    BY <1>7 DEF ArmExternal, Park
  <2>. HIDE DEF timer
  <2>3. /\ row'.wait = "external" /\ row'.token = armings + 1 /\ row'.task = adv.row.task
        /\ row'.status = "running" /\ row'.result = None /\ row'.retry = adv.row.retry
    BY <2>1, <2>2 DEF Row
  <2>4. /\ adv' = None /\ armings' = armings + 1 /\ round' = round + 1
        /\ UNCHANGED <<buffer, inbox, answered, lapsed>>
        /\ armings \in Nat /\ round \in Nat
    BY <1>0, <1>7 DEF ArmExternal, Park, TypeInv, TypeOK
  <2>5. WaitIsOpen'  BY <2>3, <2>4 DEF WaitIsOpen, TypeInv, TypeOK, Token
  <2>6. InboxFits'
    <3>1. \A q \in inbox : q.by \in 1 .. armings  BY DEF ExternalInv, InboxFits, Token
    <3>2. \A q \in inbox : q.by \in 1 .. armings + 1 /\ q.by # armings + 1  BY <2>4, <3>1
    <3>. QED  BY <2>3, <2>4, <3>2 DEF InboxFits, Token
  <2>7. RoundPaid(row)'  BY <2>1, <2>3, <2>4 DEF RoundPaid
  <2>8. NoStrandedSignal'  BY <1>7, <2>3, <2>4 DEF ArmExternal, NoStrandedSignal
  <2>. QED  BY <1>a, <2>3, <2>4, <2>5, <2>6, <2>7, <2>8
       DEF ExternalInv, LeaseHeld, Fits, OneOutcomePerOccurrence
<1>8. CASE TimedOut
  <2>. DEFINE t == adv.row.task
              parked == [adv.row EXCEPT !.wait = "none", !.token = 0]
  <2>1. /\ adv.row \in Row /\ adv.row.result = None /\ RoundPaid(adv.row)
        /\ adv.row.status = "running" /\ adv.row.wait = "external" /\ t \in Task
    BY <1>8, SnapshotType DEF TimedOut, Found, ExternalInv, Row
  <2>2. /\ parked \in Row /\ parked.wait = "none" /\ parked.result = None
        /\ parked.task = t /\ parked.retry = adv.row.retry /\ parked.status = "running"
    BY <1>0, <2>1 DEF Row
  <2>3. answered \cap (lapsed \cup {adv.row.token}) = {}
    <3>1. adv.row.token \notin answered  BY <1>8, <2>1 DEF TimedOut, ExternalInv, LeaseHeld, WaitIsOpen
    <3>. QED  BY <1>a, <3>1
  <2>4. /\ parked.retry \in Nat /\ round \in Nat /\ round <= parked.retry + 1
        /\ parked.retry <= Retries[t] /\ Retries[t] \in Nat
    <3>1. parked.retry \in Nat  BY <2>2 DEF Row
    <3>2. round \in Nat  BY <1>0 DEF TypeInv, TypeOK
    <3>3. Retries[t] \in Nat  BY <2>1, ExternalConstants
    <3>4. round <= parked.retry + 1 /\ parked.retry <= Retries[t]
      BY <2>1, <2>2 DEF RoundPaid
    <3>. QED  BY <3>1, <3>2, <3>3, <3>4
  <2>. HIDE DEF parked
  <2>5. ASSUME NEW r \in Row, r.wait = "none", r.result = None, r.retry <= Retries[r.task],
               NEW n, Lapse(r, n), r.status \in {"running", "cancelling"} => n <= r.retry,
               r.retry \in Nat, n \in Nat
        PROVE  ExternalInv'
    <3>1. Save(r) /\ round' = n /\ lapsed' = lapsed \cup {adv.row.token}  BY <2>5 DEF Lapse
    <3>2. Fits(r)  BY <2>5 DEF Fits
    <3>3. n <= r.retry => n <= r.retry + 1  BY <2>5
    <3>. QED  BY <2>3, <2>5, <3>1, <3>2, <3>3, SaveExternal
  <2>6. CASE /\ parked.retry < Retries[t]
             /\ Lapse([parked EXCEPT !.retry = parked.retry + 1, !.timer = "set"], round)
    <3>. DEFINE r == [parked EXCEPT !.retry = parked.retry + 1, !.timer = "set"]
    <3>1. parked.retry + 1 \in Nat /\ parked.retry + 1 <= Retries[t]  BY <2>4, <2>6
    <3>2. /\ r \in Row /\ r.wait = "none" /\ r.result = None /\ r.task = t
          /\ r.retry = parked.retry + 1
      BY <2>2, <3>1 DEF Row
    <3>3. Lapse(r, round)  BY <2>6
    <3>. HIDE DEF r
    <3>. QED  BY <2>4, <2>5, <3>1, <3>2, <3>3
  <2>7. CASE Lapse([parked EXCEPT !.status = "failed", !.timer = "none"], round)
    <3>. DEFINE r == [parked EXCEPT !.status = "failed", !.timer = "none"]
    <3>1. /\ r \in Row /\ r.wait = "none" /\ r.result = None /\ r.task = t
          /\ r.retry = parked.retry /\ r.status = "failed"
      BY <2>2 DEF Row
    <3>2. Lapse(r, round)  BY <2>7
    <3>. HIDE DEF r
    <3>. QED  BY <2>4, <2>5, <3>1, <3>2
  <2>8. CASE Lapse([parked EXCEPT !.status = "completed", !.timer = "none"], round)
    <3>. DEFINE r == [parked EXCEPT !.status = "completed", !.timer = "none"]
    <3>1. /\ r \in Row /\ r.wait = "none" /\ r.result = None /\ r.task = t
          /\ r.retry = parked.retry /\ r.status = "completed"
      BY <2>2 DEF Row
    <3>2. Lapse(r, round)  BY <2>8
    <3>. HIDE DEF r
    <3>. QED  BY <2>4, <2>5, <3>1, <3>2
  <2>9. CASE /\ OnTimeout[t] \in Task
             /\ Lapse([parked EXCEPT !.task = OnTimeout[t], !.retry = 0, !.timer = "none"], 0)
    <3>. DEFINE r == [parked EXCEPT !.task = OnTimeout[t], !.retry = 0, !.timer = "none"]
    <3>1. /\ r \in Row /\ r.wait = "none" /\ r.result = None /\ r.task \in Task
          /\ r.retry = 0
      BY <1>0, <2>2, <2>9 DEF Row
    <3>2. Lapse(r, 0)  BY <2>9
    <3>. HIDE DEF r
    <3>. QED  BY <1>0, <2>5, <3>1, <3>2
  <2>. QED  BY <1>8, <2>6, <2>7, <2>8, <2>9 DEF TimedOut, parked
<1>9. CASE Crash
  BY <1>9 DEF Crash, ExternalInv, LeaseHeld, WaitIsOpen, InboxFits, Fits,
     RoundPaid, OneOutcomePerOccurrence, NoStrandedSignal, Token
<1>10. CASE LeaseExpires
  BY <1>10 DEF LeaseExpires, ExternalInv, LeaseHeld, WaitIsOpen, InboxFits, Fits,
     RoundPaid, OneOutcomePerOccurrence, NoStrandedSignal, Token
<1>11. CASE TimerDue
  <2>1. /\ row'.status = row.status
        /\ row'.wait = row.wait /\ row'.task = row.task /\ row'.token = row.token
        /\ row'.result = row.result /\ row'.retry = row.retry
    BY <1>11 DEF TimerDue, TypeInv, TypeOK, Row
  <2>. QED  BY <1>11, <2>1 DEF TimerDue, ExternalInv, LeaseHeld, WaitIsOpen, InboxFits,
       Fits, RoundPaid, OneOutcomePerOccurrence, NoStrandedSignal, Token
<1>12. CASE FailEarly
  <2>. DEFINE r == [adv.row EXCEPT !.status = "failed", !.wait = "none", !.timer = "none"]
  <2>1. adv.row \in Row /\ Fits(adv.row) /\ RoundPaid(adv.row)
    BY <1>12, SnapshotType DEF FailEarly, ExternalInv
  <2>2. /\ r \in Row /\ r.wait = "none" /\ r.status = "failed" /\ r.task = adv.row.task
        /\ r.retry = adv.row.retry /\ r.result = adv.row.result /\ r.token = adv.row.token
    BY <2>1 DEF Row
  <2>. HIDE DEF r
  <2>3. Save(r) /\ UNCHANGED lapsed  BY <1>12 DEF FailEarly, r
  <2>4. Fits(r) /\ r.retry <= Retries[r.task]  BY <2>1, <2>2 DEF Fits, RoundPaid
  <2>. QED  BY <1>a, <2>2, <2>3, <2>4, SaveExternal
<1>. QED
  BY <1>1, <1>2, <1>3, <1>4, <1>5, <1>6, <1>7, <1>8, <1>9, <1>10, <1>11, <1>12 DEF Advance

\* Every step keeps the invariant.
LEMMA ExternalStep == TypeInv /\ ExternalInv /\ [Next]_vars => ExternalInv'
<1>1. CASE UNCHANGED vars
  BY <1>1 DEF vars, ExternalInv, LeaseHeld, WaitIsOpen, InboxFits, Fits, RoundPaid,
     OneOutcomePerOccurrence, NoStrandedSignal, Token
<1>2. CASE Next  BY <1>2, ApiExternal, EngineExternal DEF Next
<1>. QED  BY <1>1, <1>2

\* The two invariants hold together in every behaviour.
LEMMA Invariants == Spec => [](TypeInv /\ ExternalInv)
<1>1. Init => TypeInv /\ ExternalInv  BY InitType, InitExternal
<1>2. TypeInv /\ ExternalInv /\ [Next]_vars => (TypeInv /\ ExternalInv)'
  BY TypeStep, ExternalStep
<1>. QED  BY <1>1, <1>2, PTL DEF Spec

\* No occurrence of an external task is both answered and timed out: the checks of
\* token, wait and lease in the API's transactions suffice, for any number of
\* requests, signals, crashes and retries.
THEOREM OccurrencesEndOnce == Spec => []OneOutcomePerOccurrence
<1>1. ExternalInv => OneOutcomePerOccurrence  BY DEF ExternalInv
<1>. QED  BY <1>1, Invariants, PTL

\* A stored answer belongs to the occurrence and the task of its row although
\* resolveExternalTask reads the task before it locks the row.
THEOREM AnswersFit == Spec => []AnswerFitsOccurrence
<1>1. ExternalInv => AnswerFitsOccurrence  BY DEF ExternalInv, Fits, AnswerFitsOccurrence
<1>. QED  BY <1>1, Invariants, PTL

\* Neither DeliverSignal nor ArmExternal leaves a task waiting beside its signal.
THEOREM SignalsAreNotStranded == Spec => []NoStrandedSignal
<1>1. ExternalInv => NoStrandedSignal  BY DEF ExternalInv
<1>. QED  BY <1>1, Invariants, PTL

\* A task is armed at most Retries[t] + 1 times in a row, however often it is
\* parked, timed out, reclaimed after a crash and parked again.
THEOREM BudgetHolds == Spec => []TimeoutsAreBudgeted
<1>1. TypeInv /\ ExternalInv => TimeoutsAreBudgeted
  <2>. SUFFICES ASSUME TypeInv, ExternalInv, row.status = "running"
                PROVE  round <= Retries[row.task] + 1
    BY DEF TimeoutsAreBudgeted
  <2>1. round <= row.retry + 1 /\ row.retry <= Retries[row.task]
    BY DEF ExternalInv, RoundPaid
  <2>2. round \in Nat /\ row.retry \in Nat /\ Retries[row.task] \in Nat
    BY ExternalConstants DEF TypeInv, TypeOK, Row
  <2>. QED  BY <2>1, <2>2
<1>. QED  BY <1>1, Invariants, PTL

------------------------------------------------------------------------------
(* Timers.  The cancellation and the retry of an instance look at timers  *)
(* too, so the invariant speaks of every status that an advance may find.  *)

\* A timer belongs to a wait or to a backoff.
TimerFits(r) == r.timer # "none" => r.wait = "external" \/ r.retry > 0

TimersFit ==
    retried = 0 =>
        /\ row.status \in {"running", "cancelling"} => TimerFits(row)
        /\ InFlight => TimerFits(adv.row)

\* The API and the clock keep the timers.
LEMMA ApiTimers ==
    ASSUME TypeInv, TimersFit,
           \/ \E k \in Token : ResolveReads(k)
           \/ \E answer \in inbox : ResolveExternalTask(answer)
           \/ \E s \in Signal \ sent, t \in Task : DeliverSignal(s, t)
           \/ CancelProcess \/ RetryProcess \/ TimerDue
    PROVE  TimersFit'
<1>1. CASE \E k \in Token : ResolveReads(k)  BY <1>1 DEF ResolveReads, TimersFit, TimerFits
<1>2. ASSUME NEW answer, SetExternalResult(answer), UNCHANGED <<adv, retried>>
      PROVE  TimersFit'
  <2>1. row'.timer = "none"  BY <1>2 DEF SetExternalResult, TypeInv, TypeOK, Row
  <2>. QED  BY <1>2, <2>1 DEF TimersFit, TimerFits
<1>3. CASE \E answer \in inbox : ResolveExternalTask(answer)
  BY <1>2, <1>3 DEF ResolveExternalTask, Accept, Reject, TimersFit, TimerFits
<1>4. CASE \E s \in Signal \ sent, t \in Task : DeliverSignal(s, t)
  BY <1>2, <1>4 DEF DeliverSignal, Deliver, TimersFit, TimerFits
<1>5. CASE CancelProcess
  <2>1. /\ row.status = "running" /\ row'.timer = row.timer /\ row'.wait = row.wait
        /\ row'.retry = row.retry
    BY <1>5 DEF CancelProcess, TypeInv, TypeOK, Row
  <2>. QED  BY <1>5, <2>1 DEF CancelProcess, TimersFit, TimerFits
<1>6. CASE RetryProcess  BY <1>6 DEF RetryProcess, TimersFit, TypeInv, TypeOK
<1>7. CASE TimerDue
  <2>1. /\ row.timer # "none" /\ row'.status = row.status /\ row'.wait = row.wait
        /\ row'.retry = row.retry
    BY <1>7 DEF TimerDue, TypeInv, TypeOK, Row
  <2>. QED  BY <1>7, <2>1 DEF TimerDue, TimersFit, TimerFits
<1>. QED  BY <1>1, <1>3, <1>4, <1>5, <1>6, <1>7

\* A save keeps the timers if the row it writes has none it does not need.
LEMMA SaveTimers ==
    ASSUME TimersFit, NEW r, Save(r),
           r.timer = "none" \/ r.retry > 0 \/ r.status \notin {"running", "cancelling"}
    PROVE  TimersFit'
BY DEF Save, TimersFit, TimerFits

\* The engine keeps the timers.
LEMMA EngineTimers ==
    ASSUME TypeInv, TimersFit, Claim \/ Advance \/ Crash \/ LeaseExpires
    PROVE  TimersFit'
<1>1. CASE Claim  BY <1>1 DEF Claim, Claimable, TimersFit, TimerFits
<1>2. CASE CancelInstance
  <2>. DEFINE r == [adv.row EXCEPT !.status = "cancelled", !.wait = "none",
                                   !.timer = IF adv.row.retry > 0 THEN "none" ELSE @]
  <2>1. r.status = "cancelled"
    BY <1>2, SnapshotType DEF CancelInstance, Row
  <2>2. Save(r)  BY <1>2 DEF CancelInstance
  <2>. HIDE DEF r
  <2>. QED  BY <2>1, <2>2, SaveTimers
<1>3. ASSUME NEW t \in Task, Proceed(t)
      PROVE  TimersFit'
  <2>. DEFINE r == [adv.row EXCEPT !.status = row.status, !.task = t, !.retry = 0,
                                   !.timer = "none", !.token = TokenKept, !.result = None]
  <2>1. r.timer = "none"  BY <1>3, SnapshotType DEF Proceed, Row
  <2>2. Save(r)  BY <1>3 DEF Proceed
  <2>. HIDE DEF r
  <2>. QED  BY <2>1, <2>2, SaveTimers
<1>4. CASE Complete
  <2>. DEFINE r == [adv.row EXCEPT !.status = "completed", !.retry = 0, !.timer = "none",
                                   !.token = TokenKept, !.result = None]
  <2>1. r.timer = "none"  BY <1>4, SnapshotType DEF Complete, Row
  <2>2. Save(r)  BY <1>4 DEF Complete
  <2>. HIDE DEF r
  <2>. QED  BY <2>1, <2>2, SaveTimers
<1>5. CASE FailInstance
  <2>. DEFINE r == [adv.row EXCEPT !.status = "failed", !.timer = "none",
                                   !.token = TokenKept, !.result = None]
  <2>1. r.timer = "none"  BY <1>5, SnapshotType DEF FailInstance, Row
  <2>2. Save(r)  BY <1>5 DEF FailInstance
  <2>. HIDE DEF r
  <2>. QED  BY <2>1, <2>2, SaveTimers
<1>6. CASE ConsumeSignal
  <2>1. row'.timer = "none" /\ adv'.row = adv.row /\ retried' = retried
    BY <1>6 DEF ConsumeSignal, TypeInv, TypeOK, Row
  <2>. QED  BY <1>6, <2>1 DEF ConsumeSignal, TimersFit, TimerFits
<1>7. CASE ArmExternal
  <2>1. row'.wait = "external" /\ adv' = None
    BY <1>7, SnapshotType DEF ArmExternal, Park, Row
  <2>. QED  BY <2>1 DEF TimersFit, TimerFits
<1>8. CASE TimedOut
  <2>1. adv.row \in Row /\ adv.row.retry \in Nat
    BY <1>8, SnapshotType DEF TimedOut, Row
  <2>2. ASSUME NEW r, NEW armed, Lapse(r, armed), r.timer = "none" \/ r.retry > 0
        PROVE  TimersFit'
    BY <2>2, SaveTimers DEF Lapse
  <2>. DEFINE parked == [adv.row EXCEPT !.wait = "none", !.token = 0]
  <2>3. parked \in [status : {"running", "cancelling", "completed", "failed", "cancelled"},
                    task : Task, wait : {"none"}, timer : {"none", "set", "due"}, retry : Nat,
                    token : {0}, result : Answer \cup {None}]
    BY <2>1 DEF Row
  <2>4. \/ \E armed : Lapse([parked EXCEPT !.retry = parked.retry + 1, !.timer = "set"], armed)
        \/ \E armed : Lapse([parked EXCEPT !.status = "failed", !.timer = "none"], armed)
        \/ \E armed : Lapse([parked EXCEPT !.status = "completed", !.timer = "none"], armed)
        \/ \E armed, t : Lapse([parked EXCEPT !.task = t, !.retry = 0, !.timer = "none"], armed)
    BY <1>8 DEF TimedOut
  <2>. HIDE DEF parked
  <2>5. [parked EXCEPT !.retry = parked.retry + 1, !.timer = "set"].retry > 0  BY <2>3
  <2>6. [parked EXCEPT !.status = "failed", !.timer = "none"].timer = "none"  BY <2>3
  <2>7. [parked EXCEPT !.status = "completed", !.timer = "none"].timer = "none"  BY <2>3
  <2>8. \A t : [parked EXCEPT !.task = t, !.retry = 0, !.timer = "none"].timer = "none"  BY <2>3
  <2>. QED  BY <2>2, <2>4, <2>5, <2>6, <2>7, <2>8
<1>9. CASE Crash \/ LeaseExpires  BY <1>9 DEF Crash, LeaseExpires, TimersFit, TimerFits
<1>10. CASE FailEarly
  <2>. DEFINE r == [adv.row EXCEPT !.status = "failed", !.wait = "none", !.timer = "none"]
  <2>1. r.timer = "none"  BY <1>10, SnapshotType DEF FailEarly, Row
  <2>2. Save(r)  BY <1>10 DEF FailEarly
  <2>. HIDE DEF r
  <2>. QED  BY <2>1, <2>2, SaveTimers
<1>. QED  BY <1>1, <1>2, <1>3, <1>4, <1>5, <1>6, <1>7, <1>8, <1>9, <1>10 DEF Advance

\* Until the operator retries, no timer holds back an instance that neither waits nor
\* backs off, whatever answers, signals, cancellations and crashes come in between.
THEOREM TimersHaveWaits == Spec => []TimerHasItsWait
<1>1. Init => TimersFit  BY DEF Init, TimersFit, TimerFits
<1>2. TypeInv /\ TimersFit /\ [Next]_vars => TimersFit'
  BY ApiTimers, EngineTimers DEF Next, vars, TimersFit, TimerFits
<1>3. TimersFit => TimerHasItsWait  BY DEF TimersFit, TimerFits, TimerHasItsWait
<1>. QED  BY <1>1, <1>2, <1>3, Invariants, PTL DEF Spec

------------------------------------------------------------------------------
(* The mailbox.  What the refinement needs of a state: the advance knows   *)
(* the answer of its row and whether the row waits, and no signal is       *)
(* around that was not sent.                                               *)

\* The API neither answers nor parks under a lease; the advance itself moves a signal
\* into the row.
SnapshotCurrent ==
    InFlight =>
        /\ row.wait = adv.row.wait
        /\ IF adv.hand = None
           THEN row.result = adv.row.result
           ELSE row.result = adv.hand /\ adv.row.result = None /\ adv.row.status = "running"

OnlySent ==
    /\ \A a \in spent : a.by \in sent \cup Nat
    /\ row.result # None => row.result.by \in sent \cup Nat
    /\ \A t \in Task : \A n \in 1 .. Len(buffer[t]) : buffer[t][n] \in sent

MailboxInv == SnapshotCurrent /\ OnlySent

\* What a step can do to the answers: nothing, but for ending a wait without one,
Plain ==
    /\ row'.result = row.result
    /\ \/ row'.wait = "none"
       \/ row'.wait = row.wait /\ row'.token = row.token
    /\ UNCHANGED <<buffer, armings, sent, spent, answered, lapsed>>
    /\ \/ adv' = None
       \/ adv' = adv /\ row'.wait = row.wait
       \/ row' = row /\ adv' = [row |-> row, hand |-> None]

\* put one into the row of a task that waits (of a token or of a new signal),
Answers(answer) ==
    /\ ~InFlight /\ adv' = adv
    /\ row.wait = "external" /\ row.result = None
    /\ row'.result = answer /\ row'.wait = "none"
    /\ answered' = answered \cup {row.token}
    /\ UNCHANGED <<buffer, armings, spent, lapsed>>
    /\ \/ answer.by \in Token /\ sent' = sent
       \/ /\ answer.by \in Signal \ sent /\ sent' = sent \cup {answer.by}
          /\ answer.for = row.task /\ row.status = "running" /\ lease # "live"

\* put a new signal into the buffer,
Buffers(s, t) ==
    /\ s \notin sent /\ sent' = sent \cup {s}
    /\ buffer' = [buffer EXCEPT ![t] = Append(@, s)]
    /\ UNCHANGED <<row, adv, armings, spent, answered, lapsed>>

\* use the answer of the row,
Uses ==
    /\ Running /\ Found # None /\ adv' = None
    /\ row'.result = None /\ row'.wait = "none"
    /\ spent' = spent \cup {Found}
    /\ UNCHANGED <<buffer, armings, sent, answered, lapsed>>

\* or go on as the three phases of runExternal do.
Moves(t) ==
    /\ Running /\ Found = None /\ t = adv.row.task /\ buffer[t] # << >>
    /\ adv.row.wait = "none" /\ row'.wait = "none"
    /\ row'.result = [by |-> Head(buffer[t]), for |-> t]
    /\ adv' = [adv EXCEPT !.hand = row'.result]
    /\ buffer' = [buffer EXCEPT ![t] = Tail(@)]
    /\ UNCHANGED <<armings, sent, spent, answered, lapsed>>

Arms(t) ==
    /\ Running /\ Found = None /\ t = adv.row.task /\ buffer[t] = << >>
    /\ adv.row.wait = "none" /\ row'.wait = "external"
    /\ armings < MaxArmings /\ armings' = armings + 1
    /\ row'.result = None /\ row'.token = armings + 1 /\ adv' = None
    /\ UNCHANGED <<buffer, sent, spent, answered, lapsed>>

Lapses ==
    /\ Running /\ Found = None /\ adv.row.wait = "external" /\ adv' = None
    /\ row'.result = None /\ row'.wait = "none"
    /\ lapsed' = lapsed \cup {row.token}
    /\ UNCHANGED <<buffer, armings, sent, spent, answered>>

\* Every step of the API and of the clock does one of these.
LEMMA ApiKinds ==
    ASSUME TypeInv, ExternalInv,
           \/ \E k \in Token : ResolveReads(k)
           \/ \E answer \in inbox : ResolveExternalTask(answer)
           \/ \E s \in Signal \ sent, t \in Task : DeliverSignal(s, t)
           \/ CancelProcess \/ RetryProcess \/ TimerDue \/ Claim \/ Crash \/ LeaseExpires
    PROVE  \/ Plain \/ \E answer \in Answer : Answers(answer)
           \/ \E s \in Signal, t \in Task : Buffers(s, t)
<1>0. row \in Row  BY DEF TypeInv, TypeOK
<1>1. CASE (\E k \in Token : ResolveReads(k)) \/ Claim \/ Crash \/ LeaseExpires
  BY <1>1 DEF ResolveReads, Claim, Crash, LeaseExpires, Plain
<1>2. ASSUME NEW answer \in inbox, ResolveExternalTask(answer)
      PROVE  Plain \/ \E a \in Answer : Answers(a)
  <2>1. CASE Reject(answer)  BY <2>1 DEF Reject, Plain
  <2>2. CASE Armed /\ lease # "live" /\ row.token = answer.by /\ Accept(answer)
    <3>1. answer \in Answer /\ answer.by \in Token
      BY DEF TypeInv, TypeOK, ExternalInv, InboxFits
    <3>2. row'.result = answer /\ row'.wait = "none"
      BY <1>0, <2>2 DEF Accept, SetExternalResult, Row
    <3>3. ~InFlight /\ row.result = None  BY <2>2 DEF ExternalInv, LeaseHeld, TypeInv, Tokened
    <3>. QED  BY <2>2, <3>1, <3>2, <3>3 DEF Accept, Answers
  <2>. QED  BY <1>2, <2>1, <2>2 DEF ResolveExternalTask
<1>3. ASSUME NEW s \in Signal \ sent, NEW t \in Task, DeliverSignal(s, t)
      PROVE  Buffers(s, t) \/ \E a \in Answer : Answers(a)
  <2>1. CASE row.wait = "external" /\ row.task = t /\ lease # "live"
    <3>. DEFINE answer == [by |-> s, for |-> t]
    <3>1. answer \in Answer /\ answer.by = s /\ answer.for = t  BY DEF Answer
    <3>2. SetExternalResult(answer)  BY <1>3, <2>1 DEF DeliverSignal, Deliver
    <3>. HIDE DEF answer
    <3>3. row'.result = answer /\ row'.wait = "none"
      BY <1>0, <3>2 DEF SetExternalResult, Row
    <3>4. ~InFlight /\ row.result = None  BY <2>1 DEF ExternalInv, LeaseHeld, TypeInv, Tokened
    <3>. QED  BY <1>3, <2>1, <3>1, <3>3, <3>4 DEF DeliverSignal, Deliver, Answers
  <2>2. CASE ~(row.wait = "external" /\ row.task = t /\ lease # "live")
    BY <1>3, <2>2 DEF DeliverSignal, Deliver, Buffers
  <2>. QED  BY <2>1, <2>2
<1>4. CASE CancelProcess  BY <1>0, <1>4 DEF CancelProcess, Plain, Row
<1>5. CASE RetryProcess
  <2>1. adv' = None  BY <1>5 DEF RetryProcess, ExternalInv, LeaseHeld
  <2>. QED  BY <1>0, <1>5, <2>1 DEF RetryProcess, Plain, Row
<1>6. CASE TimerDue  BY <1>0, <1>6 DEF TimerDue, Plain, Row
<1>. QED  BY <1>1, <1>2, <1>3, <1>4, <1>5, <1>6

\* The answer of a snapshot is the one of the row.
LEMMA FoundIsStored ==
    ASSUME SnapshotCurrent, InFlight
    PROVE  Found = row.result
BY DEF SnapshotCurrent, Found

\* Every step of an advance does one of these.
LEMMA AdvanceKinds ==
    ASSUME TypeInv, ExternalInv, SnapshotCurrent, Advance
    PROVE  Plain \/ Uses \/ Lapses \/ \E t \in Task : Moves(t) \/ Arms(t)
<1>0. InFlight /\ adv.row \in Row /\ row \in Row /\ Found = row.result
  BY SnapshotType, FoundIsStored DEF Advance, CancelInstance, FailEarly, Complete,
     FailInstance, ConsumeSignal, ArmExternal, Park, TimedOut, Proceed, TypeInv, TypeOK
<1>1. CASE CancelInstance \/ FailEarly
  <2>1. adv.hand = None  BY <1>1 DEF SnapshotCurrent, CancelInstance, FailEarly
  <2>2. row'.result = adv.row.result /\ row'.wait = "none"
    BY <1>0, <1>1 DEF CancelInstance, FailEarly, Save, Row
  <2>. QED  BY <1>0, <1>1, <2>1, <2>2
       DEF CancelInstance, FailEarly, Save, SnapshotCurrent, Plain
<1>2. ASSUME NEW t \in Task, Proceed(t)
      PROVE  Uses
  <2>1. adv.row.wait = "none"  BY <1>2, AnswerEndsWait DEF Proceed
  <2>. QED  BY <1>0, <1>2, <2>1 DEF Proceed, Save, Uses, Row
<1>3. CASE Complete
  <2>1. adv.row.wait = "none"  BY <1>3, AnswerEndsWait DEF Complete
  <2>. QED  BY <1>0, <1>3, <2>1 DEF Complete, Save, Uses, Row
<1>4. CASE FailInstance
  <2>1. row'.result = None /\ row'.wait = "none"
    BY <1>0, <1>4 DEF FailInstance, Save, Row
  <2>2. CASE Found # None  BY <1>0, <1>4, <2>1, <2>2 DEF FailInstance, Save, Uses
  <2>3. CASE Found = None  BY <1>0, <1>4, <2>1, <2>3 DEF FailInstance, Save, Plain
  <2>. QED  BY <2>2, <2>3
<1>5. CASE ConsumeSignal
  BY <1>0, <1>5 DEF ConsumeSignal, Moves, Row
<1>6. CASE ArmExternal
  BY <1>0, <1>6 DEF ArmExternal, Park, Arms, Found, Row
<1>7. CASE TimedOut
  <2>1. row.token = adv.row.token  BY <1>0, <1>7 DEF TimedOut, ExternalInv, LeaseHeld
  <2>2. adv.row.result = None  BY <1>7 DEF TimedOut, Found
  <2>3. row'.result = None /\ row'.wait = "none"
    BY <1>0, <1>7, <2>2 DEF TimedOut, Lapse, Save, Row
  <2>4. lapsed' = lapsed \cup {row.token} /\ spent' = spent /\ adv' = None
        /\ UNCHANGED <<buffer, armings, sent, answered>>
    BY <1>7, <2>1 DEF TimedOut, Lapse, Save
  <2>. QED  BY <1>7, <2>3, <2>4 DEF TimedOut, Lapses
<1>. QED  BY <1>1, <1>2, <1>3, <1>4, <1>5, <1>6, <1>7 DEF Advance

\* Every step does one of these.
LEMMA StepKinds ==
    ASSUME TypeInv, ExternalInv, SnapshotCurrent, [Next]_vars
    PROVE  \/ Plain \/ Uses \/ Lapses
           \/ \E answer \in Answer : Answers(answer)
           \/ \E s \in Signal, t \in Task : Buffers(s, t)
           \/ \E t \in Task : Moves(t) \/ Arms(t)
<1>1. CASE UNCHANGED vars  BY <1>1 DEF vars, Plain
<1>2. CASE Next  BY <1>2, ApiKinds, AdvanceKinds DEF Next
<1>. QED  BY <1>1, <1>2

\* An advance always knows the answer of its row.
LEMMA SnapshotStep ==
    ASSUME TypeInv, ExternalInv, SnapshotCurrent, [Next]_vars
    PROVE  SnapshotCurrent'
<1>1. CASE Plain  BY <1>1 DEF Plain, SnapshotCurrent
<1>2. CASE \E answer \in Answer : Answers(answer)  BY <1>2 DEF Answers, SnapshotCurrent
<1>3. CASE \E s \in Signal, t \in Task : Buffers(s, t)  BY <1>3 DEF Buffers, SnapshotCurrent
<1>4. CASE Uses \/ Lapses \/ \E t \in Task : Arms(t)
  BY <1>4 DEF Uses, Lapses, Arms, SnapshotCurrent
<1>5. ASSUME NEW t \in Task, Moves(t)
      PROVE  SnapshotCurrent'
  <2>1. adv.row.result = None  BY <1>5 DEF Moves, Found
  <2>2. adv' = [row |-> adv.row, hand |-> row'.result] /\ adv # None
    BY <1>5 DEF Moves, TypeInv, TypeOK
  <2>3. row'.result \in Answer
    <3>1. buffer[t] \in Seq(Signal) /\ buffer[t] # << >>  BY <1>5 DEF Moves, TypeInv, TypeOK
    <3>2. Head(buffer[t]) \in Signal  BY <3>1, HeadTailProperties
    <3>. QED  BY <1>5, <3>2 DEF Moves, Answer
  <2>. QED  BY <1>5, <2>1, <2>2, <2>3, AnswerIsSome DEF Moves, SnapshotCurrent
<1>. QED  BY <1>1, <1>2, <1>3, <1>4, <1>5, StepKinds

\* Only what was sent gets around.
LEMMA OnlySentStep ==
    ASSUME TypeInv, ExternalInv, SnapshotCurrent, OnlySent, [Next]_vars
    PROVE  OnlySent'
<1>0. buffer \in [Task -> Seq(Signal)] /\ armings \in Nat
  BY ExternalConstants DEF TypeInv, TypeOK
<1>1. CASE Plain  BY <1>1 DEF Plain, OnlySent
<1>2. CASE \E answer \in Answer : Answers(answer)
  <2>1. PICK answer \in Answer : Answers(answer)  BY <1>2
  <2>2. answer.by \in sent' \cup Nat  BY <1>0, <2>1 DEF Answers, Token
  <2>. QED  BY <2>1, <2>2 DEF Answers, OnlySent
<1>3. ASSUME NEW s \in Signal, NEW t \in Task, Buffers(s, t)
      PROVE  OnlySent'
  <2>1. ASSUME NEW u \in Task, NEW n \in 1 .. Len(buffer'[u])
        PROVE  buffer'[u][n] \in sent'
    <3>1. CASE u = t
      <4>1. buffer'[u] = Append(buffer[t], s) /\ buffer[t] \in Seq(Signal)
        BY <1>0, <1>3, <3>1 DEF Buffers
      <4>2. /\ Len(buffer'[u]) = Len(buffer[t]) + 1 /\ Len(buffer[t]) \in Nat
            /\ \A m \in 1 .. Len(buffer[t]) : buffer'[u][m] = buffer[t][m]
            /\ buffer'[u][Len(buffer[t]) + 1] = s
        BY <4>1, AppendProperties, LenProperties
      <4>3. CASE n = Len(buffer[t]) + 1  BY <1>3, <4>2, <4>3 DEF Buffers
      <4>4. CASE n # Len(buffer[t]) + 1
        <5>1. n \in 1 .. Len(buffer[t])  BY <4>2, <4>4
        <5>. QED  BY <1>3, <4>2, <5>1 DEF Buffers, OnlySent
      <4>. QED  BY <4>3, <4>4
    <3>2. CASE u # t
      BY <1>0, <1>3, <3>2 DEF Buffers, OnlySent
    <3>. QED  BY <3>1, <3>2
  <2>. QED  BY <1>3, <2>1 DEF Buffers, OnlySent
<1>4. CASE Uses
  <2>1. Found = row.result  BY <1>4, FoundIsStored DEF Uses
  <2>. QED  BY <1>4, <2>1 DEF Uses, OnlySent
<1>5. CASE Lapses \/ \E t \in Task : Arms(t)  BY <1>5 DEF Lapses, Arms, OnlySent
<1>6. ASSUME NEW t \in Task, Moves(t)
      PROVE  OnlySent'
  <2>0. buffer[t] \in Seq(Signal) /\ buffer[t] # << >>  BY <1>0, <1>6 DEF Moves
  <2>1. Len(buffer[t]) \in Nat \ {0} /\ Head(buffer[t]) = buffer[t][1]
    BY <2>0, EmptySeq
  <2>2. row'.result.by \in sent'  BY <1>6, <2>1 DEF Moves, OnlySent
  <2>3. ASSUME NEW u \in Task, NEW n \in 1 .. Len(buffer'[u])
        PROVE  buffer'[u][n] \in sent'
    <3>1. CASE u = t
      <4>1. buffer'[u] = Tail(buffer[t])  BY <1>0, <1>6, <3>1 DEF Moves
      <4>2. Len(buffer'[u]) = Len(buffer[t]) - 1 /\ buffer'[u][n] = buffer[t][n + 1]
        BY <2>0, <4>1, HeadTailProperties
      <4>3. n + 1 \in 1 .. Len(buffer[t])  BY <2>1, <4>2
      <4>. QED  BY <1>6, <4>2, <4>3 DEF Moves, OnlySent
    <3>2. CASE u # t  BY <1>0, <1>6, <3>2 DEF Moves, OnlySent
    <3>. QED  BY <3>1, <3>2
  <2>. QED  BY <1>6, <2>2, <2>3 DEF Moves, OnlySent
<1>. QED  BY <1>1, <1>2, <1>3, <1>4, <1>5, <1>6, StepKinds

\* Every step keeps what the refinement needs.
LEMMA MailboxStep == TypeInv /\ ExternalInv /\ MailboxInv /\ [Next]_vars => MailboxInv'
BY SnapshotStep, OnlySentStep DEF MailboxInv

LEMMA InitMailbox == Init => MailboxInv
<1>. SUFFICES ASSUME Init  PROVE MailboxInv
  OBVIOUS
<1>1. \A t \in Task : Len(buffer[t]) = 0  BY DEF Init
<1>. QED  BY <1>1 DEF Init, MailboxInv, SnapshotCurrent, OnlySent

------------------------------------------------------------------------------
(* The refinement: each kind of step is a step of Mailbox or a stutter.    *)

LEMMA HeadThenTail ==
    ASSUME NEW line \in Seq(Signal), line # << >>
    PROVE  <<Head(line)>> \o Tail(line) = line
<1>. DEFINE s0 == Head(line)
            rest == Tail(line)
            full == <<s0>> \o rest
<1>1. /\ s0 \in Signal /\ rest \in Seq(Signal) /\ Len(rest) = Len(line) - 1
      /\ \A i \in 1 .. Len(rest) : rest[i] = line[i + 1]
      /\ Len(line) \in Nat \ {0} /\ s0 = line[1]
  BY HeadTailProperties, LenProperties, EmptySeq
<1>. HIDE DEF s0, rest
<1>2. <<s0>> \in Seq(Signal) /\ Len(<<s0>>) = 1 /\ <<s0>>[1] = s0  BY <1>1
<1>3. /\ full \in Seq(Signal) /\ Len(full) = 1 + Len(rest)
      /\ \A i \in 1 .. 1 + Len(rest) : full[i] = IF i <= 1 THEN s0 ELSE rest[i - 1]
  BY <1>1, <1>2, ConcatProperties
<1>. HIDE DEF full
<1>4. Len(full) = Len(line)  BY <1>1, <1>3
<1>5. ASSUME NEW i \in 1 .. Len(full)
      PROVE  full[i] = line[i]
  <2>1. CASE i = 1  BY <1>1, <1>3, <2>1
  <2>2. CASE i # 1
    <3>1. i - 1 \in 1 .. Len(rest) /\ (i - 1) + 1 = i /\ ~ (i <= 1)  BY <1>1, <1>3, <2>2
    <3>2. full[i] = rest[i - 1]  BY <1>3, <3>1
    <3>. QED  BY <1>1, <3>1, <3>2
  <2>. QED  BY <2>1, <2>2
<1>6. full = line  BY <1>3, <1>4, <1>5, SeqEqual
<1>. QED  BY <1>6 DEF full, s0, rest

\* A line in which the answer of the row, if a signal for t gave it, comes first.
Leads(result, t) == result # None /\ result.by \in Signal /\ result.for = t

Line(result, line, t) == (IF Leads(result, t) THEN <<result.by>> ELSE << >>) \o line

\* Without such an answer it is the buffer;
LEMMA UnledLine ==
    ASSUME NEW result, NEW line \in Seq(Signal), NEW t, ~ Leads(result, t)
    PROVE  Line(result, line, t) = line
BY ConcatEmptySeq DEF Line

\* otherwise the answer is its head and the buffer its tail.
LEMMA LedLine ==
    ASSUME NEW result, NEW line \in Seq(Signal), NEW t, Leads(result, t)
    PROVE  /\ Line(result, line, t) = <<result.by>> \o line
           /\ Line(result, line, t) \in Seq(Signal)
           /\ Line(result, line, t) # << >>
           /\ Head(Line(result, line, t)) = result.by
           /\ Tail(Line(result, line, t)) = line
<1>. DEFINE s0 == result.by
            full == <<s0>> \o line
<1>1. s0 \in Signal /\ <<s0>> \in Seq(Signal) /\ Len(<<s0>>) = 1 /\ <<s0>>[1] = s0
  BY DEF Leads
<1>2. Line(result, line, t) = full  BY DEF Line
<1>. HIDE DEF s0
<1>3. /\ full \in Seq(Signal) /\ Len(full) = 1 + Len(line) /\ Len(line) \in Nat
      /\ \A i \in 1 .. 1 + Len(line) : full[i] = IF i <= 1 THEN s0 ELSE line[i - 1]
  BY <1>1, ConcatProperties, LenProperties
<1>. HIDE DEF full
<1>4. full # << >> /\ full[1] = s0  BY <1>3, EmptySeq
<1>5. Head(full) = s0  BY <1>3, <1>4
<1>6. Tail(full) = line
  <2>1. /\ Tail(full) \in Seq(Signal) /\ Len(Tail(full)) = Len(line)
        /\ \A i \in 1 .. Len(line) : Tail(full)[i] = full[i + 1]
    BY <1>3, <1>4, HeadTailProperties
  <2>2. \A i \in 1 .. Len(line) : full[i + 1] = line[i]  BY <1>3
  <2>. QED  BY <2>1, <2>2, SeqEqual
<1>. QED  BY <1>2, <1>3, <1>4, <1>5, <1>6 DEF full, s0

LEMMA LongerLine ==
    ASSUME NEW result, NEW line \in Seq(Signal), NEW t, NEW s \in Signal
    PROVE  Line(result, Append(line, s), t) = Append(Line(result, line, t), s)
<1>1. Append(line, s) \in Seq(Signal)  BY AppendProperties
<1>2. CASE ~ Leads(result, t)  BY <1>1, <1>2, UnledLine
<1>3. CASE Leads(result, t)
  <2>. DEFINE s0 == result.by
  <2>1. <<s0>> \in Seq(Signal) /\ <<s>> \in Seq(Signal)  BY <1>3 DEF Leads
  <2>2. <<s0>> \o line \in Seq(Signal)  BY <2>1, ConcatProperties
  <2>3. (<<s0>> \o line) \o <<s>> = <<s0>> \o (line \o <<s>>)
    BY <2>1, ConcatAssociative
  <2>4. Append(<<s0>> \o line, s) = <<s0>> \o Append(line, s)
    BY <2>2, <2>3, AppendIsConcat
  <2>5. Line(result, line, t) = <<s0>> \o line  BY <1>3, LedLine
  <2>6. Line(result, Append(line, s), t) = <<s0>> \o Append(line, s)
    BY <1>1, <1>3, LedLine
  <2>. QED  BY <2>4, <2>5, <2>6
<1>. QED  BY <1>2, <1>3

\* The state function of the refinement, through Line.
LEMMA LinesAre ==
    /\ Lines = [t \in Task |-> Line(row.result, buffer[t], t)]
    /\ Lines' = [t \in Task |-> Line(row'.result, buffer'[t], t)]
BY DEF Lines, InLine, Line, Leads

\* The occurrence that the row waits for is the open one of Mailbox.
LEMMA WaitedForIsOpen ==
    ASSUME TypeInv, ExternalInv, row.wait = "external"
    PROVE  row.token \in 1 .. MaxArmings /\ Outcomes[row.token] = "open"
<1>1. /\ row.token \in 1 .. armings /\ armings \in 0 .. MaxArmings /\ MaxArmings \in Nat
      /\ row.token \notin answered \cup lapsed
  BY ExternalConstants DEF TypeInv, TypeOK, Tokened, Token, ExternalInv, WaitIsOpen
<1>2. row.token \in 1 .. MaxArmings /\ ~ (row.token > armings)  BY <1>1
<1>. QED  BY <1>1, <1>2 DEF Outcomes, OutcomeOf

\* Nothing that is not sent is in line or used.
LEMMA UnsentIsUnseen ==
    ASSUME TypeInv, OnlySent, NEW s \in Signal \ sent
    PROVE  Abstract!Unsent(s)
<1>0. s \notin Nat /\ buffer \in [Task -> Seq(Signal)]
  BY ExternalConstants DEF TypeInv, TypeOK
<1>1. s \notin Used  BY <1>0 DEF Used, OnlySent
<1>2. ASSUME NEW t \in Task, NEW n \in 1 .. Len(Lines[t])
      PROVE  Lines[t][n] # s
  <2>1. Lines[t] = Line(row.result, buffer[t], t) /\ buffer[t] \in Seq(Signal)
    BY <1>0, LinesAre
  <2>2. CASE ~ Leads(row.result, t)
    <3>1. Lines[t] = buffer[t]  BY <2>1, <2>2, UnledLine
    <3>. QED  BY <1>2, <3>1 DEF OnlySent
  <2>3. CASE Leads(row.result, t)
    <3>. DEFINE line == Line(row.result, buffer[t], t)
    <3>a. buffer[t] \in Seq(Signal)  BY <2>1
    <3>b. line \in Seq(Signal)  BY <2>3, <3>a, LedLine
    <3>c. line # << >> /\ Head(line) = row.result.by /\ Tail(line) = buffer[t]
      BY <2>3, <3>a, LedLine
    <3>. HIDE DEF line
    <3>1. /\ Lines[t] \in Seq(Signal) /\ Lines[t] # << >>
          /\ Head(Lines[t]) = row.result.by /\ Tail(Lines[t]) = buffer[t]
      BY <2>1, <3>b, <3>c DEF line
    <3>2. row.result.by \in sent  BY <2>3, ExternalConstants DEF OnlySent, Leads
    <3>3. CASE n = 1
      <4>1. Lines[t][1] = row.result.by  BY <3>1, EmptySeq
      <4>. QED  BY <3>2, <3>3, <4>1
    <3>4. CASE n # 1
      <4>1. /\ Len(buffer[t]) = Len(Lines[t]) - 1 /\ Len(Lines[t]) \in Nat
            /\ \A i \in 1 .. Len(buffer[t]) : buffer[t][i] = Lines[t][i + 1]
        BY <3>1, HeadTailProperties, LenProperties
      <4>2. n - 1 \in 1 .. Len(buffer[t]) /\ (n - 1) + 1 = n  BY <1>2, <3>4, <4>1
      <4>3. buffer[t][n - 1] \in sent  BY <4>2 DEF OnlySent
      <4>. QED  BY <4>1, <4>2, <4>3
    <3>. QED  BY <3>3, <3>4
  <2>. QED  BY <2>2, <2>3
<1>. QED  BY <1>1, <1>2 DEF Abstract!Unsent

\* A step that ends a wait, or finds none, and decides nothing: the occurrence that the
\* row waited for is dropped, and the others stay what they are.
LEMMA ClosedOutcomes ==
    ASSUME TypeInv, ExternalInv, row'.wait = "none", UNCHANGED <<armings, answered, lapsed>>
    PROVE  IF row.wait = "external" THEN Outcomes' = [Outcomes EXCEPT ![row.token] = "dropped"]
                                    ELSE Outcomes' = Outcomes
<1>1. CASE row.wait # "external"  BY <1>1 DEF Outcomes, OutcomeOf
<1>2. CASE row.wait = "external"
  <2>1. row.token \in 1 .. MaxArmings /\ OutcomeOf(row.token) = "open"
    BY <1>2, WaitedForIsOpen DEF Outcomes
  <2>2. \A k \in 1 .. MaxArmings :
            OutcomeOf(k)' = IF k = row.token THEN "dropped" ELSE OutcomeOf(k)
    BY <2>1 DEF OutcomeOf
  <2>. QED  BY <1>2, <2>1, <2>2 DEF Outcomes
<1>. QED  BY <1>1, <1>2

LEMMA PlainRefines ==
    ASSUME TypeInv, ExternalInv, Plain
    PROVE  (\E k \in Abstract!Occurrence : Abstract!Drop(k)) \/ UNCHANGED <<Lines, Used, Outcomes>>
<1>1. Lines' = Lines  BY LinesAre DEF Plain
<1>2. Used' = Used  BY DEF Plain, Used
<1>3. CASE row'.wait = row.wait /\ row'.token = row.token
  <2>1. Outcomes' = Outcomes  BY <1>3 DEF Plain, Outcomes, OutcomeOf
  <2>. QED  BY <1>1, <1>2, <2>1
<1>4. CASE row'.wait = "none"
  <2>1. CASE row.wait = "external"
    <3>1. row.token \in 1 .. MaxArmings /\ Outcomes[row.token] = "open"
      BY <2>1, WaitedForIsOpen
    <3>2. Outcomes' = [Outcomes EXCEPT ![row.token] = "dropped"]
      BY <1>4, <2>1, ClosedOutcomes DEF Plain
    <3>3. Abstract!Drop(row.token)
      BY <1>1, <1>2, <3>1, <3>2 DEF Abstract!Drop, Abstract!Decide
    <3>. QED  BY <3>1, <3>3 DEF Abstract!Occurrence
  <2>2. CASE row.wait # "external"
    <3>1. Outcomes' = Outcomes  BY <1>4, <2>2, ClosedOutcomes DEF Plain
    <3>. QED  BY <1>1, <1>2, <3>1
  <2>. QED  BY <2>1, <2>2
<1>. QED  BY <1>3, <1>4 DEF Plain

LEMMA AnswersRefines ==
    ASSUME TypeInv, ExternalInv, MailboxInv, NEW answer \in Answer, Answers(answer)
    PROVE  \/ \E k \in Abstract!Occurrence : Abstract!Resolve(k)
           \/ \E s \in Signal, t \in Task, k \in Abstract!Occurrence : Abstract!Answer(s, t, k)
<1>. DEFINE k == row.token
<1>1. k \in 1 .. MaxArmings /\ Outcomes[k] = "open" /\ row.wait = "external"
  BY WaitedForIsOpen DEF Answers
<1>2. Outcomes' = [Outcomes EXCEPT ![k] = "answered"]
  <2>1. \A j \in 1 .. MaxArmings : OutcomeOf(j)' = IF j = k THEN "answered" ELSE OutcomeOf(j)
    <3>1. ~ (k > armings)  BY <1>1 DEF Outcomes, OutcomeOf
    <3>. QED  BY <3>1 DEF Answers, OutcomeOf
  <2>. QED  BY <1>1, <2>1 DEF Outcomes
<1>3. Abstract!Decide(k, "answered")  BY <1>1, <1>2 DEF Abstract!Decide
<1>4. Used' = Used  BY DEF Answers, Used
<1>5. row.task \in Task /\ buffer \in [Task -> Seq(Signal)] /\ row.result = None
  BY DEF Answers, TypeInv, TypeOK, Row
<1>6. \A t \in Task : ~ Leads(row.result, t) /\ Lines[t] = buffer[t]
  <2>1. \A t \in Task : ~ Leads(row.result, t)  BY <1>5 DEF Leads
  <2>. QED  BY <1>5, <2>1, UnledLine, LinesAre
<1>7. CASE answer.by \in Token
  <2>1. answer.by \notin Signal  BY <1>7, ExternalConstants DEF Token, TypeInv, TypeOK
  <2>2. \A t \in Task : Line(row'.result, buffer'[t], t) = buffer[t]
    <3>1. \A t \in Task : ~ Leads(row'.result, t)  BY <2>1 DEF Answers, Leads
    <3>2. buffer' = buffer /\ \A t \in Task : buffer[t] \in Seq(Signal)  BY <1>5 DEF Answers
    <3>. QED  BY <3>1, <3>2, UnledLine
  <2>3. Lines' = Lines  BY <1>5, <1>6, <2>2, LinesAre
  <2>4. Abstract!Resolve(k)  BY <1>3, <1>4, <2>3 DEF Abstract!Resolve
  <2>. QED  BY <1>1, <2>4 DEF Abstract!Occurrence
<1>8. CASE /\ answer.by \in Signal \ sent /\ answer.for = row.task
           /\ row.status = "running" /\ lease # "live"
  <2>. DEFINE s == answer.by
              t == row.task
  <2>1. answer # None  BY AnswerIsSome
  <2>2. \A u \in Task : Line(row'.result, buffer'[u], u) =
                             IF u = t THEN <<s>> \o buffer[u] ELSE buffer[u]
    <3>1. \A u \in Task : Leads(row'.result, u) <=> u = t
      BY <1>8, <2>1 DEF Answers, Leads
    <3>2. buffer' = buffer /\ row'.result.by = s /\ \A u \in Task : buffer[u] \in Seq(Signal)
      BY <1>5 DEF Answers
    <3>3. ASSUME NEW u \in Task, u = t
          PROVE  Line(row'.result, buffer'[u], u) = <<s>> \o buffer[u]
      <4>. HIDE DEF s, t
      <4>1. Leads(row'.result, u) /\ buffer[u] \in Seq(Signal)  BY <3>1, <3>2, <3>3
      <4>2. Line(row'.result, buffer[u], u) = <<row'.result.by>> \o buffer[u]
        BY <4>1, LedLine
      <4>. QED  BY <3>2, <4>2
    <3>4. ASSUME NEW u \in Task, u # t
          PROVE  Line(row'.result, buffer'[u], u) = buffer[u]
      <4>. HIDE DEF s, t
      <4>. QED  BY <3>1, <3>2, <3>4, UnledLine
    <3>. QED  BY <3>3, <3>4
  <2>3. Lines' = [Lines EXCEPT ![t] = <<s>> \o @]
    BY <1>5, <1>6, <2>2, LinesAre
  <2>4. Lines[t] = << >> \/ lease = "expired"
    BY <1>1, <1>5, <1>6, <1>8 DEF ExternalInv, NoStrandedSignal, Armed, TypeInv, TypeOK
  <2>5. Abstract!Unsent(s)  BY <1>8, UnsentIsUnseen DEF MailboxInv
  <2>6. Abstract!Answer(s, t, k)
    BY <1>3, <1>4, <2>3, <2>4, <2>5 DEF Abstract!Answer
  <2>. QED  BY <1>1, <1>5, <1>8, <2>6 DEF Abstract!Occurrence
<1>. QED  BY <1>7, <1>8 DEF Answers

LEMMA BuffersRefines ==
    ASSUME TypeInv, OnlySent, NEW s \in Signal, NEW t \in Task, Buffers(s, t)
    PROVE  Abstract!Send(s, t)
<1>1. Abstract!Unsent(s)  BY UnsentIsUnseen DEF Buffers
<1>2. UNCHANGED <<Used, Outcomes>>  BY DEF Buffers, Used, Outcomes, OutcomeOf
<1>3. buffer \in [Task -> Seq(Signal)]  BY DEF TypeInv, TypeOK
<1>4. \A u \in Task : Line(row.result, buffer'[u], u) =
          IF u = t THEN Append(Line(row.result, buffer[u], u), s)
          ELSE Line(row.result, buffer[u], u)
  <2>1. \A u \in Task : buffer'[u] = IF u = t THEN Append(buffer[u], s) ELSE buffer[u]
    BY <1>3 DEF Buffers
  <2>2. Line(row.result, Append(buffer[t], s), t) = Append(Line(row.result, buffer[t], t), s)
    <3>1. buffer[t] \in Seq(Signal)  BY <1>3
    <3>. QED  BY <3>1, LongerLine
  <2>. QED  BY <2>1, <2>2
<1>5. Lines' = [Lines EXCEPT ![t] = Append(@, s)]  BY <1>4, LinesAre DEF Buffers
<1>. QED  BY <1>1, <1>2, <1>5 DEF Abstract!Send

LEMMA UsesRefines ==
    ASSUME TypeInv, ExternalInv, MailboxInv, Uses
    PROVE  (\E t \in Task : Abstract!Use(t)) \/ UNCHANGED <<Lines, Used, Outcomes>>
<1>. DEFINE r == row.result
<1>1. Found = r /\ r # None  BY FoundIsStored DEF Uses, MailboxInv
<1>2. Outcomes' = Outcomes
  <2>1. row.wait # "external"  BY <1>1 DEF TypeInv, Tokened
  <2>. QED  BY <2>1, ClosedOutcomes DEF Uses
<1>3. r \in Answer /\ r.for \in Task /\ buffer \in [Task -> Seq(Signal)]
  BY <1>1 DEF TypeInv, TypeOK, Row, Answer
<1>4. \A u \in Task : Line(row'.result, buffer'[u], u) = buffer[u]
  <2>1. \A u \in Task : ~ Leads(row'.result, u)  BY DEF Uses, Leads
  <2>2. buffer' = buffer /\ \A u \in Task : buffer[u] \in Seq(Signal)  BY <1>3 DEF Uses
  <2>. QED  BY <2>1, <2>2, UnledLine
<1>5. spent' = spent \cup {r}  BY <1>1 DEF Uses
<1>6. CASE r.by \in Signal
  <2>. DEFINE t == r.for
  <2>1. Used' = Used \cup {r.by}  BY <1>5, <1>6 DEF Used
  <2>2. \A u \in Task : Leads(r, u) <=> u = t  BY <1>1, <1>6 DEF Leads
  <2>3. \A u \in Task : u # t => Line(r, buffer[u], u) = buffer[u]
    <3>1. ASSUME NEW u \in Task, u # t
          PROVE  Line(r, buffer[u], u) = buffer[u]
      <4>. HIDE DEF t, r
      <4>1. ~ Leads(r, u) /\ buffer[u] \in Seq(Signal)  BY <1>3, <2>2, <3>1
      <4>. QED  BY <4>1, UnledLine
    <3>. QED  BY <3>1
  <2>4. /\ Line(r, buffer[t], t) # << >> /\ Head(Line(r, buffer[t], t)) = r.by
        /\ Tail(Line(r, buffer[t], t)) = buffer[t]
    <3>1. Leads(r, t) /\ buffer[t] \in Seq(Signal)  BY <1>3, <2>2
    <3>. QED  BY <3>1, LedLine
  <2>. HIDE DEF t, r
  <2>5. /\ Lines = [u \in Task |-> Line(r, buffer[u], u)]
        /\ Lines' = [u \in Task |-> Line(row'.result, buffer'[u], u)]
    BY LinesAre DEF r
  <2>6. Lines[t] = Line(r, buffer[t], t)  BY <1>3, <2>5 DEF t
  <2>7. Lines' = [Lines EXCEPT ![t] = Tail(@)]
    <3>1. Lines' = [u \in Task |-> IF u = t THEN Tail(Line(r, buffer[u], u))
                                   ELSE Line(r, buffer[u], u)]
      BY <1>4, <2>3, <2>4, <2>5
    <3>. QED  BY <2>5, <3>1
  <2>8. Lines[t] # << >> /\ Head(Lines[t]) = r.by  BY <2>4, <2>6
  <2>9. Abstract!Use(t)  BY <1>2, <2>1, <2>7, <2>8 DEF Abstract!Use
  <2>. QED  BY <1>3, <2>9 DEF t
<1>7. CASE r.by \notin Signal
  <2>1. Used' = Used  BY <1>5, <1>7 DEF Used
  <2>2. \A u \in Task : Line(r, buffer[u], u) = buffer[u]
    <3>1. \A u \in Task : ~ Leads(r, u)  BY <1>7 DEF Leads
    <3>2. \A u \in Task : buffer[u] \in Seq(Signal)  BY <1>3
    <3>. HIDE DEF r
    <3>. QED  BY <3>1, <3>2, UnledLine
  <2>3. Lines' = Lines  BY <1>4, <2>2, LinesAre
  <2>. QED  BY <1>2, <2>1, <2>3
<1>. QED  BY <1>6, <1>7

LEMMA LapsesRefines ==
    ASSUME TypeInv, ExternalInv, MailboxInv, Lapses
    PROVE  \E k \in Abstract!Occurrence : Abstract!Lapse(k)
<1>. DEFINE k == row.token
<1>1. row.wait = "external" /\ row.result = None
  BY FoundIsStored DEF Lapses, ExternalInv, LeaseHeld, MailboxInv
<1>2. k \in 1 .. MaxArmings /\ Outcomes[k] = "open"  BY <1>1, WaitedForIsOpen
<1>3. Outcomes' = [Outcomes EXCEPT ![k] = "lapsed"]
  <2>1. /\ k \notin answered /\ ~ (k > armings)
        /\ UNCHANGED <<armings, answered>> /\ lapsed' = lapsed \cup {k} /\ row'.wait = "none"
    BY <1>1, <1>2 DEF Lapses, ExternalInv, WaitIsOpen, Outcomes, OutcomeOf
  <2>2. \A j \in 1 .. MaxArmings : OutcomeOf(j)' = IF j = k THEN "lapsed" ELSE OutcomeOf(j)
    BY <1>1, <2>1 DEF OutcomeOf
  <2>. QED  BY <1>2, <2>2 DEF Outcomes
<1>4. Used' = Used  BY DEF Lapses, Used
<1>5. row'.result = row.result /\ buffer' = buffer  BY <1>1 DEF Lapses
<1>6. Lines' = Lines  BY <1>5, LinesAre
<1>7. Abstract!Lapse(k)  BY <1>2, <1>3, <1>4, <1>6 DEF Abstract!Lapse, Abstract!Decide
<1>. QED  BY <1>2, <1>7 DEF Abstract!Occurrence

\* A row without an answer has nothing before the buffers.
LEMMA BufferedLines ==
    ASSUME TypeInv, row.result = None, NEW t \in Task
    PROVE  Lines[t] = buffer[t]
<1>1. ~ Leads(row.result, t) /\ buffer[t] \in Seq(Signal)  BY DEF Leads, TypeInv, TypeOK
<1>. QED  BY <1>1, UnledLine, LinesAre

LEMMA MovesRefines ==
    ASSUME TypeInv, ExternalInv, MailboxInv, NEW t \in Task, Moves(t)
    PROVE  UNCHANGED <<Lines, Used, Outcomes>>
<1>. DEFINE s0 == Head(buffer[t])
<1>1. row.result = None  BY FoundIsStored DEF Moves, MailboxInv
<1>2. /\ buffer \in [Task -> Seq(Signal)] /\ buffer[t] # << >> /\ buffer[t] \in Seq(Signal)
  BY DEF Moves, TypeInv, TypeOK
<1>3. s0 \in Signal /\ Tail(buffer[t]) \in Seq(Signal)  BY <1>2, HeadTailProperties
<1>4. Lines' = Lines
  <2>1. [by |-> s0, for |-> t] \in Answer  BY <1>3 DEF Answer
  <2>2. \A u \in Task : Leads(row'.result, u) <=> u = t
    <3>. HIDE DEF s0
    <3>1. row'.result = [by |-> s0, for |-> t]  BY DEF Moves, s0
    <3>. QED  BY <1>3, <2>1, <3>1, AnswerIsSome DEF Leads
  <2>3. ASSUME NEW u \in Task, u # t
        PROVE  Line(row'.result, buffer'[u], u) = Lines[u]
    <3>1. ~ Leads(row'.result, u) /\ buffer'[u] = buffer[u] /\ buffer[u] \in Seq(Signal)
      BY <1>2, <2>2, <2>3 DEF Moves
    <3>. QED  BY <1>1, <3>1, UnledLine, BufferedLines
  <2>4. Line(row'.result, buffer'[t], t) = Lines[t]
    <3>1. Leads(row'.result, t) /\ buffer'[t] = Tail(buffer[t]) /\ row'.result.by = s0
      BY <1>2, <2>2 DEF Moves
    <3>2. Line(row'.result, buffer'[t], t) = <<s0>> \o Tail(buffer[t])
      <4>. HIDE DEF s0
      <4>1. buffer'[t] \in Seq(Signal)  BY <1>3, <3>1
      <4>2. Line(row'.result, buffer'[t], t) = <<row'.result.by>> \o buffer'[t]
        BY <3>1, <4>1, LedLine
      <4>. QED  BY <3>1, <4>2
    <3>3. <<s0>> \o Tail(buffer[t]) = buffer[t]  BY <1>2, HeadThenTail
    <3>. QED  BY <1>1, <3>2, <3>3, BufferedLines
  <2>5. \A u \in Task : Line(row'.result, buffer'[u], u) = Lines[u]  BY <2>3, <2>4
  <2>6. Lines' = [u \in Task |-> Lines[u]]  BY <2>5, LinesAre
  <2>. QED  BY <2>6, LinesAre
<1>5. Used' = Used  BY DEF Moves, Used
<1>6. Outcomes' = Outcomes
  <2>1. row.wait = "none"  BY DEF Moves, MailboxInv, SnapshotCurrent
  <2>. QED  BY <2>1, ClosedOutcomes DEF Moves
<1>. QED  BY <1>4, <1>5, <1>6

LEMMA ArmsRefines ==
    ASSUME TypeInv, ExternalInv, MailboxInv, NEW t \in Task, Arms(t)
    PROVE  \E k \in Abstract!Occurrence : Abstract!Open(k, t)
<1>. DEFINE k == armings + 1
<1>1. row.result = None  BY FoundIsStored DEF Arms, MailboxInv
<1>2. k \in 1 .. MaxArmings /\ armings \in Nat
  BY ExternalConstants DEF Arms, TypeInv, TypeOK
<1>3. Lines[t] = << >>  BY <1>1, BufferedLines DEF Arms
<1>4. Lines' = Lines
  <2>1. row'.result = row.result /\ buffer' = buffer  BY <1>1 DEF Arms
  <2>. QED  BY <2>1, LinesAre
<1>5. Used' = Used  BY DEF Arms, Used
<1>6. /\ armings' = armings + 1 /\ UNCHANGED <<answered, lapsed>>
      /\ row'.token = k /\ row'.wait = "external" /\ row.wait = "none"
      /\ answered \subseteq 1 .. armings /\ lapsed \subseteq 1 .. armings
  BY DEF Arms, TypeInv, TypeOK, Token, MailboxInv, SnapshotCurrent
<1>7. \A j \in 1 .. MaxArmings :
          OutcomeOf(j) # "open" /\ OutcomeOf(j)' = IF j = k THEN "open" ELSE OutcomeOf(j)
  <2>1. \A j \in 1 .. MaxArmings : (j > armings' <=> j > armings /\ j # k) /\ j \in Int
    BY <1>2, <1>6
  <2>2. k \notin answered /\ k \notin lapsed  BY <1>2, <1>6
  <2>. HIDE DEF k
  <2>. QED  BY <1>6, <2>1, <2>2 DEF OutcomeOf
<1>8. Outcomes[k] = "unissued"  BY <1>2 DEF Outcomes, OutcomeOf
<1>9. Outcomes' = [Outcomes EXCEPT ![k] = "open"]  BY <1>7 DEF Outcomes
<1>10. \A j \in Abstract!Occurrence : Outcomes[j] # "open"
  BY <1>7 DEF Outcomes, Abstract!Occurrence
<1>11. Abstract!Open(k, t)
  BY <1>3, <1>4, <1>5, <1>8, <1>9, <1>10 DEF Abstract!Open
<1>. QED  BY <1>2, <1>11 DEF Abstract!Occurrence

LEMMA InitRefines == Init => Abstract!Init
<1>. SUFFICES ASSUME Init  PROVE Abstract!Init
  OBVIOUS
<1>1. Lines = [t \in Task |-> << >>]
  <2>1. \A t \in Task : buffer[t] = << >> /\ ~ Leads(row.result, t)  BY DEF Init, Leads
  <2>2. \A t \in Task : Line(row.result, buffer[t], t) = << >>
    <3>1. << >> \in Seq(Signal)  BY EmptySeq
    <3>2. ASSUME NEW t \in Task  PROVE Line(row.result, << >>, t) = << >>
      <4>1. ~ Leads(row.result, t)  BY <2>1
      <4>. QED  BY <3>1, <4>1, UnledLine
    <3>. QED  BY <2>1, <3>2
  <2>. QED  BY <2>2, LinesAre
<1>2. Used = {}  BY DEF Init, Used
<1>3. Outcomes = [k \in Abstract!Occurrence |-> "unissued"]
  BY ExternalConstants DEF Init, Outcomes, OutcomeOf, Abstract!Occurrence
<1>4. (lease = "expired") = FALSE  BY DEF Init
<1>. QED  BY <1>1, <1>2, <1>3, <1>4 DEF Abstract!Init

LEMMA StepRefines ==
    TypeInv /\ ExternalInv /\ MailboxInv /\ [Next]_vars => [Abstract!Next]_(Abstract!vars)
<1>. SUFFICES ASSUME TypeInv, ExternalInv, MailboxInv, [Next]_vars  PROVE Abstract!Next
  BY DEF Abstract!vars
<1>0. SnapshotCurrent /\ OnlySent  BY DEF MailboxInv
<1>1. (lease = "expired")' \in BOOLEAN  OBVIOUS
<1>2. CASE Plain  BY <1>1, <1>2, PlainRefines DEF Abstract!Next
<1>3. CASE \E answer \in Answer : Answers(answer)
  <2>1. PICK answer \in Answer : Answers(answer)  BY <1>3
  <2>. QED  BY <1>1, <2>1, AnswersRefines DEF Abstract!Next
<1>4. CASE \E s \in Signal, t \in Task : Buffers(s, t)
  BY <1>0, <1>1, <1>4, BuffersRefines DEF Abstract!Next
<1>5. CASE Uses  BY <1>1, <1>5, UsesRefines DEF Abstract!Next
<1>6. CASE \E t \in Task : Moves(t) \/ Arms(t)
  BY <1>1, <1>6, MovesRefines, ArmsRefines DEF Abstract!Next
<1>7. CASE Lapses  BY <1>1, <1>7, LapsesRefines DEF Abstract!Next
<1>. QED  BY <1>0, <1>2, <1>3, <1>4, <1>5, <1>6, <1>7, StepKinds

\* The rows, leases and advances of the code keep the promise of Mailbox: signals are
\* used in the order in which the API accepted them, each once, and an occurrence is
\* decided at most once and opens only with no signal in line.
THEOREM KeepsMailboxPromise == Spec => ImplementsMailbox
<1>1. Spec => [](TypeInv /\ ExternalInv /\ MailboxInv)
  <2>1. Init => TypeInv /\ ExternalInv /\ MailboxInv
    BY InitType, InitExternal, InitMailbox
  <2>2. TypeInv /\ ExternalInv /\ MailboxInv /\ [Next]_vars
            => (TypeInv /\ ExternalInv /\ MailboxInv)'
    BY TypeStep, ExternalStep, MailboxStep
  <2>. QED  BY <2>1, <2>2, PTL DEF Spec
<1>. QED  BY <1>1, InitRefines, StepRefines, PTL DEF Spec, ImplementsMailbox, Abstract!Spec
==============================================================================
