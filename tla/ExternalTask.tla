----------------------------- MODULE ExternalTask -----------------------------
(***************************************************************************)
(* One running instance whose tasks are external: the engine parks the row *)
(* under a fresh token and releases it, and the result comes from outside, *)
(* by the resolve API (with the token of the occurrence) or by a signal    *)
(* (addressed to the task, buffered when the task is not armed).  A        *)
(* timeout, a cancellation, a retry by the operator and the death of the   *)
(* worker race with both.                                                  *)
(*                                                                         *)
(* Every transaction is one step.  An advance works on the snapshot taken  *)
(* by its claim; leases are exclusive while the worker lives (WorkerPump). *)
(* No task is only_once.  Values are left out: an answer is known by where *)
(* it comes from and by the task whose result_schema it was checked with.  *)
(***************************************************************************)
EXTENDS Integers, FiniteSets, Sequences

CONSTANTS
    Task,           \* the external tasks of the definition
    First,          \* the first one
    End,            \* the goto that completes the instance
    Goto,           \* Goto[t]: where the switch of t may lead
    HasTimeout,     \* HasTimeout[t]: timeout_ms > 0
    Retries,        \* Retries[t]: retries of the on_error case for external.timeout
    OnTimeout,      \* OnTimeout[t]: its goto; None (and no retries) without a case
    Signal,         \* the signals that may be sent
    MaxArmings,     \* bound: occurrences of external tasks
    MaxRetry,       \* bound: calls of RetryProcess
    MaxRequests,    \* bound: resolve requests that are under way at once
    None

ASSUME ExternalConstants ==
    /\ First \in Task /\ End \notin Task /\ None \notin Task /\ None # End
    /\ Goto \in [Task -> SUBSET (Task \cup {End})]
    /\ HasTimeout \in [Task -> BOOLEAN]
    /\ Retries \in [Task -> Nat]
    /\ OnTimeout \in [Task -> Task \cup {End, None}]
    /\ Signal \cap Nat = {} /\ None \notin [by : Signal \cup Nat, for : Task]
    /\ MaxArmings \in Nat /\ MaxRetry \in Nat /\ MaxRequests \in Nat

VARIABLES
    row,        \* the row of process_instances
    lease,      \* "none", "live", or "expired" (an owner that is gone)
    adv,        \* the advance in flight: its snapshot and the signal it took, or None
    buffer,     \* process_signals, for each task in the order of (created_at, id)
    inbox,      \* resolve requests between the handler's read and its transaction
    armings,    \* tokens issued so far; tokens are numbered in their order
    \* history
    sent,       \* signals that the API accepted
    spent,      \* answers that an advance has used up
    answered,   \* tokens of occurrences that an answer ended
    lapsed,     \* tokens of occurrences that a timeout ended
    round,      \* armings since the instance reached its task or was retried
    retried     \* calls of RetryProcess that succeeded

instance == <<row, lease, adv>>
history  == <<sent, spent, answered, lapsed, round, retried>>
vars     == <<row, lease, adv, buffer, inbox, armings, history>>

Token  == 1 .. armings
Answer == [by : Signal \cup 1 .. MaxArmings, for : Task]

Row == [ status : {"running", "cancelling", "completed", "failed", "cancelled"},
         task   : Task,
         wait   : {"none", "external"},
         timer  : {"none", "set", "due"},       \* wake_at
         retry  : Nat,                          \* retry_count
         token  : 0 .. MaxArmings,              \* _external.token, 0 if absent
         result : Answer \cup {None} ]          \* _external_result

------------------------------------------------------------------------------
(* The API. *)

\* Fault: the deadline of the wait stays in the row.
SetResultOnly(answer) == row' = [row EXCEPT !.result = answer, !.wait = "none"]

\* A transaction that stores an answer and ends the wait; the lease stays.
SetExternalResult(answer) ==
    row' = [row EXCEPT !.result = answer, !.wait = "none", !.timer = "none"]

Armed == row.status = "running" /\ row.wait = "external"

\* resolveExternalTask before its transaction: the result is checked against the
\* schema of the task the row is at now.
ResolveReads(k) ==
    /\ Armed
    /\ Cardinality(inbox) < MaxRequests
    /\ inbox' = inbox \cup {[by |-> k, for |-> row.task]}
    /\ UNCHANGED <<instance, buffer, armings, history>>

Accept(answer) ==
    /\ SetExternalResult(answer)
    /\ answered' = answered \cup {row.token}
    /\ inbox' = inbox \ {answer}
    /\ UNCHANGED <<lease, adv, buffer, armings, sent, spent, lapsed, round, retried>>

Reject(answer) ==
    /\ inbox' = inbox \ {answer}
    /\ UNCHANGED <<instance, buffer, armings, history>>

\* Fault: any token of the instance is good enough.
ResolveAnyToken(answer) ==
    IF Armed /\ lease # "live" THEN Accept(answer) ELSE Reject(answer)

ResolveExternalTask(answer) ==
    IF Armed /\ lease # "live" /\ row.token = answer.by
    THEN Accept(answer) ELSE Reject(answer)

\* The signal is stored in the row, or else in the buffer.
Deliver(s, t, now) ==
    /\ row.status = "running"
    /\ sent' = sent \cup {s}
    /\ IF now
       THEN /\ SetExternalResult([by |-> s, for |-> t])
            /\ answered' = answered \cup {row.token}
            /\ UNCHANGED buffer
       ELSE /\ buffer' = [buffer EXCEPT ![t] = Append(@, s)]
            /\ UNCHANGED <<row, answered>>
    /\ UNCHANGED <<lease, adv, inbox, armings, spent, lapsed, round, retried>>

\* A signal for task t: it resolves the task if it is armed and no worker is at it,
\* and is buffered otherwise.
DeliverSignal(s, t) ==
    Deliver(s, t, row.wait = "external" /\ row.task = t /\ lease # "live")

CancelProcess ==
    /\ row.status = "running"
    /\ row' = [row EXCEPT !.status = "cancelling"]
    /\ UNCHANGED <<lease, adv, buffer, inbox, armings, history>>

\* The row goes back to its task; its context, an answer included, is kept.  A
\* timer of a row with retries behind it is taken for a backoff and cleared.
RetryProcess ==
    /\ row.status \in {"failed", "cancelled"}
    /\ retried < MaxRetry
    /\ row' = [row EXCEPT !.status = "running", !.wait = "none",
                          !.timer = IF row.retry > 0 THEN "none" ELSE @]
    /\ lease' = "none"
    /\ retried' = retried + 1
    /\ round' = 0
    /\ UNCHANGED <<adv, buffer, inbox, armings, sent, spent, answered, lapsed>>

------------------------------------------------------------------------------
(* The engine. *)

Due ==
    \/ row.status = "cancelling"
    \/ row.timer = "due"
    \/ row.wait # "external" /\ row.timer = "none"

\* Fault: an expired lease still counts.
ClaimableUnleased == row.status \in {"running", "cancelling"} /\ lease = "none" /\ Due

Claimable == row.status \in {"running", "cancelling"} /\ lease # "live" /\ Due

Claim ==
    /\ Claimable
    /\ adv' = [row |-> row, hand |-> None]
    /\ lease' = "live"
    /\ UNCHANGED <<row, buffer, inbox, armings, history>>

InFlight == adv # None

\* The write that ends an advance.
Save(new) ==
    /\ row' = new
    /\ lease' = "none"
    /\ adv' = None
    /\ UNCHANGED <<buffer, inbox, armings, sent, answered, retried>>

CancelInstance ==
    /\ InFlight /\ adv.row.status = "cancelling"
    /\ Save([adv.row EXCEPT !.status = "cancelled", !.wait = "none",
                            !.timer = IF adv.row.retry > 0 THEN "none" ELSE @])
    /\ UNCHANGED <<spent, lapsed, round>>

Running == InFlight /\ adv.row.status = "running"

\* The answer the advance goes on with: the one found in the row (phase 2 of
\* runExternal) or the signal it has taken from the buffer.
Found == IF adv.row.result # None THEN adv.row.result ELSE adv.hand

\* The token that the context in memory keeps: an answer found in the row has taken it
\* away, but one from the buffer is stored in a copy of the context, and the token of
\* an occurrence that was given up earlier is written back with the next save.
TokenKept == IF adv.row.result # None THEN 0 ELSE adv.row.token

\* The advance has an answer; output and switch lead on to task t.  The status is
\* not written, so that a cancellation since the claim takes effect.
Proceed(t) ==
    /\ Running /\ Found # None
    /\ t \in Goto[adv.row.task] \ {End}
    /\ Save([adv.row EXCEPT !.status = row.status, !.task = t, !.retry = 0,
                            !.timer = "none", !.token = TokenKept, !.result = None])
    /\ spent' = spent \cup {Found}
    /\ round' = 0
    /\ UNCHANGED lapsed

Complete ==
    /\ Running /\ Found # None
    /\ End \in Goto[adv.row.task]
    /\ Save([adv.row EXCEPT !.status = "completed", !.retry = 0, !.timer = "none",
                            !.token = TokenKept, !.result = None])
    /\ spent' = spent \cup {Found}
    /\ UNCHANGED <<lapsed, round>>

\* The input or the output of the task cannot be computed, or arming fails.
FailInstance ==
    /\ Running /\ adv.row.wait = "none"
    /\ Save([adv.row EXCEPT !.status = "failed", !.timer = "none",
                            !.token = TokenKept, !.result = None])
    /\ spent' = IF Found # None THEN spent \cup {Found} ELSE spent
    /\ UNCHANGED <<lapsed, round>>

\* The definition cannot be loaded, or its configuration cannot be resolved: the
\* instance fails before its task is looked at, and its context is kept.
FailEarly ==
    /\ Running /\ adv.hand = None
    /\ Save([adv.row EXCEPT !.status = "failed", !.wait = "none", !.timer = "none"])
    /\ UNCHANGED <<spent, lapsed, round>>

\* Fault: the youngest signal is taken.
ConsumeYoungest ==
    LET t == adv.row.task
        n == Len(buffer[t])
    IN  /\ Running /\ adv.row.wait = "none" /\ Found = None
        /\ n > 0
        /\ LET answer == [by |-> buffer[t][n], for |-> t]
           IN  /\ row' = [row EXCEPT !.result = answer, !.token = 0,
                                     !.wait = "none", !.timer = "none"]
               /\ adv' = [adv EXCEPT !.hand = answer]
        /\ buffer' = [buffer EXCEPT ![t] = SubSeq(@, 1, n - 1)]
        /\ UNCHANGED <<lease, inbox, armings, history>>

\* Phase 1 of runExternal, with a signal in the buffer: the oldest one is moved
\* into the row, which stays leased to this worker.
ConsumeSignal ==
    LET t == adv.row.task
    IN  /\ Running /\ adv.row.wait = "none" /\ Found = None
        /\ buffer[t] # << >>
        /\ LET answer == [by |-> Head(buffer[t]), for |-> t]
           IN  /\ row' = [row EXCEPT !.result = answer, !.token = 0,
                                     !.wait = "none", !.timer = "none"]
               /\ adv' = [adv EXCEPT !.hand = answer]
        /\ buffer' = [buffer EXCEPT ![t] = Tail(@)]
        /\ UNCHANGED <<lease, inbox, armings, history>>

\* The parked row: the snapshot, status included, under a new token.
Park(retry) ==
    /\ Running /\ adv.row.wait = "none" /\ Found = None
    /\ armings < MaxArmings
    /\ row' = [adv.row EXCEPT !.wait = "external", !.token = armings + 1, !.retry = retry,
                              !.timer = IF HasTimeout[adv.row.task] THEN "set" ELSE "none"]
    /\ lease' = "none"
    /\ adv' = None
    /\ armings' = armings + 1
    /\ round' = round + 1
    /\ UNCHANGED <<buffer, inbox, sent, spent, answered, lapsed, retried>>

\* Fault: the buffer was looked at before the row was locked.
ArmBlindly == Park(adv.row.retry)

\* Fault: arming starts the count of retries anew.
ArmAfresh == Running /\ buffer[adv.row.task] = << >> /\ Park(0)

\* Phase 1 with an empty buffer.
ArmExternal == Running /\ buffer[adv.row.task] = << >> /\ Park(adv.row.retry)

\* Phase 3: the row was claimed while it was still parked; handleCallError with
\* external.timeout retries, follows the goto or fails the instance.
Lapse(new, armed) ==
    /\ Save(new)
    /\ lapsed' = lapsed \cup {adv.row.token}
    /\ round' = armed
    /\ UNCHANGED spent

TimedOut ==
    LET t      == adv.row.task
        parked == [adv.row EXCEPT !.wait = "none", !.token = 0]
    IN  /\ Running /\ adv.row.wait = "external" /\ Found = None
        /\ \/ /\ parked.retry < Retries[t]
              /\ Lapse([parked EXCEPT !.retry = parked.retry + 1, !.timer = "set"], round)
           \/ /\ parked.retry >= Retries[t] /\ OnTimeout[t] = None
              /\ Lapse([parked EXCEPT !.status = "failed", !.timer = "none"], round)
           \/ /\ parked.retry >= Retries[t] /\ OnTimeout[t] = End
              /\ Lapse([parked EXCEPT !.status = "completed", !.timer = "none"], round)
           \/ /\ parked.retry >= Retries[t] /\ OnTimeout[t] \in Task
              /\ Lapse([parked EXCEPT !.task = OnTimeout[t], !.retry = 0, !.timer = "none"], 0)

Advance ==
    \/ CancelInstance \/ FailEarly \/ Complete \/ FailInstance
    \/ ConsumeSignal \/ ArmExternal \/ TimedOut
    \/ \E t \in Task : Proceed(t)

\* The worker dies; its lease runs out some time later.
Crash ==
    /\ InFlight
    /\ adv' = None
    /\ UNCHANGED <<row, lease, buffer, inbox, armings, history>>

LeaseExpires ==
    /\ lease = "live" /\ ~InFlight
    /\ lease' = "expired"
    /\ UNCHANGED <<row, adv, buffer, inbox, armings, history>>

TimerDue ==
    /\ row.timer = "set"
    /\ row' = [row EXCEPT !.timer = "due"]
    /\ UNCHANGED <<lease, adv, buffer, inbox, armings, history>>

------------------------------------------------------------------------------
Init ==
    /\ row = [status |-> "running", task |-> First, wait |-> "none", timer |-> "none",
              retry |-> 0, token |-> 0, result |-> None]
    /\ lease = "none"
    /\ adv = None
    /\ buffer = [t \in Task |-> << >>]
    /\ inbox = {}
    /\ armings = 0
    /\ sent = {} /\ spent = {} /\ answered = {} /\ lapsed = {}
    /\ round = 0 /\ retried = 0

Next ==
    \/ \E k \in Token : ResolveReads(k)
    \/ \E answer \in inbox : ResolveExternalTask(answer)
    \/ \E s \in Signal \ sent, t \in Task : DeliverSignal(s, t)
    \/ CancelProcess \/ RetryProcess
    \/ Claim \/ Advance \/ Crash \/ LeaseExpires \/ TimerDue

Spec == Init /\ [][Next]_vars

\* Workers poll, leases and timers run out, and not every advance of the instance
\* is interrupted; nobody has to send, cancel or retry.
FairSpec == Spec /\ WF_vars(Claim) /\ SF_vars(Advance) /\ WF_vars(LeaseExpires)
                 /\ WF_vars(TimerDue)

------------------------------------------------------------------------------
(* What must hold. *)

TypeOK ==
    /\ row \in Row
    /\ lease \in {"none", "live", "expired"}
    /\ adv \in [row : Row, hand : Answer \cup {None}] \cup {None}
    /\ buffer \in [Task -> Seq(Signal)]
    /\ inbox \subseteq Answer
    /\ armings \in 0 .. MaxArmings
    /\ sent \subseteq Signal /\ spent \subseteq Answer
    /\ answered \subseteq Token /\ lapsed \subseteq Token
    /\ round \in 0 .. MaxArmings /\ retried \in 0 .. MaxRetry

\* A task does not wait beside a signal that was sent to it: arming and delivery
\* cannot miss each other.
NoStrandedSignal == Armed /\ lease = "none" => buffer[row.task] = << >>

\* An occurrence of an external task ends once: the API never acknowledges an answer
\* to an occurrence whose timeout is acted upon.
OneOutcomePerOccurrence == answered \cap lapsed = {}

\* The answer in the row was given to the occurrence that waits for it, and was
\* checked with the schema of its task although that was done before the lock.
AnswerFitsOccurrence ==
    row.result # None =>
        /\ row.result.for = row.task
        /\ row.result.by \in Signal \/ row.result.by = row.token

\* A row that waits for a timer is parked on an external task or backs off: the timer
\* of a wait that was answered or given up does not hold the instance back, until the
\* operator retries (cancelInstance and RetryProcess keep the timer of a parked row
\* whose retry_count is 0, which they take for a delay).
TimerHasItsWait ==
    row.status = "running" /\ row.timer # "none" /\ retried = 0 =>
        row.wait = "external" \/ row.retry > 0

\* Re-arming after a timeout does not refill the retry budget.
TimeoutsAreBudgeted == row.status = "running" => round <= Retries[row.task] + 1

\* A stored answer is used unless the instance is cancelled or fails: the wake-up that ends
\* the wait is not lost in a crash.
AnswersAreUsed ==
    (row.result # None /\ row.status = "running")
        ~> (row.result = None \/ row.status # "running")

------------------------------------------------------------------------------
(* The abstract view of the instance: signals in line, the one in the row *)
(* first, and what became of each occurrence.                             *)

InLine(t) ==
    (IF row.result # None /\ row.result.by \in Signal /\ row.result.for = t
     THEN <<row.result.by>> ELSE << >>) \o buffer[t]

\* A token in a row that is not parked opens nothing.
OutcomeOf(k) ==
    IF k > armings THEN "unissued"
    ELSE IF k \in answered THEN "answered"
    ELSE IF k \in lapsed THEN "lapsed"
    ELSE IF row.wait = "external" /\ row.token = k THEN "open" ELSE "dropped"

Lines    == [t \in Task |-> InLine(t)]
Used     == {s \in Signal : \E a \in spent : a.by = s}
Outcomes == [k \in 1 .. MaxArmings |-> OutcomeOf(k)]

Abstract == INSTANCE Mailbox WITH
    queue <- Lines, used <- Used, outcome <- Outcomes, disturbed <- lease = "expired"

\* Arming, timeouts, crashes, failures, cancellation and retry keep the promise of Mailbox:
\* signals are used in the order in which they were accepted, each once, but for those
\* that a dead worker's lease kept in the buffer; an occurrence is decided at most once,
\* one that was given up never opens again, although its token may stay in the context,
\* and none opens beside another one or beside a signal that waits for its task.
ImplementsMailbox == Abstract!Spec
==============================================================================
