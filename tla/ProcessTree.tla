----------------------------- MODULE ProcessTree -----------------------------
(***************************************************************************)
(* The lifecycle of genroc process instances: the rows of the table        *)
(* process_instances, the advances that workers run on them, and the API   *)
(* operations start, cancel and retry.                                     *)
(*                                                                         *)
(* A process instance executes the task list of its definition.  A child   *)
(* task spawns a batch of child instances and suspends the parent until    *)
(* the batch has settled, so the instances of one process form a tree.     *)
(* Several actors write the rows of one tree: the workers that hold the    *)
(* leases of its nodes, siblings that finish and wake their parent, a      *)
(* failing descendant that dooms all its ancestors, and the operator who   *)
(* cancels or retries the whole tree.  Every action below is one database  *)
(* transaction of the code (Route and Crash touch memory only), so the     *)
(* steps of different actors interleave at transaction granularity.        *)
(*                                                                         *)
(* An advance works on the snapshot of the row that the claim returned     *)
(* (view) and writes it back later; what other actors wrote in between is  *)
(* kept or overwritten, depending on which UPDATE the outcome selects.     *)
(*                                                                         *)
(* Leases are exclusive here: a lease is lost only when its worker died.   *)
(* Workers that outlive their lease are the subject of another module.     *)
(* External tasks (wait_state 'external') are not part of this module.     *)
(***************************************************************************)
EXTENDS Naturals, Sequences

CONSTANTS
    Roots,      \* ids of the instances that the API creates
    Kids,       \* ids available to spawned instances (bounds the number of spawns)
    None,       \* "no instance": parent_id of a root, no recorded error
    Task,       \* task ids; the tasks of all definitions together
    Entry,      \* first task of the definitions that can be started as a root
    Kind,       \* what the action of a task is
    Goto,       \* targets that the switch of a task can select
    Spawns,     \* the first tasks of the children that a child task spawns
    OnlyOnce,   \* the only_once flag of a task
    OnError     \* the on_error rules of a task, in order

\* Status and wait_state of a row; "absent" stands for a row not yet inserted.
Active   == {"running", "failing", "cancelling"}
Terminal == {"completed", "failed", "cancelled"}
Status   == Active \cup Terminal
Wait     == {"none", "waiting", "collecting"}

\* The error codes of a failed call, as far as retries tell them apart: "pre"
\* stands for the codes pre.*, "other" for all the others.
Code == {"pre", "other"}

\* An on_error rule; goto "" means that the rule routes nowhere.
Rule == [codes : SUBSET Code, retries : Nat, notReached : BOOLEAN,
         goto : Task \cup {"end", ""}]

Inst == Roots \cup Kids

\* What validateTask accepts: a switch leads somewhere, a child task has children, and
\* an only_once task is retried only where the call did not reach the remote.
ValidTask(t) ==
    /\ Goto[t] # {}
    /\ Kind[t] = "child" => Spawns[t] # {}
    /\ OnlyOnce[t] => \A n \in DOMAIN OnError[t] :
          OnError[t][n].retries > 0 =>
              OnError[t][n].notReached \/ OnError[t][n].codes \subseteq {"pre"}

\* Definitions are stored only after validateTask accepted them.
ASSUME DefinitionsValid ==
    /\ "end" \notin Task /\ "" \notin Task
    /\ Entry # {} /\ Entry \subseteq Task
    /\ Kind \in [Task -> {"route", "rest", "delay", "child"}]
    /\ Goto \in [Task -> SUBSET (Task \cup {"end"})]
    /\ Spawns \in [Task -> SUBSET Task]
    /\ OnlyOnce \in [Task -> BOOLEAN]
    /\ OnError \in [Task -> Seq(Rule)]
    /\ \A t \in Task : ValidTask(t)

ASSUME IdsDistinct == Roots \cap Kids = {} /\ None \notin Inst

VARIABLES
    \* columns of process_instances
    status, waitState, task, retryCount, wakeAt, error, lease,
    parentID, spawnTaskID, callStack,
    entry,      \* the process of the instance, named by its first task
    \* the advances in flight: the snapshot each one works on
    view,
    \* contents of the context, as far as the properties need them
    result,     \* the children whose outputs the last collect merged
    batch       \* history: the children spawned by the current visit to a task

row   == <<status, waitState, task, retryCount, wakeAt, error, lease>>
ident == <<parentID, spawnTaskID, callStack, entry>>
vars  == <<row, ident, view, result, batch>>

\* wake_at against the clock: unset, in the future, or due.
Wake == {"none", "pending", "due"}

\* What a claim returns: the mutable columns, and whether the row was taken
\* over from an expired lease (ReclaimedExpired).
View == [status : Active \cup Terminal, wait : Wait, task : Task, retry : Nat,
         wake : Wake, error : Inst \cup {None}, reclaimed : BOOLEAN]
Idle == [status |-> "completed", wait |-> "none", task |-> CHOOSE t \in Task : TRUE,
         retry |-> 0, wake |-> "none", error |-> None, reclaimed |-> FALSE]

------------------------------------------------------------------------------
(* Reading the tree. *)

\* The rows that the recursive query over parent_id reaches from r: the least
\* set that contains r and the children of its members.
Subtree(r) ==
    {j \in Inst : \A S \in SUBSET Inst :
        r \in S /\ (\A k \in Inst : parentID[k] \in S => k \in S) => j \in S}

\* Fault: the batches of all tasks of the parent are mixed.
ChildrenOfAnyTask(i, t) == {k \in Inst : parentID[k] = i}

ChildrenForTask(i, t) == {k \in Inst : parentID[k] = i /\ spawnTaskID[k] = t}

\* Fault: the child that is being saved is still counted out once more.
AtMostOneActiveSibling(i, st) ==
    \A j, k \in ChildrenForTask(parentID[i], spawnTaskID[i]) :
        st[j] \in Terminal \/ st[k] \in Terminal \/ j = k

\* CountActiveSiblings = 0, in a state of the table where statuses are st.
NoActiveSiblings(i, st) ==
    \A k \in ChildrenForTask(parentID[i], spawnTaskID[i]) : st[k] \in Terminal

\* The first rule of the task whose code patterns match, or NoRule.
NoRule == [codes |-> {}, retries |-> 0, notReached |-> FALSE, goto |-> ""]
MatchOnError(t, c) ==
    LET matching == {n \in DOMAIN OnError[t] : c \in OnError[t][n].codes}
    IN  IF matching = {} THEN NoRule
        ELSE OnError[t][CHOOSE n \in matching : \A m \in matching : n <= m]

IsRetryAllowed(t, c, rule) == ~OnlyOnce[t] \/ rule.notReached \/ c = "pre"

------------------------------------------------------------------------------
(* Writing rows.  r is the instance as the advance left it in memory; every *)
(* write that ends an advance releases the lease and forgets the snapshot.  *)

WriteBack(i, r) ==
    /\ task' = [task EXCEPT ![i] = r.task]
    /\ retryCount' = [retryCount EXCEPT ![i] = r.retry]
    /\ wakeAt' = [wakeAt EXCEPT ![i] = r.wake]
    /\ lease' = [lease EXCEPT ![i] = "free"]
    /\ view' = [view EXCEPT ![i] = Idle]
    /\ UNCHANGED ident

\* Overwrites status and error with the values of the snapshot.
UpdateInstance(i, r) ==
    /\ WriteBack(i, r)
    /\ status' = [status EXCEPT ![i] = r.status]
    /\ waitState' = [waitState EXCEPT ![i] = r.wait]
    /\ error' = [error EXCEPT ![i] = r.error]

\* Leaves status and error as they are in the table.
UpdateInstanceProgress(i, r) ==
    /\ WriteBack(i, r)
    /\ waitState' = [waitState EXCEPT ![i] = r.wait]
    /\ UNCHANGED <<status, error>>

\* Fault: the parent is not woken.
WakeNobody(i, r, st) == [waitState EXCEPT ![i] = r.wait]

\* Fault: the parent is woken to collect whatever its status.
WakeToCollect(i, r, st) ==
    [j \in Inst |->
        IF j = i THEN r.wait
        ELSE IF j = parentID[i] /\ waitState[j] = "waiting" /\ NoActiveSiblings(i, st)
             THEN "collecting" ELSE waitState[j]]

\* The wait states after the save of i, when the statuses are st: a waiting
\* parent is woken by the last of its batch, to collect only if it is healthy.
WakeParent(i, r, st) ==
    LET p == parentID[i]
    IN  [j \in Inst |->
            IF j = i THEN r.wait
            ELSE IF j = p /\ waitState[p] = "waiting" /\ NoActiveSiblings(i, st)
                 THEN IF st[p] = "running" THEN "collecting" ELSE "none"
            ELSE waitState[j]]

FinishChild(i, r) ==
    /\ WriteBack(i, r)
    /\ status' = [status EXCEPT ![i] = r.status]
    /\ waitState' = WakeParent(i, r, status')
    /\ error' = [error EXCEPT ![i] = r.error]

\* Fault: an ancestor that is being cancelled stays cancelling.
DoomedRunning(i) == {a \in callStack[i] : status[a] = "running"}

\* The ancestors that a failure of i dooms.
Doomed(i) == {a \in callStack[i] : status[a] \in {"running", "cancelling"}}

FailInstanceAndAncestors(i, r) ==
    /\ WriteBack(i, r)
    /\ status' = [j \in Inst |-> IF j = i THEN r.status
                                 ELSE IF j \in Doomed(i) THEN "failing" ELSE status[j]]
    /\ error' = [j \in Inst |-> IF j = i THEN r.error
                                ELSE IF j \in Doomed(i) THEN r.error ELSE error[j]]
    /\ waitState' = WakeParent(i, r, status')

\* The exit of every advance that ends in a terminal status.
SaveAndNotify(i, r) ==
    IF parentID[i] = None THEN UpdateInstance(i, r)
    ELSE IF r.status = "failed" THEN FailInstanceAndAncestors(i, r)
    ELSE FinishChild(i, r)

------------------------------------------------------------------------------
(* The terminal forms of an instance in memory. *)

Failed(i) ==
    [view[i] EXCEPT !.status = "failed", !.wait = "none", !.error = i, !.wake = "none"]

\* Fault: the error that doomed the instance is dropped.
SettledWithoutError(i) ==
    [view[i] EXCEPT !.status = "failed", !.wait = "none", !.wake = "none", !.error = None]

Settled(i) == [view[i] EXCEPT !.status = "failed", !.wait = "none", !.wake = "none"]

Cancelled(i) ==
    [view[i] EXCEPT !.status = "cancelled", !.wait = "none",
                    !.wake = IF view[i].retry > 0 THEN "none" ELSE @]

Completed(i, r) == [r EXCEPT !.status = "completed", !.wake = "none"]

\* The switch of the current task selected g: complete, or checkpoint at g.
Leave(i, g) ==
    LET r == [view[i] EXCEPT !.wait = "none", !.retry = 0, !.wake = "none"]
    IN  IF g = "end"
        THEN SaveAndNotify(i, Completed(i, r)) /\ UNCHANGED batch
        ELSE /\ UpdateInstanceProgress(i, [r EXCEPT !.task = g])
             /\ batch' = [batch EXCEPT ![i] = {}]

------------------------------------------------------------------------------
(* The API. *)

\* POST of a new instance: a root row at the first task of its definition.
StartInstance(i, t) ==
    /\ status[i] = "absent"
    /\ status' = [status EXCEPT ![i] = "running"]
    /\ task' = [task EXCEPT ![i] = t]
    /\ entry' = [entry EXCEPT ![i] = t]
    /\ UNCHANGED <<waitState, retryCount, wakeAt, error, lease,
                   parentID, spawnTaskID, callStack, view, result, batch>>

\* Marks every running row of the tree as cancelling; roots only.
CancelProcess(i) ==
    /\ status[i] # "absent" /\ parentID[i] = None
    /\ \E j \in Subtree(i) : status[j] = "running"
    /\ status' = [j \in Inst |-> IF j \in Subtree(i) /\ status[j] = "running"
                                 THEN "cancelling" ELSE status[j]]
    /\ UNCHANGED <<waitState, task, retryCount, wakeAt, error, lease,
                   ident, view, result, batch>>

\* Fault: completed children of the interrupted task are revived too.
RevivedWithCompleted(i) ==
    {j \in Inst : \A S \in SUBSET Inst :
        /\ i \in S
        /\ \A k \in Inst :
              parentID[k] \in S /\ spawnTaskID[k] = task[parentID[k]] => k \in S
        => j \in S}

\* The nodes that a retry of root i revives: i, and the failed or cancelled
\* children that a revived node spawned at its current task.
Revived(i) ==
    {j \in Inst : \A S \in SUBSET Inst :
        /\ i \in S
        /\ \A k \in Inst : /\ parentID[k] \in S
                           /\ spawnTaskID[k] = task[parentID[k]]
                           /\ status[k] \in {"failed", "cancelled"}
                           => k \in S
        => j \in S}

\* A revived node waits again if the retry left it a live child, collects if
\* all its children completed, and re-runs its task if it has none.
RevivedWait(j, live) ==
    LET kids == ChildrenForTask(j, task[j])
    IN  IF kids = {} THEN "none"
        ELSE IF kids \cap live # {} THEN "waiting" ELSE "collecting"

RetryProcess(i, force) ==
    LET R    == Revived(i)
        live == R \cup {k \in Inst : status[k] \in Active}
    IN  /\ parentID[i] = None
        /\ status[i] \in {"failed", "cancelled"}
        /\ force \/ \A j \in R : ChildrenForTask(j, task[j]) = {} => ~OnlyOnce[task[j]]
        /\ status' = [j \in Inst |-> IF j \in R THEN "running" ELSE status[j]]
        /\ waitState' = [j \in Inst |-> IF j \in R THEN RevivedWait(j, live)
                                        ELSE waitState[j]]
        /\ error' = [j \in Inst |-> IF j \in R THEN None ELSE error[j]]
        /\ wakeAt' = [j \in Inst |-> IF j \in R /\ retryCount[j] > 0 THEN "none"
                                     ELSE wakeAt[j]]
        /\ lease' = [j \in Inst |-> IF j \in R THEN "free" ELSE lease[j]]
        /\ UNCHANGED <<task, retryCount, ident, view, result, batch>>

------------------------------------------------------------------------------
(* Workers. *)

\* Fault: suspended parents are claimed like all others.
ClaimableWaiting(i) ==
    /\ status[i] \in Active
    /\ status[i] \in {"failing", "cancelling"} \/ wakeAt[i] \in {"none", "due"}
    /\ lease[i] # "held"

Claimable(i) ==
    /\ status[i] \in Active
    /\ waitState[i] # "waiting"
    /\ status[i] \in {"failing", "cancelling"} \/ wakeAt[i] \in {"none", "due"}
    /\ lease[i] # "held"

Claim(i) ==
    /\ Claimable(i)
    /\ lease' = [lease EXCEPT ![i] = "held"]
    /\ view' = [view EXCEPT ![i] =
          [status |-> status[i], wait |-> waitState[i], task |-> task[i],
           retry |-> retryCount[i], wake |-> wakeAt[i], error |-> error[i],
           reclaimed |-> lease[i] = "expired"]]
    /\ UNCHANGED <<status, waitState, task, retryCount, wakeAt, error,
                   ident, result, batch>>

InFlight(i) == lease[i] = "held"

\* An only_once task that was interrupted on a worker that died.
Interrupted(i) ==
    view[i].reclaimed /\ Kind[view[i].task] # "route" /\ OnlyOnce[view[i].task]

\* The advance of a healthy instance has come to the current task of its view.
At(i, kind) ==
    /\ InFlight(i) /\ view[i].status = "running" /\ ~Interrupted(i)
    /\ Kind[view[i].task] = kind

SettleFailing(i) ==
    /\ InFlight(i) /\ view[i].status = "failing"
    /\ SaveAndNotify(i, Settled(i))
    /\ UNCHANGED <<result, batch>>

CancelInstance(i) ==
    /\ InFlight(i) /\ view[i].status = "cancelling"
    /\ SaveAndNotify(i, Cancelled(i))
    /\ UNCHANGED <<result, batch>>

\* The exits through failInstance: definition or config cannot be loaded, an
\* input, output or switch cannot be evaluated, the children cannot be built,
\* spawned or collected, or an only_once task was interrupted.
FailInstance(i) ==
    /\ InFlight(i) /\ view[i].status = "running"
    /\ SaveAndNotify(i, Failed(i))
    /\ UNCHANGED <<result, batch>>

\* A task without an action moves the view on, in memory.
Route(i, g) ==
    /\ At(i, "route") /\ g \in Goto[view[i].task] \ {"end"}
    /\ view' = [view EXCEPT ![i].task = g, ![i].retry = 0, ![i].wake = "none",
                            ![i].reclaimed = FALSE]
    /\ batch' = [batch EXCEPT ![i] = {}]
    /\ UNCHANGED <<row, ident, result>>

\* ... or completes, or is checkpointed after maxInlineTasks transitions.
RouteAndSave(i, g) ==
    /\ At(i, "route") /\ g \in Goto[view[i].task]
    /\ Leave(i, g)
    /\ UNCHANGED result

\* A remote call succeeded.
CallSucceeds(i, g) ==
    /\ At(i, "rest") /\ g \in Goto[view[i].task]
    /\ Leave(i, g)
    /\ UNCHANGED result

\* handleCallError, one action per exit: a retry is scheduled ...
RetryScheduled(i, c) ==
    LET t == view[i].task
        rule == MatchOnError(t, c)
    IN  /\ At(i, "rest")
        /\ view[i].retry < rule.retries /\ IsRetryAllowed(t, c, rule)
        /\ UpdateInstance(i, [view[i] EXCEPT !.retry = @ + 1, !.wake = "pending"])
        /\ UNCHANGED <<result, batch>>

\* ... or the matching rule routes to a task or ends the instance ...
ErrorRoute(i, c) ==
    LET t == view[i].task
        rule == MatchOnError(t, c)
    IN  /\ At(i, "rest")
        /\ ~(view[i].retry < rule.retries /\ IsRetryAllowed(t, c, rule))
        /\ rule.goto # ""
        /\ IF rule.goto = "end"
           THEN SaveAndNotify(i, Completed(i, view[i])) /\ UNCHANGED batch
           ELSE /\ UpdateInstance(i, [view[i] EXCEPT !.task = rule.goto, !.retry = 0,
                                                     !.wake = "none"])
                /\ batch' = [batch EXCEPT ![i] = {}]
        /\ UNCHANGED result

\* ... or the instance fails.
CallFails(i, c) ==
    LET t == view[i].task
        rule == MatchOnError(t, c)
    IN  /\ At(i, "rest")
        /\ ~(view[i].retry < rule.retries /\ IsRetryAllowed(t, c, rule))
        /\ rule.goto = ""
        /\ SaveAndNotify(i, Failed(i))
        /\ UNCHANGED <<result, batch>>

\* A delay parks the instance on its first entry and passes when it is due.
DelayArmed(i) ==
    /\ At(i, "delay") /\ view[i].wake = "none"
    /\ UpdateInstanceProgress(i, [view[i] EXCEPT !.wake = "pending"])
    /\ UNCHANGED <<result, batch>>

DelayPassed(i, g) ==
    /\ At(i, "delay") /\ view[i].wake # "none" /\ g \in Goto[view[i].task]
    /\ Leave(i, g)
    /\ UNCHANGED result

\* The transaction that inserts the batch and suspends the parent.  Children
\* and parent get the status the table holds now, not that of the snapshot.
\* f gives every child of the task, named by its first task, an unused id.
SpawnChildrenAndWait(i, f) ==
    LET t    == view[i].task
        kids == {f[e] : e \in Spawns[t]}
        key(k) == CHOOSE e \in Spawns[t] : f[e] = k
    IN  /\ At(i, "child") /\ view[i].wait = "none" /\ waitState[i] = "none"
        /\ \A e \in Spawns[t] : status[f[e]] = "absent"
        /\ \A d, e \in Spawns[t] : f[d] = f[e] => d = e
        /\ status' = [j \in Inst |-> IF j \in kids THEN status[i] ELSE status[j]]
        /\ task' = [j \in Inst |-> IF j \in kids THEN key(j)
                                   ELSE IF j = i THEN t ELSE task[j]]
        /\ entry' = [j \in Inst |-> IF j \in kids THEN key(j) ELSE entry[j]]
        /\ parentID' = [j \in Inst |-> IF j \in kids THEN i ELSE parentID[j]]
        /\ spawnTaskID' = [j \in Inst |-> IF j \in kids THEN t ELSE spawnTaskID[j]]
        /\ callStack' = [j \in Inst |-> IF j \in kids THEN callStack[i] \cup {i}
                                        ELSE callStack[j]]
        /\ waitState' = [waitState EXCEPT ![i] = "waiting"]
        /\ retryCount' = [retryCount EXCEPT ![i] = 0]
        /\ wakeAt' = [wakeAt EXCEPT ![i] = "none"]
        /\ error' = [error EXCEPT ![i] = view[i].error]
        /\ lease' = [lease EXCEPT ![i] = "free"]
        /\ view' = [view EXCEPT ![i] = Idle]
        /\ batch' = [batch EXCEPT ![i] = kids]
        /\ UNCHANGED result

\* All children completed: merge their outputs, one per child key, and go on.
\* The query that lists the children fixes no order, so where several children
\* carry a key, any of them may be the one whose output is kept.
CollectChildOutputs(i, g, merged) ==
    LET siblings == ChildrenForTask(i, view[i].task)
    IN  /\ At(i, "child") /\ view[i].wait = "collecting"
        /\ \A k \in siblings : status[k] = "completed"
        /\ merged \subseteq siblings
        /\ \A k \in siblings : \E m \in merged : entry[m] = entry[k]
        /\ \A k, m \in merged : entry[k] = entry[m] => k = m
        /\ g \in Goto[view[i].task]
        /\ Leave(i, g)
        /\ result' = [result EXCEPT ![i] = merged]

\* The worker dies; its lease runs out and the row can be claimed again.
Crash(i) ==
    /\ InFlight(i)
    /\ lease' = [lease EXCEPT ![i] = "expired"]
    /\ view' = [view EXCEPT ![i] = Idle]
    /\ UNCHANGED <<status, waitState, task, retryCount, wakeAt, error,
                   ident, result, batch>>

\* The clock passes wake_at.
TimerDue(i) ==
    /\ wakeAt[i] = "pending"
    /\ wakeAt' = [wakeAt EXCEPT ![i] = "due"]
    /\ UNCHANGED <<status, waitState, task, retryCount, error, lease,
                   ident, view, result, batch>>

------------------------------------------------------------------------------
Init ==
    /\ status = [i \in Inst |-> "absent"]
    /\ waitState = [i \in Inst |-> "none"]
    /\ task = [i \in Inst |-> Idle.task]
    /\ retryCount = [i \in Inst |-> 0]
    /\ wakeAt = [i \in Inst |-> "none"]
    /\ error = [i \in Inst |-> None]
    /\ lease = [i \in Inst |-> "free"]
    /\ parentID = [i \in Inst |-> None]
    /\ spawnTaskID = [i \in Inst |-> ""]
    /\ callStack = [i \in Inst |-> {}]
    /\ entry = [i \in Inst |-> Idle.task]
    /\ view = [i \in Inst |-> Idle]
    /\ result = [i \in Inst |-> {}]
    /\ batch = [i \in Inst |-> {}]

\* What the operator does.
Api ==
    \/ \E i \in Roots, t \in Entry : StartInstance(i, t)
    \/ \E i \in Roots : CancelProcess(i)
    \/ \E i \in Roots, force \in BOOLEAN : RetryProcess(i, force)

\* How an advance of i can end, or go on in memory.
Advance(i) ==
    \/ SettleFailing(i)
    \/ CancelInstance(i)
    \/ FailInstance(i)
    \/ \E g \in Task : Route(i, g)
    \/ \E g \in Task \cup {"end"} : \/ RouteAndSave(i, g)
                                    \/ CallSucceeds(i, g)
                                    \/ DelayPassed(i, g)
    \/ \E c \in Code : \/ RetryScheduled(i, c)
                       \/ ErrorRoute(i, c)
                       \/ CallFails(i, c)
    \/ DelayArmed(i)
    \/ \E f \in [Spawns[view[i].task] -> Kids] : SpawnChildrenAndWait(i, f)
    \/ \E g \in Task \cup {"end"}, merged \in SUBSET Kids :
          CollectChildOutputs(i, g, merged)

Next ==
    \/ Api
    \/ \E i \in Inst : Claim(i) \/ Advance(i) \/ Crash(i) \/ TimerDue(i)

Spec == Init /\ [][Next]_vars

\* Workers keep polling, advances end, and timers run.  An advance that is
\* started again and again (its workers keep dying) ends in the long run.
Fairness ==
    \A i \in Inst : WF_vars(Claim(i)) /\ SF_vars(Advance(i)) /\ WF_vars(TimerDue(i))

FairSpec == Spec /\ Fairness
------------------------------------------------------------------------------
(* What must hold. *)

TypeOK ==
    /\ status \in [Inst -> Status \cup {"absent"}]
    /\ waitState \in [Inst -> Wait]
    /\ task \in [Inst -> Task]
    /\ retryCount \in [Inst -> Nat]
    /\ wakeAt \in [Inst -> Wake]
    /\ error \in [Inst -> Inst \cup {None}]
    /\ lease \in [Inst -> {"free", "held", "expired"}]
    /\ parentID \in [Inst -> Inst \cup {None}]
    /\ spawnTaskID \in [Inst -> Task \cup {""}]
    /\ callStack \in [Inst -> SUBSET Inst]
    /\ entry \in [Inst -> Task]
    /\ view \in [Inst -> View]
    /\ result \in [Inst -> SUBSET Inst]
    /\ batch \in [Inst -> SUBSET Inst]

\* A node becomes terminal only when all its children are: a terminal root
\* means that the whole tree has settled, which is what makes it retryable.
SettledTree ==
    \A k \in Inst : parentID[k] # None /\ status[parentID[k]] \in Terminal
                       => status[k] \in Terminal

\* Errors take precedence: the parent of a failed node is failing or failed, in
\* particular no process completes, or is reported cancelled, over a failed child.
FailureDoomsParent ==
    \A k \in Inst : status[k] = "failed" /\ parentID[k] # None
                       => status[parentID[k]] \in {"failing", "failed"}

\* The statuses along the tree agree, whatever FinishChild, FailInstanceAndAncestors,
\* CancelProcess and RetryProcess do to parent and child at the same time: none is
\* terminal over an active child, and every failure has reached the parent.
StatusesAgree == SettledTree /\ FailureDoomsParent

\* No lost wake-up: a suspended parent still has a child that will wake it.
NoLostWakeup ==
    \A i \in Inst : waitState[i] = "waiting" =>
        \E k \in ChildrenForTask(i, task[i]) : status[k] \in Active

\* Wait state 'collecting' means that all children of the current task have
\* completed, whatever failed, was cancelled or was retried on the way.
CollectingMeansCompleted ==
    \A i \in Inst : waitState[i] = "collecting" =>
        \A k \in ChildrenForTask(i, task[i]) : status[k] = "completed"

\* The wait state of a parent is right about its children, in every order in which
\* siblings finish, fail, are cancelled and are retried: a parent that waits has a
\* child that will wake it, one that collects has nothing but completed children.
WaitsMatchChildren == NoLostWakeup /\ CollectingMeansCompleted

\* A doomed or failed node reports an error, the error comes from a node in its
\* subtree that did fail, and no healthy node carries one.
ErrorNamesFailedNode ==
    \A i \in Inst :
        /\ status[i] \in {"failing", "failed"} <=> error[i] # None
        /\ error[i] # None => /\ status[error[i]] = "failed"
                               /\ (error[i] = i \/ i \in callStack[error[i]])

\* The row of an instance in flight has changed under its advance in at most one
\* way, a cancellation, and is never suspended or terminal.
OnlyCancelRacesAdvance ==
    \A i \in Inst : InFlight(i) =>
        /\ waitState[i] = view[i].wait /\ waitState[i] # "waiting"
        /\ \/ status[i] = view[i].status
           \/ status[i] = "cancelling" /\ view[i].status = "running"

\* A decided outcome is final: failing ends in failed and nothing else, completed
\* work is never redone, and a failed or cancelled node comes back only by a retry
\* of its root, which must have settled the same way.
OutcomeIsFinal ==
    [][\A i \in Inst : status'[i] # status[i] =>
          /\ status[i] = "failing" => status'[i] = "failed"
          /\ status[i] \in Terminal =>
                /\ status[i] # "completed" /\ status'[i] = "running"
                /\ \A r \in Inst : parentID[r] = None /\ (r = i \/ r \in callStack[i]) =>
                      status[r] \in {"failed", "cancelled"} /\ status'[r] = "running"]_vars

\* A cancelled instance does not go back to running before it has settled.
CancelNotLost ==
    [][\A i \in Inst : status[i] = "cancelling" => status'[i] # "running"]_vars

\* The tasks that an instance can reach after task t, through switches and error rules.
Succ(t) == (Goto[t] \cup {OnError[t][n].goto : n \in DOMAIN OnError[t]}) \cap Task
LaterTasks(t) ==
    {u \in Task : \A S \in SUBSET Task :
        Succ(t) \subseteq S /\ (\A v \in S : Succ(v) \subseteq S) => u \in S}

\* No definition comes back to a child task.  One that does lists the children of all
\* its visits when it collects, those of the earlier ones too.
ChildTasksVisitedOnce == \A t \in Task : Kind[t] = "child" => t \notin LaterTasks(t)

\* The outputs that a task merges are those of the children it spawned, where child
\* tasks are visited once.
MergesOwnBatch ==
    [][\A i \in Inst : result'[i] # result[i] => result'[i] \subseteq batch[i]]_vars

\* Every instance settles: no child is forgotten, no parent sleeps forever and no
\* doomed tree stays half drained, although workers die in the middle of advances.
EveryInstanceSettles ==
    \A i \in Inst : status[i] \in Active ~> status[i] \in Terminal
==============================================================================
