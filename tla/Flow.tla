-------------------------------- MODULE Flow --------------------------------
(***************************************************************************)
(* From a submitted definition to the run of an instance of it: the checks *)
(* of a definition, the analysis that says which task outputs are there    *)
(* when a task begins, and the engine's way through the tasks, with calls  *)
(* over HTTP, retries, error routes, delays, crashes and operators.        *)
(*                                                                         *)
(* Expressions are evaluated elsewhere: a switch may take any of its cases *)
(* and any evaluation may fail.  Timers are due whenever a worker looks.   *)
(* The save that ends an advance is part of the step that decides it, and  *)
(* a save that fails is a crash: in both the row keeps its lease and the   *)
(* next claim is a takeover.  Child and external tasks have modules of     *)
(* their own.                                                              *)
(***************************************************************************)
EXTENDS Integers, Sequences, FiniteSets, FiniteSetsExt

CONSTANTS
    Definitions,    \* the definitions that may be submitted
    MaxInline,      \* maxInlineTasks
    MaxCrashes,     \* bound: crashes
    MaxOrders,      \* bound: cancels and retries by operators
    NULL

ASSUME FlowConstants == MaxInline \in Nat /\ MaxCrashes \in Nat /\ MaxOrders \in Nat

VARIABLES
    def,        \* the definition: a sequence of tasks
    static,     \* NULL until it is accepted, then what the analysis found; "refused"
    row,        \* the instance in the database
    adv,        \* the advance that works on it, or NULL
    \* history
    visit,      \* since the last save that moved on: failed requests in a row, waits
    excused,    \* positions that may be called again, and why
    crashes, orders

vars == <<def, static, row, adv, visit, excused, crashes, orders>>

------------------------------------------------------------------------------
(* Definitions. *)

End  == "end"
Next_ == "next"

\* The first task with an id, which is where a saved instance resumes.
taskIndex(d, id) == Min({i \in DOMAIN d : d[i].id = id})

\* The last task with an id, which is what the analysis takes a route to lead to.
lastIndex(d, id) == Max({i \in DOMAIN d : d[i].id = id})

Ids(d) == {d[i].id : i \in DOMAIN d}
Distinct(d) == Cardinality(Ids(d)) = Len(d)

Codes == {"pre.error", "pre.timeout", "http.timeout", "http.500", "output.parse",
          "output.invalid"}

\* SQLLikeMatch, for the patterns the definitions use.
Like == [p \in {"pre.%", "p%", "http.%", "output.%", "%"} |->
           CASE p = "pre.%"    -> {"pre.error", "pre.timeout"}
             [] p = "p%"       -> {"pre.error", "pre.timeout"}
             [] p = "http.%"   -> {"http.timeout", "http.500"}
             [] p = "output.%" -> {"output.parse", "output.invalid"}
             [] p = "%"        -> Codes \cup {"child.failed"}]

\* What the tags of Definition, Task and ErrorCase make of a submission: there are
\* tasks, each with an id, an action or none, rules and a switch.
ErrorCase == [code : SUBSET DOMAIN Like, retries : Int, goto : STRING, notReached : BOOLEAN]
TaskForm  == [id : STRING, call : {"none", "rest", "delay"}, once : BOOLEAN, output : BOOLEAN,
              switch : SUBSET STRING, onError : Seq(ErrorCase)]

ASSUME DefinitionForms == Definitions \subseteq Seq(TaskForm) \ {<<>>}

\* The constant prefix of the pattern begins with "pre.".
patternOnlyMatchesPre(p) == p = "pre.%"

validSwitch(d, i) ==
    /\ d[i].switch # {}
    /\ \A g \in d[i].switch : \/ g = End
                              \/ g = Next_ /\ i < Len(d)
                              \/ g \in Ids(d)

validOnError(d, i) ==
    \A k \in DOMAIN d[i].onError :
      LET r == d[i].onError[k] IN
      /\ \A p \in r.code : "child.failed" \notin Like[p]
      /\ r.code = {} => k = Len(d[i].onError)
      /\ r.goto \in Ids(d) \cup {"", End}
      /\ d[i].once /\ r.retries > 0 /\ ~r.notReached =>
           r.code # {} /\ \A p \in r.code : patternOnlyMatchesPre(p)

\* The ids of tasks are not checked to be distinct.
Validate(d) ==
    \A i \in DOMAIN d : d[i].id \notin {End, Next_} /\ validSwitch(d, i) /\ validOnError(d, i)

------------------------------------------------------------------------------
(* The analysis of what is in the context when a task begins. *)

\* buildPreds, with 0 for the process start.
buildPreds(d) ==
    {[from |-> 0, to |-> 1, err |-> FALSE]}
    \cup (UNION {{[from |-> i, to |-> IF g = Next_ THEN i + 1 ELSE lastIndex(d, g), err |-> FALSE]
                     : g \in d[i].switch \ {End}} : i \in DOMAIN d})
    \cup (UNION {{[from |-> i, to |-> lastIndex(d, d[i].onError[k].goto), err |-> TRUE]
                     : k \in {k \in DOMAIN d[i].onError : d[i].onError[k].goto \notin {"", End}}}
                  : i \in DOMAIN d})

Into(preds, i) == {e \in preds : e.to = i}

\* The loops below run until nothing changes.  A round maps each bit of a vector over
\* the tasks monotonically, so that Len(d) rounds are enough.
Repeat(d, start, Round) ==
    LET it[k \in 0 .. Len(d) + 1] == IF k = 0 THEN start ELSE Round[it[k - 1]]
    IN  it[Len(d) + 1]

Tasks(d)   == SUBSET DOMAIN d
Vectors(d) == [DOMAIN d -> Tasks(d)]

checkReachability(d) ==
    LET preds == buildPreds(d)
    IN  Repeat(d, {1}, [R \in Tasks(d) |->
            R \cup {i \in DOMAIN d : \E e \in Into(preds, i) : e.from \in R}]) = DOMAIN d

\* Fault: an error edge carries the output of the task that failed.
CarriedAll(d, out, e) == out[e.from]

\* What an edge carries of out[p], the outputs at the end of its origin.
Carried(d, out, e) ==
    IF e.err /\ d[e.from].output THEN out[e.from] \ {e.from} ELSE out[e.from]

Own(d, i) == IF d[i].output THEN {i} ELSE {}

\* Available on every edge into task i.
mustIn(d, preds, out, i) ==
    LET in == Into(preds, i) IN
    IF in = {} \/ \E e \in in : e.from = 0 THEN {}
    ELSE {j \in DOMAIN d : \A e \in in : j \in Carried(d, out, e)}

\* Fault: only what every edge has.
mayOnAll(d, preds, out, i) ==
    {j \in DOMAIN d : \A e \in Into(preds, i) : e.from # 0 /\ j \in Carried(d, out, e)}

\* Available on some edge into task i.
mayIn(d, preds, out, i) ==
    {j \in DOMAIN d : \E e \in Into(preds, i) : e.from # 0 /\ j \in Carried(d, out, e)}

mustOut(d, preds) ==
    Repeat(d, [i \in DOMAIN d |-> DOMAIN d],
           [out \in Vectors(d) |-> [i \in DOMAIN d |-> mustIn(d, preds, out, i) \cup Own(d, i)]])

mayOut(d, preds) ==
    Repeat(d, [i \in DOMAIN d |-> {}],
           [out \in Vectors(d) |-> [i \in DOMAIN d |-> mayIn(d, preds, out, i) \cup Own(d, i)]])

\* The tasks some edge into which brings an error.
mayErr(d, preds) ==
    Repeat(d, {}, [S \in Tasks(d) |->
        {i \in DOMAIN d : \E e \in Into(preds, i) : e.from # 0 /\ (e.err \/ e.from \in S)}])

\* The tasks every edge into which brings an error.
mustErr(d, preds) ==
    Repeat(d, {}, [S \in Tasks(d) |->
        {i \in DOMAIN d : /\ Into(preds, i) # {}
                          /\ \A e \in Into(preds, i) : e.from # 0 /\ (e.err \/ e.from \in S)}])

\* The results by task id, where a repeated id collects those of all its tasks.
ById(d, f) == [id \in Ids(d) |-> UNION {{d[j].id : j \in f[i]} : i \in {i \in DOMAIN d : d[i].id = id}}]

computeContextSets(d) ==
    LET preds  == buildPreds(d)
        must   == mustOut(d, preds)
        may    == mayOut(d, preds)
        req    == [i \in DOMAIN d |-> mustIn(d, preds, must, i)]
        opt    == [i \in DOMAIN d |-> mayIn(d, preds, may, i) \ req[i]]
    IN  [required |-> ById(d, req), optional |-> ById(d, opt),
         mustErr  |-> {d[i].id : i \in mustErr(d, preds)}, mayErr |-> {d[i].id : i \in mayErr(d, preds)}]

\* Fault: the ends by an error route are forgotten.
terminalsNormal(d, sets) ==
    {[must |-> sets.required[d[i].id] \cup (IF d[i].output THEN {d[i].id} ELSE {}),
      may  |-> sets.required[d[i].id] \cup {d[i].id} \cup sets.optional[d[i].id],
      errMin |-> d[i].id \in sets.mustErr, errMax |-> d[i].id \in sets.mayErr]
        : i \in {i \in DOMAIN d : End \in d[i].switch}}

\* The ends of the process: [must, may, errMin, errMax] for each way to leave.
terminals(d, sets) ==
    LET Terminal(id, own, errMin, errMax) ==
            [must |-> sets.required[id] \cup own,
             may  |-> sets.required[id] \cup own \cup sets.optional[id],
             errMin |-> errMin, errMax |-> errMax]
        normal == {i \in DOMAIN d : End \in d[i].switch}
        failed == {i \in DOMAIN d : \E k \in DOMAIN d[i].onError : d[i].onError[k].goto = End}
    IN  {Terminal(d[i].id, IF d[i].output THEN {d[i].id} ELSE {},
                  d[i].id \in sets.mustErr, d[i].id \in sets.mayErr) : i \in normal}
        \cup {Terminal(d[i].id, {}, TRUE, TRUE) : i \in failed}

outputContextSets(d, sets) ==
    LET ends == terminals(d, sets)
        must == {id \in Ids(d) : ends # {} /\ \A t \in ends : id \in t.must}
    IN  [required |-> must, optional |-> (UNION {t.may : t \in ends}) \ must,
         errRequired |-> ends # {} /\ \A t \in ends : t.errMin,
         errOptional |-> (\E t \in ends : t.errMax) /\ \E t \in ends : ~t.errMin]

------------------------------------------------------------------------------
(* Calls. *)

\* What can become of a request.  The first two end before the server has it; the
\* next two get no response, a connection lost after the request was written or a
\* deadline or a shutdown while waiting; the others are responses: an unaccepted
\* status, no JSON, a result that is not of the result_schema, a good one.
Outcome == {"refused", "dial timeout", "reset", "no answer", "status", "garbage", "invalid", "ok"}
Reached(o) == o \notin {"refused", "dial timeout"}

\* ClassifyGoError: only a deadline or a cancel is looked at for its phase.
ClassifyGoError(o) ==
    CASE o = "dial timeout" -> "pre.timeout"
      [] o = "no answer"    -> "http.timeout"
      [] OTHER              -> "pre.error"

\* Fault: a deadline while waiting for the response counts as one of the dial.
ErrorCodeEarly(o) ==
    CASE o = "status"    -> "http.500"
      [] o = "garbage"   -> "output.parse"
      [] o = "invalid"   -> "output.invalid"
      [] o = "no answer" -> "pre.timeout"
      [] OTHER           -> ClassifyGoError(o)

\* executeAction's error code.
ErrorCode(o) ==
    CASE o = "status"  -> "http.500"
      [] o = "garbage" -> "output.parse"
      [] o = "invalid" -> "output.invalid"
      [] OTHER         -> ClassifyGoError(o)

\* 5^9, from 10^9 nanoseconds = 2^9 * 5^9.
Fives == 1953125

\* Fault: the first retry does not double the delay.
RetryDelayLate(n) == IF n < 10 THEN 2 ^ (n - 1) ELSE 300

\* RetryDelay in seconds: (1 << n) * 10^9 nanoseconds in 64 bits, at most 300 s.  From
\* n = 55 on only zero bits are left; from n = 34 on the product wraps and its sign is
\* bit 54 - n of 5^9; a product that stays positive is above the cap from n = 9 on.
RetryDelay(n) ==
    CASE n >= 55                                            -> 0
      [] n \in 34 .. 54 /\ (Fives \div 2 ^ (54 - n)) % 2 = 1 -> -1
      [] n < 9                                              -> 2 ^ n
      [] OTHER                                              -> 300

\* Without a matching rule there is no retry and no route.
NoRule == [code |-> {}, retries |-> 0, goto |-> "", notReached |-> FALSE]

\* matchOnError: the first rule for the code.
matchOnError(task, code) ==
    LET hits == {k \in DOMAIN task.onError :
                   \/ task.onError[k].code = {}
                   \/ \E p \in task.onError[k].code : code \in Like[p]}
    IN  IF hits = {} THEN NoRule ELSE task.onError[Min(hits)]

isRetryAllowed(task, code, rule) ==
    ~task.once \/ rule.notReached \/ code \in {"pre.error", "pre.timeout"}

------------------------------------------------------------------------------
(* The instance and its advance. *)

Advances == [idx : Nat, i : Nat, answer : Outcome \cup {NULL}, retry : Nat,
             wake : Int \cup {NULL}, outputs : SUBSET STRING, error : BOOLEAN,
             stale : SUBSET STRING]
Rows == [status : {"running", "cancelling", "cancelled", "completed", "failed"},
         task : STRING, retry : Nat, wake : Int \cup {NULL}, outputs : SUBSET STRING,
         error : BOOLEAN, lease : {"none", "held", "lost"}, stale : SUBSET STRING,
         revived : BOOLEAN]

ASSUME NullIsNone ==
    NULL \notin Int /\ NULL \notin Outcome /\ NULL \notin Advances /\ NULL \notin Rows

None == [requests |-> [i \in DOMAIN def |-> 0], reached |-> [i \in DOMAIN def |-> 0],
         armed |-> FALSE, reruns |-> 0]

\* Register: apply refuses the definition, or an instance is started.
Register ==
    /\ static = NULL /\ row = NULL
    /\ IF Validate(def) /\ checkReachability(def)
       THEN LET sets == computeContextSets(def) IN
            /\ static' = [sets |-> sets, end |-> outputContextSets(def, sets)]
            /\ row' = [status |-> "running", task |-> def[1].id, retry |-> 0,
                       wake |-> NULL, outputs |-> {}, error |-> FALSE, lease |-> "none",
                       stale |-> {}, revived |-> FALSE]
       ELSE static' = "refused" /\ row' = NULL
    /\ UNCHANGED <<def, adv, visit, excused, crashes, orders>>

Claimable == adv = NULL /\ row # NULL /\ row.lease # "held"

\* cancelInstance, of an instance claimed as cancelling: a delay's timer is kept.
CancelInstance ==
    /\ Claimable /\ row.status = "cancelling"
    /\ row' = [row EXCEPT !.status = "cancelled", !.lease = "none",
                          !.wake = IF row.retry > 0 THEN NULL ELSE @]
    /\ UNCHANGED <<def, static, adv, visit, excused, crashes, orders>>

\* The check of a takeover is on the task the row names.
Interrupted ==
    LET task == def[taskIndex(def, row.task)] IN
    row.lease = "lost" /\ task.call # "none" /\ task.once

FailInterrupted ==
    /\ Claimable /\ row.status = "running" /\ Interrupted
    /\ row' = [row EXCEPT !.status = "failed", !.wake = NULL, !.lease = "none"]
    /\ UNCHANGED <<def, static, adv, visit, excused, crashes, orders>>

\* Fault: a takeover is not noticed.
ClaimRegardless ==
    /\ Claimable /\ row.status = "running"
    /\ adv' = [idx |-> taskIndex(def, row.task), i |-> 0, answer |-> NULL, retry |-> row.retry,
               wake |-> row.wake, outputs |-> row.outputs, error |-> row.error,
               stale |-> row.stale]
    /\ row' = [row EXCEPT !.lease = "held"]
    /\ UNCHANGED <<def, static, visit, excused, crashes, orders>>

Claim ==
    /\ Claimable /\ row.status = "running" /\ ~Interrupted
    /\ adv' = [idx |-> taskIndex(def, row.task), i |-> 0, answer |-> NULL, retry |-> row.retry,
               wake |-> row.wake, outputs |-> row.outputs, error |-> row.error,
               stale |-> row.stale]
    /\ row' = [row EXCEPT !.lease = "held"]
    /\ UNCHANGED <<def, static, visit, excused, crashes, orders>>

Task == def[adv.idx]

\* Fault: the lease is not released.
SavedLeased(a, idx, status) ==
    [row EXCEPT !.status = status, !.task = def[idx].id, !.retry = a.retry,
                !.wake = a.wake, !.outputs = a.outputs, !.error = a.error, !.stale = a.stale]

\* The row after an advance; UpdateInstanceProgress keeps the status the row has.
Saved(a, idx, status) ==
    [row EXCEPT !.status = status, !.task = def[idx].id, !.retry = a.retry,
                !.wake = a.wake, !.outputs = a.outputs, !.error = a.error,
                !.lease = "none", !.stale = a.stale]

\* The task's action, if any, is done and the switch is to be evaluated.
ActionDone ==
    CASE Task.call = "rest"  -> adv.answer = "ok"
      [] Task.call = "delay" -> adv.wake # NULL
      [] OTHER               -> TRUE

\* An evaluation fails: of the input, the endpoint, the duration or the output of the
\* task (~done), of its switch or of the output of the process (done).
FailInstance(done) ==
    /\ adv # NULL
    /\ IF done THEN ActionDone ELSE adv.answer \in {NULL, "ok"}
    /\ row' = Saved([adv EXCEPT !.wake = NULL,
                                !.retry = IF adv.answer = "ok" THEN 0 ELSE @,
                                !.outputs = IF done /\ Task.output THEN @ \cup {Task.id} ELSE @,
                                !.stale = IF done THEN @ \ {Task.id} ELSE @],
                    adv.idx, "failed")
    /\ adv' = NULL
    /\ UNCHANGED <<def, static, visit, excused, crashes, orders>>

\* Send, up to its result.
SendCall(o) ==
    /\ adv # NULL /\ Task.call = "rest" /\ adv.answer = NULL
    /\ adv' = [adv EXCEPT !.answer = o]
    /\ visit' = [visit EXCEPT !.requests[adv.idx] = IF o = "ok" THEN 0 ELSE @ + 1,
                              !.reached[adv.idx] = IF Reached(o) /\ @ < 2 THEN @ + 1 ELSE @]
    /\ UNCHANGED <<def, static, row, excused, crashes, orders>>

\* runDelay, on its first entry.
ArmDelay ==
    /\ adv # NULL /\ Task.call = "delay" /\ adv.wake = NULL
    /\ row' = Saved([adv EXCEPT !.wake = 1], adv.idx, row.status)
    /\ adv' = NULL
    /\ visit' = [visit EXCEPT !.armed = TRUE]
    /\ UNCHANGED <<def, static, excused, crashes, orders>>

WithOutput == [adv EXCEPT !.outputs = IF Task.output THEN @ \cup {Task.id} ELSE @,
                          !.stale = @ \ {Task.id}, !.retry = 0, !.wake = NULL,
                          !.answer = NULL]

\* The switch ends the process.
GotoEnd ==
    /\ adv # NULL /\ ActionDone /\ End \in Task.switch
    /\ row' = Saved(WithOutput, adv.idx, "completed")
    /\ adv' = NULL
    /\ UNCHANGED <<def, static, visit, excused, crashes, orders>>

Target(g) == IF g = Next_ THEN adv.idx + 1 ELSE taskIndex(def, g)

\* The switch goes on in memory, if the task had no call.
GotoInline(g) ==
    /\ adv # NULL /\ ActionDone /\ g \in Task.switch \ {End}
    /\ Task.call = "none" /\ adv.i < MaxInline
    /\ adv' = [WithOutput EXCEPT !.idx = Target(g), !.i = @ + 1]
    /\ UNCHANGED <<def, static, row, visit, excused, crashes, orders>>

\* The switch goes on after a checkpoint, which releases the lease.
GotoCheckpoint(g) ==
    /\ adv # NULL /\ ActionDone /\ g \in Task.switch \ {End}
    /\ Task.call # "none" \/ adv.i >= MaxInline
    /\ row' = Saved(WithOutput, Target(g), row.status)
    /\ adv' = NULL /\ visit' = None /\ excused' = {}
    /\ UNCHANGED <<def, static, crashes, orders>>

Failed == adv # NULL /\ adv.answer \notin {NULL, "ok"}
Rule   == matchOnError(Task, ErrorCode(adv.answer))
Retries == /\ adv.retry < Rule.retries
           /\ isRetryAllowed(Task, ErrorCode(adv.answer), Rule)

\* Why the task may be called again although the server had the request: the rule says
\* that it had not, or the connection was lost after the request was written.  Nothing
\* else is an excuse, whatever code the failure was given.
Excuses ==
    (IF Reached(adv.answer) /\ Rule.notReached THEN {<<adv.idx, "asserted">>} ELSE {})
        \cup (IF adv.answer = "reset" THEN {<<adv.idx, "reset">>} ELSE {})

\* Fault: the attempts are not counted.
RetryUncounted ==
    /\ Failed /\ Retries
    /\ row' = Saved([adv EXCEPT !.wake = RetryDelay(adv.retry + 1)], adv.idx, "running")
    /\ excused' = IF Task.once THEN excused \cup Excuses ELSE excused
    /\ adv' = NULL
    /\ UNCHANGED <<def, static, visit, crashes, orders>>

\* handleCallError: a retry.  The full save writes the status the advance loaded.
RetryCall ==
    /\ Failed /\ Retries
    /\ row' = Saved([adv EXCEPT !.retry = @ + 1, !.wake = RetryDelay(adv.retry + 1)],
                    adv.idx, "running")
    /\ excused' = IF Task.once THEN excused \cup Excuses ELSE excused
    /\ adv' = NULL
    /\ UNCHANGED <<def, static, visit, crashes, orders>>

WithError == [adv EXCEPT !.error = TRUE, !.stale = @ \cup {Task.id}]

\* handleCallError: on_error ends the process, without an output.
ErrorEnd ==
    /\ Failed /\ ~Retries /\ Rule.goto = End
    /\ row' = Saved([WithError EXCEPT !.wake = NULL], adv.idx, "completed")
    /\ adv' = NULL
    /\ UNCHANGED <<def, static, visit, excused, crashes, orders>>

\* Fault: the timer of the last retry stays.
ErrorRouteKeepsTimer ==
    /\ Failed /\ ~Retries /\ Rule.goto \notin {"", End}
    /\ row' = Saved([WithError EXCEPT !.retry = 0], taskIndex(def, Rule.goto), "running")
    /\ adv' = NULL /\ visit' = None /\ excused' = {}
    /\ UNCHANGED <<def, static, crashes, orders>>

\* handleCallError: on_error routes to a task.
ErrorRoute ==
    /\ Failed /\ ~Retries /\ Rule.goto \notin {"", End}
    /\ row' = Saved([WithError EXCEPT !.wake = NULL, !.retry = 0],
                    taskIndex(def, Rule.goto), "running")
    /\ adv' = NULL /\ visit' = None /\ excused' = {}
    /\ UNCHANGED <<def, static, crashes, orders>>

\* handleCallError: nothing catches the error.
ErrorFails ==
    /\ Failed /\ ~Retries /\ Rule.goto = ""
    /\ row' = Saved([WithError EXCEPT !.wake = NULL], adv.idx, "failed")
    /\ adv' = NULL
    /\ UNCHANGED <<def, static, visit, excused, crashes, orders>>

------------------------------------------------------------------------------
(* Crashes and operators. *)

\* The worker dies or its save fails: the lease lapses and is taken over.  If it had
\* come to a call from an earlier task in memory, the row does not name the call.
Crash ==
    /\ adv # NULL /\ crashes < MaxCrashes
    /\ adv' = NULL /\ row' = [row EXCEPT !.lease = "lost"]
    /\ crashes' = crashes + 1
    /\ visit' = [visit EXCEPT !.reruns = @ + 1]
    /\ excused' = IF adv.answer # NULL /\ Reached(adv.answer) /\ adv.i > 0 /\ Task.once
                  THEN excused \cup {<<adv.idx, "inlined">>} ELSE excused
    /\ UNCHANGED <<def, static, orders>>

CancelProcess ==
    /\ row # NULL /\ row.status = "running" /\ orders < MaxOrders
    /\ row' = [row EXCEPT !.status = "cancelling"]
    /\ orders' = orders + 1
    /\ UNCHANGED <<def, static, adv, visit, excused, crashes>>

\* RetryProcess, of an instance without children.
RetryProcess(force) ==
    LET at == taskIndex(def, row.task) IN
    /\ row # NULL /\ row.status \in {"failed", "cancelled"} /\ orders < MaxOrders
    /\ force \/ ~def[at].once
    /\ row' = [row EXCEPT !.status = "running", !.wake = IF row.retry > 0 THEN NULL ELSE @,
                          !.lease = "none",
                          !.revived = TRUE, !.stale = @ \cup {row.task}]
    /\ orders' = orders + 1
    /\ visit' = [visit EXCEPT !.reruns = @ + 1]
    /\ excused' = IF force /\ def[at].once THEN excused \cup {<<at, "forced">>} ELSE excused
    /\ UNCHANGED <<def, static, adv, crashes>>

------------------------------------------------------------------------------
Init ==
    /\ def \in Definitions
    /\ static = NULL /\ row = NULL /\ adv = NULL
    /\ visit = None /\ excused = {} /\ crashes = 0 /\ orders = 0

Advance ==
    \/ \E done \in BOOLEAN : FailInstance(done)
    \/ \E o \in Outcome : SendCall(o)
    \/ ArmDelay \/ GotoEnd
    \/ adv # NULL /\ \E g \in Task.switch : GotoInline(g) \/ GotoCheckpoint(g)
    \/ RetryCall \/ ErrorEnd \/ ErrorRoute \/ ErrorFails

Next ==
    \/ Register \/ CancelInstance \/ FailInterrupted \/ Claim \/ Advance
    \/ Crash \/ CancelProcess \/ \E force \in BOOLEAN : RetryProcess(force)

Spec == Init /\ [][Next]_vars
------------------------------------------------------------------------------
(* Properties. *)

Instance == {r \in Rows : r.task \in Ids(def) /\ r.outputs \cup r.stale \subseteq Ids(def)}

\* The row and the advance have their types; a lease is held while an advance runs and
\* only then, and an instance that has ended has no timer left to fire, except that of
\* a cancelled delay.
TypeOK ==
    /\ row = NULL \/ row \in Instance
    /\ adv # NULL =>
         /\ adv.idx \in DOMAIN def /\ adv.i \in 0 .. MaxInline
         /\ adv.answer \in Outcome \cup {NULL}
         /\ adv.retry \in Nat /\ adv.outputs \subseteq Ids(def) /\ adv.error \in BOOLEAN
    /\ row # NULL =>
         /\ (row.lease = "held") = (adv # NULL)
         /\ row.status \in {"completed", "failed"} => row.wake = NULL
    /\ crashes \in 0 .. MaxCrashes /\ orders \in 0 .. MaxOrders

Sets == static.sets

\* The output of a task that the analysis calls always available is there whenever the
\* task begins, on every route through switches, error routes, retries, crashes and
\* operators' retries: no expression that was accepted reads a missing output.
RequiredIsPresent ==
    adv # NULL /\ Distinct(def) => Sets.required[Task.id] \subseteq adv.outputs

\* An output that is there has been foreseen, at least as optional; except that of a
\* task that is run again by an operator or has run again and failed: an error edge
\* clears the bit of the failing task, the engine keeps the output of its earlier run.
PresentIsForeseen ==
    adv # NULL /\ adv.answer = NULL /\ Distinct(def) =>
        adv.outputs \ adv.stale \subseteq Sets.required[Task.id] \cup Sets.optional[Task.id]

\* The error of a failed call is in the context where the analysis says always and, but
\* for an instance an operator has revived after it failed, only where it says so.
ErrorIsForeseen ==
    adv # NULL /\ Distinct(def) =>
        /\ Task.id \in Sets.mustErr => adv.error
        /\ adv.error /\ ~row.revived => Task.id \in Sets.mayErr

\* The same for the output of the process, over all the ways the process can end.
EndIsForeseen ==
    row # NULL /\ row.status = "completed" /\ Distinct(def) =>
        LET end == static.end IN
        /\ end.required \subseteq row.outputs
        /\ row.outputs \ row.stale \subseteq end.required \cup end.optional
        /\ end.errRequired => row.error
        /\ row.error /\ ~row.revived => end.errRequired \/ end.errOptional

\* What computeContextSets and outputContextSets say of the context when a definition
\* is registered is what its instances find: at the beginning of every task and at
\* the end, through loops, error routes, retries, crashes and operators.
ContextIsForeseen ==
    RequiredIsPresent /\ PresentIsForeseen /\ ErrorIsForeseen /\ EndIsForeseen

\* The server gets the request of an only_once task at most once per visit of the task,
\* whatever crashes and takeovers do, unless the rule asserts not_reached or an operator
\* forces it; and but for two ways the engine leaves open: a connection lost after the
\* request was written counts as pre.error, and a call that was reached in memory
\* from a task without a call is not the task the takeover check looks at.  Here and
\* below ids are distinct: of two tasks with one id, a row that names the second resumes
\* at the first, with the timer and the attempts of the second.
AtMostOnce ==
    Distinct(def) => \A p \in DOMAIN def :
        def[p].once /\ visit.reached[p] > 1 =>
            \E why \in {"asserted", "forced", "reset", "inlined"} : <<p, why>> \in excused

\* A delay is passed only if it was armed on this visit: no timer of an earlier task
\* or of a retry is taken for it.
DelayIsWaited ==
    Distinct(def) /\ adv # NULL /\ Task.call = "delay" /\ adv.wake # NULL => visit.armed

\* A task fails in a row no more often than its rules allow and once more for every
\* crash and operator's retry: attempts are counted over saves and shared by the rules.
AttemptsBounded ==
    \A p \in DOMAIN def :
        visit.requests[p] <= 1 + visit.reruns
            + Max({0} \cup {def[p].onError[k].retries : k \in DOMAIN def[p].onError})

Backoff(n) == IF n < 9 THEN 2 ^ n ELSE 300

\* A retry waits for the exponential backoff or its cap of five minutes, up to the 33rd;
\* the shift overflows at the 34th, whose delay is negative.
BackoffUpTo33 ==
    row # NULL /\ row.retry > 0 /\ row.wake # NULL =>
        row.wake = Backoff(row.retry) \/ row.retry > 33

\* Retries are bounded in number and paced, over saves, crashes and error rules
\* (handleCallError, RetryDelay).
RetriesBounded == Distinct(def) => AttemptsBounded /\ BackoffUpTo33
==============================================================================
