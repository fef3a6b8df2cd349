-------------------------- MODULE ProcessTreeProofs --------------------------
(***************************************************************************)
(* Proofs about ProcessTree, for every tree of definitions and every       *)
(* number of instances.                                                    *)
(*                                                                         *)
(* The safety properties of the tree are not inductive one by one: that a  *)
(* terminal node has only terminal children rests on the fact that an      *)
(* active child keeps its parent suspended at the task that spawned it,    *)
(* which rests on what an advance in flight may still write, and so on.    *)
(* IInv is the conjunction that is inductive.                              *)
(*                                                                         *)
(* The last section follows the batches of a parent over its visits to     *)
(* tasks, where no definition comes back to a child task (BatchInv).       *)
(***************************************************************************)
EXTENDS ProcessTree, TLAPS, WellFoundedInduction, NaturalsInduction

\* The shape of the tree: rows, parents and call stacks fit together.
Shape ==
    \A i \in Inst :
        /\ status[i] = "absent" => parentID[i] = None /\ callStack[i] = {}
        /\ parentID[i] = None => callStack[i] = {}
        /\ parentID[i] # None => /\ status[parentID[i]] # "absent"
                                 /\ callStack[i] = callStack[parentID[i]] \cup {parentID[i]}
        /\ \A a \in callStack[i] :
              /\ callStack[a] \subseteq callStack[i]
              /\ \E m \in callStack[i] \cup {i} : parentID[m] = a

\* An active child keeps its ancestors suspended, its parent at the task that
\* spawned it.
Suspended ==
    \A k \in Inst : status[k] \in Active =>
        /\ parentID[k] # None => spawnTaskID[k] = task[parentID[k]]
        /\ \A a \in callStack[k] : waitState[a] = "waiting"

\* A suspended row is active, not leased, and has an active child to wake it; a
\* row that is not active is neither suspended nor leased.
Parked ==
    \A i \in Inst :
        /\ waitState[i] = "waiting" =>
              /\ status[i] \in Active /\ lease[i] # "held"
              /\ \E k \in ChildrenForTask(i, task[i]) : status[k] \in Active
        /\ status[i] \notin Active => waitState[i] = "none" /\ lease[i] # "held"

\* The status of a parent is at least as doomed as that of its children.
Dooming ==
    \A k \in Inst : parentID[k] # None =>
        LET p == parentID[k]
        IN  /\ status[k] = "failed" => status[p] \in {"failing", "failed"}
            /\ status[k] = "cancelled" =>
                  status[p] \in {"cancelling", "failing", "cancelled", "failed"}
            /\ status[k] = "cancelling" => status[p] \in {"cancelling", "failing"}
            /\ status[k] \in {"failed", "cancelled"} => spawnTaskID[k] = task[p]

\* What an advance in flight knows about the row it will overwrite.
Flight ==
    \A i \in Inst : lease[i] = "held" =>
        /\ view[i].wait = waitState[i] /\ view[i].error = error[i]
        /\ \/ status[i] = view[i].status
           \/ status[i] = "cancelling" /\ view[i].status = "running"
        /\ view[i].status = "running" =>
              \A k \in Inst : parentID[k] = i => status[k] = "completed"
        /\ view[i].status # "running" => view[i].task = task[i]

\* Only a child task spawns, suspends and collects.
AtChildTask ==
    \A i \in Inst :
        /\ parentID[i] # None => Kind[spawnTaskID[i]] = "child"
        /\ waitState[i] # "none" => Kind[task[i]] = "child"
        /\ lease[i] = "held" /\ view[i].wait # "none" => Kind[view[i].task] = "child"

IInv ==
    /\ TypeOK
    /\ Shape
    /\ Suspended
    /\ Parked
    /\ Dooming
    /\ Flight
    /\ AtChildTask
    /\ CollectingMeansCompleted
    /\ ErrorNamesFailedNode

------------------------------------------------------------------------------
(* Types. *)

\* The snapshot of an instance that is not in flight is well typed: the
\* definitions have a task.
LEMMA IdleType == Idle \in View
<1>1. PICK t \in Task : TRUE
  BY DefinitionsValid
<1>2. (CHOOSE u \in Task : TRUE) \in Task
  BY <1>1
<1> QED
  BY <1>2 DEF Idle, View, Active, Terminal, Wait, Wake

\* matchOnError returns one of the rules of the task, or none.
LEMMA MatchIsRule ==
    ASSUME NEW t \in Task, NEW c \in Code
    PROVE  MatchOnError(t, c) \in {OnError[t][n] : n \in DOMAIN OnError[t]} \cup {NoRule}
<1> DEFINE matching == {n \in DOMAIN OnError[t] : c \in OnError[t][n].codes}
<1>1. OnError[t] \in Seq(Rule)
  BY DefinitionsValid
<1>2. matching \subseteq Nat
  BY <1>1
<1>3. CASE matching = {}
  BY <1>3 DEF MatchOnError
<1>4. CASE matching # {}
  <2> DEFINE first == CHOOSE n \in matching : \A m \in matching : n <= m
             less  == OpToRel(<, Nat)
  <2>1. IsWellFoundedOn(less, Nat)
    BY NatLessThanWellFounded
  <2>2. \A n, m \in Nat : <<m, n>> \in less <=> m < n
    BY DEF OpToRel
  <2>3. \E n \in matching : \A m \in matching : ~(<<m, n>> \in less)
    <3> HIDE DEF less, matching
    <3> QED
      BY <1>2, <1>4, <2>1, WFMin
  <2>4. \E n \in matching : \A m \in matching : n <= m
    <3> HIDE DEF less, matching
    <3>1. PICK n \in matching : \A m \in matching : ~(<<m, n>> \in less)
      BY <2>3
    <3>2. \A m \in matching : ~(m < n)
      BY <1>2, <2>2, <3>1
    <3> QED
      BY <1>2, <3>2
  <2>5. first \in matching
    <3> HIDE DEF matching
    <3> QED
      BY <2>4
  <2> QED
    BY <1>4, <2>5 DEF MatchOnError
<1> QED
  BY <1>3, <1>4

\* Its result is a well-formed rule, or none.
LEMMA MatchType ==
    ASSUME NEW t \in Task, NEW c \in Code
    PROVE  MatchOnError(t, c) \in Rule \cup {NoRule}
<1>1. OnError[t] \in Seq(Rule)
  BY DefinitionsValid
<1>2. \A n \in DOMAIN OnError[t] : OnError[t][n] \in Rule
  BY <1>1
<1> QED
  BY <1>2, MatchIsRule

\* Each of the four writes that end an advance keeps the columns well typed.
LEMMA SaveType ==
    ASSUME TypeOK, NEW i \in Inst, NEW r \in View,
           \/ UpdateInstance(i, r) \/ UpdateInstanceProgress(i, r)
           \/ FinishChild(i, r) \/ FailInstanceAndAncestors(i, r),
           result' \in [Inst -> SUBSET Inst], batch' \in [Inst -> SUBSET Inst]
    PROVE  TypeOK'
<1>1. WriteBack(i, r)
  BY DEF UpdateInstance, UpdateInstanceProgress, FinishChild, FailInstanceAndAncestors
<1>2. /\ r.status \in Status /\ r.wait \in Wait /\ r.task \in Task /\ r.retry \in Nat
      /\ r.wake \in Wake /\ r.error \in Inst \cup {None}
  BY DEF View, Status
<1>3. /\ task' \in [Inst -> Task] /\ retryCount' \in [Inst -> Nat]
      /\ wakeAt' \in [Inst -> Wake] /\ lease' \in [Inst -> {"free", "held", "expired"}]
      /\ view' \in [Inst -> View]
  BY <1>1, <1>2, IdleType DEF TypeOK, WriteBack
<1>4. UNCHANGED <<parentID, spawnTaskID, callStack, entry>>
  BY <1>1 DEF WriteBack, ident
<1>5. status' \in [Inst -> Status \cup {"absent"}] /\ error' \in [Inst -> Inst \cup {None}]
  <2>1. CASE UpdateInstance(i, r) \/ FinishChild(i, r)
    BY <1>2, <2>1 DEF TypeOK, UpdateInstance, FinishChild
  <2>2. CASE UpdateInstanceProgress(i, r)
    BY <2>2 DEF TypeOK, UpdateInstanceProgress
  <2>3. CASE FailInstanceAndAncestors(i, r)
    BY <1>2, <2>3 DEF TypeOK, FailInstanceAndAncestors, Status, Active
  <2> QED
    BY <2>1, <2>2, <2>3
<1>6. waitState' \in [Inst -> Wait]
  <2>1. CASE UpdateInstance(i, r) \/ UpdateInstanceProgress(i, r)
    BY <1>2, <2>1 DEF TypeOK, UpdateInstance, UpdateInstanceProgress
  <2>2. CASE waitState' = WakeParent(i, r, status')
    BY <1>2, <2>2 DEF TypeOK, WakeParent, Wait
  <2> QED
    BY <2>1, <2>2 DEF FinishChild, FailInstanceAndAncestors
<1> QED
  BY <1>3, <1>4, <1>5, <1>6 DEF TypeOK

\* The save that ends an advance keeps the types of all columns and snapshots.
LEMMA SaveAndNotifyType ==
    ASSUME TypeOK, NEW i \in Inst, NEW r \in View, SaveAndNotify(i, r),
           result' \in [Inst -> SUBSET Inst], batch' \in [Inst -> SUBSET Inst]
    PROVE  TypeOK'
BY SaveType DEF SaveAndNotify

\* The terminal forms of an instance: their types, and the fields that the
\* properties of the tree depend on.
LEMMA TerminalForms ==
    ASSUME TypeOK, NEW i \in Inst
    PROVE  /\ Failed(i) \in View /\ Settled(i) \in View /\ Cancelled(i) \in View
           /\ Failed(i).status = "failed" /\ Failed(i).wait = "none"
           /\ Failed(i).error = i /\ Failed(i).task = view[i].task
           /\ Settled(i).status = "failed" /\ Settled(i).wait = "none"
           /\ Settled(i).error = view[i].error /\ Settled(i).task = view[i].task
           /\ Cancelled(i).status = "cancelled" /\ Cancelled(i).wait = "none"
           /\ Cancelled(i).error = view[i].error /\ Cancelled(i).task = view[i].task
<1> DEFINE v == view[i]
<1>1. v \in View
  BY DEF TypeOK
<1> HIDE DEF v
<1>2. [v EXCEPT !.status = "failed", !.wait = "none", !.error = i, !.wake = "none"] \in View
  BY <1>1 DEF View, Active, Terminal, Wait, Wake
<1>3. [v EXCEPT !.status = "failed", !.wait = "none", !.wake = "none"] \in View
  BY <1>1 DEF View, Active, Terminal, Wait, Wake
<1>4. \A w \in Wake : [v EXCEPT !.status = "cancelled", !.wait = "none", !.wake = w] \in View
  BY <1>1 DEF View, Active, Terminal, Wait, Wake
<1>5. [v EXCEPT !.status = "cancelled", !.wait = "none",
                !.wake = IF v.retry > 0 THEN "none" ELSE @] \in View
  <2>1. v.wake \in Wake /\ (IF v.retry > 0 THEN "none" ELSE v.wake) \in Wake
    BY <1>1 DEF View, Wake
  <2> QED
    BY <1>1, <1>4, <2>1
<1>6. Failed(i) \in View /\ Settled(i) \in View /\ Cancelled(i) \in View
  BY <1>2, <1>3, <1>5 DEF v, Failed, Settled, Cancelled
<1> QED
  BY <1>1, <1>6 DEF v, Failed, Settled, Cancelled, View

------------------------------------------------------------------------------
(* The exits of an advance. *)

\* A row with a parent: the parent exists and is on the call stack.
LEMMA Parents ==
    ASSUME TypeOK, Shape, NEW k \in Inst, parentID[k] # None
    PROVE  /\ parentID[k] \in Inst /\ parentID[k] \in callStack[k]
           /\ status[k] \in Active \cup Terminal /\ status[parentID[k]] # "absent"
<1>1. parentID[k] \in Inst /\ status[k] \in Active \cup Terminal \cup {"absent"}
  BY DEF TypeOK, Status
<1>2. status[k] # "absent" /\ status[parentID[k]] # "absent" /\ parentID[k] \in callStack[k]
  BY DEF Shape
<1> QED
  BY <1>1, <1>2

DoomedBy(i, r) == IF r.status = "failed" THEN Doomed(i) ELSE {}

\* What the exit through saveAndNotify writes, whichever of its three branches
\* is taken: ancestors may be doomed, and the parent may be woken.
LEMMA SaveAndNotifyEffect ==
    ASSUME TypeOK, Shape, NEW i \in Inst, NEW r \in View, SaveAndNotify(i, r)
    PROVE  /\ WriteBack(i, r)
           /\ status' = [j \in Inst |->
                IF j = i THEN r.status
                ELSE IF j \in DoomedBy(i, r) THEN "failing" ELSE status[j]]
           /\ error' = [j \in Inst |->
                IF j = i THEN r.error
                ELSE IF j \in DoomedBy(i, r) THEN r.error ELSE error[j]]
           /\ waitState' = [j \in Inst |->
                IF j = i THEN r.wait
                ELSE IF /\ j = parentID[i] /\ waitState[j] = "waiting"
                        /\ NoActiveSiblings(i, status')
                     THEN IF status'[j] = "running" THEN "collecting" ELSE "none"
                     ELSE waitState[j]]
<1>1. CASE parentID[i] = None
  <2>1. UpdateInstance(i, r)
    BY <1>1 DEF SaveAndNotify
  <2>2. DoomedBy(i, r) = {}
    BY <1>1 DEF Shape, Doomed, DoomedBy
  <2>3. \A j \in Inst : j # parentID[i]
    BY <1>1, IdsDistinct
  <2>4. /\ WriteBack(i, r)
        /\ status' = [status EXCEPT ![i] = r.status]
        /\ waitState' = [waitState EXCEPT ![i] = r.wait]
        /\ error' = [error EXCEPT ![i] = r.error]
    BY <2>1 DEF UpdateInstance
  <2>5. /\ status' = [j \in Inst |-> IF j = i THEN r.status ELSE status[j]]
        /\ waitState' = [j \in Inst |-> IF j = i THEN r.wait ELSE waitState[j]]
        /\ error' = [j \in Inst |-> IF j = i THEN r.error ELSE error[j]]
    BY <2>4 DEF TypeOK
  <2>6. WriteBack(i, r)
    BY <2>4
  <2>7. waitState' = [j \in Inst |->
          IF j = i THEN r.wait
          ELSE IF /\ j = parentID[i] /\ waitState[j] = "waiting"
                  /\ NoActiveSiblings(i, status')
               THEN IF status'[j] = "running" THEN "collecting" ELSE "none"
               ELSE waitState[j]]
    BY <2>3, <2>5
  <2>8. \A j : j \notin DoomedBy(i, r)
    BY <2>2
  <2> QED
    BY <2>5, <2>6, <2>7, <2>8
<1>2. CASE parentID[i] # None /\ r.status = "failed"
  <2>1. FailInstanceAndAncestors(i, r) /\ DoomedBy(i, r) = Doomed(i)
    BY <1>2 DEF SaveAndNotify, DoomedBy
  <2> QED
    BY <2>1, ZenonT(40) DEF FailInstanceAndAncestors, WakeParent, TypeOK
<1>3. CASE parentID[i] # None /\ r.status # "failed"
  <2>1. FinishChild(i, r) /\ DoomedBy(i, r) = {}
    BY <1>3 DEF SaveAndNotify, DoomedBy
  <2> QED
    BY <2>1 DEF FinishChild, WakeParent, TypeOK
<1> QED
  BY <1>1, <1>2, <1>3

\* An advance that ends in a terminal status preserves the invariant: it leaves
\* no active descendant behind, dooms every ancestor if it failed, and wakes its
\* parent exactly when it was the last active child.
LEMMA SettleStep ==
    ASSUME IInv, NEW i \in Inst, NEW r \in View, SaveAndNotify(i, r),
           lease[i] = "held", r.status \in Terminal, r.wait = "none",
           r.status = "failed" =>
              r.error = i \/ (view[i].status = "failing" /\ r.error = error[i]),
           r.status = "cancelled" => view[i].status = "cancelling" /\ r.error = error[i],
           r.status = "completed" => view[i].status = "running" /\ r.error = error[i],
           view[i].status # "running" => r.task = task[i],
           result' \in [Inst -> SUBSET Inst], batch' \in [Inst -> SUBSET Inst]
    PROVE  IInv'
<1> DEFINE D == DoomedBy(i, r)
           p == parentID[i]
<1>1. TypeOK'
  BY SaveAndNotifyType DEF IInv
<1>2. /\ WriteBack(i, r)
      /\ status' = [j \in Inst |-> IF j = i THEN r.status
                                   ELSE IF j \in D THEN "failing" ELSE status[j]]
      /\ error' = [j \in Inst |-> IF j = i THEN r.error
                                  ELSE IF j \in D THEN r.error ELSE error[j]]
      /\ waitState' = [j \in Inst |->
           IF j = i THEN r.wait
           ELSE IF j = p /\ waitState[j] = "waiting" /\ NoActiveSiblings(i, status')
                THEN IF status'[j] = "running" THEN "collecting" ELSE "none"
                ELSE waitState[j]]
  BY SaveAndNotifyEffect DEF IInv
<1>3. /\ UNCHANGED <<parentID, spawnTaskID, callStack, entry>>
      /\ \A j \in Inst \ {i} : task'[j] = task[j] /\ lease'[j] = lease[j] /\ view'[j] = view[j]
      /\ task'[i] = r.task /\ lease'[i] = "free"
  BY <1>2 DEF WriteBack, ident, IInv, TypeOK
<1>4. status[i] \in Active /\ waitState[i] # "waiting"
  BY DEF IInv, Parked
<1>5. \A a \in callStack[i] :
         /\ a \in Inst /\ a # i
         /\ waitState[a] = "waiting" /\ status[a] \in Active /\ lease[a] # "held"
  BY <1>4 DEF IInv, Suspended, Parked, TypeOK
<1>6. /\ D \subseteq callStack[i] /\ (r.status # "failed" => D = {})
      /\ r.status = "failed" => \A a \in callStack[i] : status'[a] = "failing"
  BY <1>2, <1>5 DEF DoomedBy, Doomed, Active
<1>7. \A k \in Inst : i \in callStack[k] => status[k] \notin Active
  BY <1>4 DEF IInv, Suspended
<1>8. \A k \in Inst : parentID[k] # None =>
         /\ parentID[k] \in Inst /\ parentID[k] \in callStack[k]
         /\ status[k] \in Active \cup Terminal /\ status[parentID[k]] # "absent"
  BY Parents DEF IInv
<1>9. p # None => p \in callStack[i] /\ spawnTaskID[i] = task[p]
  BY <1>4, <1>8 DEF IInv, Suspended
<1>10. \A j \in Inst \ {i} : /\ status[j] \in Active <=> status'[j] \in Active
                             /\ status[j] \notin Active => status'[j] = status[j]
  BY <1>2, <1>5, <1>6 DEF Active
<1> HIDE DEF D, p
<1>11. Shape'
  <2>1. \A j \in Inst : status[j] = "absent" <=> status'[j] = "absent"
    BY <1>2, <1>4, <1>10 DEF Active, Terminal
  <2> QED
    BY <1>3, <1>8, <2>1 DEF Shape, IInv
<1>12. Suspended'
  <2> SUFFICES ASSUME NEW k \in Inst, status'[k] \in Active
               PROVE  /\ parentID[k] # None => spawnTaskID[k] = task'[parentID[k]]
                      /\ \A a \in callStack[k] : waitState'[a] = "waiting"
    BY <1>3 DEF Suspended
  <2>1. k # i /\ status[k] \in Active /\ i \notin callStack[k]
    BY <1>2, <1>7, <1>10 DEF Active, Terminal
  <2>2. parentID[k] # None => spawnTaskID[k] = task'[parentID[k]]
    BY <1>3, <1>8, <2>1 DEF IInv, Suspended
  <2>3. ASSUME NEW a \in callStack[k], a = p, NoActiveSiblings(i, status')
        PROVE  FALSE
    <3>1. PICK m \in callStack[k] \cup {k} : parentID[m] = a
      BY <2>3 DEF IInv, Shape
    <3>2. m \in Inst /\ m # i /\ status[m] \in Active
      BY <2>1, <3>1 DEF IInv, Suspended, Parked, TypeOK
    <3>3. a \in Inst /\ a # None
      <4>1. callStack[k] \subseteq Inst
        BY DEF IInv, TypeOK
      <4> QED
        BY <2>3, <4>1, IdsDistinct
    <3>4. spawnTaskID[m] = spawnTaskID[i] /\ parentID[m] = parentID[i]
      BY <1>9, <2>3, <3>1, <3>2, <3>3 DEF IInv, Suspended, p
    <3>5. status'[m] \in Active
      BY <1>10, <3>2
    <3> QED
      BY <2>3, <3>2, <3>4, <3>5 DEF NoActiveSiblings, ChildrenForTask, Active, Terminal
  <2>4. ASSUME NEW a \in callStack[k] PROVE waitState'[a] = "waiting"
    <3>1. a \in Inst /\ a # i /\ waitState[a] = "waiting"
      BY <2>1 DEF IInv, Suspended, TypeOK
    <3> QED
      BY <1>2, <2>3, <3>1
  <2> QED
    BY <2>2, <2>4
<1>13. Parked'
  <2>1. ASSUME NEW j \in Inst, waitState'[j] = "waiting"
        PROVE  /\ status'[j] \in Active /\ lease'[j] # "held"
               /\ \E k \in ChildrenForTask(j, task[j])' : status'[k] \in Active
    <3>1. j # i /\ waitState[j] = "waiting" /\ ~(j = p /\ NoActiveSiblings(i, status'))
      BY <1>2, <2>1
    <3>2. PICK k \in ChildrenForTask(j, task[j]) : status[k] \in Active
      BY <3>1 DEF IInv, Parked
    <3>3. ChildrenForTask(j, task[j])' = ChildrenForTask(j, task[j])
      BY <1>3, <3>1 DEF ChildrenForTask
    <3>6. status'[j] \in Active /\ lease'[j] # "held"
      BY <1>3, <1>10, <3>1 DEF IInv, Parked
    <3>4. CASE k # i
      BY <3>6, <1>10, <3>2, <3>3, <3>4 DEF ChildrenForTask
    <3>5. CASE k = i
      <4>1. j = p
        BY <3>2, <3>5 DEF ChildrenForTask, p
      <4>2. PICK m \in ChildrenForTask(parentID[i], spawnTaskID[i]) : status'[m] \notin Terminal
        BY <3>1, <4>1 DEF NoActiveSiblings
      <4>3. m \in ChildrenForTask(j, task[j])
        BY <3>2, <3>5, <4>1, <4>2 DEF ChildrenForTask, p
      <4>4. status'[m] \in Active
        BY <1>2, <1>8, <1>10, <4>2, <4>3, IdsDistinct DEF ChildrenForTask
      <4> QED
        BY <3>3, <3>6, <4>3, <4>4
    <3> QED
      BY <3>4, <3>5
  <2>2. ASSUME NEW j \in Inst, status'[j] \notin Active
        PROVE  waitState'[j] = "none" /\ lease'[j] # "held"
    BY <1>2, <1>3, <1>10, <2>2 DEF IInv, Parked
  <2> QED
    BY <2>1, <2>2 DEF Parked

<1>14. Dooming'
  <2> SUFFICES ASSUME NEW k \in Inst, parentID[k] # None
               PROVE  LET q == parentID[k]
                      IN  /\ status'[k] = "failed" => status'[q] \in {"failing", "failed"}
                          /\ status'[k] = "cancelled" =>
                                status'[q] \in {"cancelling", "failing", "cancelled", "failed"}
                          /\ status'[k] = "cancelling" => status'[q] \in {"cancelling", "failing"}
                          /\ status'[k] \in {"failed", "cancelled"} => spawnTaskID[k] = task'[q]
    BY <1>3 DEF Dooming
  <2> DEFINE q == parentID[k]
  <2>1. q \in Inst /\ q \in callStack[k] /\ status[k] \in Active \cup Terminal
    BY <1>8
  <2>2. /\ status[k] = "failed" => status[q] \in {"failing", "failed"}
        /\ status[k] = "cancelled" => status[q] \in {"cancelling", "failing", "cancelled", "failed"}
        /\ status[k] = "cancelling" => status[q] \in {"cancelling", "failing"}
        /\ status[k] \in {"failed", "cancelled"} => spawnTaskID[k] = task[q]
    BY DEF IInv, Dooming
  <2>3. \/ status[i] = view[i].status
        \/ status[i] = "cancelling" /\ view[i].status = "running"
    BY DEF IInv, Flight
  <2>4. CASE k = i
    <3>1. q # i /\ q \in callStack[i] /\ spawnTaskID[i] = task'[q]
      BY <1>3, <1>5, <1>9, <2>1, <2>4 DEF p
    <3>2. r.status = "failed" => status'[q] = "failing"
      BY <1>6, <3>1
    <3>3. r.status = "cancelled" => status'[q] \in {"cancelling", "failing"}
      BY <1>2, <1>6, <2>1, <2>2, <2>3, <2>4, <3>1
    <3> QED
      BY <1>2, <2>4, <3>1, <3>2, <3>3 DEF Terminal
  <2>5. CASE k # i /\ q = i
    <3>1. status[k] \notin Active /\ status'[k] = status[k]
      BY <1>7, <1>10, <2>1, <2>5
    <3>2. view[i].status = "running" => status[k] = "completed"
      BY <2>5 DEF IInv, Flight
    <3>3. status[k] = "failed" => r.status = "failed"
      BY <1>4, <2>2, <2>3, <2>5, <3>2 DEF Active, Terminal
    <3>4. status[k] = "cancelled" => r.status \in {"failed", "cancelled"}
      BY <3>2 DEF Terminal
    <3>5. status[k] \in {"failed", "cancelled"} => task'[i] = task[i]
      BY <1>3, <3>2
    <3> QED
      BY <1>2, <2>2, <2>5, <3>1, <3>3, <3>4, <3>5 DEF Active
  <2>6. CASE k # i /\ q # i
    <3>1. task'[q] = task[q] /\ status'[q] \in {status[q], "failing"}
      BY <1>2, <1>3, <2>1, <2>6
    <3>2. status'[k] \in {status[k], "failing"}
      BY <1>2, <2>6
    <3>3. status[q] \in Terminal => status'[q] = status[q]
      BY <1>10, <2>1, <2>6 DEF Active, Terminal
    <3> QED
      BY <2>2, <3>1, <3>2, <3>3 DEF Terminal
  <2> QED
    BY <2>4, <2>5, <2>6
<1>15. Flight'
  <2> SUFFICES ASSUME NEW j \in Inst, lease'[j] = "held"
               PROVE  /\ view'[j].wait = waitState'[j] /\ view'[j].error = error'[j]
                      /\ \/ status'[j] = view'[j].status
                         \/ status'[j] = "cancelling" /\ view'[j].status = "running"
                      /\ view'[j].status = "running" =>
                            \A k \in Inst : parentID[k] = j => status'[k] = "completed"
                      /\ view'[j].status # "running" => view'[j].task = task'[j]
    BY <1>3 DEF Flight
  <2>1. j # i /\ lease[j] = "held" /\ view'[j] = view[j] /\ task'[j] = task[j]
    BY <1>3
  <2>2. j \notin D /\ waitState[j] # "waiting"
    BY <1>5, <1>6, <2>1 DEF IInv, Parked
  <2>3. status'[j] = status[j] /\ error'[j] = error[j] /\ waitState'[j] = waitState[j]
    BY <1>2, <2>1, <2>2
  <2>4. ASSUME view[j].status = "running", NEW k \in Inst, parentID[k] = j
        PROVE  status'[k] = "completed"
    <3>1. status[k] = "completed"
      BY <2>1, <2>4 DEF IInv, Flight
    <3> QED
      BY <1>4, <1>10, <3>1 DEF Active
  <2> QED
    BY <2>1, <2>3, <2>4 DEF IInv, Flight
<1>16. AtChildTask'
  <2>1. ASSUME NEW j \in Inst, waitState'[j] # "none" PROVE Kind[task'[j]] = "child"
    BY <1>2, <1>3, <2>1 DEF IInv, AtChildTask
  <2>2. ASSUME NEW j \in Inst, lease'[j] = "held", view'[j].wait # "none"
        PROVE  Kind[view'[j].task] = "child"
    BY <1>3, <2>2 DEF IInv, AtChildTask
  <2>3. \A j \in Inst : parentID'[j] # None => Kind[spawnTaskID'[j]] = "child"
    BY <1>3 DEF IInv, AtChildTask
  <2> QED
    BY <2>1, <2>2, <2>3 DEF AtChildTask
<1>17. CollectingMeansCompleted'
  <2> SUFFICES ASSUME NEW j \in Inst, waitState'[j] = "collecting",
                      NEW k \in ChildrenForTask(j, task[j])'
               PROVE  status'[k] = "completed"
    BY DEF CollectingMeansCompleted
  <2>1. j # i /\ k \in ChildrenForTask(j, task[j]) /\ k \in Inst /\ parentID[k] = j
    BY <1>2, <1>3 DEF ChildrenForTask
  <2>2. CASE waitState[j] = "collecting"
    <3>1. status[k] = "completed"
      BY <2>1, <2>2 DEF IInv, CollectingMeansCompleted
    <3> QED
      BY <1>4, <1>10, <2>1, <3>1 DEF Active
  <2>3. CASE j = p /\ NoActiveSiblings(i, status') /\ status'[j] = "running"
    <3>1. j # None
      BY IdsDistinct
    <3>2. k \in ChildrenForTask(parentID[i], spawnTaskID[i])
      BY <1>9, <2>1, <2>3, <3>1 DEF p
    <3>3. status'[k] \in Terminal
      BY <2>3, <3>2 DEF NoActiveSiblings
    <3>4. status'[k] # "failed" /\ status'[k] # "cancelled"
      BY <1>3, <1>14, <2>1, <2>3, <3>1 DEF Dooming
    <3> QED
      BY <3>3, <3>4 DEF Terminal
  <2> QED
    BY <1>2, <2>1, <2>2, <2>3
<1>18. ErrorNamesFailedNode'
  <2> SUFFICES ASSUME NEW j \in Inst
               PROVE  /\ status'[j] \in {"failing", "failed"} <=> error'[j] # None
                      /\ error'[j] # None =>
                            /\ status'[error'[j]] = "failed"
                            /\ (error'[j] = j \/ j \in callStack[error'[j]])
    BY <1>3 DEF ErrorNamesFailedNode
  <2>1. \A x \in Inst :
           /\ status[x] \in {"failing", "failed"} <=> error[x] # None
           /\ error[x] # None => /\ error[x] \in Inst /\ status[error[x]] = "failed"
                                 /\ (error[x] = x \/ x \in callStack[error[x]])
    BY ZenonT(40) DEF IInv, TypeOK, ErrorNamesFailedNode
  <2>2. \A x \in Inst : status[x] = "failed" => status'[x] = "failed"
    BY <1>4, <1>10 DEF Active
  <2>3. i # None
    BY IdsDistinct
  <2>4. r.status = "failed" =>
           /\ r.error \in Inst /\ r.error # None /\ status'[r.error] = "failed"
           /\ (r.error = i \/ i \in callStack[r.error])
    BY <1>2, <2>1, <2>2, <2>3, IdsDistinct DEF IInv, Flight
  <2>5. r.status # "failed" => r.error = None
    BY <2>1 DEF IInv, Flight, Terminal
  <2>6. CASE j = i
    BY <1>2, <2>4, <2>5, <2>6 DEF Terminal
  <2>7. CASE j \in D /\ j # i
    <3>1. r.status = "failed" /\ j \in callStack[i]
      BY <1>6, <2>7
    <3>2. r.error # i => callStack[i] \subseteq callStack[r.error]
      BY <2>4, <3>1 DEF IInv, Shape
    <3> QED
      BY <1>2, <2>4, <2>7, <3>1, <3>2
  <2>8. CASE j \notin D /\ j # i
    BY <1>2, <2>1, <2>2, <2>8
  <2> QED
    BY <2>6, <2>7, <2>8
<1> QED
  BY <1>1, <1>11, <1>12, <1>13, <1>14, <1>15, <1>16, <1>17, <1>18 DEF IInv

\* An advance of a healthy instance that goes on, or parks with a timer, preserves
\* the invariant, even where it overwrites a concurrent cancellation.
LEMMA ProgressStep ==
    ASSUME IInv, NEW i \in Inst, NEW r \in View,
           UpdateInstance(i, r) \/ UpdateInstanceProgress(i, r),
           lease[i] = "held", view[i].status = "running",
           r.status = "running", r.wait = "none", r.error = error[i],
           result' \in [Inst -> SUBSET Inst], batch' \in [Inst -> SUBSET Inst]
    PROVE  IInv'
<1>1. TypeOK'
  BY SaveType DEF IInv
<1>2. WriteBack(i, r)
  BY DEF UpdateInstance, UpdateInstanceProgress
<1>3. /\ UNCHANGED <<parentID, spawnTaskID, callStack, entry>>
      /\ \A j \in Inst \ {i} : task'[j] = task[j] /\ lease'[j] = lease[j] /\ view'[j] = view[j]
      /\ lease'[i] = "free"
  BY <1>2 DEF WriteBack, ident, IInv, TypeOK
<1>4. /\ \A j \in Inst \ {i} : status'[j] = status[j] /\ waitState'[j] = waitState[j]
      /\ \A j \in Inst : error'[j] = error[j]
      /\ status'[i] \in {status[i], "running"} /\ waitState'[i] = "none"
  BY DEF UpdateInstance, UpdateInstanceProgress, IInv, TypeOK
<1>5. status[i] \in {"running", "cancelling"} /\ waitState[i] # "waiting"
  BY DEF IInv, Flight, Parked
<1>6. \A k \in Inst : parentID[k] = i => status[k] = "completed"
  BY DEF IInv, Flight
<1>7. \A j \in Inst : /\ status[j] \in Active <=> status'[j] \in Active
                      /\ status[j] \notin Active => j # i /\ status'[j] = status[j]
  BY <1>4, <1>5 DEF Active
<1>8. \A k \in Inst : parentID[k] # None => parentID[k] \in Inst /\ parentID[k] \in callStack[k]
  BY Parents DEF IInv
<1>9. Shape'
  <2>1. \A j \in Inst : status[j] = "absent" <=> status'[j] = "absent"
    BY <1>4, <1>5
  <2> QED
    BY <1>3, <1>8, <2>1 DEF Shape, IInv
<1>10. Suspended'
  <2> SUFFICES ASSUME NEW k \in Inst, status[k] \in Active
               PROVE  /\ parentID[k] # None => spawnTaskID[k] = task'[parentID[k]]
                      /\ \A a \in callStack[k] : waitState'[a] = "waiting"
    BY <1>3, <1>7 DEF Suspended
  <2>1. \A a \in callStack[k] : a \in Inst /\ a # i /\ waitState[a] = "waiting"
    BY <1>5 DEF IInv, Suspended, TypeOK
  <2> QED
    BY <1>3, <1>4, <1>8, <2>1 DEF IInv, Suspended
<1>11. Parked'
  <2>1. ASSUME NEW j \in Inst, waitState'[j] = "waiting"
        PROVE  /\ status'[j] \in Active /\ lease'[j] # "held"
               /\ \E k \in ChildrenForTask(j, task[j])' : status'[k] \in Active
    <3>1. j # i /\ waitState[j] = "waiting"
      BY <1>4, <2>1
    <3>2. ChildrenForTask(j, task[j])' = ChildrenForTask(j, task[j])
      BY <1>3, <3>1 DEF ChildrenForTask
    <3>3. \E k \in ChildrenForTask(j, task[j]) : k \in Inst /\ status[k] \in Active
      BY <3>1 DEF IInv, Parked, ChildrenForTask
    <3>4. status[j] \in Active /\ lease[j] # "held"
      BY <3>1 DEF IInv, Parked
    <3> QED
      BY <1>3, <1>7, <3>1, <3>2, <3>3, <3>4
  <2>2. ASSUME NEW j \in Inst, status'[j] \notin Active
        PROVE  waitState'[j] = "none" /\ lease'[j] # "held"
    BY <1>3, <1>4, <1>7, <2>2 DEF IInv, Parked
  <2> QED
    BY <2>1, <2>2 DEF Parked
<1>12. Dooming'
  <2> SUFFICES ASSUME NEW k \in Inst, parentID[k] # None
               PROVE  LET q == parentID[k]
                      IN  /\ status'[k] = "failed" => status'[q] \in {"failing", "failed"}
                          /\ status'[k] = "cancelled" =>
                                status'[q] \in {"cancelling", "failing", "cancelled", "failed"}
                          /\ status'[k] = "cancelling" => status'[q] \in {"cancelling", "failing"}
                          /\ status'[k] \in {"failed", "cancelled"} => spawnTaskID[k] = task'[q]
    BY <1>3 DEF Dooming
  <2>1. CASE parentID[k] = i
    BY <1>6, <1>7, <2>1 DEF Active
  <2>2. CASE parentID[k] # i
    <3>1. status'[k] \in {status[k], "running"}
      BY <1>4
    <3>2. status'[parentID[k]] = status[parentID[k]] /\ task'[parentID[k]] = task[parentID[k]]
      BY <1>3, <1>4, <1>8, <2>2
    <3> QED
      BY <3>1, <3>2 DEF IInv, Dooming
  <2> QED
    BY <2>1, <2>2
<1>13. Flight'
  <2> SUFFICES ASSUME NEW j \in Inst, lease'[j] = "held"
               PROVE  /\ view'[j].wait = waitState'[j] /\ view'[j].error = error'[j]
                      /\ \/ status'[j] = view'[j].status
                         \/ status'[j] = "cancelling" /\ view'[j].status = "running"
                      /\ view'[j].status = "running" =>
                            \A k \in Inst : parentID[k] = j => status'[k] = "completed"
                      /\ view'[j].status # "running" => view'[j].task = task'[j]
    BY <1>3 DEF Flight
  <2>1. j # i /\ lease[j] = "held" /\ view'[j] = view[j] /\ task'[j] = task[j]
    BY <1>3
  <2>2. \A k \in Inst : status[k] = "completed" => status'[k] = "completed"
    BY <1>7 DEF Active
  <2> QED
    BY <1>4, <2>1, <2>2 DEF IInv, Flight
<1>14. AtChildTask'
  BY <1>3, <1>4 DEF IInv, AtChildTask
<1>15. CollectingMeansCompleted'
  <2> SUFFICES ASSUME NEW j \in Inst, waitState'[j] = "collecting",
                      NEW k \in ChildrenForTask(j, task[j])'
               PROVE  status'[k] = "completed"
    BY DEF CollectingMeansCompleted
  <2>1. j # i /\ k \in ChildrenForTask(j, task[j]) /\ k \in Inst
    BY <1>3, <1>4 DEF ChildrenForTask
  <2>2. status[k] = "completed"
    BY <1>4, <2>1 DEF IInv, CollectingMeansCompleted
  <2> QED
    BY <1>7, <2>1, <2>2 DEF Active
<1>16. ErrorNamesFailedNode'
  <2>1. \A j \in Inst : /\ status'[j] \in {"failing", "failed"} <=> status[j] \in {"failing", "failed"}
                        /\ status'[j] = "failed" <=> status[j] = "failed"
    BY <1>4, <1>5
  <2>2. \A j \in Inst : error[j] # None => error[j] \in Inst
    BY DEF IInv, TypeOK
  <2> QED
    BY <1>3, <1>4, <2>1, <2>2 DEF IInv, ErrorNamesFailedNode
<1> QED
  BY <1>1, <1>9, <1>10, <1>11, <1>12, <1>13, <1>14, <1>15, <1>16 DEF IInv


------------------------------------------------------------------------------
(* The operations of the API. *)

\* Starting a root keeps the invariant.
LEMMA StartStep ==
    ASSUME IInv, NEW i \in Inst, NEW t \in Task, StartInstance(i, t)
    PROVE  IInv'
<1> USE DEF IInv
<1>1. TypeOK'
  BY DEF StartInstance, TypeOK, Status, Active
<1>2. /\ UNCHANGED <<waitState, error, lease, parentID, spawnTaskID, callStack, view>>
      /\ status[i] = "absent" /\ status'[i] = "running"
      /\ \A j \in Inst \ {i} : status'[j] = status[j] /\ task'[j] = task[j]
  BY DEF StartInstance, TypeOK
<1>3. parentID[i] = None /\ callStack[i] = {} /\ waitState[i] = "none" /\ lease[i] # "held"
  BY <1>2 DEF Shape, Parked, Active
<1>4. \A k \in Inst : parentID[k] # None => parentID[k] \in Inst \ {i} /\ k # i
  BY <1>2, <1>3, Parents
<1>5. Shape'
  BY <1>2, <1>3, <1>4 DEF Shape
<1>6. \A k \in Inst : i \notin callStack[k]
  <2> SUFFICES ASSUME NEW k \in Inst, i \in callStack[k] PROVE FALSE
    OBVIOUS
  <2>1. PICK m \in callStack[k] \cup {k} : parentID[m] = i
    BY DEF Shape
  <2>2. m \in Inst /\ i # None
    BY <2>1, IdsDistinct DEF TypeOK
  <2> QED
    BY <1>4, <2>1, <2>2
<1>7. Suspended'
  BY <1>2, <1>3, <1>4 DEF Suspended
<1>8. Parked'
  <2>1. ASSUME NEW j \in Inst, waitState[j] = "waiting"
        PROVE  /\ status'[j] \in Active /\ lease[j] # "held"
               /\ \E k \in ChildrenForTask(j, task[j])' : status'[k] \in Active
    <3>1. j # i
      BY <1>3, <2>1
    <3>2. ChildrenForTask(j, task[j])' = ChildrenForTask(j, task[j])
      BY <1>2, <3>1 DEF ChildrenForTask
    <3>3. PICK k \in ChildrenForTask(j, task[j]) : status[k] \in Active
      BY <2>1 DEF Parked
    <3>4. k \in Inst /\ k # i
      BY <1>2, <3>3 DEF ChildrenForTask, Active
    <3>5. status[j] \in Active /\ lease[j] # "held"
      BY <2>1 DEF Parked
    <3> QED
      BY <1>2, <3>1, <3>2, <3>3, <3>4, <3>5
  <2>2. \A j \in Inst : status'[j] \notin Active => waitState[j] = "none" /\ lease[j] # "held"
    BY <1>2, <1>3 DEF Parked
  <2> QED
    BY <1>2, <2>1, <2>2 DEF Parked
<1>9. Dooming'
  BY <1>2, <1>4 DEF Dooming
<1>10. Flight'
  BY <1>2, <1>3 DEF Flight
<1>11. AtChildTask'
  BY <1>2, <1>3 DEF AtChildTask
<1>12. CollectingMeansCompleted'
  <2>1. \A j \in Inst \ {i} : ChildrenForTask(j, task[j])' = ChildrenForTask(j, task[j])
    BY <1>2 DEF ChildrenForTask
  <2>2. \A j \in Inst : ChildrenForTask(j, task[j]) \subseteq Inst
    BY DEF ChildrenForTask
  <2> QED
    BY <1>2, <1>3, <2>1, <2>2 DEF CollectingMeansCompleted
<1>13. ErrorNamesFailedNode'
  <2>1. \A j \in Inst : error[j] # None => error[j] \in Inst
    BY DEF TypeOK
  <2> QED
    BY <1>2, <2>1 DEF ErrorNamesFailedNode
<1> QED
  BY <1>1, <1>5, <1>7, <1>8, <1>9, <1>10, <1>11, <1>12, <1>13

\* The tree that the recursive query walks is closed upwards, up to its root.
LEMMA SubtreeUp ==
    ASSUME NEW i \in Inst, NEW k \in Subtree(i), k # i, parentID[k] \in Inst
    PROVE  parentID[k] \in Subtree(i)
<1> DEFINE S == Subtree(i) \ {k}
<1>1. Subtree(i) \subseteq Inst /\ S \in SUBSET Inst
  BY DEF Subtree
<1>2. i \in Subtree(i) /\ \A j \in Inst : parentID[j] \in Subtree(i) => j \in Subtree(i)
  BY DEF Subtree
<1>3. SUFFICES ASSUME parentID[k] \notin Subtree(i) PROVE FALSE
  OBVIOUS
<1>4. i \in S /\ \A j \in Inst : parentID[j] \in S => j \in S
  BY <1>2, <1>3
<1>5. \A T \in SUBSET Inst :
        i \in T /\ (\A j \in Inst : parentID[j] \in T => j \in T) => k \in T
  BY DEF Subtree
<1>6. k \in S
  BY <1>1, <1>4, <1>5
<1> QED
  BY <1>6

\* Cancelling turns running rows into cancelling ones, from the root downwards:
\* no cancelling row is left under a running parent.
LEMMA CancelStep ==
    ASSUME IInv, NEW i \in Inst, CancelProcess(i)
    PROVE  IInv'
<1> USE DEF IInv
<1>1. TypeOK'
  BY DEF CancelProcess, TypeOK, Status, Active, ident
<1>2. /\ UNCHANGED <<waitState, task, error, lease, parentID, spawnTaskID, callStack, view>>
      /\ parentID[i] = None
      /\ \A j \in Inst : status'[j] = IF j \in Subtree(i) /\ status[j] = "running"
                                      THEN "cancelling" ELSE status[j]
  BY DEF CancelProcess, ident
<1>3. \A j \in Inst : /\ status[j] \in Active <=> status'[j] \in Active
                      /\ status[j] # "running" => status'[j] = status[j]
                      /\ status'[j] # "cancelling" => status'[j] = status[j]
  BY <1>2 DEF Active
<1>4. Shape'
  BY <1>2, <1>3, Parents DEF Shape, Active
<1>5. Suspended'
  BY <1>2, <1>3 DEF Suspended
<1>6. \A j \in Inst : /\ ChildrenForTask(j, task[j])' = ChildrenForTask(j, task[j])
                      /\ ChildrenForTask(j, task[j]) \subseteq Inst
  BY <1>2 DEF ChildrenForTask
<1>7. Parked'
  BY <1>2, <1>3, <1>6 DEF Parked
<1>8. Dooming'
  <2> SUFFICES ASSUME NEW k \in Inst, parentID[k] # None
               PROVE  LET q == parentID[k]
                      IN  /\ status'[k] = "failed" => status'[q] \in {"failing", "failed"}
                          /\ status'[k] = "cancelled" =>
                                status'[q] \in {"cancelling", "failing", "cancelled", "failed"}
                          /\ status'[k] = "cancelling" => status'[q] \in {"cancelling", "failing"}
                          /\ status'[k] \in {"failed", "cancelled"} => spawnTaskID[k] = task[q]
    BY <1>2 DEF Dooming
  <2> DEFINE q == parentID[k]
  <2>1. q \in Inst /\ q \in callStack[k]
    BY Parents
  <2>2. ASSUME status[k] = "running", status'[k] = "cancelling"
        PROVE  status'[q] \in {"cancelling", "failing"}
    <3>1. k \in Subtree(i) /\ k # i
      BY <1>2, <2>2
    <3>2. q \in Subtree(i)
      BY <2>1, <3>1, SubtreeUp
    <3>3. status[q] \in Active
      BY <2>1, <2>2 DEF Suspended, Parked, Active
    <3> QED
      BY <1>2, <2>1, <3>2, <3>3 DEF Active
  <2>3. status[q] # "running" => status'[q] = status[q]
    BY <1>3, <2>1
  <2> QED
    BY <1>3, <2>2, <2>3 DEF Dooming
<1>9. Flight'
  BY <1>2, <1>3 DEF Flight
<1>10. AtChildTask'
  BY <1>2 DEF AtChildTask
<1>11. CollectingMeansCompleted'
  BY <1>2, <1>3, <1>6 DEF CollectingMeansCompleted
<1>12. ErrorNamesFailedNode'
  <2>1. \A j \in Inst : error[j] # None => error[j] \in Inst
    BY DEF TypeOK
  <2> QED
    BY <1>2, <2>1 DEF ErrorNamesFailedNode
<1> QED
  BY <1>1, <1>4, <1>5, <1>7, <1>8, <1>9, <1>10, <1>11, <1>12


\* What a retry revives: the root and dead nodes below it, with all their
\* ancestors and all their dead children.
LEMMA RevivedSet ==
    ASSUME IInv, NEW i \in Inst, parentID[i] = None, status[i] \in {"failed", "cancelled"}
    PROVE  /\ Revived(i) \subseteq Inst /\ i \in Revived(i)
           /\ \A j \in Revived(i) : /\ status[j] \in {"failed", "cancelled"}
                                    /\ callStack[j] \subseteq Revived(i)
           /\ \A k \in Inst : parentID[k] \in Revived(i) /\ status[k] \in {"failed", "cancelled"}
                                 => k \in Revived(i)
<1> DEFINE Closed(S) == /\ i \in S
                        /\ \A k \in Inst : /\ parentID[k] \in S
                                           /\ spawnTaskID[k] = task[parentID[k]]
                                           /\ status[k] \in {"failed", "cancelled"}
                                           => k \in S
           R == Revived(i)
<1>1. R = {j \in Inst : \A S \in SUBSET Inst : Closed(S) => j \in S}
  BY DEF Revived
<1>2. R \subseteq Inst /\ Closed(R)
  BY <1>1
<1>3. \A S \in SUBSET Inst : Closed(S) => R \subseteq S
  BY <1>1
<1> HIDE DEF R
<1>4. \A j \in R : status[j] \in {"failed", "cancelled"}
  <2> DEFINE S == {j \in Inst : status[j] \in {"failed", "cancelled"}}
  <2>1. S \in SUBSET Inst /\ Closed(S)
    OBVIOUS
  <2> QED
    BY <1>3, <2>1
<1>5. \A j \in R : callStack[j] \subseteq R
  <2> DEFINE S == {j \in R : callStack[j] \subseteq R}
  <2>1. i \in S
    BY <1>2 DEF IInv, Shape
  <2>2. ASSUME NEW k \in Inst, parentID[k] \in S, spawnTaskID[k] = task[parentID[k]],
               status[k] \in {"failed", "cancelled"}
        PROVE  k \in S
    <3>1. k \in R
      BY <1>2, <2>2
    <3>2. parentID[k] # None
      BY <1>2, <2>2, IdsDistinct
    <3>3. callStack[k] = callStack[parentID[k]] \cup {parentID[k]}
      BY <3>2 DEF IInv, Shape
    <3> QED
      BY <2>2, <3>1, <3>3
  <2>3. S \in SUBSET Inst /\ Closed(S)
    BY <1>2, <2>1, <2>2
  <2> QED
    BY <1>3, <2>3
<1>6. ASSUME NEW k \in Inst, parentID[k] \in R, status[k] \in {"failed", "cancelled"}
      PROVE  k \in R
  <2>1. parentID[k] # None
    BY <1>2, <1>6, IdsDistinct
  <2>2. spawnTaskID[k] = task[parentID[k]]
    BY <1>6, <2>1 DEF IInv, Dooming
  <2> QED
    BY <1>2, <1>6, <2>2
<1> QED
  BY <1>2, <1>4, <1>5, <1>6 DEF R

\* A retry gives every revived parent the wait state that its children call for.
LEMMA RetryStep ==
    ASSUME IInv, NEW i \in Inst, NEW force \in BOOLEAN, RetryProcess(i, force)
    PROVE  IInv'
<1> DEFINE R    == Revived(i)
           live == R \cup {k \in Inst : status[k] \in Active}
           kids(j) == ChildrenForTask(j, task[j])
<1> USE DEF IInv
<1>1. parentID[i] = None /\ status[i] \in {"failed", "cancelled"}
  BY DEF RetryProcess
<1>2. /\ UNCHANGED <<task, retryCount, parentID, spawnTaskID, callStack, entry, view,
                     result, batch>>
      /\ status' = [j \in Inst |-> IF j \in R THEN "running" ELSE status[j]]
      /\ waitState' = [j \in Inst |-> IF j \in R THEN RevivedWait(j, live) ELSE waitState[j]]
      /\ error' = [j \in Inst |-> IF j \in R THEN None ELSE error[j]]
      /\ lease' = [j \in Inst |-> IF j \in R THEN "free" ELSE lease[j]]
      /\ wakeAt' = [j \in Inst |-> IF j \in R /\ retryCount[j] > 0 THEN "none" ELSE wakeAt[j]]
  BY DEF RetryProcess, ident
<1>3. /\ R \subseteq Inst /\ i \in R
      /\ \A j \in R : /\ status[j] \in {"failed", "cancelled"}
                      /\ callStack[j] \subseteq R
      /\ \A k \in Inst : parentID[k] \in R /\ status[k] \in {"failed", "cancelled"} => k \in R
  BY <1>1, RevivedSet
<1>4. \A j \in Inst : kids(j)' = kids(j) /\ kids(j) \subseteq Inst
  BY <1>2 DEF ChildrenForTask
<1>5. \A j \in Inst : RevivedWait(j, live) =
         IF kids(j) = {} THEN "none"
         ELSE IF kids(j) \cap live # {} THEN "waiting" ELSE "collecting"
  BY DEF RevivedWait
<1> HIDE DEF R
<1>6. TypeOK'
  <2>1. status' \in [Inst -> Status \cup {"absent"}] /\ error' \in [Inst -> Inst \cup {None}]
    BY <1>2 DEF TypeOK, Status, Active
  <2>2. waitState' \in [Inst -> Wait]
    <3> HIDE DEF live
    <3> QED
      BY <1>2, <1>5 DEF TypeOK, Wait
  <2>3. /\ lease' \in [Inst -> {"free", "held", "expired"}] /\ wakeAt' \in [Inst -> Wake]
    BY <1>2 DEF TypeOK, Wake
  <2> QED
    BY <1>2, <2>1, <2>2, <2>3 DEF TypeOK
<1>7. \A j \in Inst : status[j] \in Active => j \notin R /\ status'[j] = status[j]
  BY <1>2, <1>3 DEF Active
<1>8. \A j \in live : j \in Inst /\ status'[j] \in Active
  BY <1>2, <1>3, <1>7 DEF Active
<1>9. \A j \in Inst : status'[j] \in Active => j \in live
  BY <1>2 DEF Active
<1>10. Shape'
  <2>1. \A j \in Inst : status[j] = "absent" <=> status'[j] = "absent"
    BY <1>2, <1>3
  <2> QED
    BY <1>2, <2>1, Parents DEF Shape
<1>11. Suspended'
  <2> SUFFICES ASSUME NEW k \in Inst, status'[k] \in Active
               PROVE  /\ parentID[k] # None => spawnTaskID[k] = task[parentID[k]]
                      /\ \A a \in callStack[k] : waitState'[a] = "waiting"
    BY <1>2 DEF Suspended
  <2>1. CASE k \in R
    <3>1. parentID[k] # None => spawnTaskID[k] = task[parentID[k]]
      BY <1>3, <2>1 DEF Dooming
    <3>2. ASSUME NEW a \in callStack[k] PROVE waitState'[a] = "waiting"
      <4>1. a \in R /\ a \in Inst /\ a # None
        BY <1>3, <2>1, IdsDistinct
      <4>2. PICK m \in callStack[k] \cup {k} : parentID[m] = a
        BY DEF Shape
      <4>3. m \in R /\ m \in Inst
        BY <1>3, <2>1, <4>2
      <4>4. spawnTaskID[m] = task[a]
        BY <1>3, <4>1, <4>2, <4>3 DEF Dooming
      <4>5. m \in kids(a) \cap live
        BY <4>2, <4>3, <4>4 DEF ChildrenForTask
      <4> HIDE DEF live
      <4> QED
        BY <1>2, <1>5, <4>1, <4>5
    <3> QED
      BY <3>1, <3>2
  <2>2. CASE k \notin R
    <3>1. status[k] \in Active
      BY <1>2, <2>2
    <3>2. \A a \in callStack[k] : a \in Inst /\ waitState[a] = "waiting" /\ status[a] \in Active
      BY <3>1 DEF Suspended, Parked, TypeOK
    <3> QED
      BY <1>2, <1>7, <3>1, <3>2 DEF Suspended
  <2> QED
    BY <2>1, <2>2
<1>12. Parked'
  <2>1. ASSUME NEW j \in Inst, waitState'[j] = "waiting"
        PROVE  /\ status'[j] \in Active /\ lease'[j] # "held"
               /\ \E k \in kids(j) : status'[k] \in Active
    <3>1. CASE j \in R
      <4>1. kids(j) \cap live # {}
        <5> HIDE DEF live
        <5> QED
        BY <1>2, <1>5, <2>1, <3>1
      <4>2. \E k \in kids(j) : status'[k] \in Active
        BY <1>8, <4>1
      <4> QED
        BY <1>2, <3>1, <4>2 DEF Active
    <3>2. CASE j \notin R
      <4>1. waitState[j] = "waiting"
        BY <1>2, <2>1, <3>2
      <4>2. /\ status[j] \in Active /\ lease[j] # "held"
            /\ \E k \in kids(j) : k \in Inst /\ status[k] \in Active
        BY <1>4, <4>1 DEF Parked
      <4> QED
        BY <1>2, <1>7, <3>2, <4>2
    <3> QED
      BY <3>1, <3>2
  <2>2. ASSUME NEW j \in Inst, status'[j] \notin Active
        PROVE  waitState'[j] = "none" /\ lease'[j] # "held"
    BY <1>2, <2>2 DEF Parked, Active
  <2> QED
    BY <1>4, <2>1, <2>2 DEF Parked
<1>13. Dooming'
  <2> SUFFICES ASSUME NEW k \in Inst, parentID[k] # None
               PROVE  LET q == parentID[k]
                      IN  /\ status'[k] = "failed" => status'[q] \in {"failing", "failed"}
                          /\ status'[k] = "cancelled" =>
                                status'[q] \in {"cancelling", "failing", "cancelled", "failed"}
                          /\ status'[k] = "cancelling" => status'[q] \in {"cancelling", "failing"}
                          /\ status'[k] \in {"failed", "cancelled"} => spawnTaskID[k] = task[q]
    BY <1>2 DEF Dooming
  <2>1. parentID[k] \in Inst /\ parentID[k] \in callStack[k]
    BY Parents
  <2>2. CASE k \in R
    BY <1>2, <2>2
  <2>3. CASE k \notin R /\ parentID[k] \in R
    <3>1. status[k] \notin {"failed", "cancelled"}
      BY <1>3, <2>3
    <3>2. status[k] \notin Active
      BY <1>7, <2>1, <2>3 DEF Suspended, Parked
    <3> QED
      BY <1>2, <2>3, <3>1, <3>2 DEF Active
  <2>4. CASE k \notin R /\ parentID[k] \notin R
    BY <1>2, <2>1, <2>4 DEF Dooming
  <2> QED
    BY <2>2, <2>3, <2>4
<1>14. Flight'
  <2>1. \A j \in Inst : lease'[j] = "held" =>
           /\ lease[j] = "held" /\ status'[j] = status[j]
           /\ error'[j] = error[j] /\ waitState'[j] = waitState[j]
    BY <1>2 DEF Parked
  <2>2. \A k \in Inst : status[k] = "completed" => status'[k] = "completed"
    BY <1>2, <1>3
  <2> QED
    BY <1>2, <2>1, <2>2 DEF Flight
<1>15. AtChildTask'
  <2>1. ASSUME NEW j \in Inst, waitState'[j] # "none" PROVE Kind[task[j]] = "child"
    <3>1. CASE j \in R
      <4>1. PICK k \in kids(j) : TRUE
        <5> HIDE DEF live
        <5> QED
        BY <1>2, <1>5, <2>1, <3>1
      <4>2. k \in Inst /\ spawnTaskID[k] = task[j] /\ parentID[k] # None
        BY <4>1, IdsDistinct DEF ChildrenForTask
      <4> QED
        BY <4>2 DEF AtChildTask
    <3>2. CASE j \notin R
      BY <1>2, <2>1, <3>2 DEF AtChildTask
    <3> QED
      BY <3>1, <3>2
  <2>2. ASSUME NEW j \in Inst, lease'[j] = "held" PROVE lease[j] = "held"
    BY <1>2, <2>2
  <2> QED
    BY <1>2, <2>1, <2>2 DEF AtChildTask
<1>16. CollectingMeansCompleted'
  <2> SUFFICES ASSUME NEW j \in Inst, waitState'[j] = "collecting", NEW k \in kids(j)
               PROVE  status'[k] = "completed"
    BY <1>4 DEF CollectingMeansCompleted
  <2>1. k \in Inst /\ parentID[k] = j /\ parentID[k] # None
    BY IdsDistinct DEF ChildrenForTask
  <2>2. CASE j \in R
    <3>1. k \notin live
      <4> HIDE DEF live
      <4> QED
        BY <1>2, <1>5, <2>2
    <3>2. status[k] \in Active \cup Terminal
      BY <2>1, Parents
    <3>3. status[k] = "completed" /\ k \notin R
      BY <1>3, <2>1, <2>2, <3>1, <3>2 DEF Terminal
    <3> QED
      BY <1>2, <2>1, <3>3
  <2>3. CASE j \notin R
    <3>1. status[k] = "completed"
      BY <1>2, <2>3 DEF CollectingMeansCompleted
    <3> QED
      BY <1>2, <1>3, <2>1, <3>1
  <2> QED
    BY <2>2, <2>3
<1>17. ErrorNamesFailedNode'
  <2> SUFFICES ASSUME NEW j \in Inst
               PROVE  /\ status'[j] \in {"failing", "failed"} <=> error'[j] # None
                      /\ error'[j] # None =>
                            /\ status'[error'[j]] = "failed"
                            /\ (error'[j] = j \/ j \in callStack[error'[j]])
    BY <1>2 DEF ErrorNamesFailedNode
  <2>1. CASE j \in R
    BY <1>2, <2>1
  <2>2. CASE j \notin R
    <3>1. error[j] # None => error[j] \in Inst
      BY DEF TypeOK
    <3>2. error[j] # None => error[j] \notin R
      BY <1>3, <2>2, <3>1 DEF ErrorNamesFailedNode
    <3> QED
      BY <1>2, <2>2, <3>1, <3>2 DEF ErrorNamesFailedNode
  <2> QED
    BY <2>1, <2>2
<1> QED
  BY <1>6, <1>10, <1>11, <1>12, <1>13, <1>14, <1>15, <1>16, <1>17

------------------------------------------------------------------------------
(* Workers: claims, spawns and what touches memory or clocks only. *)

\* The snapshot that a claim takes is one that Flight describes: a row that is not
\* suspended has no active child, and a running one has only completed children.
LEMMA ClaimStep ==
    ASSUME IInv, NEW i \in Inst, Claim(i)
    PROVE  IInv'
<1> USE DEF IInv
<1> DEFINE v == [status |-> status[i], wait |-> waitState[i], task |-> task[i],
                 retry |-> retryCount[i], wake |-> wakeAt[i], error |-> error[i],
                 reclaimed |-> lease[i] = "expired"]
<1>1. /\ UNCHANGED <<status, waitState, task, retryCount, wakeAt, error, parentID,
                     spawnTaskID, callStack, entry, result, batch>>
      /\ status[i] \in Active /\ waitState[i] # "waiting"
      /\ lease' = [lease EXCEPT ![i] = "held"] /\ view' = [view EXCEPT ![i] = v]
  BY DEF Claim, Claimable, ident
<1>2. v \in View
  BY <1>1 DEF TypeOK, View
<1>3. /\ v.status = status[i] /\ v.wait = waitState[i]
      /\ v.task = task[i] /\ v.error = error[i]
  OBVIOUS
<1> HIDE DEF v
<1>4. TypeOK'
  BY <1>1, <1>2 DEF TypeOK
<1>5. /\ \A j \in Inst \ {i} : lease'[j] = lease[j] /\ view'[j] = view[j]
      /\ lease'[i] = "held" /\ view'[i] = v
  BY <1>1 DEF TypeOK
<1>6. \A j \in Inst : ChildrenForTask(j, task[j])' = ChildrenForTask(j, task[j])
  BY <1>1 DEF ChildrenForTask
<1>7. Shape' /\ Suspended' /\ Dooming' /\ CollectingMeansCompleted' /\ ErrorNamesFailedNode'
  BY <1>1, <1>6 DEF Shape, Suspended, Dooming, CollectingMeansCompleted, ErrorNamesFailedNode
<1>8. Parked'
  BY <1>1, <1>5, <1>6 DEF Parked
<1>9. AtChildTask'
  BY <1>1, <1>3, <1>5 DEF AtChildTask
<1>10. Flight'
  <2>1. ASSUME status[i] = "running", NEW k \in Inst, parentID[k] = i
        PROVE  status[k] = "completed"
    <3>1. parentID[k] # None
      BY <2>1, IdsDistinct
    <3>2. status[k] \in Active \cup Terminal /\ i \in callStack[k]
      BY <2>1, <3>1, Parents
    <3>3. status[k] \notin Active
      BY <1>1, <3>2 DEF Suspended
    <3>4. status[k] # "failed" /\ status[k] # "cancelled"
      BY <2>1, <3>1 DEF Dooming
    <3> QED
      BY <3>2, <3>3, <3>4 DEF Terminal
  <2> QED
    BY <1>1, <1>3, <1>5, <2>1 DEF Flight
<1> QED
  BY <1>4, <1>7, <1>8, <1>9, <1>10

\* Steps that leave the rows of the tree as they are, and at most move a view on
\* to another task or drop it with its lease.
LEMMA MemoryStep ==
    ASSUME IInv, TypeOK',
           UNCHANGED <<status, waitState, task, error, parentID, spawnTaskID, callStack>>,
           \A j \in Inst : lease'[j] = "held" =>
              /\ lease[j] = "held"
              /\ \/ view'[j] = view[j]
                 \/ /\ view[j].status = "running" /\ Kind[view[j].task] = "route"
                    /\ view'[j].status = view[j].status /\ view'[j].wait = view[j].wait
                    /\ view'[j].error = view[j].error
    PROVE  IInv'
<1> USE DEF IInv
<1>1. \A j \in Inst : ChildrenForTask(j, task[j])' = ChildrenForTask(j, task[j])
  BY DEF ChildrenForTask
<1>2. Shape' /\ Suspended' /\ Dooming' /\ CollectingMeansCompleted' /\ ErrorNamesFailedNode'
  BY <1>1 DEF Shape, Suspended, Dooming, CollectingMeansCompleted, ErrorNamesFailedNode
<1>3. Parked'
  BY <1>1 DEF Parked
<1>4. Flight'
  BY DEF Flight
<1>5. AtChildTask'
  BY DEF AtChildTask
<1> QED
  BY <1>2, <1>3, <1>4, <1>5

\* Routing in memory keeps the invariant.
LEMMA RouteStep ==
    ASSUME IInv, NEW i \in Inst, NEW g \in Task, Route(i, g)
    PROVE  IInv'
<1> DEFINE w == [view[i] EXCEPT !.task = g, !.retry = 0, !.wake = "none", !.reclaimed = FALSE]
<1>1. view[i] \in View
  BY DEF IInv, TypeOK
<1>2. \A u \in View : [u EXCEPT !.task = g, !.retry = 0, !.wake = "none", !.reclaimed = FALSE] \in View
  BY DEF View, Wake
<1>3. w \in View /\ w.status = view[i].status /\ w.wait = view[i].wait /\ w.error = view[i].error
  BY <1>1, <1>2 DEF View
<1>4. view' = [view EXCEPT ![i] = w]
  BY DEF Route, IInv, TypeOK
<1>5. UNCHANGED <<status, waitState, task, retryCount, wakeAt, error, lease,
                  parentID, spawnTaskID, callStack, entry, result>>
  BY DEF Route, row, ident
<1> HIDE DEF w
<1>6. TypeOK'
  <2>1. batch' \in [Inst -> SUBSET Inst]
    BY DEF Route, IInv, TypeOK
  <2>2. view' \in [Inst -> View]
    BY <1>3, <1>4 DEF IInv, TypeOK
  <2> QED
    BY <1>5, <2>1, <2>2 DEF IInv, TypeOK
<1>7. view[i].status = "running" /\ Kind[view[i].task] = "route"
  BY DEF Route, At
<1>8. \A j \in Inst : view'[j] = IF j = i THEN w ELSE view[j]
  BY <1>4 DEF IInv, TypeOK
<1> QED
  BY <1>3, <1>5, <1>6, <1>7, <1>8, MemoryStep

\* The death of a worker keeps the invariant.
LEMMA CrashStep ==
    ASSUME IInv, NEW i \in Inst, Crash(i)
    PROVE  IInv'
<1>1. /\ UNCHANGED <<status, waitState, task, retryCount, wakeAt, error,
                     parentID, spawnTaskID, callStack, entry, result, batch>>
      /\ lease' = [lease EXCEPT ![i] = "expired"] /\ view' = [view EXCEPT ![i] = Idle]
  BY DEF Crash, ident
<1>2. TypeOK'
  BY <1>1, IdleType DEF IInv, TypeOK
<1>3. \A j \in Inst : lease'[j] = "held" => lease[j] = "held" /\ view'[j] = view[j]
  BY <1>1 DEF IInv, TypeOK
<1> QED
  BY <1>1, <1>2, <1>3, MemoryStep

\* A timer that becomes due keeps the invariant.
LEMMA TimerStep ==
    ASSUME IInv, NEW i \in Inst, TimerDue(i)
    PROVE  IInv'
<1>1. UNCHANGED <<status, waitState, task, retryCount, error, lease, view,
                  parentID, spawnTaskID, callStack, entry, result, batch>>
  BY DEF TimerDue, ident
<1>2. TypeOK'
  BY <1>1 DEF TimerDue, IInv, TypeOK, Wake
<1> QED
  BY <1>1, <1>2, MemoryStep


\* Spawning inserts active children and suspends their parent in one transaction.
LEMMA SpawnStep ==
    ASSUME IInv, NEW i \in Inst, NEW f \in [Spawns[view[i].task] -> Kids],
           SpawnChildrenAndWait(i, f)
    PROVE  IInv'
<1> DEFINE t    == view[i].task
           kids == {f[e] : e \in Spawns[t]}
           key(k) == CHOOSE e \in Spawns[t] : f[e] = k
<1> USE DEF IInv
<1>1. /\ t \in Task /\ Kind[t] = "child" /\ view[i].status = "running" /\ lease[i] = "held"
      /\ waitState[i] = "none" /\ \A e \in Spawns[t] : status[f[e]] = "absent"
  BY DEF SpawnChildrenAndWait, At, InFlight, TypeOK, View
<1>2. /\ status' = [j \in Inst |-> IF j \in kids THEN status[i] ELSE status[j]]
      /\ task' = [j \in Inst |-> IF j \in kids THEN key(j) ELSE IF j = i THEN t ELSE task[j]]
      /\ entry' = [j \in Inst |-> IF j \in kids THEN key(j) ELSE entry[j]]
      /\ parentID' = [j \in Inst |-> IF j \in kids THEN i ELSE parentID[j]]
      /\ spawnTaskID' = [j \in Inst |-> IF j \in kids THEN t ELSE spawnTaskID[j]]
      /\ callStack' = [j \in Inst |-> IF j \in kids THEN callStack[i] \cup {i} ELSE callStack[j]]
      /\ waitState' = [waitState EXCEPT ![i] = "waiting"]
      /\ retryCount' = [retryCount EXCEPT ![i] = 0]
      /\ wakeAt' = [wakeAt EXCEPT ![i] = "none"]
      /\ error' = [error EXCEPT ![i] = view[i].error]
      /\ lease' = [lease EXCEPT ![i] = "free"]
      /\ view' = [view EXCEPT ![i] = Idle]
      /\ batch' = [batch EXCEPT ![i] = kids]
      /\ UNCHANGED result
  BY DEF SpawnChildrenAndWait
<1>3. kids \subseteq Inst /\ kids # {} /\ \A k \in kids : status[k] = "absent"
  <2>1. Spawns[t] # {}
    BY <1>1, DefinitionsValid DEF ValidTask
  <2>2. \A e \in Spawns[t] : f[e] \in Kids
    OBVIOUS
  <2> QED
    BY <1>1, <2>1, <2>2 DEF Inst
<1>4. \A k \in kids : key(k) \in Task
  <2> TAKE k \in kids
  <2>1. \E e \in Spawns[t] : f[e] = k
    OBVIOUS
  <2>2. key(k) \in Spawns[t]
    BY <2>1
  <2>3. Spawns[t] \subseteq Task
    BY <1>1, DefinitionsValid
  <2> QED
    BY <2>2, <2>3
<1> HIDE DEF kids, key
<1>5. TypeOK'
  <2>1. status' \in [Inst -> Status \cup {"absent"}] /\ parentID' \in [Inst -> Inst \cup {None}]
    BY <1>2 DEF TypeOK
  <2>2. task' \in [Inst -> Task] /\ entry' \in [Inst -> Task]
    <3> HIDE DEF t
    <3> QED
      BY <1>1, <1>2, <1>4 DEF TypeOK
  <2>3. spawnTaskID' \in [Inst -> Task \cup {""}]
    <3> HIDE DEF t
    <3> QED
      BY <1>1, <1>2 DEF TypeOK
  <2>4. callStack' \in [Inst -> SUBSET Inst]
    BY <1>2 DEF TypeOK
  <2>5. waitState' \in [Inst -> Wait] /\ retryCount' \in [Inst -> Nat] /\ wakeAt' \in [Inst -> Wake]
    BY <1>2 DEF TypeOK, Wait, Wake
  <2>6. view[i].error \in Inst \cup {None}
    BY DEF TypeOK, View
  <2>7. error' \in [Inst -> Inst \cup {None}]
    BY <1>2, <2>6 DEF TypeOK
  <2>8. lease' \in [Inst -> {"free", "held", "expired"}] /\ view' \in [Inst -> View]
    BY <1>2, IdleType DEF TypeOK
  <2>9. result' \in [Inst -> SUBSET Inst] /\ batch' \in [Inst -> SUBSET Inst]
    BY <1>2, <1>3 DEF TypeOK
  <2> QED
    BY <2>1, <2>2, <2>3, <2>4, <2>5, <2>7, <2>8, <2>9 DEF TypeOK
<1> HIDE DEF t
<1>6. status[i] \in {"running", "cancelling"} /\ i \notin kids
  BY <1>1, <1>3 DEF Flight, Parked, Active
<1>7. \A k \in Inst : parentID[k] = i => status[k] = "completed"
  BY <1>1 DEF Flight
<1>8. /\ \A j \in Inst \ kids : /\ status'[j] = status[j] /\ parentID'[j] = parentID[j]
                                /\ spawnTaskID'[j] = spawnTaskID[j]
                                /\ callStack'[j] = callStack[j]
                                /\ j # i => task'[j] = task[j]
      /\ task'[i] = t
      /\ \A j \in kids : /\ status'[j] = status[i] /\ parentID'[j] = i /\ spawnTaskID'[j] = t
                         /\ callStack'[j] = callStack[i] \cup {i}
  BY <1>2, <1>3, <1>6
<1>9. /\ \A j \in Inst \ {i} : /\ waitState'[j] = waitState[j] /\ lease'[j] = lease[j]
                               /\ view'[j] = view[j]
      /\ \A j \in Inst : error'[j] = error[j]
      /\ waitState'[i] = "waiting" /\ lease'[i] = "free"
  <2>1. view[i].error = error[i]
    BY <1>1 DEF Flight
  <2>2. /\ DOMAIN waitState = Inst /\ DOMAIN lease = Inst
        /\ DOMAIN view = Inst /\ DOMAIN error = Inst
    BY DEF TypeOK
  <2> QED
    BY <1>2, <2>1, <2>2
<1>10. \A j \in Inst : parentID[j] # None =>
          j \notin kids /\ parentID[j] \in Inst \ kids /\ parentID[j] \in callStack[j]
  BY <1>3, Parents DEF Shape
<1>11. \A j \in Inst : \A a \in callStack[j] : a \in Inst \ kids
  <2> TAKE j \in Inst
  <2> TAKE a \in callStack[j]
  <2>1. PICK m \in callStack[j] \cup {j} : parentID[m] = a
    BY DEF Shape
  <2>2. m \in Inst /\ a \in Inst
    BY <2>1 DEF TypeOK
  <2> QED
    BY <1>10, <2>1, <2>2, IdsDistinct
<1>12. \A j \in kids : /\ parentID[j] = None /\ waitState[j] = "none" /\ lease[j] # "held"
                       /\ error[j] = None /\ callStack[j] = {}
  BY <1>3 DEF Shape, Parked, ErrorNamesFailedNode, Active
<1>13. i # None
  BY IdsDistinct
<1>14. Shape'
  <2> SUFFICES ASSUME NEW j \in Inst
               PROVE  /\ status'[j] = "absent" => parentID'[j] = None /\ callStack'[j] = {}
                      /\ parentID'[j] = None => callStack'[j] = {}
                      /\ parentID'[j] # None =>
                            /\ status'[parentID'[j]] # "absent"
                            /\ callStack'[j] = callStack'[parentID'[j]] \cup {parentID'[j]}
                      /\ \A a \in callStack'[j] :
                            /\ callStack'[a] \subseteq callStack'[j]
                            /\ \E m \in callStack'[j] \cup {j} : parentID'[m] = a
    BY DEF Shape
  <2>1. \A a \in callStack[i] : \E m \in callStack[i] \cup {i} : parentID'[m] = a
    BY <1>6, <1>8, <1>11 DEF Shape
  <2>2. CASE j \in kids
    <3>1. \A a \in callStack[i] : callStack'[a] \subseteq callStack[i]
      BY <1>8, <1>11 DEF Shape
    <3> QED
      BY <1>6, <1>8, <1>13, <2>1, <2>2, <3>1
  <2>3. CASE j \notin kids
    <3>1. \A a \in callStack[j] :
             /\ callStack'[a] \subseteq callStack[j]
             /\ \E m \in callStack[j] \cup {j} : parentID'[m] = a
      BY <1>8, <1>11, <2>3 DEF Shape
    <3>2. parentID[j] # None => /\ status'[parentID[j]] = status[parentID[j]]
                                /\ callStack'[parentID[j]] = callStack[parentID[j]]
      BY <1>8, <1>10
    <3> QED
      BY <1>8, <2>3, <3>1, <3>2 DEF Shape
  <2> QED
    BY <2>2, <2>3
<1>15. Suspended'
  <2> SUFFICES ASSUME NEW k \in Inst, status'[k] \in Active
               PROVE  /\ parentID'[k] # None => spawnTaskID'[k] = task'[parentID'[k]]
                      /\ \A a \in callStack'[k] : waitState'[a] = "waiting"
    BY DEF Suspended
  <2>1. CASE k \in kids
    <3>1. \A a \in callStack[i] : a \in Inst /\ waitState[a] = "waiting"
      BY <1>6 DEF Suspended, Active, TypeOK
    <3> QED
      BY <1>8, <1>9, <2>1, <3>1
  <2>2. CASE k \notin kids
    <3>1. status[k] \in Active
      BY <1>8, <2>2
    <3>2. \A a \in callStack[k] : a \in Inst /\ waitState[a] = "waiting" /\ a # i
      BY <1>1, <3>1 DEF Suspended, TypeOK
    <3>3. parentID[k] # None => spawnTaskID[k] = task[parentID[k]] /\ parentID[k] # i
      BY <1>10, <3>1, <3>2 DEF Suspended
    <3> QED
      BY <1>8, <1>9, <1>10, <2>2, <3>2, <3>3
  <2> QED
    BY <2>1, <2>2
<1>16. \A j \in Inst \ kids : j # i =>
          ChildrenForTask(j, task[j])' = ChildrenForTask(j, task[j])
  BY <1>8, <1>10, <1>12, <1>13, IdsDistinct DEF ChildrenForTask
<1>17. Parked'
  <2>1. \E k \in ChildrenForTask(i, task[i])' : status'[k] \in Active
    BY <1>3, <1>6, <1>8 DEF ChildrenForTask, Active
  <2>2. ASSUME NEW j \in Inst \ {i}, waitState'[j] = "waiting"
        PROVE  /\ status'[j] \in Active /\ lease'[j] # "held"
               /\ \E k \in ChildrenForTask(j, task[j])' : status'[k] \in Active
    <3>1. j \notin kids /\ waitState[j] = "waiting"
      BY <1>9, <1>12, <2>2
    <3>2. PICK k \in ChildrenForTask(j, task[j]) : status[k] \in Active
      BY <3>1 DEF Parked
    <3>3. k \in Inst \ kids
      BY <1>3, <3>2 DEF ChildrenForTask, Active
    <3>4. status[j] \in Active /\ lease[j] # "held"
      BY <3>1 DEF Parked
    <3> QED
      BY <1>8, <1>9, <1>16, <3>1, <3>2, <3>3, <3>4
  <2>3. \A j \in Inst : status'[j] \notin Active => waitState'[j] = "none" /\ lease'[j] # "held"
    BY <1>6, <1>8, <1>9 DEF Parked, Active
  <2> QED
    BY <1>6, <1>8, <1>9, <2>1, <2>2, <2>3 DEF Parked, Active
<1>18. Dooming'
  <2> SUFFICES ASSUME NEW k \in Inst, parentID'[k] # None
               PROVE  LET q == parentID'[k]
                      IN  /\ status'[k] = "failed" => status'[q] \in {"failing", "failed"}
                          /\ status'[k] = "cancelled" =>
                                status'[q] \in {"cancelling", "failing", "cancelled", "failed"}
                          /\ status'[k] = "cancelling" => status'[q] \in {"cancelling", "failing"}
                          /\ status'[k] \in {"failed", "cancelled"} => spawnTaskID'[k] = task'[q]
    BY DEF Dooming
  <2>1. CASE k \in kids
    BY <1>6, <1>8, <2>1
  <2>2. CASE k \notin kids /\ parentID[k] = i
    BY <1>7, <1>8, <2>2
  <2>3. CASE k \notin kids /\ parentID[k] # i
    BY <1>8, <1>10, <2>3 DEF Dooming
  <2> QED
    BY <2>1, <2>2, <2>3
<1>19. Flight'
  <2> SUFFICES ASSUME NEW j \in Inst, lease'[j] = "held"
               PROVE  /\ view'[j].wait = waitState'[j] /\ view'[j].error = error'[j]
                      /\ \/ status'[j] = view'[j].status
                         \/ status'[j] = "cancelling" /\ view'[j].status = "running"
                      /\ view'[j].status = "running" =>
                            \A k \in Inst : parentID'[k] = j => status'[k] = "completed"
                      /\ view'[j].status # "running" => view'[j].task = task'[j]
    BY DEF Flight
  <2>1. j # i /\ lease[j] = "held" /\ j \notin kids
    BY <1>9, <1>12
  <2>2. \A k \in Inst : parentID'[k] = j => k \notin kids /\ parentID[k] = j /\ status'[k] = status[k]
    BY <1>8, <2>1
  <2> QED
    BY <1>8, <1>9, <2>1, <2>2 DEF Flight
<1>20. AtChildTask'
  <2>1. \A j \in Inst : parentID'[j] # None => Kind[spawnTaskID'[j]] = "child"
    BY <1>1, <1>8 DEF AtChildTask
  <2>2. \A j \in Inst : waitState'[j] # "none" => Kind[task'[j]] = "child"
    BY <1>1, <1>8, <1>9, <1>12 DEF AtChildTask
  <2>3. \A j \in Inst : lease'[j] = "held" /\ view'[j].wait # "none" => Kind[view'[j].task] = "child"
    BY <1>9 DEF AtChildTask
  <2> QED
    BY <2>1, <2>2, <2>3 DEF AtChildTask
<1>21. CollectingMeansCompleted'
  <2> SUFFICES ASSUME NEW j \in Inst, waitState'[j] = "collecting",
                      NEW k \in ChildrenForTask(j, task[j])'
               PROVE  status'[k] = "completed"
    BY DEF CollectingMeansCompleted
  <2>1. j # i /\ j \notin kids /\ waitState[j] = "collecting"
    BY <1>9, <1>12
  <2>2. k \in ChildrenForTask(j, task[j])
    BY <1>16, <2>1
  <2>3. k \in Inst /\ status[k] = "completed"
    BY <2>1, <2>2 DEF CollectingMeansCompleted, ChildrenForTask
  <2> QED
    BY <1>3, <1>8, <2>3
<1>22. ErrorNamesFailedNode'
  <2> SUFFICES ASSUME NEW j \in Inst
               PROVE  /\ status'[j] \in {"failing", "failed"} <=> error[j] # None
                      /\ error[j] # None =>
                            /\ status'[error[j]] = "failed"
                            /\ (error[j] = j \/ j \in callStack'[error[j]])
    BY <1>9 DEF ErrorNamesFailedNode
  <2>1. error[j] # None => error[j] \in Inst \ kids
    <3>1. error[j] # None => error[j] \in Inst
      BY DEF TypeOK
    <3>2. error[j] # None => status[error[j]] = "failed"
      BY DEF ErrorNamesFailedNode
    <3> QED
      BY <1>3, <3>1, <3>2
  <2>2. status'[j] \in {"failing", "failed"} <=> status[j] \in {"failing", "failed"}
    BY <1>3, <1>6, <1>8
  <2> QED
    BY <1>8, <2>1, <2>2 DEF ErrorNamesFailedNode
<1> QED
  BY <1>5, <1>14, <1>15, <1>17, <1>18, <1>19, <1>20, <1>21, <1>22

------------------------------------------------------------------------------
(* The invariant. *)

\* The empty table satisfies the invariant.
LEMMA InitInv == Init => IInv
<1> SUFFICES ASSUME Init PROVE IInv
  OBVIOUS
<1>1. TypeOK
  BY IdleType DEF Init, TypeOK, View, Wait, Wake
<1>2. \A i \in Inst : /\ status[i] = "absent" /\ waitState[i] = "none" /\ error[i] = None
                      /\ lease[i] = "free" /\ parentID[i] = None /\ callStack[i] = {}
  BY DEF Init
<1>3. Shape /\ Suspended /\ Parked /\ Dooming /\ Flight /\ AtChildTask
  BY <1>2 DEF Shape, Suspended, Parked, Dooming, Flight, AtChildTask, Active
<1>4. CollectingMeansCompleted /\ ErrorNamesFailedNode
  BY <1>2 DEF CollectingMeansCompleted, ErrorNamesFailedNode
<1> QED
  BY <1>1, <1>3, <1>4 DEF IInv

\* What a healthy instance in flight knows: its row holds no error, and unless it
\* stands at a child task it is not collecting.
LEMMA HealthyFlight ==
    ASSUME IInv, NEW i \in Inst, lease[i] = "held", view[i].status = "running"
    PROVE  /\ view[i] \in View /\ view[i].error = error[i]
           /\ Kind[view[i].task] # "child" => view[i].wait = "none"
BY DEF IInv, TypeOK, Flight, AtChildTask

\* The three exits that settle an instance without looking at its task.
LEMMA SettleActions ==
    ASSUME IInv, NEW i \in Inst,
           \/ InFlight(i) /\ view[i].status = "failing" /\ SaveAndNotify(i, Settled(i))
           \/ InFlight(i) /\ view[i].status = "cancelling" /\ SaveAndNotify(i, Cancelled(i))
           \/ InFlight(i) /\ view[i].status = "running" /\ SaveAndNotify(i, Failed(i)),
           UNCHANGED <<result, batch>>
    PROVE  IInv'
<1>1. TypeOK /\ lease[i] = "held"
  BY DEF IInv, InFlight
<1>2. result' \in [Inst -> SUBSET Inst] /\ batch' \in [Inst -> SUBSET Inst]
  BY DEF IInv, TypeOK
<1>3. view[i].error = error[i] /\ (view[i].status # "running" => view[i].task = task[i])
  BY <1>1 DEF IInv, Flight
<1>4. CASE view[i].status = "failing" /\ SaveAndNotify(i, Settled(i))
  BY <1>1, <1>2, <1>3, <1>4, TerminalForms, SettleStep DEF Terminal
<1>5. CASE view[i].status = "cancelling" /\ SaveAndNotify(i, Cancelled(i))
  BY <1>1, <1>2, <1>3, <1>5, TerminalForms, SettleStep DEF Terminal
<1>6. CASE view[i].status = "running" /\ SaveAndNotify(i, Failed(i))
  BY <1>1, <1>2, <1>3, <1>6, TerminalForms, SettleStep DEF Terminal
<1> QED
  BY <1>4, <1>5, <1>6

\* A healthy instance whose row is written back at task g, or that completes.
LEMMA LeaveStep ==
    ASSUME IInv, NEW i \in Inst, NEW g \in Task \cup {"end"}, Leave(i, g),
           lease[i] = "held", view[i].status = "running",
           result' \in [Inst -> SUBSET Inst]
    PROVE  IInv'
<1> DEFINE v == view[i]
           r == [v EXCEPT !.wait = "none", !.retry = 0, !.wake = "none"]
<1>1. v \in View /\ v.error = error[i] /\ v.status = "running"
  BY HealthyFlight
<1>2. batch' \in [Inst -> SUBSET Inst]
  BY DEF Leave, IInv, TypeOK
<1>3. CASE g = "end"
  <2>1. SaveAndNotify(i, Completed(i, r))
    BY <1>3 DEF Leave
  <2> DEFINE c == [r EXCEPT !.status = "completed", !.wake = "none"]
  <2>2. SaveAndNotify(i, c)
    BY <2>1 DEF Completed
  <2> HIDE DEF v
  <2>3. r \in View /\ r.error = error[i]
    BY <1>1 DEF View, Wait, Wake
  <2>4. r.wait = "none"
    BY <1>1 DEF View
  <2> HIDE DEF r
  <2>5. c \in View /\ c.status = "completed" /\ c.error = error[i] /\ c.wait = "none"
    BY <2>3, <2>4 DEF View, Wake, Terminal
  <2> HIDE DEF c
  <2>6. c.status \in Terminal
    BY <2>5 DEF Terminal
  <2> QED
    BY <1>2, <2>2, <2>5, <2>6, SettleStep
<1>4. CASE g # "end"
  <2> DEFINE c == [r EXCEPT !.task = g]
  <2>1. UpdateInstanceProgress(i, c)
    BY <1>4 DEF Leave
  <2> HIDE DEF v
  <2>2. r \in View /\ r.error = error[i] /\ r.wait = "none" /\ r.status = "running"
    BY <1>1 DEF View, Wait, Wake
  <2> HIDE DEF r
  <2>3. c \in View /\ c.error = error[i] /\ c.wait = "none" /\ c.status = "running"
    BY <1>4, <2>2 DEF View
  <2> HIDE DEF c
  <2> QED
    BY <1>2, <2>1, <2>3, ProgressStep
<1> QED
  BY <1>3, <1>4

\* handleCallError: retry, route or fail.
LEMMA CallErrorStep ==
    ASSUME IInv, NEW i \in Inst, NEW c \in Code,
           RetryScheduled(i, c) \/ ErrorRoute(i, c) \/ CallFails(i, c)
    PROVE  IInv'
<1> DEFINE v == view[i]
           rule == MatchOnError(v.task, c)
<1>1. InFlight(i) /\ At(i, "rest")
  BY DEF RetryScheduled, ErrorRoute, CallFails, At
<1>2. v \in View /\ v.error = error[i] /\ v.wait = "none" /\ v.status = "running" /\ lease[i] = "held"
  BY <1>1, HealthyFlight DEF At, InFlight
<1>3. UNCHANGED result /\ result' \in [Inst -> SUBSET Inst] /\ batch' \in [Inst -> SUBSET Inst]
  BY DEF RetryScheduled, ErrorRoute, CallFails, IInv, TypeOK
<1>4. CASE RetryScheduled(i, c)
  <2> DEFINE n == v.retry + 1
             w == [v EXCEPT !.retry = n, !.wake = "pending"]
  <2>1. UpdateInstance(i, w)
    BY <1>4 DEF RetryScheduled
  <2>2. n \in Nat
    BY <1>2 DEF View
  <2> HIDE DEF v, n
  <2>3. w \in View /\ w.error = error[i] /\ w.wait = "none" /\ w.status = "running"
    BY <1>2, <2>2 DEF View, Wake
  <2> HIDE DEF w
  <2> QED
    BY <1>2, <1>3, <2>1, <2>3, ProgressStep DEF v
<1>5. CASE ErrorRoute(i, c) /\ rule.goto = "end"
  <2> DEFINE w == [v EXCEPT !.status = "completed", !.wake = "none"]
  <2>1. SaveAndNotify(i, w)
    BY <1>5 DEF ErrorRoute, Completed
  <2> HIDE DEF v
  <2>2. w \in View /\ w.error = error[i] /\ w.wait = "none" /\ w.status = "completed"
    BY <1>2 DEF View, Wake, Terminal
  <2> HIDE DEF w
  <2>3. w.status \in Terminal
    BY <2>2 DEF Terminal
  <2> QED
    BY <1>2, <1>3, <2>1, <2>2, <2>3, SettleStep DEF v
<1>6. CASE ErrorRoute(i, c) /\ rule.goto # "end"
  <2> DEFINE g == rule.goto
             w == [v EXCEPT !.task = g, !.retry = 0, !.wake = "none"]
  <2>1. UpdateInstance(i, w) /\ g # ""
    BY <1>6 DEF ErrorRoute
  <2>2. rule \in Rule \cup {NoRule}
    BY <1>2, MatchType DEF View
  <2>3. g \in Task
    <3> HIDE DEF rule
    <3>1. NoRule.goto = ""
      BY DEF NoRule
    <3>2. \A x \in Rule : x.goto \in Task \cup {"end", ""}
      BY DEF Rule
    <3> QED
      BY <1>6, <2>1, <2>2, <3>1, <3>2
  <2> HIDE DEF v, g
  <2>4. w \in View /\ w.error = error[i] /\ w.wait = "none" /\ w.status = "running"
    BY <1>2, <2>3 DEF View, Wake
  <2> HIDE DEF w
  <2> QED
    BY <1>2, <1>3, <2>1, <2>4, ProgressStep DEF v
<1>7. CASE CallFails(i, c)
  BY <1>1, <1>2, <1>7, SettleActions DEF CallFails
<1> QED
  BY <1>4, <1>5, <1>6, <1>7

\* Parking on a delay keeps the invariant.
LEMMA DelayArmedStep ==
    ASSUME IInv, NEW i \in Inst, DelayArmed(i)
    PROVE  IInv'
<1> DEFINE v == view[i]
           w == [v EXCEPT !.wake = "pending"]
<1>1. /\ v \in View /\ v.error = error[i] /\ v.wait = "none" /\ v.status = "running"
      /\ lease[i] = "held"
  BY HealthyFlight DEF DelayArmed, At, InFlight
<1>2. UpdateInstanceProgress(i, w) /\ UNCHANGED <<result, batch>>
  BY DEF DelayArmed
<1> HIDE DEF v
<1>3. w \in View /\ w.error = error[i] /\ w.wait = "none" /\ w.status = "running"
  BY <1>1 DEF View, Wake
<1> HIDE DEF w
<1>4. result' \in [Inst -> SUBSET Inst] /\ batch' \in [Inst -> SUBSET Inst]
  BY <1>2 DEF IInv, TypeOK
<1> QED
  BY <1>1, <1>2, <1>3, <1>4, ProgressStep DEF v

\* Every way an advance can end, or go on in memory, keeps the invariant.
LEMMA AdvanceStep ==
    ASSUME IInv, NEW i \in Inst, Advance(i)
    PROVE  IInv'
<1>1. CASE SettleFailing(i) \/ CancelInstance(i) \/ FailInstance(i)
  BY <1>1, SettleActions DEF SettleFailing, CancelInstance, FailInstance
<1>2. CASE \E g \in Task : Route(i, g)
  BY <1>2, RouteStep
<1>3. ASSUME NEW g \in Task \cup {"end"},
             RouteAndSave(i, g) \/ CallSucceeds(i, g) \/ DelayPassed(i, g)
      PROVE  IInv'
  <2>1. /\ Leave(i, g) /\ lease[i] = "held" /\ view[i].status = "running"
        /\ result' \in [Inst -> SUBSET Inst]
    BY <1>3 DEF RouteAndSave, CallSucceeds, DelayPassed, At, InFlight, IInv, TypeOK
  <2> QED
    BY <2>1, LeaveStep
<1>4. CASE \E c \in Code : RetryScheduled(i, c) \/ ErrorRoute(i, c) \/ CallFails(i, c)
  BY <1>4, CallErrorStep
<1>5. CASE DelayArmed(i)
  BY <1>5, DelayArmedStep
<1>6. CASE \E f \in [Spawns[view[i].task] -> Kids] : SpawnChildrenAndWait(i, f)
  BY <1>6, SpawnStep
<1>7. ASSUME NEW g \in Task \cup {"end"}, NEW merged \in SUBSET Kids,
             CollectChildOutputs(i, g, merged)
      PROVE  IInv'
  <2>1. /\ Leave(i, g) /\ lease[i] = "held" /\ view[i].status = "running"
        /\ result' \in [Inst -> SUBSET Inst]
    BY <1>7 DEF CollectChildOutputs, At, InFlight, IInv, TypeOK, Inst
  <2> QED
    BY <2>1, LeaveStep
<1> QED
  BY <1>1, <1>2, <1>3, <1>4, <1>5, <1>6, <1>7 DEF Advance

\* Every step of any actor keeps the invariant.
LEMMA NextInv == IInv /\ [Next]_vars => IInv'
<1> SUFFICES ASSUME IInv, [Next]_vars PROVE IInv'
  OBVIOUS
<1>1. ASSUME NEW i \in Roots, NEW t \in Entry, StartInstance(i, t) PROVE IInv'
  BY <1>1, StartStep, DefinitionsValid DEF Inst
<1>2. ASSUME NEW i \in Roots, CancelProcess(i) PROVE IInv'
  BY <1>2, CancelStep DEF Inst
<1>3. ASSUME NEW i \in Roots, NEW force \in BOOLEAN, RetryProcess(i, force) PROVE IInv'
  BY <1>3, RetryStep DEF Inst
<1>4. ASSUME NEW i \in Inst, Claim(i) \/ Advance(i) \/ Crash(i) \/ TimerDue(i) PROVE IInv'
  BY <1>4, ClaimStep, AdvanceStep, CrashStep, TimerStep
<1>5. CASE UNCHANGED vars
  <2>1. UNCHANGED <<status, waitState, task, retryCount, wakeAt, error, lease, view,
                    parentID, spawnTaskID, callStack, entry, result, batch>>
    BY <1>5 DEF vars, row, ident
  <2>2. TypeOK'
    BY <2>1 DEF IInv, TypeOK
  <2> QED
    BY <2>1, <2>2, MemoryStep
<1> QED
  BY <1>1, <1>2, <1>3, <1>4, <1>5 DEF Next, Api

\* The inductive invariant holds in every reachable state, for any definitions, any
\* number of instances and every interleaving of workers, API and crashes.
THEOREM Invariance == Spec => []IInv
<1> QED
  BY InitInv, NextInv, PTL DEF Spec

------------------------------------------------------------------------------
(* The safety properties of the tree. *)

\* Every column and every snapshot keeps its type.
THEOREM TypeCorrect == Spec => []TypeOK
<1>1. IInv => TypeOK
  BY DEF IInv
<1> QED
  BY <1>1, Invariance, PTL

\* Statuses agree along the tree: FinishChild, the failure cascade, cancellation and
\* retries never settle a parent over an active child, and failures reach the root.
THEOREM TreeSettlesBottomUp == Spec => []StatusesAgree
<1>1. IInv => SettledTree
  <2> SUFFICES ASSUME IInv, NEW k \in Inst, parentID[k] # None, status[parentID[k]] \in Terminal
               PROVE  status[k] \in Terminal
    BY DEF SettledTree
  <2>1. /\ parentID[k] \in Inst /\ parentID[k] \in callStack[k]
        /\ status[k] \in Active \cup Terminal
    BY Parents DEF IInv
  <2>2. status[k] \notin Active
    BY <2>1 DEF IInv, Suspended, Parked, Active, Terminal
  <2> QED
    BY <2>1, <2>2
<1>2. IInv => FailureDoomsParent
  BY DEF IInv, Dooming, FailureDoomsParent
<1> QED
  BY <1>1, <1>2, Invariance, PTL DEF StatusesAgree

\* A suspended parent has an active child of its task, which will wake it, and one
\* that collects has only completed children.
THEOREM WaitsAreRight == Spec => []WaitsMatchChildren
<1>1. IInv => NoLostWakeup
  BY DEF IInv, Parked, NoLostWakeup
<1>2. IInv => CollectingMeansCompleted
  BY DEF IInv
<1> QED
  BY <1>1, <1>2, Invariance, PTL DEF WaitsMatchChildren

\* The error that a doomed node reports is that of a failed node below it.
THEOREM ErrorsHaveOrigins == Spec => []ErrorNamesFailedNode
<1>1. IInv => ErrorNamesFailedNode
  BY DEF IInv
<1> QED
  BY <1>1, Invariance, PTL

\* A cancellation is the only write that can come between a claim and the end of
\* its advance.
THEOREM AdvanceIsExclusive == Spec => []OnlyCancelRacesAdvance
<1>1. IInv => OnlyCancelRacesAdvance
  BY DEF IInv, Flight, Parked, OnlyCancelRacesAdvance, InFlight
<1> QED
  BY <1>1, Invariance, PTL

------------------------------------------------------------------------------
(* How a status changes in one step. *)

\* What OutcomeIsFinal says of one step.
Finality ==
    \A i \in Inst : status'[i] # status[i] =>
        /\ status[i] = "failing" => status'[i] = "failed"
        /\ status[i] \in Terminal =>
              /\ status[i] # "completed" /\ status'[i] = "running"
              /\ \A r \in Inst : parentID[r] = None /\ (r = i \/ r \in callStack[i]) =>
                    status[r] \in {"failed", "cancelled"} /\ status'[r] = "running"

\* A step that moves no status but of rows that are neither failing nor terminal.
LEMMA UndecidedMove ==
    ASSUME \A j \in Inst : status[j] \in {"failing"} \cup Terminal => status'[j] = status[j]
    PROVE  Finality
BY DEF Finality

\* A terminal save decides the outcome of its instance and dooms undecided ancestors.
LEMMA SaveDecides ==
    ASSUME IInv, NEW i \in Inst, NEW r, SaveAndNotify(i, r), lease[i] = "held",
           view[i].status = "failing" => r.status = "failed"
    PROVE  Finality
<1>1. status[i] \in Active /\ (status[i] = "failing" => view[i].status = "failing")
  BY DEF IInv, Parked, Flight
<1>2. /\ status'[i] = r.status
      /\ \A j \in Inst \ {i} : status'[j] = status[j] \/ status[j] \in {"running", "cancelling"}
  <2>1. CASE UpdateInstance(i, r)  BY <2>1 DEF UpdateInstance, IInv, TypeOK
  <2>2. CASE FinishChild(i, r)  BY <2>2 DEF FinishChild, IInv, TypeOK
  <2>3. CASE FailInstanceAndAncestors(i, r)
    BY <2>3 DEF FailInstanceAndAncestors, Doomed, IInv, TypeOK
  <2> QED
    BY <2>1, <2>2, <2>3 DEF SaveAndNotify
<1> QED
  BY <1>1, <1>2 DEF Finality, Active, Terminal

\* A healthy advance writes no outcome unless it saves one.
LEMMA ProgressDecidesNothing ==
    ASSUME IInv, NEW i \in Inst, NEW r, lease[i] = "held", view[i].status = "running",
           UpdateInstance(i, r) \/ UpdateInstanceProgress(i, r)
    PROVE  Finality
<1>1. status[i] \in {"running", "cancelling"}
  BY DEF IInv, Flight
<1>2. \A j \in Inst \ {i} : status'[j] = status[j]
  BY DEF UpdateInstance, UpdateInstanceProgress, IInv, TypeOK
<1> QED
  BY <1>1, <1>2, UndecidedMove DEF Terminal

LEMMA LeaveDecides ==
    ASSUME IInv, NEW i \in Inst, NEW g, Leave(i, g), lease[i] = "held",
           view[i].status = "running"
    PROVE  Finality
BY SaveDecides, ProgressDecidesNothing DEF Leave

LEMMA AdvanceDecides ==
    ASSUME IInv, NEW i \in Inst, Advance(i)
    PROVE  Finality
<1>1. TypeOK
  BY DEF IInv
<1>2. Settled(i).status = "failed"
  BY <1>1, TerminalForms
<1>3. CASE SettleFailing(i)
  BY <1>2, <1>3, SaveDecides DEF SettleFailing, InFlight
<1>4. CASE CancelInstance(i) \/ FailInstance(i)
  BY <1>4, SaveDecides DEF CancelInstance, FailInstance, InFlight
<1>5. CASE \E g \in Task : Route(i, g)
  BY <1>5, UndecidedMove DEF Route, row
<1>6. ASSUME NEW g, RouteAndSave(i, g) \/ CallSucceeds(i, g) \/ DelayPassed(i, g)
      PROVE  Finality
  <2>1. Leave(i, g) /\ lease[i] = "held" /\ view[i].status = "running"
    BY <1>6 DEF RouteAndSave, CallSucceeds, DelayPassed, At, InFlight
  <2> QED
    BY <2>1, LeaveDecides
<1>7. ASSUME NEW c, RetryScheduled(i, c) \/ ErrorRoute(i, c) \/ CallFails(i, c)
      PROVE  Finality
  <2>1. lease[i] = "held" /\ view[i].status = "running"
    BY <1>7 DEF RetryScheduled, ErrorRoute, CallFails, At, InFlight
  <2>2. \E r : SaveAndNotify(i, r) \/ UpdateInstance(i, r)
    BY <1>7 DEF RetryScheduled, ErrorRoute, CallFails
  <2> QED
    BY <2>1, <2>2, SaveDecides, ProgressDecidesNothing
<1>8. CASE DelayArmed(i)
  <2>1. lease[i] = "held" /\ view[i].status = "running"
    BY <1>8 DEF DelayArmed, At, InFlight
  <2> QED
    BY <1>8, <2>1, ProgressDecidesNothing DEF DelayArmed
<1>9. ASSUME NEW f \in [Spawns[view[i].task] -> Kids], SpawnChildrenAndWait(i, f)
      PROVE  Finality
  <2> DEFINE kids == {f[e] : e \in Spawns[view[i].task]}
  <2>1. \A j \in kids : status[j] = "absent"
    BY <1>9 DEF SpawnChildrenAndWait
  <2>2. \A j \in Inst \ kids : status'[j] = status[j]
    BY <1>9 DEF SpawnChildrenAndWait
  <2> QED
    BY <2>1, <2>2, UndecidedMove DEF Terminal
<1>10. ASSUME NEW g, NEW merged, CollectChildOutputs(i, g, merged)
       PROVE  Finality
  <2>1. Leave(i, g) /\ lease[i] = "held" /\ view[i].status = "running"
    BY <1>10 DEF CollectChildOutputs, At, InFlight
  <2> QED
    BY <2>1, LeaveDecides
<1> QED
  BY <1>3, <1>4, <1>5, <1>6, <1>7, <1>8, <1>9, <1>10 DEF Advance

LEMMA RetryDecides ==
    ASSUME IInv, NEW i \in Inst, NEW force, RetryProcess(i, force)
    PROVE  Finality
<1> DEFINE R == Revived(i)
<1>1. parentID[i] = None /\ status[i] \in {"failed", "cancelled"}
  BY DEF RetryProcess
<1>2. status' = [j \in Inst |-> IF j \in R THEN "running" ELSE status[j]]
  BY DEF RetryProcess
<1>3. \A j \in R : status[j] \in {"failed", "cancelled"} /\ callStack[j] \subseteq R
  BY <1>1, RevivedSet
<1> HIDE DEF R
<1>4. ASSUME NEW j \in Inst, status'[j] # status[j]
      PROVE  j \in R /\ status'[j] = "running"
  BY <1>2, <1>4
<1>5. ASSUME NEW j \in Inst, status'[j] # status[j], NEW r \in Inst,
             r = j \/ r \in callStack[j]
      PROVE  status[r] \in {"failed", "cancelled"} /\ status'[r] = "running"
  BY <1>2, <1>3, <1>4, <1>5
<1> QED
  BY <1>3, <1>4, <1>5 DEF Finality

LEMMA StepDecides ==
    ASSUME IInv, [Next]_vars
    PROVE  Finality
<1>1. ASSUME NEW i \in Roots, NEW t \in Entry, StartInstance(i, t)
      PROVE  Finality
  <2>1. \A j \in Inst : status'[j] = status[j] \/ status[j] = "absent"
    BY <1>1 DEF StartInstance, IInv, TypeOK
  <2> QED
    BY <2>1, UndecidedMove DEF Terminal
<1>2. ASSUME NEW i \in Roots, CancelProcess(i)
      PROVE  Finality
  <2>1. \A j \in Inst : status'[j] = status[j] \/ status[j] = "running"
    BY <1>2 DEF CancelProcess
  <2> QED
    BY <2>1, UndecidedMove DEF Terminal
<1>3. ASSUME NEW i \in Roots, NEW force \in BOOLEAN, RetryProcess(i, force)
      PROVE  Finality
  BY <1>3, RetryDecides DEF Inst
<1>4. ASSUME NEW i \in Inst, Claim(i) \/ Crash(i) \/ TimerDue(i)
      PROVE  Finality
  BY <1>4, UndecidedMove DEF Claim, Crash, TimerDue
<1>5. CASE UNCHANGED vars
  BY <1>5, UndecidedMove DEF vars, row
<1> QED
  BY <1>1, <1>2, <1>3, <1>4, <1>5, AdvanceDecides DEF Next, Api

\* A decided outcome is final: failing ends in failed, completed work is not redone, and
\* what failed or was cancelled comes back only with a retry of its settled root.
THEOREM DecidedOutcomesStay == Spec => OutcomeIsFinal
<1>1. IInv /\ [Next]_vars => [Finality]_vars
  BY StepDecides
<1> QED
  BY <1>1, Invariance, PTL DEF Spec, OutcomeIsFinal, Finality

------------------------------------------------------------------------------
(* Collecting merges the children of the current visit.                      *)
(*                                                                           *)
(* batch is reset when an instance moves on and not when its worker dies, so *)
(* the invariant has to say where an instance is, in memory and in its row,  *)
(* which children belong there, and that all others belong to tasks it has   *)
(* left behind.                                                              *)

\* Where an instance is: in memory while it is in flight, in its row otherwise.
Here(i) == IF lease[i] = "held" THEN view[i].task ELSE task[i]

\* All children of i were spawned at t, or at tasks that come before t.
AfterSpawns(i, t) ==
    \A k \in Inst : parentID[k] = i =>
        /\ spawnTaskID[k] \in Task
        /\ spawnTaskID[k] = t \/ t \in LaterTasks(spawnTaskID[k])

\* The children of the current visit are those of the current task, and neither row
\* nor snapshot is before a task that has spawned children.
SpawnsBehind(i) ==
    /\ batch[i] = ChildrenForTask(i, Here(i))
    /\ AfterSpawns(i, task[i])
    /\ lease[i] = "held" => AfterSpawns(i, view[i].task)

\* A healthy instance that neither waits nor collects has not spawned at its task.
SpawnsAhead(i) ==
    /\ waitState[i] = "none"
    /\ IF lease[i] = "held" THEN view[i].status = "running" ELSE status[i] = "running"
    => batch[i] = {}

\* In memory an instance has moved on from its row through tasks without an action.
RoutedFromRow(i) ==
    lease[i] = "held" /\ view[i].task # task[i] => batch[i] = {} /\ Kind[task[i]] = "route"

BatchInv == \A i \in Inst : SpawnsBehind(i) /\ SpawnsAhead(i) /\ RoutedFromRow(i)

\* The tasks after t: its successors, and the successors of the tasks after t.
LEMMA LaterClosed ==
    ASSUME NEW t \in Task
    PROVE  /\ LaterTasks(t) \subseteq Task /\ Succ(t) \subseteq LaterTasks(t)
           /\ \A u \in LaterTasks(t) : Succ(u) \subseteq LaterTasks(t)
<1>1. LaterTasks(t) \subseteq Task
  BY DEF LaterTasks
<1>2. \A u : Succ(u) \subseteq Task
  BY DEF Succ
<1> DEFINE Closed(S) == Succ(t) \subseteq S /\ (\A v \in S : Succ(v) \subseteq S)
<1>3. LaterTasks(t) = {u \in Task : \A S \in SUBSET Task : Closed(S) => u \in S}
  BY DEF LaterTasks
<1>4. Succ(t) \subseteq LaterTasks(t)
  BY <1>2, <1>3
<1>5. ASSUME NEW u \in LaterTasks(t), NEW g \in Succ(u), NEW S \in SUBSET Task, Closed(S)
      PROVE  g \in S
  BY <1>3, <1>5
<1> HIDE DEF Closed
<1>6. \A u \in LaterTasks(t) : Succ(u) \subseteq LaterTasks(t)
  BY <1>2, <1>3, <1>5
<1> QED
  BY <1>1, <1>4, <1>6

\* Moving on from task t: all children are behind, and none belongs to the next task.
LEMMA MoveOn ==
    ASSUME ChildTasksVisitedOnce, IInv, NEW i \in Inst, NEW t \in Task, AfterSpawns(i, t),
           NEW g \in Succ(t)
    PROVE  g \in Task /\ AfterSpawns(i, g) /\ ChildrenForTask(i, g) = {}
<1>1. g \in Task
  BY DEF Succ
<1>2. ASSUME NEW k \in Inst, parentID[k] = i
      PROVE  /\ spawnTaskID[k] \in Task /\ g \in LaterTasks(spawnTaskID[k])
             /\ spawnTaskID[k] # g
  <2>1. spawnTaskID[k] \in Task /\ (spawnTaskID[k] = t \/ t \in LaterTasks(spawnTaskID[k]))
    BY <1>2 DEF AfterSpawns
  <2>2. g \in LaterTasks(spawnTaskID[k])
    BY <2>1, LaterClosed
  <2>3. Kind[spawnTaskID[k]] = "child"
    BY <1>2, IdsDistinct DEF IInv, AtChildTask
  <2> QED
    BY <2>1, <2>2, <2>3 DEF ChildTasksVisitedOnce
<1> QED
  BY <1>1, <1>2 DEF AfterSpawns, ChildrenForTask

\* A step that writes only row, snapshot and batch of instance i, but for wake-ups and
\* statuses that make no other instance look healthy and unsuspended.
LEMMA OtherBatches ==
    ASSUME BatchInv, NEW i \in Inst, UNCHANGED <<parentID, spawnTaskID>>,
           NEW j \in Inst \ {i},
           task'[j] = task[j], lease'[j] = lease[j], view'[j] = view[j], batch'[j] = batch[j],
           waitState'[j] = "none" =>
              \/ waitState[j] = "none" /\ (status'[j] = "running" => status[j] = "running")
              \/ lease[j] # "held" /\ status'[j] # "running"
    PROVE  (SpawnsBehind(j) /\ SpawnsAhead(j) /\ RoutedFromRow(j))'
<1>1. SpawnsBehind(j) /\ SpawnsAhead(j) /\ RoutedFromRow(j)
  BY DEF BatchInv
<1>2. SpawnsBehind(j)'
  BY <1>1 DEF SpawnsBehind, AfterSpawns, ChildrenForTask, Here
<1>3. SpawnsAhead(j)' /\ RoutedFromRow(j)'
  BY <1>1 DEF SpawnsAhead, RoutedFromRow
<1> QED
  BY <1>2, <1>3

\* The same for the instance whose advance ends with its row at task t.
LEMMA OwnBatch ==
    ASSUME NEW i \in Inst, UNCHANGED <<parentID, spawnTaskID>>, NEW t,
           task'[i] = t, lease'[i] = "free", AfterSpawns(i, t),
           batch'[i] = ChildrenForTask(i, t),
           waitState'[i] = "none" /\ status'[i] = "running" => batch'[i] = {}
    PROVE  (SpawnsBehind(i) /\ SpawnsAhead(i) /\ RoutedFromRow(i))'
<1>1. SpawnsBehind(i)'
  BY DEF SpawnsBehind, AfterSpawns, ChildrenForTask, Here
<1>2. SpawnsAhead(i)' /\ RoutedFromRow(i)'
  BY DEF SpawnsAhead, RoutedFromRow
<1> QED
  BY <1>1, <1>2

\* What a healthy instance in flight knows about its batch.
LEMMA FlightBatch ==
    ASSUME IInv, BatchInv, NEW i \in Inst, lease[i] = "held"
    PROVE  /\ view[i].task \in Task /\ AfterSpawns(i, view[i].task)
           /\ batch[i] = ChildrenForTask(i, view[i].task)
           /\ view[i].status = "running" /\ Kind[view[i].task] # "child" => batch[i] = {}
<1>1. view[i].task \in Task
  BY DEF IInv, TypeOK, View
<1>2. SpawnsBehind(i) /\ SpawnsAhead(i)
  BY DEF BatchInv
<1>3. Kind[view[i].task] # "child" => waitState[i] = "none"
  BY DEF IInv, AtChildTask, Flight, TypeOK, Wait
<1> QED
  BY <1>1, <1>2, <1>3 DEF SpawnsBehind, SpawnsAhead, Here

\* A terminal save leaves the instance and its children at its task.
LEMMA SettleBatch ==
    ASSUME IInv, BatchInv, NEW i \in Inst, NEW r \in View, SaveAndNotify(i, r),
           lease[i] = "held", r.status \in Terminal, r.task = view[i].task, UNCHANGED batch
    PROVE  BatchInv'
<1>1. /\ WriteBack(i, r)
      /\ status' = [j \in Inst |-> IF j = i THEN r.status
                                   ELSE IF j \in DoomedBy(i, r) THEN "failing" ELSE status[j]]
      /\ waitState' = [j \in Inst |->
           IF j = i THEN r.wait
           ELSE IF j = parentID[i] /\ waitState[j] = "waiting" /\ NoActiveSiblings(i, status')
                THEN IF status'[j] = "running" THEN "collecting" ELSE "none"
                ELSE waitState[j]]
  BY SaveAndNotifyEffect DEF IInv
<1>2. /\ UNCHANGED <<parentID, spawnTaskID>> /\ task'[i] = r.task /\ lease'[i] = "free"
      /\ \A j \in Inst \ {i} : task'[j] = task[j] /\ lease'[j] = lease[j] /\ view'[j] = view[j]
  BY <1>1 DEF WriteBack, ident, IInv, TypeOK
<1>3. (SpawnsBehind(i) /\ SpawnsAhead(i) /\ RoutedFromRow(i))'
  <2>1. AfterSpawns(i, r.task) /\ batch'[i] = ChildrenForTask(i, r.task)
    BY FlightBatch
  <2>2. status'[i] # "running"
    BY <1>1 DEF Terminal
  <2> QED
    BY <1>2, <2>1, <2>2, OwnBatch
<1>4. ASSUME NEW j \in Inst \ {i}
      PROVE  (SpawnsBehind(j) /\ SpawnsAhead(j) /\ RoutedFromRow(j))'
  <2>1. status'[j] = "running" => status[j] = "running"
    BY <1>1
  <2>2. waitState'[j] = "none" =>
           \/ waitState[j] = "none"
           \/ waitState[j] = "waiting" /\ status'[j] # "running"
    BY <1>1
  <2>3. waitState[j] = "waiting" => lease[j] # "held"
    BY DEF IInv, Parked
  <2>4. UNCHANGED <<parentID, spawnTaskID>> /\ task'[j] = task[j] /\ lease'[j] = lease[j]
        /\ view'[j] = view[j] /\ batch'[j] = batch[j]
    BY <1>2
  <2> QED
    BY <2>1, <2>2, <2>3, <2>4, OtherBatches
<1> QED
  BY <1>3, <1>4 DEF BatchInv

\* A healthy advance that is saved before its end: it stays where it is, or moves on.
LEMMA ProgressBatch ==
    ASSUME ChildTasksVisitedOnce, IInv, BatchInv, NEW i \in Inst, NEW r \in View,
           UpdateInstance(i, r) \/ UpdateInstanceProgress(i, r),
           lease[i] = "held", view[i].status = "running",
           \/ r.task = view[i].task /\ Kind[r.task] # "child" /\ UNCHANGED batch
           \/ r.task \in Succ(view[i].task) /\ batch' = [batch EXCEPT ![i] = {}]
    PROVE  BatchInv'
<1>1. WriteBack(i, r)
  BY DEF UpdateInstance, UpdateInstanceProgress
<1>2. /\ UNCHANGED <<parentID, spawnTaskID>> /\ task'[i] = r.task /\ lease'[i] = "free"
      /\ \A j \in Inst \ {i} : task'[j] = task[j] /\ lease'[j] = lease[j] /\ view'[j] = view[j]
  BY <1>1 DEF WriteBack, ident, IInv, TypeOK
<1>3. \A j \in Inst \ {i} : status'[j] = status[j] /\ waitState'[j] = waitState[j]
  BY DEF UpdateInstance, UpdateInstanceProgress, IInv, TypeOK
<1>4. AfterSpawns(i, r.task) /\ batch'[i] = ChildrenForTask(i, r.task) /\ batch'[i] = {}
  <2>1. CASE r.task = view[i].task /\ Kind[r.task] # "child" /\ UNCHANGED batch
    BY <2>1, FlightBatch
  <2>2. CASE r.task \in Succ(view[i].task) /\ batch' = [batch EXCEPT ![i] = {}]
    <3>1. batch'[i] = {}
      BY <2>2 DEF IInv, TypeOK
    <3>2. view[i].task \in Task /\ AfterSpawns(i, view[i].task)
      BY FlightBatch
    <3> QED
      BY <2>2, <3>1, <3>2, MoveOn
  <2> QED
    BY <2>1, <2>2
<1>5. (SpawnsBehind(i) /\ SpawnsAhead(i) /\ RoutedFromRow(i))'
  BY <1>2, <1>4, OwnBatch
<1>6. \A j \in Inst \ {i} : batch'[j] = batch[j]
  BY DEF IInv, TypeOK
<1>7. ASSUME NEW j \in Inst \ {i}
      PROVE  (SpawnsBehind(j) /\ SpawnsAhead(j) /\ RoutedFromRow(j))'
  BY <1>2, <1>3, <1>6, OtherBatches
<1> QED
  BY <1>5, <1>7 DEF BatchInv

\* The successors of a task are what its switch and its error rules select.
LEMMA SuccGoto ==
    ASSUME NEW t \in Task, NEW g \in Task,
           \/ g \in Goto[t]
           \/ \E c \in Code : g = MatchOnError(t, c).goto
    PROVE  g \in Succ(t)
<1>1. CASE g \in Goto[t]
  BY <1>1 DEF Succ
<1>2. ASSUME NEW c \in Code, g = MatchOnError(t, c).goto
      PROVE  g \in Succ(t)
  <2>1. MatchOnError(t, c) \in {OnError[t][n] : n \in DOMAIN OnError[t]} \cup {NoRule}
    BY MatchIsRule
  <2>2. NoRule.goto = "" /\ "" \notin Task
    BY DefinitionsValid DEF NoRule
  <2>3. PICK n \in DOMAIN OnError[t] : MatchOnError(t, c) = OnError[t][n]
    BY <1>2, <2>1, <2>2
  <2> QED
    BY <1>2, <2>3 DEF Succ
<1> QED
  BY <1>1, <1>2

\* Leaving a task: to the end with the batch as it is, or to the next task without one.
LEMMA LeaveBatch ==
    ASSUME ChildTasksVisitedOnce, IInv, BatchInv, NEW i \in Inst, NEW g \in Goto[view[i].task],
           Leave(i, g), lease[i] = "held", view[i].status = "running"
    PROVE  BatchInv'
<1> DEFINE v == view[i]
           r == [v EXCEPT !.wait = "none", !.retry = 0, !.wake = "none"]
<1>1. v \in View /\ v.task \in Task
  BY DEF IInv, TypeOK, View
<1>2. CASE g = "end"
  <2> DEFINE c == [r EXCEPT !.status = "completed", !.wake = "none"]
  <2>1. SaveAndNotify(i, c) /\ UNCHANGED batch
    BY <1>2 DEF Leave, Completed
  <2> HIDE DEF v
  <2>2. r \in View /\ r.task = v.task
    BY <1>1 DEF View, Wait, Wake
  <2> HIDE DEF r
  <2>3. c \in View /\ c.status = "completed" /\ c.task = v.task
    BY <2>2 DEF View, Wake, Terminal
  <2> HIDE DEF c
  <2>4. c.status \in Terminal
    BY <2>3 DEF Terminal
  <2> QED
    BY <2>1, <2>3, <2>4, SettleBatch DEF v
<1>3. CASE g # "end"
  <2> DEFINE c == [r EXCEPT !.task = g]
  <2>1. UpdateInstanceProgress(i, c) /\ batch' = [batch EXCEPT ![i] = {}]
    BY <1>3 DEF Leave
  <2>2. g \in Task
    BY <1>1, <1>3, DefinitionsValid
  <2>3. g \in Succ(view[i].task)
    BY <1>1, <2>2, SuccGoto
  <2> HIDE DEF v
  <2>4. r \in View
    BY <1>1 DEF View, Wait, Wake
  <2> HIDE DEF r
  <2>5. c \in View /\ c.task = g
    BY <2>2, <2>4 DEF View
  <2> HIDE DEF c
  <2> QED
    BY <2>1, <2>3, <2>5, ProgressBatch
<1> QED
  BY <1>2, <1>3

\* The exits of a failed call.
LEMMA CallErrorBatch ==
    ASSUME ChildTasksVisitedOnce, IInv, BatchInv, NEW i \in Inst, NEW c \in Code,
           RetryScheduled(i, c) \/ ErrorRoute(i, c) \/ CallFails(i, c)
    PROVE  BatchInv'
<1> DEFINE v == view[i]
           rule == MatchOnError(v.task, c)
<1>1. lease[i] = "held" /\ v.status = "running" /\ Kind[v.task] = "rest"
  BY DEF RetryScheduled, ErrorRoute, CallFails, At, InFlight
<1>2. v \in View /\ v.task \in Task /\ v.retry \in Nat
  BY DEF IInv, TypeOK, View
<1>3. CASE RetryScheduled(i, c)
  <2> DEFINE n == v.retry + 1
             w == [v EXCEPT !.retry = n, !.wake = "pending"]
  <2>1. UpdateInstance(i, w) /\ UNCHANGED batch
    BY <1>3 DEF RetryScheduled
  <2>2. n \in Nat
    BY <1>2
  <2> HIDE DEF v, n
  <2>3. w \in View /\ w.task = v.task
    BY <1>2, <2>2 DEF View, Wake
  <2> HIDE DEF w
  <2> QED
    BY <1>1, <2>1, <2>3, ProgressBatch DEF v
<1>4. CASE ErrorRoute(i, c) /\ rule.goto = "end"
  <2> DEFINE w == [v EXCEPT !.status = "completed", !.wake = "none"]
  <2>1. SaveAndNotify(i, w) /\ UNCHANGED batch
    BY <1>4 DEF ErrorRoute, Completed
  <2> HIDE DEF v
  <2>2. w \in View /\ w.status = "completed" /\ w.task = v.task
    BY <1>2 DEF View, Wake, Terminal
  <2> HIDE DEF w
  <2>3. w.status \in Terminal
    BY <2>2 DEF Terminal
  <2> QED
    BY <1>1, <2>1, <2>2, <2>3, SettleBatch DEF v
<1>5. CASE ErrorRoute(i, c) /\ rule.goto # "end"
  <2> DEFINE g == rule.goto
             w == [v EXCEPT !.task = g, !.retry = 0, !.wake = "none"]
  <2>1. UpdateInstance(i, w) /\ g # "" /\ batch' = [batch EXCEPT ![i] = {}]
    BY <1>5 DEF ErrorRoute
  <2>2. rule \in Rule \cup {NoRule}
    BY <1>2, MatchType
  <2>3. g \in Task
    <3> HIDE DEF rule
    <3>1. NoRule.goto = ""
      BY DEF NoRule
    <3>2. \A x \in Rule : x.goto \in Task \cup {"end", ""}
      BY DEF Rule
    <3> QED
      BY <1>5, <2>1, <2>2, <3>1, <3>2
  <2>4. g \in Succ(v.task)
    BY <1>2, <2>3, SuccGoto
  <2> HIDE DEF v, g
  <2>5. w \in View /\ w.task = g
    BY <1>2, <2>3 DEF View, Wake
  <2> HIDE DEF w
  <2> QED
    BY <1>1, <2>1, <2>4, <2>5, ProgressBatch DEF v
<1>6. CASE CallFails(i, c)
  <2>1. SaveAndNotify(i, Failed(i)) /\ UNCHANGED batch
    BY <1>6 DEF CallFails
  <2>2. Failed(i) \in View /\ Failed(i).status \in Terminal /\ Failed(i).task = view[i].task
    BY TerminalForms DEF IInv, Terminal
  <2> QED
    BY <1>1, <2>1, <2>2, SettleBatch
<1> QED
  BY <1>3, <1>4, <1>5, <1>6

\* Routing in memory: the snapshot moves on, the row stays at the task it was claimed at.
LEMMA RouteBatch ==
    ASSUME ChildTasksVisitedOnce, IInv, BatchInv, NEW i \in Inst, NEW g \in Task, Route(i, g)
    PROVE  BatchInv'
<1> DEFINE w == [view[i] EXCEPT !.task = g, !.retry = 0, !.wake = "none", !.reclaimed = FALSE]
           t == view[i].task
<1>1. /\ lease[i] = "held" /\ view[i].status = "running" /\ Kind[t] = "route"
      /\ g \in Goto[t] /\ view[i] \in View /\ t \in Task
  BY DEF Route, At, InFlight, IInv, TypeOK, View
<1>2. w.task = g /\ w.status = view[i].status
  BY <1>1 DEF View
<1>3. /\ UNCHANGED <<status, waitState, task, lease, parentID, spawnTaskID>>
      /\ \A j \in Inst \ {i} : view'[j] = view[j] /\ batch'[j] = batch[j]
      /\ view'[i] = w /\ batch'[i] = {}
  BY DEF Route, row, ident, IInv, TypeOK
<1> HIDE DEF w
<1>4. /\ AfterSpawns(i, t) /\ batch[i] = {} /\ SpawnsBehind(i) /\ RoutedFromRow(i)
  BY <1>1, FlightBatch DEF BatchInv
<1>5. AfterSpawns(i, g) /\ ChildrenForTask(i, g) = {}
  BY <1>1, <1>4, SuccGoto, MoveOn
<1>6. (SpawnsBehind(i) /\ SpawnsAhead(i) /\ RoutedFromRow(i))'
  <2>1. SpawnsBehind(i)'
    BY <1>1, <1>2, <1>3, <1>4, <1>5 DEF SpawnsBehind, AfterSpawns, ChildrenForTask, Here
  <2>2. SpawnsAhead(i)'
    BY <1>3 DEF SpawnsAhead
  <2>3. RoutedFromRow(i)'
    BY <1>1, <1>3, <1>4 DEF RoutedFromRow
  <2> QED
    BY <2>1, <2>2, <2>3
<1>7. ASSUME NEW j \in Inst \ {i}
      PROVE  (SpawnsBehind(j) /\ SpawnsAhead(j) /\ RoutedFromRow(j))'
  BY <1>3, OtherBatches
<1> QED
  BY <1>6, <1>7 DEF BatchInv

\* A batch is inserted where there was none, and its children have none of their own.
LEMMA SpawnBatch ==
    ASSUME IInv, BatchInv, NEW i \in Inst, NEW f \in [Spawns[view[i].task] -> Kids],
           SpawnChildrenAndWait(i, f)
    PROVE  BatchInv'
<1>0. PICK t \in Task : t = view[i].task
  BY DEF IInv, TypeOK, View
<1> DEFINE kids == {f[e] : e \in Spawns[t]}
           key(k) == CHOOSE e \in Spawns[t] : f[e] = k
<1>1. /\ lease[i] = "held" /\ view[i].status = "running" /\ waitState[i] = "none"
      /\ \A k \in kids : status[k] = "absent"
  BY <1>0 DEF SpawnChildrenAndWait, At, InFlight
<1>2. /\ task' = [j \in Inst |-> IF j \in kids THEN key(j) ELSE IF j = i THEN t ELSE task[j]]
      /\ status' = [j \in Inst |-> IF j \in kids THEN status[i] ELSE status[j]]
      /\ parentID' = [j \in Inst |-> IF j \in kids THEN i ELSE parentID[j]]
      /\ spawnTaskID' = [j \in Inst |-> IF j \in kids THEN t ELSE spawnTaskID[j]]
      /\ waitState' = [waitState EXCEPT ![i] = "waiting"]
      /\ lease' = [lease EXCEPT ![i] = "free"]
      /\ view' = [view EXCEPT ![i] = Idle]
      /\ batch' = [batch EXCEPT ![i] = kids]
  BY <1>0 DEF SpawnChildrenAndWait
<1>3. kids \subseteq Inst /\ i \notin kids
  <2>1. \A e \in Spawns[t] : f[e] \in Kids
    BY <1>0
  <2>2. status[i] # "absent"
    BY <1>1 DEF IInv, Parked, Active
  <2> QED
    BY <1>1, <2>1, <2>2 DEF Inst
<1> HIDE DEF kids, key
<1>4. AfterSpawns(i, t) /\ ChildrenForTask(i, t) = {}
  <2>1. batch[i] = {}
    BY <1>1 DEF BatchInv, SpawnsAhead
  <2> QED
    BY <1>0, <1>1, <2>1, FlightBatch
<1>5. /\ \A j \in Inst \ kids : parentID'[j] = parentID[j] /\ spawnTaskID'[j] = spawnTaskID[j]
      /\ \A j \in kids : parentID'[j] = i /\ spawnTaskID'[j] = t /\ parentID[j] = None
      /\ \A j \in Inst \ (kids \cup {i}) :
            task'[j] = task[j] /\ status'[j] = status[j]
      /\ \A j \in Inst \ {i} : /\ waitState'[j] = waitState[j] /\ lease'[j] = lease[j]
                               /\ view'[j] = view[j] /\ batch'[j] = batch[j]
      /\ task'[i] = t /\ lease'[i] = "free" /\ waitState'[i] = "waiting" /\ batch'[i] = kids
  <2>1. \A j \in kids : parentID[j] = None
    BY <1>1, <1>3 DEF IInv, Shape
  <2>2. /\ waitState \in [Inst -> Wait] /\ lease \in [Inst -> {"free", "held", "expired"}]
        /\ view \in [Inst -> View] /\ batch \in [Inst -> SUBSET Inst]
    BY DEF IInv, TypeOK
  <2> QED
    BY <1>2, <1>3, <2>1, <2>2
<1>6. (SpawnsBehind(i) /\ SpawnsAhead(i) /\ RoutedFromRow(i))'
  <2>1. ChildrenForTask(i, t)' = kids
    BY <1>3, <1>4, <1>5 DEF ChildrenForTask
  <2>2. AfterSpawns(i, t)'
    BY <1>3, <1>4, <1>5 DEF AfterSpawns
  <2>3. SpawnsBehind(i)'
    BY <1>5, <2>1, <2>2 DEF SpawnsBehind, AfterSpawns, ChildrenForTask, Here
  <2> QED
    BY <1>5, <2>3 DEF SpawnsAhead, RoutedFromRow
<1>7. ASSUME NEW j \in kids
      PROVE  (SpawnsBehind(j) /\ SpawnsAhead(j) /\ RoutedFromRow(j))'
  <2>1. j \in Inst \ {i} /\ status[j] = "absent" /\ lease[j] # "held"
    BY <1>1, <1>3 DEF IInv, Parked, Active
  <2>2. \A k \in Inst : parentID[k] # j
    BY <2>1, IdsDistinct DEF IInv, Shape
  <2>3. \A k \in Inst : parentID'[k] # j
    BY <1>5, <2>1, <2>2
  <2>4. batch[j] = ChildrenForTask(j, Here(j))
    BY <2>1 DEF BatchInv, SpawnsBehind
  <2>5. batch'[j] = {}
    BY <1>5, <2>1, <2>2, <2>4 DEF ChildrenForTask
  <2>6. lease'[j] # "held"
    BY <1>5, <2>1
  <2> QED
    BY <2>3, <2>5, <2>6 DEF SpawnsBehind, SpawnsAhead, RoutedFromRow, AfterSpawns,
                            ChildrenForTask, Here
<1>8. ASSUME NEW j \in Inst \ (kids \cup {i})
      PROVE  (SpawnsBehind(j) /\ SpawnsAhead(j) /\ RoutedFromRow(j))'
  <2>1. SpawnsBehind(j) /\ SpawnsAhead(j) /\ RoutedFromRow(j) /\ j # None
    BY IdsDistinct DEF BatchInv
  <2>2. \A k \in Inst : /\ parentID'[k] = j <=> parentID[k] = j
                        /\ parentID[k] = j => spawnTaskID'[k] = spawnTaskID[k]
    BY <1>5, <2>1
  <2>3. \A u : ChildrenForTask(j, u)' = ChildrenForTask(j, u)
    BY <2>2 DEF ChildrenForTask
  <2>4. \A u : AfterSpawns(j, u) => AfterSpawns(j, u)'
    BY <2>2 DEF AfterSpawns
  <2> QED
    BY <1>5, <2>1, <2>3, <2>4 DEF SpawnsBehind, SpawnsAhead, RoutedFromRow, Here
<1> QED
  BY <1>3, <1>6, <1>7, <1>8 DEF BatchInv

\* The steps of operator, claims, crashes and timers move no batch.
LEMMA StartBatch ==
    ASSUME IInv, BatchInv, NEW i \in Inst, NEW t \in Task, StartInstance(i, t)
    PROVE  BatchInv'
<1>1. /\ UNCHANGED <<waitState, lease, parentID, spawnTaskID, view, batch>>
      /\ status[i] = "absent" /\ task'[i] = t
      /\ \A j \in Inst \ {i} : status'[j] = status[j] /\ task'[j] = task[j]
  BY DEF StartInstance, IInv, TypeOK
<1>2. lease[i] # "held" /\ i # None
  BY <1>1, IdsDistinct DEF IInv, Parked, Active
<1>3. \A k \in Inst : parentID[k] # i
  BY <1>1, <1>2 DEF IInv, Shape
<1>4. batch[i] = {}
  BY <1>3 DEF BatchInv, SpawnsBehind, ChildrenForTask
<1>5. (SpawnsBehind(i) /\ SpawnsAhead(i) /\ RoutedFromRow(i))'
  BY <1>1, <1>2, <1>3, <1>4 DEF SpawnsBehind, SpawnsAhead, RoutedFromRow, AfterSpawns,
                                ChildrenForTask, Here
<1>6. ASSUME NEW j \in Inst \ {i}
      PROVE  (SpawnsBehind(j) /\ SpawnsAhead(j) /\ RoutedFromRow(j))'
  BY <1>1, OtherBatches
<1> QED
  BY <1>5, <1>6 DEF BatchInv

\* Cancelling makes no instance healthy.
LEMMA CancelBatch ==
    ASSUME IInv, BatchInv, NEW i \in Inst, CancelProcess(i)
    PROVE  BatchInv'
<1>1. /\ UNCHANGED <<waitState, task, lease, parentID, spawnTaskID, view, batch>>
      /\ \A j \in Inst : status'[j] = "running" => status[j] = "running"
  BY DEF CancelProcess, ident
<1> QED
  BY <1>1 DEF BatchInv, SpawnsBehind, SpawnsAhead, RoutedFromRow, AfterSpawns, ChildrenForTask, Here

\* A revived node re-runs its task only where it has no children.
LEMMA RetryBatch ==
    ASSUME IInv, BatchInv, NEW i \in Inst, NEW force, RetryProcess(i, force)
    PROVE  BatchInv'
<1> DEFINE R    == Revived(i)
           live == R \cup {k \in Inst : status[k] \in Active}
<1>1. /\ UNCHANGED <<task, parentID, spawnTaskID, view, batch>>
      /\ parentID[i] = None /\ status[i] \in {"failed", "cancelled"}
      /\ status' = [j \in Inst |-> IF j \in R THEN "running" ELSE status[j]]
      /\ waitState' = [j \in Inst |-> IF j \in R THEN RevivedWait(j, live) ELSE waitState[j]]
      /\ lease' = [j \in Inst |-> IF j \in R THEN "free" ELSE lease[j]]
  BY DEF RetryProcess, ident
<1>2. \A j \in R : status[j] \in {"failed", "cancelled"}
  BY <1>1, RevivedSet
<1>3. \A j \in Inst : RevivedWait(j, live) = "none" => ChildrenForTask(j, task[j]) = {}
  BY DEF RevivedWait
<1> HIDE DEF R, live
<1>4. ASSUME NEW j \in Inst, j \in R
      PROVE  (SpawnsBehind(j) /\ SpawnsAhead(j) /\ RoutedFromRow(j))'
  <2>1. lease[j] # "held"
    BY <1>2, <1>4 DEF IInv, Parked, Active
  <2>2. SpawnsBehind(j)
    BY DEF BatchInv
  <2>3. batch'[j] = ChildrenForTask(j, task[j]) /\ AfterSpawns(j, task[j])
    BY <1>1, <2>1, <2>2 DEF SpawnsBehind, Here
  <2>4. task'[j] = task[j] /\ lease'[j] = "free" /\ waitState'[j] = RevivedWait(j, live)
    BY <1>1, <1>4
  <2>5. waitState'[j] = "none" => batch'[j] = {}
    BY <1>3, <2>3, <2>4
  <2> QED
    BY <1>1, <2>3, <2>4, <2>5, OwnBatch
<1>5. ASSUME NEW j \in Inst, j \notin R
      PROVE  (SpawnsBehind(j) /\ SpawnsAhead(j) /\ RoutedFromRow(j))'
  <2>1. status'[j] = status[j] /\ waitState'[j] = waitState[j] /\ lease'[j] = lease[j]
    BY <1>1, <1>5
  <2>2. SpawnsBehind(j) /\ SpawnsAhead(j) /\ RoutedFromRow(j)
    BY DEF BatchInv
  <2> QED
    BY <1>1, <2>1, <2>2 DEF SpawnsBehind, SpawnsAhead, RoutedFromRow, AfterSpawns,
                            ChildrenForTask, Here
<1> QED
  BY <1>4, <1>5 DEF BatchInv

\* A claim copies the row to the snapshot.
LEMMA ClaimBatch ==
    ASSUME IInv, BatchInv, NEW i \in Inst, Claim(i)
    PROVE  BatchInv'
<1>1. /\ UNCHANGED <<status, waitState, task, parentID, spawnTaskID, batch>>
      /\ lease[i] # "held" /\ lease'[i] = "held"
      /\ view'[i].status = status[i] /\ view'[i].task = task[i]
      /\ \A j \in Inst \ {i} : lease'[j] = lease[j] /\ view'[j] = view[j]
  BY DEF Claim, Claimable, ident, IInv, TypeOK
<1>2. SpawnsBehind(i) /\ SpawnsAhead(i)
  BY DEF BatchInv
<1>3. (SpawnsBehind(i) /\ SpawnsAhead(i) /\ RoutedFromRow(i))'
  BY <1>1, <1>2 DEF SpawnsBehind, SpawnsAhead, RoutedFromRow, AfterSpawns, ChildrenForTask, Here
<1>4. ASSUME NEW j \in Inst \ {i}
      PROVE  (SpawnsBehind(j) /\ SpawnsAhead(j) /\ RoutedFromRow(j))'
  BY <1>1, OtherBatches
<1> QED
  BY <1>3, <1>4 DEF BatchInv

\* A crash takes the instance back to its row: it is where it was, or at a task
\* without an action, which has no children and left no batch.
LEMMA CrashBatch ==
    ASSUME IInv, BatchInv, NEW i \in Inst, Crash(i)
    PROVE  BatchInv'
<1>1. /\ UNCHANGED <<status, waitState, task, parentID, spawnTaskID, batch>>
      /\ lease[i] = "held" /\ lease'[i] = "expired"
      /\ \A j \in Inst \ {i} : lease'[j] = lease[j] /\ view'[j] = view[j]
  BY DEF Crash, InFlight, ident, IInv, TypeOK
<1>2. SpawnsBehind(i) /\ SpawnsAhead(i) /\ RoutedFromRow(i)
  BY DEF BatchInv
<1>3. batch[i] = ChildrenForTask(i, task[i])
  <2>1. CASE view[i].task = task[i]
    BY <1>1, <1>2, <2>1 DEF SpawnsBehind, Here
  <2>2. CASE view[i].task # task[i]
    <3>1. batch[i] = {} /\ Kind[task[i]] = "route"
      BY <1>1, <1>2, <2>2 DEF RoutedFromRow
    <3>2. \A k \in Inst : parentID[k] = i => Kind[spawnTaskID[k]] = "child"
      BY IdsDistinct DEF IInv, AtChildTask
    <3> QED
      BY <3>1, <3>2 DEF ChildrenForTask
  <2> QED
    BY <2>1, <2>2
<1>4. AfterSpawns(i, task[i])
  BY <1>2 DEF SpawnsBehind
<1>5. waitState[i] = "none" /\ status[i] = "running" => batch[i] = {}
  <2>1. status[i] = "running" => view[i].status = "running"
    BY <1>1 DEF IInv, Flight
  <2> QED
    BY <1>1, <1>2, <2>1 DEF SpawnsAhead
<1>6. (SpawnsBehind(i) /\ SpawnsAhead(i) /\ RoutedFromRow(i))'
  BY <1>1, <1>3, <1>4, <1>5 DEF SpawnsBehind, SpawnsAhead, RoutedFromRow, AfterSpawns,
                                ChildrenForTask, Here
<1>7. ASSUME NEW j \in Inst \ {i}
      PROVE  (SpawnsBehind(j) /\ SpawnsAhead(j) /\ RoutedFromRow(j))'
  BY <1>1, OtherBatches
<1> QED
  BY <1>6, <1>7 DEF BatchInv

\* Every way an advance can end, or go on in memory.
LEMMA AdvanceBatch ==
    ASSUME ChildTasksVisitedOnce, IInv, BatchInv, NEW i \in Inst, Advance(i)
    PROVE  BatchInv'
<1>1. CASE SettleFailing(i) \/ CancelInstance(i) \/ FailInstance(i)
  <2>1. /\ lease[i] = "held" /\ UNCHANGED batch
        /\ SaveAndNotify(i, Settled(i)) \/ SaveAndNotify(i, Cancelled(i))
           \/ SaveAndNotify(i, Failed(i))
    BY <1>1 DEF SettleFailing, CancelInstance, FailInstance, InFlight
  <2>2. \A r \in {Settled(i), Cancelled(i), Failed(i)} :
           r \in View /\ r.status \in Terminal /\ r.task = view[i].task
    BY TerminalForms DEF IInv, Terminal
  <2> QED
    BY <2>1, <2>2, SettleBatch
<1>2. CASE \E g \in Task : Route(i, g)
  BY <1>2, RouteBatch
<1>3. ASSUME NEW g, Leave(i, g), At(i, Kind[view[i].task]), g \in Goto[view[i].task]
      PROVE  BatchInv'
  <2>1. lease[i] = "held" /\ view[i].status = "running"
    BY <1>3 DEF At, InFlight
  <2> QED
    BY <1>3, <2>1, LeaveBatch
<1>4. CASE \E g \in Task \cup {"end"} : RouteAndSave(i, g) \/ CallSucceeds(i, g) \/ DelayPassed(i, g)
  BY <1>3, <1>4 DEF RouteAndSave, CallSucceeds, DelayPassed, At
<1>5. CASE \E c \in Code : RetryScheduled(i, c) \/ ErrorRoute(i, c) \/ CallFails(i, c)
  BY <1>5, CallErrorBatch
<1>6. CASE DelayArmed(i)
  <2> DEFINE v == view[i]
             w == [v EXCEPT !.wake = "pending"]
  <2>1. /\ UpdateInstanceProgress(i, w) /\ UNCHANGED batch
        /\ lease[i] = "held" /\ v.status = "running" /\ Kind[v.task] = "delay"
    BY <1>6 DEF DelayArmed, At, InFlight
  <2>2. v \in View
    BY DEF IInv, TypeOK
  <2> HIDE DEF v
  <2>3. w \in View /\ w.task = v.task
    BY <2>2 DEF View, Wake
  <2> HIDE DEF w
  <2> QED
    BY <2>1, <2>3, ProgressBatch DEF v
<1>7. CASE \E f \in [Spawns[view[i].task] -> Kids] : SpawnChildrenAndWait(i, f)
  BY <1>7, SpawnBatch
<1>8. CASE \E g \in Task \cup {"end"}, merged \in SUBSET Kids : CollectChildOutputs(i, g, merged)
  BY <1>3, <1>8 DEF CollectChildOutputs, At
<1> QED
  BY <1>1, <1>2, <1>4, <1>5, <1>6, <1>7, <1>8 DEF Advance

\* Every step of any actor keeps the batches.
LEMMA NextBatch ==
    ASSUME ChildTasksVisitedOnce, IInv, BatchInv, [Next]_vars
    PROVE  BatchInv'
<1>1. ASSUME NEW i \in Roots, NEW t \in Entry, StartInstance(i, t) PROVE BatchInv'
  BY <1>1, StartBatch, DefinitionsValid DEF Inst
<1>2. ASSUME NEW i \in Roots, CancelProcess(i) PROVE BatchInv'
  BY <1>2, CancelBatch DEF Inst
<1>3. ASSUME NEW i \in Roots, NEW force \in BOOLEAN, RetryProcess(i, force) PROVE BatchInv'
  BY <1>3, RetryBatch DEF Inst
<1>4. ASSUME NEW i \in Inst, Claim(i) \/ Advance(i) \/ Crash(i) PROVE BatchInv'
  BY <1>4, ClaimBatch, AdvanceBatch, CrashBatch
<1>5. CASE (\E i \in Inst : TimerDue(i)) \/ UNCHANGED vars
  <2>1. UNCHANGED <<status, waitState, task, lease, view, parentID, spawnTaskID, batch>>
    BY <1>5 DEF TimerDue, vars, row, ident
  <2> QED
    BY <2>1 DEF BatchInv, SpawnsBehind, SpawnsAhead, RoutedFromRow, AfterSpawns,
                ChildrenForTask, Here
<1> QED
  BY <1>1, <1>2, <1>3, <1>4, <1>5 DEF Next, Api

\* A step that changes a result merges children of the current batch.
Merges ==
    \A i \in Inst : result'[i] # result[i] => result'[i] \subseteq batch[i]

\* Only a collect writes a result, from the children of the task it is at.
LEMMA StepMerges ==
    ASSUME IInv, BatchInv, [Next]_vars
    PROVE  Merges
<1>1. CASE UNCHANGED result
  BY <1>1 DEF Merges
<1>2. ASSUME NEW i \in Inst, NEW g, NEW merged, CollectChildOutputs(i, g, merged)
      PROVE  Merges
  <2>1. /\ result' = [result EXCEPT ![i] = merged] /\ lease[i] = "held"
        /\ merged \subseteq ChildrenForTask(i, view[i].task)
    BY <1>2 DEF CollectChildOutputs, At, InFlight
  <2>2. batch[i] = ChildrenForTask(i, view[i].task)
    BY <2>1, FlightBatch
  <2>3. \A j \in Inst \ {i} : result'[j] = result[j]
    BY <2>1 DEF IInv, TypeOK
  <2>4. result'[i] = merged
    BY <2>1 DEF IInv, TypeOK
  <2> QED
    BY <2>1, <2>2, <2>3, <2>4 DEF Merges
<1>3. ASSUME NEW i \in Inst, Advance(i),
             ~(\E g \in Task \cup {"end"}, merged \in SUBSET Kids : CollectChildOutputs(i, g, merged))
      PROVE  UNCHANGED result
  BY <1>3 DEF Advance, SettleFailing, CancelInstance, FailInstance, Route, RouteAndSave,
              CallSucceeds, DelayPassed, RetryScheduled, ErrorRoute, CallFails, DelayArmed,
              SpawnChildrenAndWait
<1>4. (\E i \in Inst : Claim(i) \/ Crash(i) \/ TimerDue(i)) \/ Api \/ UNCHANGED vars
         => UNCHANGED result
  BY DEF Claim, Crash, TimerDue, Api, StartInstance, CancelProcess, RetryProcess, vars
<1> QED
  BY <1>1, <1>2, <1>3, <1>4 DEF Next

\* Where no definition comes back to a child task, a task merges only outputs of the
\* children that this visit spawned, through retries, crashes and failed siblings.
THEOREM VisitsMergeTheirOwn == ChildTasksVisitedOnce /\ Spec => MergesOwnBatch
<1> SUFFICES ASSUME ChildTasksVisitedOnce PROVE Spec => MergesOwnBatch
  OBVIOUS
<1>1. Init => BatchInv
  <2> SUFFICES ASSUME Init PROVE BatchInv
    OBVIOUS
  <2>1. \A i \in Inst : parentID[i] = None /\ batch[i] = {} /\ lease[i] = "free"
    BY DEF Init
  <2> QED
    BY <2>1, IdsDistinct DEF BatchInv, SpawnsBehind, SpawnsAhead, RoutedFromRow, AfterSpawns,
                             ChildrenForTask
<1>2. IInv /\ BatchInv /\ [Next]_vars => [Merges]_vars
  BY StepMerges
<1>3. IInv /\ BatchInv /\ [Next]_vars => BatchInv'
  BY NextBatch
<1> QED
  BY <1>1, <1>2, <1>3, Invariance, PTL DEF Spec, MergesOwnBatch, Merges
==============================================================================
