----------------------------- MODULE FlowProofs -----------------------------
(***************************************************************************)
(* Proofs about Flow, for every set of definitions and every bound.        *)
(*                                                                         *)
(* TypeOK is inductive with the types of what it leaves out (FlowTypes).   *)
(* The other properties follow from PathInv: how an advance relates to the *)
(* row it was claimed from, what attempts and timers of a row mean, and    *)
(* where the one request of an only_once task can be accounted for.  It    *)
(* needs that task ids are distinct: a saved row names its task by id.     *)
(***************************************************************************)
EXTENDS Flow, FiniteSetTheorems, TLAPS

\* The types of the parts that TypeOK leaves out.
Visits == [requests : [DOMAIN def -> Nat], reached : [DOMAIN def -> 0 .. 2],
           armed : BOOLEAN, reruns : Nat]

FlowTypes ==
    /\ def \in Definitions /\ visit \in Visits
    /\ row # NULL => Validate(def)
    /\ adv # NULL =>
         /\ adv \in Advances /\ row # NULL
         /\ row.status \in {"running", "cancelling"}
         /\ adv.stale \subseteq Ids(def)

TypeInv == TypeOK /\ FlowTypes

\* The position at which a claim resumes.
Resume == taskIndex(def, row.task)

\* An advance starts with what the row says; once it has gone on in memory it has
\* neither attempts nor a timer, and the row names a task without a call.
Resumed ==
    adv # NULL =>
        /\ adv.i = 0 => adv.idx = Resume /\ adv.retry = row.retry /\ adv.wake = row.wake
        /\ adv.i # 0 => def[Resume].call = "none" /\ adv.retry = 0 /\ adv.wake = NULL

\* Only calls are answered.
AnswersToCalls == adv # NULL /\ adv.answer # NULL => Task.call = "rest"

\* Only calls are requested and received.
RequestsOfCalls ==
    \A p \in DOMAIN def : visit.requests[p] # 0 \/ visit.reached[p] # 0 => def[p].call = "rest"

\* Attempts belong to a call, and the timer of a row with attempts is that of the last one.
TimersOfRetries ==
    row # NULL /\ row.retry # 0 =>
        /\ def[Resume].call = "rest"
        /\ row.wake # NULL => row.wake = RetryDelay(row.retry)

\* A timer of a row at a delay was armed by the delay.
TimersOfDelays ==
    row # NULL /\ def[Resume].call = "delay" /\ row.wake # NULL => visit.armed

\* The most attempts that a rule of a task allows.
Most(d, p) == Max({0} \cup {d[p].onError[k].retries : k \in DOMAIN d[p].onError})
Allowed(p) == Most(def, p)

AttemptsAllowed ==
    /\ row # NULL => row.retry <= Allowed(Resume)
    /\ adv # NULL => adv.retry <= Allowed(adv.idx)

\* The requests of a visit that failed are covered by attempts, by reruns and, while the
\* last one is being handled or has ended the process, by one more.
Covered(p) ==
    IF adv # NULL
    THEN IF adv.idx = p
         THEN /\ adv.answer = "ok" => visit.requests[p] = 0
              /\ adv.answer = NULL => visit.requests[p] <= visit.reruns + adv.retry
              /\ visit.requests[p] <= visit.reruns + adv.retry + 1
         ELSE visit.requests[p] <= visit.reruns
    ELSE IF row # NULL /\ Resume = p
         THEN /\ row.status \notin {"completed", "failed"} =>
                   visit.requests[p] <= visit.reruns + row.retry
              /\ visit.requests[p] <= visit.reruns + row.retry + 1
         ELSE visit.requests[p] <= visit.reruns

RequestsCovered == \A p \in DOMAIN def : Covered(p)

Excused(p) == \E why \in {"asserted", "forced", "reset", "inlined"} : <<p, why>> \in excused

\* The server has had the request, and whoever looks at the task next knows: the advance
\* has the answer, or the row names the task and is not to be run or is taken over.
Spent(p) ==
    /\ visit.reached[p] = 1
    /\ adv # NULL => adv.idx = p /\ adv.answer # NULL /\ Reached(adv.answer)
    /\ adv = NULL => row # NULL /\ Resume = p /\ (row.status # "running" \/ row.lease = "lost")

OnceSpent ==
    \A p \in DOMAIN def : def[p].once /\ visit.reached[p] # 0 => Excused(p) \/ Spent(p)

PathInv ==
    /\ Resumed /\ AnswersToCalls /\ RequestsOfCalls
    /\ TimersOfRetries /\ TimersOfDelays
    /\ AttemptsAllowed /\ RequestsCovered /\ OnceSpent

FlowInv == TypeInv /\ (Distinct(def) => PathInv)

------------------------------------------------------------------------------
(* Minima, maxima and positions. *)

\* Min is the least element.
LEMMA MinIsLeast ==
    ASSUME NEW S \in SUBSET Nat, S # {}
    PROVE  Min(S) \in S /\ \A m \in S : Min(S) <= m
<1> DEFINE less == OpToRel(<, Nat)
<1>1. \A n, m \in Nat : <<m, n>> \in less <=> m < n
  BY DEF OpToRel
<1>2. IsWellFoundedOn(less, Nat)
  BY NatLessThanWellFounded
<1>3. \E n \in S : \A m \in S : n <= m
  <2> HIDE DEF less
  <2>1. PICK n \in S : \A m \in S : ~(<<m, n>> \in less)
    BY <1>2, WFMin
  <2>2. \A m \in S : ~(m < n)
    BY <1>1, <2>1
  <2> QED
    BY <2>2
<1> QED
  BY <1>3 DEF Min

\* A finite sequence of integers has a bound: the first position up to which there
\* were none would have a bound before it.
LEMMA SequenceBounded ==
    ASSUME NEW n \in Nat, NEW f \in [1 .. n -> Int]
    PROVE  \E m \in Nat : \A k \in 1 .. n : f[k] <= m
<1> DEFINE Bounded(j) == \E m \in Nat : \A k \in 1 .. j : f[k] <= m
           without == {j \in 0 .. n : ~Bounded(j)}
<1> SUFFICES ASSUME ~Bounded(n) PROVE FALSE
  OBVIOUS
<1>1. without \in SUBSET Nat /\ without # {}
  <2>1. n \in 0 .. n
    OBVIOUS
  <2> QED
    <3> HIDE DEF Bounded
    <3> QED  BY <2>1
<1>2. Min(without) \in without /\ \A j \in without : Min(without) <= j
  <2> HIDE DEF without
  <2> QED  BY <1>1, MinIsLeast
<1>3. PICK j \in 0 .. n : ~Bounded(j) /\ \A i \in 0 .. n : ~Bounded(i) => j <= i
  BY <1>2
<1>4. j # 0
  BY <1>3
<1>5. j \in 1 .. n /\ j - 1 \in 0 .. n /\ ~(j <= j - 1)
  BY <1>4
<1>6. Bounded(j - 1)
  <2> HIDE DEF Bounded
  <2> QED  BY <1>3, <1>5
<1>7. PICK m \in Nat : \A k \in 1 .. j - 1 : f[k] <= m
  BY <1>6
<1>8. PICK u \in Nat : m <= u /\ f[j] <= u
  <2>1. \A a \in Nat, b \in Int : \E u \in Nat : a <= u /\ b <= u
    <3> TAKE a \in Nat, b \in Int
    <3>1. CASE b <= a
      <4>1. a <= a
        OBVIOUS
      <4> QED  BY <3>1, <4>1
    <3>2. CASE a < b
      <4>1. b \in Nat /\ a <= b /\ b <= b
        BY <3>2
      <4> QED  BY <4>1
    <3> QED  BY <3>1, <3>2
  <2>2. f[j] \in Int
    BY <1>5
  <2> QED  BY <2>1, <2>2
<1>9. ASSUME NEW k \in 1 .. j PROVE f[k] <= u
  <2>1. CASE k = j
    BY <2>1, <1>8
  <2>2. CASE k # j
    <3>1. k \in 1 .. j - 1 /\ k \in 1 .. n
      BY <1>5, <2>2
    <3>2. f[k] <= m /\ f[k] \in Int
      BY <1>7, <3>1
    <3> QED  BY <1>8, <3>2
  <2> QED  BY <2>1, <2>2
<1> QED
  BY <1>3, <1>9

\* The greatest of finitely many integers and zero is one of them.
LEMMA MaxIsGreatest ==
    ASSUME NEW n \in Nat, NEW f \in [1 .. n -> Int]
    PROVE  LET S == {0} \cup {f[k] : k \in 1 .. n} IN
           Max(S) \in S /\ \A s \in S : s <= Max(S)
<1> DEFINE S     == {0} \cup {f[k] : k \in 1 .. n}
           above == {m \in Nat : \A s \in S : s <= m}
<1>1. S \subseteq Int /\ 0 \in S
  OBVIOUS
<1>2. above \in SUBSET Nat /\ above # {}
  <2>1. PICK m \in Nat : \A k \in 1 .. n : f[k] <= m
    BY SequenceBounded
  <2>2. \A s \in S : s <= m
    BY <2>1
  <2> QED
    <3> HIDE DEF S
    <3> QED  BY <2>2
<1>3. Min(above) \in above /\ \A m \in above : Min(above) <= m
  <2> HIDE DEF above
  <2> QED  BY <1>2, MinIsLeast
<1> HIDE DEF S
<1>4. PICK m \in Nat : (\A s \in S : s <= m) /\ \A u \in Nat : (\A s \in S : s <= u) => m <= u
  BY <1>3
<1>5. m \in S
  <2> SUFFICES ASSUME m \notin S PROVE FALSE
    OBVIOUS
  <2>1. m # 0 /\ \A s \in S : s <= m - 1
    BY <1>1, <1>4
  <2> QED
    BY <1>4, <2>1
<1>6. \E x \in S : \A y \in S : x >= y
  BY <1>1, <1>4, <1>5
<1>7. Max(S) \in S /\ \A s \in S : Max(S) >= s
  BY <1>6 DEF Max
<1> QED
  BY <1>1, <1>7 DEF S

------------------------------------------------------------------------------
(* Definitions. *)

\* A definition is a sequence of at least one task.
LEMMA Forms ==
    ASSUME NEW d \in Definitions
    PROVE  /\ d \in Seq(TaskForm) /\ Len(d) \in Nat /\ DOMAIN d = 1 .. Len(d) /\ 1 \in DOMAIN d
           /\ \A i \in DOMAIN d : d[i] \in TaskForm
<1>1. d \in Seq(TaskForm) /\ d # <<>>
  BY DefinitionForms
<1> QED
  BY <1>1

\* taskIndex finds a task with the id.
LEMMA IndexType ==
    ASSUME NEW d \in Definitions, NEW id \in Ids(d)
    PROVE  taskIndex(d, id) \in DOMAIN d /\ d[taskIndex(d, id)].id = id
<1> DEFINE named == {i \in DOMAIN d : d[i].id = id}
<1>1. named \in SUBSET Nat /\ named # {}
  BY Forms DEF Ids
<1>2. Min(named) \in named
  <2> HIDE DEF named
  <2> QED  BY <1>1, MinIsLeast
<1> QED
  BY <1>2 DEF taskIndex

\* With distinct ids, the position of a task is that of its id.
LEMMA IndexOfId ==
    ASSUME NEW d \in Definitions, Distinct(d), NEW i \in DOMAIN d
    PROVE  taskIndex(d, d[i].id) = i
<1> DEFINE f == [k \in 1 .. Len(d) |-> d[k].id]
<1>1. DOMAIN d = 1 .. Len(d) /\ Len(d) \in Nat
  BY Forms
<1>2. f \in Surjection(1 .. Len(d), Ids(d))
  BY <1>1 DEF Surjection, Ids
<1>3. IsFiniteSet(1 .. Len(d)) /\ Cardinality(1 .. Len(d)) = Len(d)
  <2> DEFINE n == Len(d)
  <2>1. n \in Nat
    BY <1>1
  <2> HIDE DEF n
  <2>2. IsFiniteSet(1 .. n) /\ Cardinality(1 .. n) = IF 1 > n THEN 0 ELSE n - 1 + 1
    BY <2>1, FS_Interval
  <2>3. Cardinality(1 .. n) = n
    BY <2>1, <2>2
  <2> QED  BY <2>2, <2>3 DEF n
<1>4. Cardinality(1 .. Len(d)) = Cardinality(Ids(d))
  BY <1>3 DEF Distinct
<1>5. f \in Injection(1 .. Len(d), Ids(d))
  <2> HIDE DEF f
  <2> QED  BY <1>2, <1>3, <1>4, FS_SurjSameCardinalityImpliesInj
<1>6. ASSUME NEW j \in DOMAIN d, d[j].id = d[i].id PROVE j = i
  <2>1. f[j] = f[i]
    BY <1>1, <1>6
  <2> QED
    <3> HIDE DEF f
    <3> QED  BY <1>1, <1>5, <2>1 DEF Injection, IsInjective
<1>7. d[i].id \in Ids(d)
  BY DEF Ids
<1> QED
  BY <1>6, <1>7, IndexType

\* A switch leads to a task.
LEMMA TargetType ==
    ASSUME NEW d \in Definitions, Validate(d), NEW i \in DOMAIN d, NEW g \in d[i].switch, g # End
    PROVE  (IF g = Next_ THEN i + 1 ELSE taskIndex(d, g)) \in DOMAIN d
<1>1. DOMAIN d = 1 .. Len(d) /\ Len(d) \in Nat
  BY Forms
<1>2. validSwitch(d, i) /\ Next_ \notin Ids(d)
  BY DEF Validate, Ids
<1>3. CASE g = Next_
  BY <1>1, <1>2, <1>3 DEF validSwitch
<1>4. CASE g # Next_
  <2>1. g \in Ids(d)
    BY <1>2, <1>4 DEF validSwitch
  <2> QED  BY <1>4, <2>1, IndexType
<1> QED
  BY <1>3, <1>4

\* The most attempts that the rules of a task allow are a number, and none allows more.
LEMMA AllowedType ==
    ASSUME NEW d \in Definitions, NEW i \in DOMAIN d
    PROVE  Most(d, i) \in Nat /\ \A k \in DOMAIN d[i].onError : d[i].onError[k].retries <= Most(d, i)
<1> DEFINE rules == d[i].onError
           f == [k \in 1 .. Len(rules) |-> rules[k].retries]
           S == {0} \cup {f[k] : k \in 1 .. Len(rules)}
           T == {0} \cup {rules[k].retries : k \in DOMAIN rules}
<1>1. rules \in Seq(ErrorCase)
  BY Forms DEF TaskForm
<1>2. DOMAIN rules = 1 .. Len(rules) /\ Len(rules) \in Nat
  BY <1>1
<1>3. \A k \in DOMAIN rules : rules[k].retries \in Int
  <2> HIDE DEF rules
  <2>1. \A k \in DOMAIN rules : rules[k] \in ErrorCase
    BY <1>1
  <2> QED  BY <2>1 DEF ErrorCase
<1>4. f \in [1 .. Len(rules) -> Int]
  BY <1>2, <1>3
<1>5. Max(S) \in S /\ \A s \in S : s <= Max(S)
  <2> HIDE DEF f
  <2> QED  BY <1>2, <1>4, MaxIsGreatest
<1>6. S = T
  BY <1>2
<1>7. Max(T) \in T /\ \A s \in T : s <= Max(T)
  <2> HIDE DEF S, T
  <2> QED  BY <1>5, <1>6
<1>8. Max(T) \in Nat
  <2>1. T \subseteq Int /\ 0 \in T
    <3> HIDE DEF rules
    <3> QED  BY <1>3
  <2> HIDE DEF T
  <2>2. Max(T) \in Int /\ 0 <= Max(T)
    BY <1>7, <2>1
  <2> QED  BY <2>2
<1> QED
  BY <1>7, <1>8 DEF Most

\* The rule for a code is one of the task or none.
LEMMA RuleIsOne ==
    ASSUME NEW d \in Definitions, NEW i \in DOMAIN d, NEW code
    PROVE  \/ matchOnError(d[i], code) = NoRule
           \/ \E k \in DOMAIN d[i].onError : matchOnError(d[i], code) = d[i].onError[k]
<1> DEFINE hits == {k \in DOMAIN d[i].onError :
                      \/ d[i].onError[k].code = {}
                      \/ \E p \in d[i].onError[k].code : code \in Like[p]}
<1>1. hits \in SUBSET Nat
  <2>1. d[i].onError \in Seq(ErrorCase)
    BY Forms DEF TaskForm
  <2> QED  BY <2>1
<1>2. CASE hits = {}
  BY <1>2 DEF matchOnError
<1>3. CASE hits # {}
  <2>1. Min(hits) \in hits
    <3> HIDE DEF hits
    <3> QED  BY <1>1, <1>3, MinIsLeast
  <2> QED  BY <1>3, <2>1 DEF matchOnError
<1> QED
  BY <1>2, <1>3

\* A rule allows a number of attempts and leads to a task, to the end or nowhere.
LEMMA RuleType ==
    ASSUME NEW d \in Definitions, Validate(d), NEW i \in DOMAIN d, NEW code
    PROVE  /\ matchOnError(d[i], code).retries \in Int
           /\ matchOnError(d[i], code).retries <= Most(d, i)
           /\ matchOnError(d[i], code).goto \in Ids(d) \cup {"", End}
<1>1. Most(d, i) \in Nat /\ \A k \in DOMAIN d[i].onError : d[i].onError[k].retries <= Most(d, i)
  BY AllowedType
<1>2. CASE matchOnError(d[i], code) = NoRule
  <2>1. NoRule.retries = 0 /\ NoRule.goto = ""
    BY DEF NoRule
  <2>2. matchOnError(d[i], code).retries = 0 /\ matchOnError(d[i], code).goto = ""
    BY <1>2, <2>1
  <2>3. 0 \in Int /\ 0 <= Most(d, i)
    BY <1>1
  <2> HIDE <1>1, <1>2
  <2> QED  BY <2>2, <2>3
<1>3. ASSUME NEW k \in DOMAIN d[i].onError, matchOnError(d[i], code) = d[i].onError[k]
      PROVE  /\ matchOnError(d[i], code).retries \in Int
             /\ matchOnError(d[i], code).retries <= Most(d, i)
             /\ matchOnError(d[i], code).goto \in Ids(d) \cup {"", End}
  <2>1. d[i].onError \in Seq(ErrorCase)
    BY Forms DEF TaskForm
  <2>2. d[i].onError[k].retries \in Int
    <3> DEFINE rules == d[i].onError
    <3> HIDE DEF rules
    <3>1. rules[k] \in ErrorCase
      BY <1>3, <2>1 DEF rules
    <3>2. rules[k].retries \in Int
      BY <3>1 DEF ErrorCase
    <3> QED  BY <3>2 DEF rules
  <2>3. d[i].onError[k].goto \in Ids(d) \cup {"", End}
    BY DEF Validate, validOnError
  <2> QED  BY <1>1, <1>3, <2>2, <2>3
<1> QED
  BY <1>2, <1>3, RuleIsOne

\* The delay of a retry is an integer; up to the 33rd it is the backoff.
LEMMA DelayType ==
    ASSUME NEW n \in Nat
    PROVE  RetryDelay(n) \in Int /\ (n <= 33 => RetryDelay(n) = Backoff(n))
<1>1. CASE n >= 55
  BY <1>1 DEF RetryDelay
<1>2. CASE n < 55 /\ n >= 9
  BY <1>2 DEF RetryDelay, Backoff
<1>3. CASE n < 9
  <2>1. RetryDelay(n) = 2 ^ n /\ Backoff(n) = 2 ^ n
    BY <1>3 DEF RetryDelay, Backoff
  <2>2. n \in {0, 1, 2, 3, 4, 5, 6, 7, 8}
    BY <1>3
  <2>3. 2 ^ n \in Int
    BY <2>2
  <2> QED  BY <1>3, <2>1, <2>3
<1> QED
  BY <1>1, <1>2, <1>3

------------------------------------------------------------------------------
(* Types. *)

\* What the type invariant says of a definition, a row and an advance.
LEMMA Typed ==
    ASSUME TypeInv, row # NULL
    PROVE  /\ row \in Rows /\ row.task \in Ids(def)
           /\ row.outputs \subseteq Ids(def) /\ row.stale \subseteq Ids(def)
           /\ def \in Definitions /\ Validate(def) /\ Resume \in DOMAIN def
<1>1. row \in Instance /\ def \in Definitions /\ Validate(def)
  BY DEF TypeInv, TypeOK, FlowTypes
<1>2. row.task \in Ids(def)
  BY <1>1 DEF Instance
<1> QED
  BY <1>1, <1>2, IndexType DEF Instance, Resume

\* The same of an advance and its task.
LEMMA TypedAdvance ==
    ASSUME TypeInv, adv # NULL
    PROVE  /\ adv \in Advances /\ adv.idx \in DOMAIN def
           /\ adv.outputs \subseteq Ids(def) /\ adv.stale \subseteq Ids(def)
           /\ row # NULL /\ Task \in TaskForm /\ Task.id \in Ids(def)
<1>1. def \in Definitions /\ adv.idx \in DOMAIN def
  BY DEF TypeInv, TypeOK, FlowTypes
<1>2. Task \in TaskForm
  BY <1>1, Forms DEF Task
<1> QED
  BY <1>1, <1>2 DEF TypeInv, TypeOK, FlowTypes, Task, Ids

\* A save writes a row of the right type, and nobody holds its lease.
LEMMA SavedType ==
    ASSUME TypeInv, adv # NULL, NEW a \in Advances,
           a.outputs \subseteq Ids(def), a.stale \subseteq Ids(def), NEW idx \in DOMAIN def,
           NEW s \in {"running", "cancelling", "completed", "failed"}
    PROVE  /\ Saved(a, idx, s) \in Instance /\ Saved(a, idx, s).lease = "none"
           /\ Saved(a, idx, s).status = s /\ Saved(a, idx, s).wake = a.wake
           /\ Saved(a, idx, s).retry = a.retry /\ Saved(a, idx, s).task = def[idx].id
<1>1. row \in Rows /\ def \in Definitions
  BY Typed, TypedAdvance
<1>2. def[idx].id \in STRING /\ def[idx].id \in Ids(def)
  BY <1>1, Forms DEF TaskForm, Ids
<1>3. Saved(a, idx, s) \in Rows
  BY <1>1, <1>2 DEF Saved, Rows, Advances
<1>4. /\ Saved(a, idx, s).lease = "none" /\ Saved(a, idx, s).status = s
      /\ Saved(a, idx, s).wake = a.wake /\ Saved(a, idx, s).retry = a.retry
      /\ Saved(a, idx, s).task = def[idx].id /\ Saved(a, idx, s).outputs = a.outputs
      /\ Saved(a, idx, s).stale = a.stale
  BY <1>1 DEF Saved, Rows
<1> QED
  BY <1>2, <1>3, <1>4 DEF Instance

\* A step that ends an advance with a save keeps the types.
LEMMA SaveKeepsTypes ==
    ASSUME TypeInv, adv # NULL, NEW a \in Advances,
           a.outputs \subseteq Ids(def), a.stale \subseteq Ids(def), NEW idx \in DOMAIN def,
           NEW s \in {"running", "cancelling", "completed", "failed"},
           s \in {"completed", "failed"} => a.wake = NULL,
           row' = Saved(a, idx, s), adv' = NULL, visit' \in Visits,
           UNCHANGED <<def, static, crashes, orders>>
    PROVE  TypeInv'
<1>1. row' \in Instance /\ row'.lease = "none" /\ row'.status = s /\ row'.wake = a.wake
  BY SavedType
<1>2. Validate(def)
  BY Typed, TypedAdvance
<1>3. TypeOK'
  BY <1>1 DEF TypeInv, TypeOK, Instance
<1>4. FlowTypes'
  BY <1>2 DEF TypeInv, FlowTypes, Visits
<1> QED
  BY <1>3, <1>4 DEF TypeInv

\* A fresh count of a visit has the right type.
LEMMA NoneType == None \in Visits
BY DEF None, Visits

\* The forms in which an advance is saved.
LEMMA SavedForms ==
    ASSUME TypeInv, adv # NULL
    PROVE  /\ \A done \in BOOLEAN :
               LET a == [adv EXCEPT !.wake = NULL,
                                !.retry = IF adv.answer = "ok" THEN 0 ELSE @,
                                !.outputs = IF done /\ Task.output THEN @ \cup {Task.id} ELSE @,
                                !.stale = IF done THEN @ \ {Task.id} ELSE @]
               IN a \in Advances /\ a.outputs \subseteq Ids(def) /\ a.stale \subseteq Ids(def)
           /\ WithOutput \in Advances
           /\ WithOutput.outputs \subseteq Ids(def) /\ WithOutput.stale \subseteq Ids(def)
           /\ WithError \in Advances
           /\ WithError.outputs \subseteq Ids(def) /\ WithError.stale \subseteq Ids(def)
<1>1. /\ adv \in Advances /\ Task.id \in Ids(def) /\ Task.id \in STRING
      /\ adv.outputs \subseteq Ids(def) /\ adv.stale \subseteq Ids(def)
  BY TypedAdvance DEF TaskForm
<1>2. ASSUME NEW o \in BOOLEAN
      PROVE  (IF o THEN adv.outputs \cup {Task.id} ELSE adv.outputs) \in SUBSET STRING
  BY <1>1 DEF Advances
<1>3. ASSUME NEW o \in BOOLEAN
      PROVE  (IF o THEN adv.outputs \cup {Task.id} ELSE adv.outputs) \subseteq Ids(def)
  BY <1>1
<1>4. Task.output \in BOOLEAN
  BY TypedAdvance DEF TaskForm
<1>5. ASSUME NEW done \in BOOLEAN, NEW a,
             a = [adv EXCEPT !.wake = NULL,
                             !.retry = IF adv.answer = "ok" THEN 0 ELSE @,
                             !.outputs = IF done /\ Task.output THEN @ \cup {Task.id} ELSE @,
                             !.stale = IF done THEN @ \ {Task.id} ELSE @]
      PROVE  a \in Advances /\ a.outputs \subseteq Ids(def) /\ a.stale \subseteq Ids(def)
  <2>1. (done /\ Task.output) \in BOOLEAN
    OBVIOUS
  <2>2. (IF done /\ Task.output THEN adv.outputs \cup {Task.id} ELSE adv.outputs) \in SUBSET STRING
    BY <1>2, <2>1
  <2>3. (IF done /\ Task.output THEN adv.outputs \cup {Task.id} ELSE adv.outputs) \subseteq Ids(def)
    BY <1>3, <2>1
  <2>4. (IF adv.answer = "ok" THEN 0 ELSE adv.retry) \in Nat
    BY <1>1 DEF Advances
  <2> QED  BY <1>1, <1>5, <2>2, <2>3, <2>4 DEF Advances
<1>6. WithOutput \in Advances /\ WithOutput.outputs \subseteq Ids(def) /\ WithOutput.stale \subseteq Ids(def)
  BY <1>1, <1>2, <1>3, <1>4 DEF WithOutput, Advances
<1>7. WithError \in Advances /\ WithError.outputs \subseteq Ids(def) /\ WithError.stale \subseteq Ids(def)
  BY <1>1 DEF WithError, Advances
<1> QED
  BY <1>5, <1>6, <1>7

\* Init has the types.
LEMMA InitType == Init => TypeInv
<1> SUFFICES ASSUME Init PROVE TypeInv
  OBVIOUS
<1>1. visit \in Visits
  BY NoneType DEF Init
<1> QED
  BY <1>1, FlowConstants DEF Init, TypeInv, TypeOK, FlowTypes

\* A registered instance is at the first task.
LEMMA RegisterType == TypeInv /\ Register => TypeInv'
<1> SUFFICES ASSUME TypeInv, Register PROVE TypeInv'
  OBVIOUS
<1>1. /\ adv = NULL /\ adv' = NULL
      /\ UNCHANGED <<def, adv, visit, excused, crashes, orders>>
  BY DEF Register, TypeInv, FlowTypes
<1>2. CASE row' = NULL
  BY <1>1, <1>2 DEF TypeInv, TypeOK, FlowTypes, Visits
<1>3. CASE row' # NULL
  <2>1. /\ Validate(def)
        /\ row' = [status |-> "running", task |-> def[1].id, retry |-> 0,
                   wake |-> NULL, outputs |-> {}, error |-> FALSE, lease |-> "none",
                   stale |-> {}, revived |-> FALSE]
    BY <1>3 DEF Register
  <2>2. def[1].id \in Ids(def) /\ def[1].id \in STRING
    BY Forms DEF TypeInv, FlowTypes, Ids, TaskForm
  <2>3. row' \in Instance
    BY <2>1, <2>2 DEF Instance, Rows
  <2>4. row'.lease = "none" /\ row'.status = "running"
    BY <2>1
  <2>5. Instance' = Instance /\ Validate(def)'
    BY <1>1, <2>1 DEF Instance
  <2> QED
    BY <1>1, <2>3, <2>4, <2>5 DEF TypeInv, TypeOK, FlowTypes, Visits
<1> QED
  BY <1>2, <1>3

\* A write to a row of which nobody holds the lease.
LEMMA IdleWriteType ==
    ASSUME TypeInv, row # NULL, adv = NULL, adv' = NULL, row' \in Instance, row'.lease # "held",
           row'.status \in {"completed", "failed"} => row'.wake = NULL, visit' \in Visits,
           UNCHANGED <<def, crashes>>, orders' \in 0 .. MaxOrders
    PROVE  TypeInv'
<1>1. Validate(def)'
  BY Typed
<1> QED
  BY <1>1 DEF TypeInv, TypeOK, FlowTypes, Visits, Instance

\* The writes of a worker that claims an instance it is not to run.
LEMMA RefusedClaimType == TypeInv /\ (CancelInstance \/ FailInterrupted) => TypeInv'
<1> SUFFICES ASSUME TypeInv, CancelInstance \/ FailInterrupted PROVE TypeInv'
  OBVIOUS
<1>1. /\ row # NULL /\ adv = NULL /\ adv' = NULL /\ row.lease # "held"
      /\ UNCHANGED <<def, visit, crashes, orders>>
  BY DEF CancelInstance, FailInterrupted, Claimable
<1>2. row \in Rows /\ row \in Instance /\ visit' \in Visits /\ orders' \in 0 .. MaxOrders
  BY <1>1, Typed DEF TypeInv, TypeOK, FlowTypes
<1>3. row' \in Instance /\ row'.lease = "none" /\ row'.status = "failed" => row'.wake = NULL
  BY <1>2 DEF CancelInstance, FailInterrupted, Instance, Rows
<1>4. row' \in Instance /\ row'.lease = "none" /\ row'.status \in {"failed", "cancelled"}
  BY <1>2 DEF CancelInstance, FailInterrupted, Instance, Rows
<1> QED
  BY <1>1, <1>2, <1>3, <1>4, IdleWriteType

\* A claim loads the row.
LEMMA ClaimType == TypeInv /\ Claim => TypeInv'
<1> SUFFICES ASSUME TypeInv, Claim PROVE TypeInv'
  OBVIOUS
<1>1. row # NULL /\ row.status = "running" /\ UNCHANGED <<def, static, visit, crashes, orders>>
  BY DEF Claim, Claimable
<1>2. /\ row \in Rows /\ row \in Instance /\ Validate(def) /\ Resume \in DOMAIN def
      /\ def \in Definitions /\ DOMAIN def = 1 .. Len(def) /\ Len(def) \in Nat
  BY <1>1, Typed, Forms DEF TypeInv, TypeOK
<1>3. adv' = [idx |-> Resume, i |-> 0, answer |-> NULL, retry |-> row.retry,
              wake |-> row.wake, outputs |-> row.outputs, error |-> row.error,
              stale |-> row.stale]
  BY DEF Claim, Resume
<1>4. adv' \in Advances /\ adv' # NULL
  <2>1. Resume \in Nat
    BY <1>2
  <2> QED  BY <1>2, <1>3, <2>1, NullIsNone DEF Advances, Rows
<1>5. row' = [row EXCEPT !.lease = "held"]
  BY DEF Claim
<1>6. row' \in Instance /\ row' # NULL /\ row'.lease = "held" /\ row'.status = "running"
  BY <1>1, <1>2, <1>5, NullIsNone DEF Instance, Rows
<1>7. TypeOK'
  <2>1. adv'.idx \in DOMAIN def /\ adv'.i = 0 /\ adv'.outputs \subseteq Ids(def) /\ adv'.answer = NULL
    BY <1>2, <1>3 DEF Instance
  <2>2. adv'.retry \in Nat /\ adv'.error \in BOOLEAN
    BY <1>4 DEF Advances
  <2> QED
    BY <1>1, <1>4, <1>6, <2>1, <2>2, FlowConstants DEF TypeInv, TypeOK, Instance
<1>8. FlowTypes'
  <2>1. adv'.stale \subseteq Ids(def) /\ Validate(def)'
    BY <1>1, <1>2, <1>3 DEF Instance
  <2> QED
    BY <1>1, <1>4, <1>6, <2>1 DEF TypeInv, FlowTypes, Visits
<1> QED
  BY <1>7, <1>8 DEF TypeInv

\* The saves that end an advance.
LEMMA SaveTypes ==
    TypeInv /\ adv # NULL
    /\ (\/ \E done \in BOOLEAN : FailInstance(done)
        \/ ArmDelay \/ GotoEnd \/ \E g \in Task.switch : GotoCheckpoint(g)
        \/ RetryCall \/ ErrorEnd \/ ErrorRoute \/ ErrorFails)
    => TypeInv'
<1> SUFFICES ASSUME TypeInv, adv # NULL PROVE
             (\/ \E done \in BOOLEAN : FailInstance(done)
              \/ ArmDelay \/ GotoEnd \/ \E g \in Task.switch : GotoCheckpoint(g)
              \/ RetryCall \/ ErrorEnd \/ ErrorRoute \/ ErrorFails) => TypeInv'
  OBVIOUS
<1>1. /\ adv \in Advances /\ adv.idx \in DOMAIN def /\ row # NULL
      /\ adv.outputs \subseteq Ids(def) /\ adv.stale \subseteq Ids(def)
      /\ row.status \in {"running", "cancelling"} /\ visit \in Visits
      /\ def \in Definitions /\ Validate(def)
  BY TypedAdvance, Typed DEF TypeInv, FlowTypes
<1>2. /\ WithOutput \in Advances
      /\ WithOutput.outputs \subseteq Ids(def) /\ WithOutput.stale \subseteq Ids(def)
      /\ WithError \in Advances
      /\ WithError.outputs \subseteq Ids(def) /\ WithError.stale \subseteq Ids(def)
      /\ WithOutput.wake = NULL
  BY <1>1, SavedForms DEF WithOutput, Advances
<1>3. [WithError EXCEPT !.wake = NULL] \in Advances
  BY <1>2 DEF Advances
<1>4. /\ [WithError EXCEPT !.wake = NULL].outputs \subseteq Ids(def)
      /\ [WithError EXCEPT !.wake = NULL].stale \subseteq Ids(def)
      /\ [WithError EXCEPT !.wake = NULL].wake = NULL
  BY <1>2 DEF Advances
<1>5. ASSUME NEW done \in BOOLEAN, FailInstance(done) PROVE TypeInv'
  <2> DEFINE a == [adv EXCEPT !.wake = NULL,
                             !.retry = IF adv.answer = "ok" THEN 0 ELSE @,
                             !.outputs = IF done /\ Task.output THEN @ \cup {Task.id} ELSE @,
                             !.stale = IF done THEN @ \ {Task.id} ELSE @]
  <2>1. a \in Advances /\ a.outputs \subseteq Ids(def) /\ a.stale \subseteq Ids(def)
    BY <1>1, SavedForms
  <2>2. a.wake = NULL
    BY <1>1 DEF Advances
  <2>3. row' = Saved(a, adv.idx, "failed") /\ adv' = NULL /\ UNCHANGED <<def, static, visit, crashes, orders>>
    BY <1>5 DEF FailInstance
  <2> HIDE DEF a
  <2> QED  BY <1>1, <2>1, <2>2, <2>3, SaveKeepsTypes
<1>6. ASSUME ArmDelay PROVE TypeInv'
  <2> DEFINE a == [adv EXCEPT !.wake = 1]
  <2>1. a \in Advances /\ a.outputs \subseteq Ids(def) /\ a.stale \subseteq Ids(def)
    BY <1>1 DEF Advances
  <2>2. row' = Saved(a, adv.idx, row.status) /\ adv' = NULL /\ UNCHANGED <<def, static, crashes, orders>>
    BY <1>6 DEF ArmDelay
  <2>3. visit' \in Visits
    BY <1>1, <1>6 DEF ArmDelay, Visits
  <2> HIDE DEF a
  <2> QED  BY <1>1, <2>1, <2>2, <2>3, SaveKeepsTypes
<1>7. ASSUME GotoEnd PROVE TypeInv'
  <2>1. row' = Saved(WithOutput, adv.idx, "completed") /\ adv' = NULL /\ UNCHANGED <<def, static, visit, crashes, orders>>
    BY <1>7 DEF GotoEnd
  <2> QED  BY <1>1, <1>2, <2>1, SaveKeepsTypes
<1>8. ASSUME NEW g \in Task.switch, GotoCheckpoint(g) PROVE TypeInv'
  <2>1. row' = Saved(WithOutput, Target(g), row.status) /\ adv' = NULL /\ UNCHANGED <<def, static, crashes, orders>>
    BY <1>8 DEF GotoCheckpoint
  <2>2. visit' \in Visits
    BY <1>8, NoneType DEF GotoCheckpoint
  <2>3. Target(g) \in DOMAIN def
    BY <1>1, <1>8, TargetType DEF GotoCheckpoint, Target, Task
  <2> QED  BY <1>1, <1>2, <2>1, <2>2, <2>3, SaveKeepsTypes
<1>9. ASSUME RetryCall PROVE TypeInv'
  <2> DEFINE a == [adv EXCEPT !.retry = @ + 1, !.wake = RetryDelay(adv.retry + 1)]
  <2>1. adv.retry \in Nat
    BY <1>1 DEF Advances
  <2>2. RetryDelay(adv.retry + 1) \in Int
    BY <2>1, DelayType
  <2>3. a \in Advances /\ a.outputs \subseteq Ids(def) /\ a.stale \subseteq Ids(def)
    <3>1. ASSUME NEW n \in Nat, NEW delay \in Int, NEW b, b = [adv EXCEPT !.retry = n, !.wake = delay]
          PROVE  b \in Advances /\ b.outputs \subseteq Ids(def) /\ b.stale \subseteq Ids(def)
      BY <1>1, <3>1 DEF Advances
    <3>2. adv.retry + 1 \in Nat
      BY <2>1
    <3> QED  BY <2>2, <3>1, <3>2
  <2>4. row' = Saved(a, adv.idx, "running") /\ adv' = NULL /\ UNCHANGED <<def, static, visit, crashes, orders>>
    BY <1>9 DEF RetryCall
  <2> HIDE DEF a
  <2> QED  BY <1>1, <2>3, <2>4, SaveKeepsTypes
<1>10. ASSUME ErrorEnd PROVE TypeInv'
  <2>1. row' = Saved([WithError EXCEPT !.wake = NULL], adv.idx, "completed") /\ adv' = NULL /\ UNCHANGED <<def, static, visit, crashes, orders>>
    BY <1>10 DEF ErrorEnd
  <2> QED  BY <1>1, <1>3, <1>4, <2>1, SaveKeepsTypes
<1>11. ASSUME ErrorFails PROVE TypeInv'
  <2>1. row' = Saved([WithError EXCEPT !.wake = NULL], adv.idx, "failed") /\ adv' = NULL /\ UNCHANGED <<def, static, visit, crashes, orders>>
    BY <1>11 DEF ErrorFails
  <2> QED  BY <1>1, <1>3, <1>4, <2>1, SaveKeepsTypes
<1>12. ASSUME ErrorRoute PROVE TypeInv'
  <2> DEFINE a == [WithError EXCEPT !.wake = NULL, !.retry = 0]
  <2>1. a \in Advances /\ a.outputs \subseteq Ids(def) /\ a.stale \subseteq Ids(def)
    BY <1>2 DEF Advances
  <2>2. row' = Saved(a, taskIndex(def, Rule.goto), "running") /\ adv' = NULL /\ UNCHANGED <<def, static, crashes, orders>>
    BY <1>12 DEF ErrorRoute
  <2>3. Rule.goto \in Ids(def)
    BY <1>1, <1>12, RuleType DEF ErrorRoute, Rule, Task
  <2>4. taskIndex(def, Rule.goto) \in DOMAIN def
    BY <1>1, <2>3, IndexType
  <2>5. visit' \in Visits
    BY <1>12, NoneType DEF ErrorRoute
  <2> HIDE DEF a
  <2> QED  BY <1>1, <2>1, <2>2, <2>4, <2>5, SaveKeepsTypes
<1> QED
  BY <1>5, <1>6, <1>7, <1>8, <1>9, <1>10, <1>11, <1>12

\* The steps an advance takes in memory.
LEMMA MemoryTypes ==
    TypeInv /\ adv # NULL
    /\ ((\E o \in Outcome : SendCall(o)) \/ \E g \in Task.switch : GotoInline(g))
    => TypeInv'
<1> SUFFICES ASSUME TypeInv, adv # NULL
             PROVE  ((\E o \in Outcome : SendCall(o)) \/ \E g \in Task.switch : GotoInline(g)) => TypeInv'
  OBVIOUS
<1>1. /\ adv \in Advances /\ adv.idx \in DOMAIN def /\ row # NULL /\ row \in Instance
      /\ adv.outputs \subseteq Ids(def) /\ adv.stale \subseteq Ids(def)
      /\ row.status \in {"running", "cancelling"} /\ visit \in Visits
      /\ def \in Definitions /\ Validate(def) /\ adv.i \in 0 .. MaxInline
      /\ row.lease = "held"
  BY TypedAdvance, Typed DEF TypeInv, TypeOK, FlowTypes
<1>2. ASSUME adv' \in Advances, adv'.idx \in DOMAIN def, adv'.i \in 0 .. MaxInline,
             adv'.outputs \subseteq Ids(def), adv'.stale \subseteq Ids(def), visit' \in Visits,
             UNCHANGED <<def, row, crashes, orders>>
      PROVE  TypeInv'
  <2>1. adv' # NULL
    BY <1>2, NullIsNone
  <2>2. TypeOK'
    <3>1. adv'.answer \in Outcome \cup {NULL} /\ adv'.retry \in Nat /\ adv'.error \in BOOLEAN
      BY <1>2 DEF Advances
    <3> QED  BY <1>1, <1>2, <2>1, <3>1 DEF TypeInv, TypeOK, Instance
  <2>3. FlowTypes'
    BY <1>1, <1>2, <2>1 DEF FlowTypes, Visits
  <2> QED  BY <2>2, <2>3 DEF TypeInv
<1>3. ASSUME NEW o \in Outcome, SendCall(o) PROVE TypeInv'
  <2>1. adv' = [adv EXCEPT !.answer = o]
    BY <1>3 DEF SendCall
  <2>2. /\ adv' \in Advances /\ adv'.idx = adv.idx /\ adv'.i = adv.i
        /\ adv'.outputs = adv.outputs /\ adv'.stale = adv.stale
    BY <1>1, <2>1 DEF Advances
  <2>3. visit' \in Visits
    <3> DEFINE q == IF o = "ok" THEN 0 ELSE visit.requests[adv.idx] + 1
               r == IF Reached(o) /\ visit.reached[adv.idx] < 2 THEN visit.reached[adv.idx] + 1
                    ELSE visit.reached[adv.idx]
    <3>1. visit.requests[adv.idx] \in Nat /\ visit.reached[adv.idx] \in 0 .. 2
      BY <1>1 DEF Visits
    <3>2. q \in Nat /\ r \in 0 .. 2
      BY <3>1
    <3>3. visit' = [visit EXCEPT !.requests = [@ EXCEPT ![adv.idx] = q],
                                 !.reached = [@ EXCEPT ![adv.idx] = r]]
      BY <1>1, <1>3 DEF SendCall, Visits
    <3> HIDE DEF q, r
    <3> QED  BY <1>1, <3>2, <3>3 DEF Visits
  <2> QED
    BY <1>1, <1>2, <1>3, <2>2, <2>3 DEF SendCall
<1>4. ASSUME NEW g \in Task.switch, GotoInline(g) PROVE TypeInv'
  <2>1. adv' = [WithOutput EXCEPT !.idx = Target(g), !.i = @ + 1] /\ adv.i < MaxInline
    BY <1>4 DEF GotoInline
  <2>2. Target(g) \in DOMAIN def
    BY <1>1, <1>4, TargetType DEF GotoInline, Target, Task
  <2>3. /\ WithOutput \in Advances /\ WithOutput.i = adv.i
        /\ WithOutput.outputs \subseteq Ids(def) /\ WithOutput.stale \subseteq Ids(def)
    BY <1>1, SavedForms DEF WithOutput, Advances
  <2>4. Target(g) \in Nat /\ adv.i + 1 \in 0 .. MaxInline /\ adv.i + 1 \in Nat
    BY <1>1, <2>1, <2>2, Forms, FlowConstants
  <2>5. /\ adv' \in Advances /\ adv'.idx = Target(g) /\ adv'.i = adv.i + 1
        /\ adv'.outputs = WithOutput.outputs /\ adv'.stale = WithOutput.stale
    BY <2>1, <2>3, <2>4 DEF Advances
  <2> QED
    BY <1>1, <1>2, <1>4, <2>2, <2>3, <2>4, <2>5 DEF GotoInline
<1> QED
  BY <1>3, <1>4

\* A crash leaves the lease to lapse.
LEMMA CrashType == TypeInv /\ Crash => TypeInv'
<1> SUFFICES ASSUME TypeInv, Crash PROVE TypeInv'
  OBVIOUS
<1>1. /\ adv # NULL /\ adv' = NULL /\ row' = [row EXCEPT !.lease = "lost"]
      /\ crashes' = crashes + 1 /\ crashes < MaxCrashes
      /\ visit' = [visit EXCEPT !.reruns = @ + 1] /\ UNCHANGED <<def, static, orders>>
  BY DEF Crash
<1>2. /\ row \in Rows /\ row \in Instance /\ Validate(def) /\ visit \in Visits
      /\ row.status \in {"running", "cancelling"}
  BY <1>1, Typed, TypedAdvance DEF TypeInv, TypeOK, FlowTypes
<1>3. /\ row' \in Instance /\ row'.lease = "lost" /\ row'.status = row.status
  BY <1>1, <1>2 DEF Instance, Rows
<1>4. visit' \in Visits
  BY <1>1, <1>2 DEF Visits
<1> QED
  BY <1>1, <1>2, <1>3, <1>4, FlowConstants DEF TypeInv, TypeOK, FlowTypes, Instance, Visits

\* What operators do.
LEMMA OperatorTypes ==
    TypeInv /\ (CancelProcess \/ \E force \in BOOLEAN : RetryProcess(force)) => TypeInv'
<1> SUFFICES ASSUME TypeInv
             PROVE  (CancelProcess \/ \E force \in BOOLEAN : RetryProcess(force)) => TypeInv'
  OBVIOUS
<1>1. ASSUME CancelProcess PROVE TypeInv'
  <2>1. /\ row # NULL /\ row' = [row EXCEPT !.status = "cancelling"]
        /\ orders' = orders + 1 /\ orders < MaxOrders
        /\ UNCHANGED <<def, static, adv, visit, excused, crashes>>
    BY <1>1 DEF CancelProcess
  <2>2. row \in Rows /\ row \in Instance /\ Validate(def)
    BY <2>1, Typed DEF TypeInv, TypeOK
  <2>3. row' \in Instance /\ row' # NULL /\ row'.lease = row.lease /\ row'.status = "cancelling"
    BY <2>1, <2>2, NullIsNone DEF Instance, Rows
  <2> QED
    BY <2>1, <2>2, <2>3, FlowConstants DEF TypeInv, TypeOK, FlowTypes, Instance, Visits
<1>2. ASSUME NEW force \in BOOLEAN, RetryProcess(force) PROVE TypeInv'
  <2>1. /\ row # NULL /\ row.status \in {"failed", "cancelled"}
        /\ row' = [row EXCEPT !.status = "running", !.wake = IF row.retry > 0 THEN NULL ELSE @,
                              !.lease = "none", !.revived = TRUE, !.stale = @ \cup {row.task}]
        /\ orders' = orders + 1 /\ orders < MaxOrders
        /\ visit' = [visit EXCEPT !.reruns = @ + 1]
        /\ UNCHANGED <<def, static, adv, crashes>>
    BY <1>2 DEF RetryProcess
  <2>2. row \in Rows /\ row \in Instance /\ visit \in Visits
    BY <2>1, Typed DEF TypeInv, TypeOK, FlowTypes
  <2>3. adv = NULL
    BY <2>1 DEF TypeInv, FlowTypes
  <2>4. row' \in Instance /\ row'.lease = "none" /\ row'.status = "running"
    BY <2>1, <2>2 DEF Instance, Rows
  <2>5. visit' \in Visits
    BY <2>1, <2>2 DEF Visits
  <2>6. orders' \in 0 .. MaxOrders
    BY <2>1, FlowConstants DEF TypeInv, TypeOK
  <2> QED
    BY <2>1, <2>3, <2>4, <2>5, <2>6, IdleWriteType
<1> QED
  BY <1>1, <1>2

LEMMA TypeStep == TypeInv /\ [Next]_vars => TypeInv'
<1> SUFFICES ASSUME TypeInv, [Next]_vars PROVE TypeInv'
  OBVIOUS
<1>1. CASE Register  BY <1>1, RegisterType
<1>2. CASE CancelInstance \/ FailInterrupted  BY <1>2, RefusedClaimType
<1>3. CASE Claim  BY <1>3, ClaimType
<1>4. CASE Advance
  <2>1. adv # NULL
    BY <1>4 DEF Advance, FailInstance, SendCall, ArmDelay, GotoEnd, RetryCall, ErrorEnd,
                ErrorRoute, ErrorFails, Failed
  <2>2. CASE (\E o \in Outcome : SendCall(o)) \/ \E g \in Task.switch : GotoInline(g)
    BY <2>1, <2>2, MemoryTypes
  <2>3. CASE \/ \E done \in BOOLEAN : FailInstance(done)
             \/ ArmDelay \/ GotoEnd \/ \E g \in Task.switch : GotoCheckpoint(g)
             \/ RetryCall \/ ErrorEnd \/ ErrorRoute \/ ErrorFails
    BY <2>1, <2>3, SaveTypes
  <2> QED  BY <1>4, <2>2, <2>3 DEF Advance
<1>5. CASE Crash  BY <1>5, CrashType
<1>6. CASE CancelProcess \/ \E force \in BOOLEAN : RetryProcess(force)  BY <1>6, OperatorTypes
<1>7. CASE UNCHANGED vars
  BY <1>7 DEF vars, TypeInv, TypeOK, FlowTypes, Visits, Instance
<1> QED
  BY <1>1, <1>2, <1>3, <1>4, <1>5, <1>6, <1>7 DEF Next

\* Rows, advances and leases have their types, and an instance that has ended has no
\* timer left to fire but that of a cancelled delay.
THEOREM TypeCorrect == Spec => []TypeOK
<1>1. TypeInv => TypeOK
  BY DEF TypeInv
<1> QED
  BY InitType, TypeStep, <1>1, PTL DEF Spec

------------------------------------------------------------------------------
(* The path through the tasks. *)

\* What the invariant says of a row, of an advance and of the counts.
LEMMA Numbers ==
    ASSUME TypeInv
    PROVE  /\ \A p \in DOMAIN def : visit.requests[p] \in Nat /\ visit.reached[p] \in 0 .. 2
           /\ visit.reruns \in Nat
           /\ adv # NULL => adv.retry \in Nat /\ adv.i \in Nat
           /\ row # NULL => row.retry \in Nat
           /\ \A p \in DOMAIN def : Most(def, p) \in Nat
<1>1. visit \in Visits /\ def \in Definitions
  BY DEF TypeInv, FlowTypes
<1>2. adv # NULL => adv \in Advances
  BY DEF TypeInv, FlowTypes
<1>3. row # NULL => row \in Rows
  BY Typed
<1> QED
  BY <1>1, <1>2, <1>3, AllowedType DEF Visits, Advances, Rows

\* Attempts of an advance belong to a call; a timer it finds at a delay was armed.
LEMMA AdvanceCarries ==
    ASSUME TypeInv, Distinct(def), PathInv, adv # NULL
    PROVE  /\ adv.retry # 0 => Task.call = "rest"
           /\ Task.call = "delay" /\ adv.wake # NULL => visit.armed
           /\ adv.retry <= Most(def, adv.idx)
           /\ adv.answer # NULL => Task.call = "rest"
<1>1. row # NULL
  BY TypedAdvance
<1>2. CASE adv.i = 0
  <2>1. adv.idx = Resume /\ adv.retry = row.retry /\ adv.wake = row.wake
    BY <1>2 DEF PathInv, Resumed
  <2> QED
    BY <1>1, <2>1 DEF PathInv, TimersOfRetries, TimersOfDelays, AttemptsAllowed, Allowed,
                      AnswersToCalls, Task
<1>3. CASE adv.i # 0
  <2>1. adv.retry = 0 /\ adv.wake = NULL
    BY <1>3 DEF PathInv, Resumed
  <2> QED
    BY <1>1, <2>1 DEF PathInv, AttemptsAllowed, Allowed, AnswersToCalls
<1> QED
  BY <1>2, <1>3

\* A save writes where the instance resumes.
LEMMA SavedResumes ==
    ASSUME TypeInv, Distinct(def), adv # NULL, NEW a \in Advances,
           a.outputs \subseteq Ids(def), a.stale \subseteq Ids(def), NEW idx \in DOMAIN def,
           NEW s \in {"running", "cancelling", "completed", "failed"},
           row' = Saved(a, idx, s), def' = def
    PROVE  /\ row' # NULL /\ row'.status = s /\ row'.lease = "none"
           /\ row'.retry = a.retry /\ row'.wake = a.wake /\ Resume' = idx
<1>1. def \in Definitions
  BY DEF TypeInv, FlowTypes
<1>2. /\ row' \in Rows /\ row'.status = s /\ row'.lease = "none"
      /\ row'.retry = a.retry /\ row'.wake = a.wake /\ row'.task = def[idx].id
  BY SavedType DEF Instance
<1>3. Resume' = idx
  BY <1>1, <1>2, IndexOfId DEF Resume
<1> QED
  BY <1>2, <1>3, NullIsNone

\* A save at the task itself.
LEMMA StayPath ==
    ASSUME TypeInv, Distinct(def), PathInv, adv # NULL, NEW a \in Advances,
           a.outputs \subseteq Ids(def), a.stale \subseteq Ids(def),
           NEW s \in {"running", "cancelling", "completed", "failed"},
           row' = Saved(a, adv.idx, s), adv' = NULL, def' = def,
           visit'.requests = visit.requests, visit'.reached = visit.reached,
           visit'.reruns = visit.reruns, excused \subseteq excused',
           a.retry # 0 => Task.call = "rest",
           a.retry # 0 /\ a.wake # NULL => a.wake = RetryDelay(a.retry),
           Task.call = "delay" /\ a.wake # NULL => visit'.armed,
           a.retry <= Most(def, adv.idx),
           visit.requests[adv.idx] <= visit.reruns + a.retry + 1,
           s \notin {"completed", "failed"} => visit.requests[adv.idx] <= visit.reruns + a.retry,
           def[adv.idx].once /\ visit.reached[adv.idx] # 0 /\ s = "running" =>
               \E why \in {"asserted", "forced", "reset", "inlined"} : <<adv.idx, why>> \in excused'
    PROVE  PathInv'
<1>1. adv.idx \in DOMAIN def
  BY TypedAdvance
<1>2. /\ row' # NULL /\ row'.status = s /\ row'.lease = "none"
      /\ row'.retry = a.retry /\ row'.wake = a.wake /\ Resume' = adv.idx
  BY <1>1, SavedResumes
<1>3. Resumed' /\ AnswersToCalls'
  BY DEF Resumed, AnswersToCalls
<1>4. RequestsOfCalls'
  BY DEF PathInv, RequestsOfCalls
<1>5. TimersOfRetries'
  BY <1>2 DEF TimersOfRetries, Task
<1>6. TimersOfDelays'
  BY <1>2 DEF TimersOfDelays, Task
<1>7. AttemptsAllowed'
  BY <1>2 DEF AttemptsAllowed, Allowed
<1>8. RequestsCovered'
  <2> SUFFICES ASSUME NEW p \in DOMAIN def PROVE Covered(p)'
    BY DEF RequestsCovered
  <2>1. CASE p = adv.idx
    BY <1>2, <2>1 DEF Covered
  <2>2. CASE p # adv.idx
    <3>1. visit.requests[p] <= visit.reruns
      BY <2>2 DEF PathInv, RequestsCovered, Covered
    <3> QED  BY <1>2, <2>2, <3>1 DEF Covered
  <2> QED  BY <2>1, <2>2
<1>9. OnceSpent'
  <2> SUFFICES ASSUME NEW p \in DOMAIN def, def[p].once, visit.reached[p] # 0
               PROVE  Excused(p)' \/ Spent(p)'
    BY DEF OnceSpent
  <2>1. Excused(p) => Excused(p)'
    BY DEF Excused
  <2>2. Excused(p) \/ Spent(p)
    BY DEF PathInv, OnceSpent
  <2>3. CASE Spent(p)
    <3>1. adv.idx = p /\ visit.reached[p] = 1
      BY <2>3 DEF Spent
    <3> QED  BY <1>2, <3>1 DEF Spent, Excused
  <2> QED  BY <2>1, <2>2, <2>3
<1> QED
  BY <1>3, <1>4, <1>5, <1>6, <1>7, <1>8, <1>9 DEF PathInv

\* A save that moves on to another task, or to the same again.
LEMMA MovePath ==
    ASSUME TypeInv, Distinct(def), adv # NULL, NEW a \in Advances,
           a.outputs \subseteq Ids(def), a.stale \subseteq Ids(def), NEW idx \in DOMAIN def,
           NEW s \in {"running", "cancelling", "completed", "failed"},
           row' = Saved(a, idx, s), adv' = NULL, def' = def,
           a.retry = 0, a.wake = NULL, visit' = None
    PROVE  PathInv'
<1>1. /\ row' # NULL /\ row'.status = s /\ row'.lease = "none"
      /\ row'.retry = 0 /\ row'.wake = NULL /\ Resume' = idx
  BY SavedResumes
<1>2. /\ \A p \in DOMAIN def : visit'.requests[p] = 0 /\ visit'.reached[p] = 0
      /\ visit'.reruns = 0
  BY DEF None
<1>3. Resumed' /\ AnswersToCalls'
  BY DEF Resumed, AnswersToCalls
<1>4. RequestsOfCalls'
  BY <1>2 DEF RequestsOfCalls
<1>5. TimersOfRetries' /\ TimersOfDelays'
  BY <1>1 DEF TimersOfRetries, TimersOfDelays
<1>6. AttemptsAllowed'
  <2>1. 0 <= Most(def, idx)
    BY Numbers
  <2> QED  BY <1>1, <2>1 DEF AttemptsAllowed, Allowed
<1>7. RequestsCovered'
  BY <1>1, <1>2 DEF RequestsCovered, Covered
<1>8. OnceSpent'
  BY <1>2 DEF OnceSpent
<1> QED
  BY <1>3, <1>4, <1>5, <1>6, <1>7, <1>8 DEF PathInv

\* What every save at the task itself may use.
LEMMA StayFacts ==
    ASSUME TypeInv, PathInv, adv # NULL
    PROVE  /\ adv \in Advances /\ adv.idx \in DOMAIN def /\ adv.retry \in Nat
           /\ adv.outputs \subseteq Ids(def) /\ adv.stale \subseteq Ids(def)
           /\ visit.requests[adv.idx] \in Nat /\ visit.reruns \in Nat
           /\ Most(def, adv.idx) \in Nat
           /\ visit.requests[adv.idx] <= visit.reruns + adv.retry + 1
           /\ adv.answer = "ok" => visit.requests[adv.idx] = 0
           /\ Task.call # "rest" => visit.requests[adv.idx] = 0 /\ visit.reached[adv.idx] = 0
<1>1. /\ adv \in Advances /\ adv.idx \in DOMAIN def /\ adv.outputs \subseteq Ids(def)
      /\ adv.stale \subseteq Ids(def) /\ adv.retry \in Nat
      /\ visit.requests[adv.idx] \in Nat /\ visit.reruns \in Nat /\ Most(def, adv.idx) \in Nat
  BY TypedAdvance, Numbers
<1>2. /\ visit.requests[adv.idx] <= visit.reruns + adv.retry + 1
      /\ adv.answer = "ok" => visit.requests[adv.idx] = 0
  BY <1>1 DEF PathInv, RequestsCovered, Covered
<1>3. Task.call # "rest" => visit.requests[adv.idx] = 0 /\ visit.reached[adv.idx] = 0
  BY <1>1 DEF PathInv, RequestsOfCalls, Task
<1> QED
  BY <1>1, <1>2, <1>3

LEMMA FailPath ==
    ASSUME TypeInv, Distinct(def), PathInv, NEW done \in BOOLEAN, FailInstance(done)
    PROVE  PathInv'
<1> DEFINE a == [adv EXCEPT !.wake = NULL,
                           !.retry = IF adv.answer = "ok" THEN 0 ELSE @,
                           !.outputs = IF done /\ Task.output THEN @ \cup {Task.id} ELSE @,
                           !.stale = IF done THEN @ \ {Task.id} ELSE @]
<1>1. adv # NULL /\ row' = Saved(a, adv.idx, "failed") /\ adv' = NULL
      /\ UNCHANGED <<def, visit, excused>>
  BY DEF FailInstance
<1>2. a \in Advances /\ a.outputs \subseteq Ids(def) /\ a.stale \subseteq Ids(def)
  BY <1>1, SavedForms
<1>3. a.wake = NULL /\ a.retry = IF adv.answer = "ok" THEN 0 ELSE adv.retry
  BY <1>1, TypedAdvance DEF Advances
<1> HIDE DEF a
<1>4. a.retry # 0 => Task.call = "rest"
  BY <1>1, <1>3, AdvanceCarries
<1>5. a.retry <= Most(def, adv.idx)
  BY <1>1, <1>3, AdvanceCarries, StayFacts
<1>6. visit.requests[adv.idx] <= visit.reruns + a.retry + 1
  <2>1. CASE adv.answer = "ok"
    <3>1. a.retry = 0 /\ visit.requests[adv.idx] = 0 /\ visit.reruns \in Nat
      BY <1>1, <1>3, <2>1, StayFacts
    <3> QED  BY <3>1
  <2>2. CASE adv.answer # "ok"
    BY <1>1, <1>3, <2>2, StayFacts
  <2> QED  BY <2>1, <2>2
<1> QED
  BY <1>1, <1>2, <1>3, <1>4, <1>5, <1>6, StayPath, StayFacts

LEMMA ArmPath ==
    ASSUME TypeInv, Distinct(def), PathInv, ArmDelay
    PROVE  PathInv'
<1> DEFINE a == [adv EXCEPT !.wake = 1]
<1>1. /\ adv # NULL /\ row' = Saved(a, adv.idx, row.status) /\ adv' = NULL
      /\ visit' = [visit EXCEPT !.armed = TRUE] /\ Task.call = "delay"
      /\ UNCHANGED <<def, excused>>
  BY DEF ArmDelay
<1>2. /\ a \in Advances /\ a.outputs \subseteq Ids(def) /\ a.stale \subseteq Ids(def)
      /\ a.retry = adv.retry
  BY <1>1, TypedAdvance DEF Advances
<1>3. a.retry = 0
  BY <1>1, <1>2, AdvanceCarries
<1>4. /\ visit'.requests = visit.requests /\ visit'.reached = visit.reached
      /\ visit'.reruns = visit.reruns /\ visit'.armed
  BY <1>1 DEF TypeInv, FlowTypes, Visits
<1>5. /\ visit.requests[adv.idx] = 0 /\ visit.reached[adv.idx] = 0 /\ visit.reruns \in Nat
      /\ Most(def, adv.idx) \in Nat
  BY <1>1, StayFacts
<1>6. row.status \in {"running", "cancelling"}
  BY <1>1 DEF TypeInv, FlowTypes
<1> HIDE DEF a
<1>7. /\ visit.requests[adv.idx] <= visit.reruns + a.retry
      /\ visit.requests[adv.idx] <= visit.reruns + a.retry + 1
      /\ a.retry <= Most(def, adv.idx)
  BY <1>3, <1>5
<1> QED
  BY <1>1, <1>2, <1>3, <1>4, <1>5, <1>6, <1>7, StayPath

LEMMA EndPath ==
    ASSUME TypeInv, Distinct(def), PathInv, GotoEnd
    PROVE  PathInv'
<1>1. /\ adv # NULL /\ row' = Saved(WithOutput, adv.idx, "completed") /\ adv' = NULL
      /\ ActionDone /\ UNCHANGED <<def, visit, excused>>
  BY DEF GotoEnd
<1>2. /\ WithOutput \in Advances
      /\ WithOutput.outputs \subseteq Ids(def) /\ WithOutput.stale \subseteq Ids(def)
      /\ WithOutput.retry = 0 /\ WithOutput.wake = NULL
  BY <1>1, TypedAdvance, SavedForms DEF WithOutput, Advances
<1>3. /\ visit.requests[adv.idx] = 0 /\ visit.reruns \in Nat /\ Most(def, adv.idx) \in Nat
  <2>1. Task.call = "rest" => adv.answer = "ok"
    BY <1>1 DEF ActionDone
  <2> QED  BY <1>1, <2>1, StayFacts
<1>4. /\ visit.requests[adv.idx] <= visit.reruns + WithOutput.retry + 1
      /\ WithOutput.retry <= Most(def, adv.idx)
  BY <1>2, <1>3
<1> QED
  BY <1>1, <1>2, <1>4, StayPath

\* A retry counts, and it sets the timer.
LEMMA RetryPath ==
    ASSUME TypeInv, Distinct(def), PathInv, RetryCall
    PROVE  PathInv'
<1> DEFINE a == [adv EXCEPT !.retry = @ + 1, !.wake = RetryDelay(adv.retry + 1)]
<1>1. /\ adv # NULL /\ row' = Saved(a, adv.idx, "running") /\ adv' = NULL /\ Retries
      /\ adv.answer # NULL
      /\ excused' = IF Task.once THEN excused \cup Excuses ELSE excused
      /\ UNCHANGED <<def, visit>>
  BY DEF RetryCall, Failed
<1>2. /\ adv \in Advances /\ adv.idx \in DOMAIN def /\ adv.retry \in Nat /\ def \in Definitions
      /\ adv.outputs \subseteq Ids(def) /\ adv.stale \subseteq Ids(def) /\ Validate(def)
  BY <1>1, StayFacts, Typed, TypedAdvance
<1>3. /\ a \in Advances /\ a.outputs \subseteq Ids(def) /\ a.stale \subseteq Ids(def)
      /\ a.retry = adv.retry + 1 /\ a.wake = RetryDelay(adv.retry + 1)
  <2>1. ASSUME NEW n \in Nat, NEW delay \in Int, NEW b, b = [adv EXCEPT !.retry = n, !.wake = delay]
        PROVE  b \in Advances /\ b.outputs \subseteq Ids(def) /\ b.stale \subseteq Ids(def)
    BY <1>2, <2>1 DEF Advances
  <2>2. adv.retry + 1 \in Nat
    BY <1>2
  <2>3. RetryDelay(adv.retry + 1) \in Int
    BY <2>2, DelayType
  <2>4. a \in Advances /\ a.outputs \subseteq Ids(def) /\ a.stale \subseteq Ids(def)
    BY <2>1, <2>2, <2>3
  <2>5. a.retry = adv.retry + 1
    BY <1>2 DEF Advances
  <2>6. a.wake = RetryDelay(adv.retry + 1)
    BY <1>2 DEF Advances
  <2> HIDE DEF a
  <2> QED  BY <2>4, <2>5, <2>6
<1> HIDE DEF a
<1>4. a.retry <= Most(def, adv.idx)
  <2>1. adv.retry < Rule.retries
    BY <1>1 DEF Retries
  <2>2. /\ Rule.retries \in Int /\ Rule.retries <= Most(def, adv.idx)
        /\ Most(def, adv.idx) \in Nat
    BY <1>1, <1>2, RuleType, StayFacts DEF Rule, Task
  <2> QED  BY <1>2, <1>3, <2>1, <2>2
<1>5. /\ visit.requests[adv.idx] <= visit.reruns + a.retry
      /\ visit.requests[adv.idx] <= visit.reruns + a.retry + 1
  BY <1>1, <1>3, StayFacts
<1>6. ASSUME def[adv.idx].once, visit.reached[adv.idx] # 0
      PROVE  \E why \in {"asserted", "forced", "reset", "inlined"} : <<adv.idx, why>> \in excused'
  <2>1. excused' = excused \cup Excuses
    BY <1>1, <1>6 DEF Task
  <2>2. CASE Reached(adv.answer)
    <3>1. Rule.notReached \/ ErrorCode(adv.answer) \in {"pre.error", "pre.timeout"}
      BY <1>1, <1>6 DEF Retries, isRetryAllowed, Task
    <3>2. adv.answer \in Outcome \ {"ok"}
      BY <1>1, <1>2 DEF RetryCall, Failed, Advances
    <3>3. Rule.notReached \/ adv.answer = "reset"
      BY <2>2, <3>1, <3>2 DEF ErrorCode, ClassifyGoError, Outcome, Reached
    <3>4. <<adv.idx, "asserted">> \in Excuses \/ <<adv.idx, "reset">> \in Excuses
      BY <2>2, <3>3 DEF Excuses
    <3> QED  BY <2>1, <3>4
  <2>3. CASE ~Reached(adv.answer)
    <3>1. ~Spent(adv.idx)
      BY <1>1, <2>3 DEF Spent
    <3>2. Excused(adv.idx)
      BY <1>2, <1>6, <3>1 DEF PathInv, OnceSpent
    <3> QED  BY <2>1, <3>2 DEF Excused
  <2> QED  BY <2>2, <2>3
<1>7. Task.call = "rest"
  BY <1>1, AdvanceCarries
<1>8. excused \subseteq excused'
  BY <1>1
<1> QED
  BY <1>1, <1>2, <1>3, <1>4, <1>5, <1>6, <1>7, <1>8, StayPath

\* An error that ends the process, with a rule or without.
LEMMA ErrorPath ==
    ASSUME TypeInv, Distinct(def), PathInv, ErrorEnd \/ ErrorFails
    PROVE  PathInv'
<1> DEFINE a == [WithError EXCEPT !.wake = NULL]
<1>1. /\ adv # NULL /\ adv' = NULL /\ adv.answer # NULL /\ UNCHANGED <<def, visit, excused>>
      /\ row' = Saved(a, adv.idx, "completed") \/ row' = Saved(a, adv.idx, "failed")
  BY DEF ErrorEnd, ErrorFails, Failed
<1>2. /\ a \in Advances /\ a.outputs \subseteq Ids(def) /\ a.stale \subseteq Ids(def)
      /\ a.wake = NULL /\ a.retry = adv.retry
  <2>1. /\ WithError \in Advances /\ WithError.outputs \subseteq Ids(def)
        /\ WithError.stale \subseteq Ids(def) /\ WithError.retry = adv.retry
    BY <1>1, TypedAdvance, SavedForms DEF WithError, Advances
  <2> QED  BY <2>1 DEF Advances
<1> HIDE DEF a
<1>3. /\ Task.call = "rest" /\ a.retry <= Most(def, adv.idx)
      /\ visit.requests[adv.idx] <= visit.reruns + a.retry + 1
  BY <1>1, <1>2, StayFacts, AdvanceCarries
<1> QED
  BY <1>1, <1>2, <1>3, StayPath

\* A checkpoint and an error route start a new visit.
LEMMA RoutePath ==
    ASSUME TypeInv, Distinct(def), PathInv, adv # NULL,
           ErrorRoute \/ \E g \in Task.switch : GotoCheckpoint(g)
    PROVE  PathInv'
<1>1. /\ adv \in Advances /\ adv.idx \in DOMAIN def /\ def \in Definitions /\ Validate(def)
      /\ row.status \in {"running", "cancelling"}
  BY StayFacts, Typed, TypedAdvance DEF TypeInv, FlowTypes
<1>2. ASSUME NEW g \in Task.switch, GotoCheckpoint(g) PROVE PathInv'
  <2>1. /\ row' = Saved(WithOutput, Target(g), row.status) /\ adv' = NULL
        /\ visit' = None /\ def' = def
    BY <1>2 DEF GotoCheckpoint
  <2>2. Target(g) \in DOMAIN def
    BY <1>1, <1>2, TargetType DEF GotoCheckpoint, Target, Task
  <2>3. /\ WithOutput \in Advances
        /\ WithOutput.outputs \subseteq Ids(def) /\ WithOutput.stale \subseteq Ids(def)
        /\ WithOutput.retry = 0 /\ WithOutput.wake = NULL
    BY <1>1, SavedForms DEF WithOutput, Advances
  <2> QED  BY <1>1, <2>1, <2>2, <2>3, MovePath
<1>3. ASSUME ErrorRoute PROVE PathInv'
  <2> DEFINE a == [WithError EXCEPT !.wake = NULL, !.retry = 0]
  <2>1. /\ row' = Saved(a, taskIndex(def, Rule.goto), "running") /\ adv' = NULL
        /\ visit' = None /\ def' = def
    BY <1>3 DEF ErrorRoute
  <2>2. Rule.goto \in Ids(def)
    BY <1>1, <1>3, RuleType DEF ErrorRoute, Rule, Task
  <2>3. taskIndex(def, Rule.goto) \in DOMAIN def
    BY <1>1, <2>2, IndexType
  <2>4. /\ a \in Advances /\ a.outputs \subseteq Ids(def) /\ a.stale \subseteq Ids(def)
        /\ a.retry = 0 /\ a.wake = NULL
    BY <1>1, SavedForms DEF WithError, Advances
  <2> HIDE DEF a
  <2> QED  BY <2>1, <2>3, <2>4, MovePath
<1> QED
  BY <1>2, <1>3

\* Before and after registering, nothing has been requested but with an excuse.
LEMMA RegisterPath ==
    ASSUME TypeInv, PathInv, Register
    PROVE  PathInv'
<1>1. /\ row = NULL /\ adv = NULL /\ adv' = NULL /\ UNCHANGED <<def, visit, excused>>
      /\ def \in Definitions
  BY DEF Register, TypeInv, FlowTypes
<1>2. row' # NULL => row'.retry = 0 /\ row'.wake = NULL /\ row'.task = def[1].id
                    /\ row'.status = "running"
  BY DEF Register
<1>3. \A p \in DOMAIN def : visit.requests[p] <= visit.reruns
  BY <1>1 DEF PathInv, RequestsCovered, Covered
<1>4. \A p \in DOMAIN def : visit.requests[p] \in Nat /\ visit.reruns \in Nat
  BY Numbers
<1>5. row' # NULL => Most(def, Resume') \in Nat
  <2>1. taskIndex(def, def[1].id) \in DOMAIN def
    BY <1>1, Forms, IndexType DEF Ids
  <2> QED  BY <1>1, <1>2, <2>1, Numbers DEF Resume
<1>6. Resumed' /\ AnswersToCalls'
  BY <1>1 DEF Resumed, AnswersToCalls
<1>7. RequestsOfCalls'
  BY <1>1 DEF PathInv, RequestsOfCalls
<1>8. TimersOfRetries' /\ TimersOfDelays'
  BY <1>2 DEF TimersOfRetries, TimersOfDelays
<1>9. AttemptsAllowed'
  <2>1. row' # NULL => 0 <= Most(def, Resume')
    BY <1>5
  <2> QED  BY <1>1, <1>2, <2>1 DEF AttemptsAllowed, Allowed
<1>10. RequestsCovered'
  <2> SUFFICES ASSUME NEW p \in DOMAIN def PROVE Covered(p)'
    BY <1>1 DEF RequestsCovered
  <2>1. visit.requests[p] <= visit.reruns /\ visit.requests[p] <= visit.reruns + 1
    BY <1>3, <1>4
  <2>2. visit.requests[p] <= visit.reruns + 0 /\ visit.requests[p] <= visit.reruns + 0 + 1
    BY <1>3, <1>4
  <2> QED  BY <1>1, <1>2, <2>1, <2>2 DEF Covered
<1>11. OnceSpent'
  BY <1>1 DEF PathInv, OnceSpent, Spent, Excused
<1> QED
  BY <1>6, <1>7, <1>8, <1>9, <1>10, <1>11 DEF PathInv

\* A claim resumes at the task that the row names.  If the server may have had its
\* request, the row says so, and the claim is refused.
LEMMA ClaimPath ==
    ASSUME TypeInv, PathInv, Claim
    PROVE  PathInv'
<1>1. /\ row # NULL /\ adv = NULL /\ row.status = "running" /\ ~Interrupted
      /\ UNCHANGED <<def, visit, excused>>
  BY DEF Claim, Claimable
<1>2. /\ adv'.idx = Resume /\ adv'.i = 0 /\ adv'.answer = NULL /\ adv'.retry = row.retry
      /\ adv'.wake = row.wake /\ adv' # NULL
  <2>1. TypeInv'
    BY ClaimType
  <2>2. row' # NULL /\ row'.lease = "held"
    BY <1>1, <2>1, Typed, NullIsNone DEF Claim, Rows, TypeInv, TypeOK
  <2>3. adv' # NULL
    BY <2>1, <2>2 DEF TypeInv, TypeOK
  <2> QED  BY <2>3 DEF Claim, Resume
<1>3. /\ row' # NULL /\ row'.retry = row.retry /\ row'.wake = row.wake
      /\ row'.status = row.status /\ Resume' = Resume
  <2>1. row \in Rows /\ row' = [row EXCEPT !.lease = "held"]
    BY <1>1, Typed DEF Claim
  <2>2. row'.retry = row.retry /\ row'.wake = row.wake /\ row'.status = row.status /\ row'.task = row.task
    BY <2>1 DEF Rows
  <2>3. row' \in Rows
    BY <2>1 DEF Rows
  <2> QED  BY <1>1, <2>2, <2>3, NullIsNone DEF Resume
<1>4. Resumed' /\ AnswersToCalls'
  BY <1>2, <1>3 DEF Resumed, AnswersToCalls
<1>5. RequestsOfCalls'
  BY <1>1 DEF PathInv, RequestsOfCalls
<1>6. TimersOfRetries' /\ TimersOfDelays'
  BY <1>1, <1>3 DEF PathInv, TimersOfRetries, TimersOfDelays
<1>7. AttemptsAllowed'
  BY <1>1, <1>2, <1>3 DEF PathInv, AttemptsAllowed, Allowed
<1>8. RequestsCovered'
  <2> SUFFICES ASSUME NEW p \in DOMAIN def PROVE Covered(p)'
    BY <1>1 DEF RequestsCovered
  <2>1. Covered(p)
    BY DEF PathInv, RequestsCovered
  <2>2. CASE p = Resume
    BY <1>1, <1>2, <2>1, <2>2, NullIsNone DEF Covered, Outcome
  <2>3. CASE p # Resume
    BY <1>1, <1>2, <2>1, <2>3 DEF Covered
  <2> QED  BY <2>2, <2>3
<1>9. OnceSpent'
  <2> SUFFICES ASSUME NEW p \in DOMAIN def, def[p].once, visit.reached[p] # 0
               PROVE  Excused(p)
    BY <1>1 DEF OnceSpent, Excused
  <2>1. def[p].call = "rest"
    BY DEF PathInv, RequestsOfCalls
  <2>2. ~Spent(p)
    BY <1>1, <2>1 DEF Spent, Interrupted, Resume
  <2> QED  BY <2>2 DEF PathInv, OnceSpent
<1> QED
  BY <1>4, <1>5, <1>6, <1>7, <1>8, <1>9 DEF PathInv

\* A write to a row that leaves its task, and its attempts, alone while nobody works on it.
LEMMA IdlePath ==
    ASSUME TypeInv, PathInv, row # NULL, adv = NULL, adv' = NULL, row' # NULL,
           row'.task = row.task, row'.retry = row.retry,
           row'.wake = row.wake \/ row'.wake = NULL,
           UNCHANGED <<def, visit, excused>>,
           row'.status # "running",
           row.status \in {"running", "cancelling"}
    PROVE  PathInv'
<1>1. Resume' = Resume
  BY DEF Resume
<1>2. Resumed' /\ AnswersToCalls'
  BY DEF Resumed, AnswersToCalls
<1>3. RequestsOfCalls'
  BY DEF PathInv, RequestsOfCalls
<1>4. TimersOfRetries' /\ TimersOfDelays'
  BY <1>1 DEF PathInv, TimersOfRetries, TimersOfDelays
<1>5. AttemptsAllowed'
  BY <1>1 DEF PathInv, AttemptsAllowed, Allowed
<1>6. RequestsCovered'
  BY <1>1 DEF PathInv, RequestsCovered, Covered
<1>7. OnceSpent'
  BY <1>1 DEF PathInv, OnceSpent, Spent, Excused
<1> QED
  BY <1>2, <1>3, <1>4, <1>5, <1>6, <1>7 DEF PathInv

LEMMA RefusedClaimPath ==
    ASSUME TypeInv, PathInv, CancelInstance \/ FailInterrupted
    PROVE  PathInv'
<1>1. /\ row # NULL /\ adv = NULL /\ adv' = NULL /\ row.status \in {"running", "cancelling"}
      /\ UNCHANGED <<def, visit, excused>>
  BY DEF CancelInstance, FailInterrupted, Claimable
<1>2. row \in Rows
  BY <1>1, Typed
<1>3. /\ row' \in Rows /\ row'.task = row.task /\ row'.retry = row.retry
      /\ row'.wake = row.wake \/ row'.wake = NULL
      /\ row'.status # "running"
  BY <1>2 DEF CancelInstance, FailInterrupted, Rows
<1>4. row' # NULL
  BY <1>3, NullIsNone
<1> QED
  BY <1>1, <1>3, <1>4, IdlePath

\* A request is counted; a second one for the same task finds the first excused.
LEMMA SendPath ==
    ASSUME TypeInv, PathInv, NEW o \in Outcome, SendCall(o)
    PROVE  PathInv'
<1>1. /\ adv # NULL /\ Task.call = "rest" /\ adv.answer = NULL /\ UNCHANGED <<def, row, excused>>
      /\ adv' = [adv EXCEPT !.answer = o]
      /\ visit' = [visit EXCEPT !.requests[adv.idx] = IF o = "ok" THEN 0 ELSE @ + 1,
                               !.reached[adv.idx] = IF Reached(o) /\ @ < 2 THEN @ + 1 ELSE @]
  BY DEF SendCall
<1>2. /\ adv \in Advances /\ adv.idx \in DOMAIN def /\ row # NULL /\ visit \in Visits
      /\ adv.retry \in Nat
  BY <1>1, TypedAdvance DEF TypeInv, FlowTypes, Advances
<1>3. /\ adv' \in Advances /\ adv'.idx = adv.idx /\ adv'.i = adv.i /\ adv'.answer = o
      /\ adv'.retry = adv.retry /\ adv'.wake = adv.wake
  BY <1>1, <1>2 DEF Advances
<1>4. adv' # NULL /\ o # NULL
  BY <1>3, NullIsNone
<1>5. /\ visit'.reruns = visit.reruns /\ visit'.armed = visit.armed
      /\ visit'.requests[adv.idx] = IF o = "ok" THEN 0 ELSE visit.requests[adv.idx] + 1
      /\ visit'.reached[adv.idx] = IF Reached(o) /\ visit.reached[adv.idx] < 2
                                  THEN visit.reached[adv.idx] + 1 ELSE visit.reached[adv.idx]
      /\ \A p \in DOMAIN def \ {adv.idx} : /\ visit'.requests[p] = visit.requests[p]
                                          /\ visit'.reached[p] = visit.reached[p]
  BY <1>1, <1>2 DEF Visits
<1>6. Resume' = Resume
  BY <1>1 DEF Resume
<1>7. Resumed' /\ AnswersToCalls'
  BY <1>1, <1>3, <1>6 DEF PathInv, Resumed, AnswersToCalls, Task
<1>8. RequestsOfCalls'
  <2> SUFFICES ASSUME NEW p \in DOMAIN def, visit'.requests[p] # 0 \/ visit'.reached[p] # 0
               PROVE  def[p].call = "rest"
    BY <1>1 DEF RequestsOfCalls
  <2>1. CASE p = adv.idx
    BY <1>1, <2>1 DEF Task
  <2>2. CASE p # adv.idx
    BY <1>5, <2>2 DEF PathInv, RequestsOfCalls
  <2> QED  BY <2>1, <2>2
<1>9. TimersOfRetries' /\ TimersOfDelays'
  BY <1>1, <1>5, <1>6 DEF PathInv, TimersOfRetries, TimersOfDelays
<1>10. AttemptsAllowed'
  BY <1>1, <1>3, <1>4, <1>6 DEF PathInv, AttemptsAllowed, Allowed
<1>11. RequestsCovered'
  <2> SUFFICES ASSUME NEW p \in DOMAIN def PROVE Covered(p)'
    BY <1>1 DEF RequestsCovered
  <2>1. Covered(p) /\ visit.requests[p] \in Nat /\ visit.reruns \in Nat
    BY Numbers DEF PathInv, RequestsCovered
  <2>2. CASE p = adv.idx
    <3>1. visit.requests[p] <= visit.reruns + adv.retry
      BY <1>1, <2>1, <2>2 DEF Covered
    <3>2. visit'.requests[p] <= visit.reruns + adv.retry + 1
      BY <1>2, <1>5, <2>1, <2>2, <3>1
    <3>3. o = "ok" => visit'.requests[p] = 0
      BY <1>5, <2>2
    <3> QED  BY <1>3, <1>4, <1>5, <2>2, <3>2, <3>3 DEF Covered
  <2>3. CASE p # adv.idx
    BY <1>1, <1>3, <1>4, <1>5, <2>1, <2>3 DEF Covered
  <2> QED  BY <2>2, <2>3
<1>12. OnceSpent'
  <2> SUFFICES ASSUME NEW p \in DOMAIN def, def[p].once, visit'.reached[p] # 0, ~Excused(p)
               PROVE  Spent(p)'
    BY <1>1 DEF OnceSpent, Excused
  <2>1. ~Spent(p)
    BY <1>1 DEF Spent
  <2>2. visit.reached[p] = 0
    BY <2>1 DEF PathInv, OnceSpent
  <2>3. p = adv.idx
    BY <1>5, <2>2
  <2>4. Reached(o) /\ visit'.reached[p] = 1
    BY <1>5, <2>2, <2>3
  <2> QED  BY <1>3, <1>4, <2>3, <2>4 DEF Spent
<1> QED
  BY <1>7, <1>8, <1>9, <1>10, <1>11, <1>12 DEF PathInv

\* An advance goes on in memory without attempts and without a timer.
LEMMA InlinePath ==
    ASSUME TypeInv, PathInv, adv # NULL, NEW g \in Task.switch, GotoInline(g)
    PROVE  PathInv'
<1>1. /\ Task.call = "none" /\ UNCHANGED <<def, row, visit, excused>>
      /\ adv' = [WithOutput EXCEPT !.idx = Target(g), !.i = @ + 1]
  BY DEF GotoInline
<1>2. /\ adv \in Advances /\ adv.idx \in DOMAIN def /\ row # NULL /\ adv.i \in Nat
      /\ def \in Definitions /\ Validate(def)
  BY TypedAdvance, Typed DEF Advances
<1>3. Target(g) \in DOMAIN def
  BY <1>2, TargetType DEF GotoInline, Target, Task
<1>4. /\ adv'.idx = Target(g) /\ adv'.i = adv.i + 1 /\ adv'.answer = NULL
      /\ adv'.retry = 0 /\ adv'.wake = NULL
  BY <1>1, <1>2 DEF WithOutput, Advances
<1>5. adv' # NULL
  <2>1. TypeInv'
    BY MemoryTypes
  <2>2. row # NULL /\ row.lease = "held"
    BY <1>2 DEF TypeInv, TypeOK
  <2> QED  BY <1>1, <2>1, <2>2 DEF TypeInv, TypeOK
<1>6. Resume' = Resume
  BY <1>1 DEF Resume
<1>7. Resumed'
  <2>1. adv'.i # 0
    BY <1>2, <1>4
  <2>2. def[Resume].call = "none"
    BY <1>1 DEF PathInv, Resumed, Task
  <2> QED  BY <1>1, <1>4, <1>6, <2>1, <2>2 DEF Resumed
<1>8. AnswersToCalls'
  BY <1>4 DEF AnswersToCalls
<1>9. RequestsOfCalls'
  BY <1>1 DEF PathInv, RequestsOfCalls
<1>10. TimersOfRetries' /\ TimersOfDelays'
  BY <1>1, <1>6 DEF PathInv, TimersOfRetries, TimersOfDelays
<1>11. AttemptsAllowed'
  <2>1. 0 <= Most(def, Target(g))
    BY <1>3, Numbers
  <2> QED  BY <1>1, <1>4, <1>6, <2>1 DEF PathInv, AttemptsAllowed, Allowed
<1>12. \A p \in DOMAIN def : visit.requests[p] <= visit.reruns
  <2> SUFFICES ASSUME NEW p \in DOMAIN def PROVE visit.requests[p] <= visit.reruns
    OBVIOUS
  <2>1. CASE p = adv.idx
    <3>1. visit.requests[p] = 0 /\ visit.reruns \in Nat
      BY <1>1, <2>1, StayFacts
    <3> QED  BY <3>1
  <2>2. CASE p # adv.idx
    BY <2>2 DEF PathInv, RequestsCovered, Covered
  <2> QED  BY <2>1, <2>2
<1>13. RequestsCovered'
  <2> SUFFICES ASSUME NEW p \in DOMAIN def PROVE Covered(p)'
    BY <1>1 DEF RequestsCovered
  <2>1. visit.requests[p] <= visit.reruns + 0 /\ visit.requests[p] <= visit.reruns + 0 + 1
    BY <1>12, Numbers
  <2> QED
    BY <1>1, <1>4, <1>5, <1>12, <2>1, NullIsNone DEF Covered, Outcome
<1>14. OnceSpent'
  <2> SUFFICES ASSUME NEW p \in DOMAIN def, def[p].once, visit.reached[p] # 0
               PROVE  Excused(p)
    BY <1>1 DEF OnceSpent, Excused
  <2>1. p # adv.idx
    BY <1>1, StayFacts
  <2> QED  BY <2>1 DEF PathInv, OnceSpent, Spent
<1> QED
  BY <1>7, <1>8, <1>9, <1>10, <1>11, <1>13, <1>14 DEF PathInv

\* A crash: either the row names the task of the advance, or it had gone on in memory.
LEMMA CrashPath ==
    ASSUME TypeInv, PathInv, Crash
    PROVE  PathInv'
<1>1. /\ adv # NULL /\ adv' = NULL /\ row' = [row EXCEPT !.lease = "lost"]
      /\ visit' = [visit EXCEPT !.reruns = @ + 1] /\ def' = def
      /\ excused' = IF adv.answer # NULL /\ Reached(adv.answer) /\ adv.i > 0 /\ Task.once
                    THEN excused \cup {<<adv.idx, "inlined">>} ELSE excused
  BY DEF Crash
<1>2. /\ row # NULL /\ row \in Rows /\ row.status \in {"running", "cancelling"}
      /\ visit \in Visits /\ adv.i \in Nat /\ adv.retry \in Nat /\ row.retry \in Nat
  BY <1>1, Typed, TypedAdvance, Numbers DEF TypeInv, FlowTypes
<1>3. /\ row'.task = row.task /\ row'.retry = row.retry /\ row'.wake = row.wake
      /\ row'.status = row.status /\ row'.lease = "lost" /\ row' \in Rows
  BY <1>1, <1>2 DEF Rows
<1>4. row' # NULL
  BY <1>3, NullIsNone
<1>5. /\ visit'.requests = visit.requests /\ visit'.reached = visit.reached
      /\ visit'.reruns = visit.reruns + 1 /\ visit'.armed = visit.armed
  BY <1>1, <1>2 DEF Visits
<1>6. Resume' = Resume
  BY <1>1, <1>3 DEF Resume
<1>7. Resumed' /\ AnswersToCalls'
  BY <1>1 DEF Resumed, AnswersToCalls
<1>8. RequestsOfCalls'
  BY <1>1, <1>5 DEF PathInv, RequestsOfCalls
<1>9. TimersOfRetries' /\ TimersOfDelays'
  BY <1>1, <1>2, <1>3, <1>5, <1>6 DEF PathInv, TimersOfRetries, TimersOfDelays
<1>10. AttemptsAllowed'
  BY <1>1, <1>2, <1>3, <1>6 DEF PathInv, AttemptsAllowed, Allowed
<1>11. RequestsCovered'
  <2> SUFFICES ASSUME NEW p \in DOMAIN def PROVE Covered(p)'
    BY <1>1 DEF RequestsCovered
  <2>1. Covered(p) /\ visit.requests[p] \in Nat /\ visit.reruns \in Nat
    BY Numbers DEF PathInv, RequestsCovered
  <2>2. CASE adv.idx = p /\ adv.i = 0
    <3>1. Resume = p /\ adv.retry = row.retry
      BY <1>1, <2>2 DEF PathInv, Resumed
    <3>2. visit.requests[p] <= visit.reruns + row.retry + 1
      BY <1>1, <2>1, <2>2, <3>1 DEF Covered
    <3>3. /\ visit.requests[p] <= visit.reruns + 1 + row.retry
          /\ visit.requests[p] <= visit.reruns + 1 + row.retry + 1
      BY <1>2, <2>1, <3>2
    <3> QED  BY <1>1, <1>4, <1>3, <1>5, <1>6, <3>1, <3>3 DEF Covered
  <2>3. CASE ~(adv.idx = p /\ adv.i = 0)
    <3>1. visit.requests[p] <= visit.reruns + 1
      <4>1. CASE adv.idx = p
        <5>1. adv.retry = 0
          BY <1>1, <2>3, <4>1 DEF PathInv, Resumed
        <5>2. visit.requests[p] <= visit.reruns + adv.retry + 1
          BY <1>1, <2>1, <4>1 DEF Covered
        <5> QED  BY <2>1, <5>1, <5>2
      <4>2. CASE adv.idx # p
        BY <1>1, <2>1, <4>2 DEF Covered
      <4> QED  BY <4>1, <4>2
    <3>2. /\ visit.requests[p] <= visit.reruns + 1 + row.retry
          /\ visit.requests[p] <= visit.reruns + 1 + row.retry + 1
      BY <1>2, <2>1, <3>1
    <3> QED  BY <1>1, <1>4, <1>3, <1>5, <1>6, <3>1, <3>2 DEF Covered
  <2> QED  BY <2>2, <2>3
<1>12. OnceSpent'
  <2> SUFFICES ASSUME NEW p \in DOMAIN def, def[p].once, visit.reached[p] # 0
               PROVE  Excused(p)' \/ Spent(p)'
    BY <1>1, <1>5 DEF OnceSpent
  <2>1. Excused(p) => Excused(p)'
    BY <1>1 DEF Excused
  <2>2. CASE Spent(p)
    <3>1. adv.idx = p /\ adv.answer # NULL /\ Reached(adv.answer) /\ visit.reached[p] = 1
      BY <1>1, <2>2 DEF Spent
    <3>2. CASE adv.i = 0
      <4>1. Resume = p
        BY <1>1, <3>1, <3>2 DEF PathInv, Resumed
      <4> QED  BY <1>1, <1>3, <1>4, <1>5, <1>6, <3>1, <4>1 DEF Spent
    <3>3. CASE adv.i # 0
      <4>1. adv.i > 0
        BY <1>2, <3>3
      <4> QED  BY <1>1, <3>1, <4>1 DEF Excused, Task
    <3> QED  BY <3>2, <3>3
  <2> QED  BY <2>1, <2>2 DEF PathInv, OnceSpent
<1> QED
  BY <1>7, <1>8, <1>9, <1>10, <1>11, <1>12 DEF PathInv

\* A cancel changes the status only.
LEMMA CancelPath ==
    ASSUME TypeInv, PathInv, CancelProcess
    PROVE  PathInv'
<1>1. /\ row # NULL /\ row.status = "running" /\ row' = [row EXCEPT !.status = "cancelling"]
      /\ UNCHANGED <<def, adv, visit, excused>>
  BY DEF CancelProcess
<1>2. row \in Rows
  BY <1>1, Typed
<1>3. /\ row'.task = row.task /\ row'.retry = row.retry /\ row'.wake = row.wake
      /\ row'.status = "cancelling" /\ row' \in Rows
  BY <1>1, <1>2 DEF Rows
<1>4. row' # NULL
  BY <1>3, NullIsNone
<1>5. Resume' = Resume
  BY <1>1, <1>3 DEF Resume
<1>6. Resumed' /\ AnswersToCalls'
  BY <1>1, <1>3, <1>5 DEF PathInv, Resumed, AnswersToCalls, Task
<1>7. RequestsOfCalls'
  BY <1>1 DEF PathInv, RequestsOfCalls
<1>8. TimersOfRetries' /\ TimersOfDelays'
  BY <1>1, <1>3, <1>5 DEF PathInv, TimersOfRetries, TimersOfDelays
<1>9. AttemptsAllowed'
  BY <1>1, <1>3, <1>5 DEF PathInv, AttemptsAllowed, Allowed
<1>10. RequestsCovered'
  BY <1>1, <1>3, <1>4, <1>5 DEF PathInv, RequestsCovered, Covered
<1>11. OnceSpent'
  BY <1>1, <1>3, <1>4, <1>5 DEF PathInv, OnceSpent, Spent, Excused
<1> QED
  BY <1>6, <1>7, <1>8, <1>9, <1>10, <1>11 DEF PathInv

\* An operator's retry is one more rerun, and of an only_once task it is forced.
LEMMA RevivePath ==
    ASSUME TypeInv, PathInv, NEW force \in BOOLEAN, RetryProcess(force)
    PROVE  PathInv'
<1>1. /\ row # NULL /\ row.status \in {"failed", "cancelled"}
      /\ def' = def /\ adv' = adv
  BY DEF RetryProcess
<1>1a. row' = [row EXCEPT !.status = "running", !.wake = IF row.retry > 0 THEN NULL ELSE @,
                         !.lease = "none", !.revived = TRUE, !.stale = @ \cup {row.task}]
  BY DEF RetryProcess
<1>1b. visit' = [visit EXCEPT !.reruns = @ + 1]
  BY DEF RetryProcess
<1>1c. /\ force \/ ~def[Resume].once
       /\ excused' = IF force /\ def[Resume].once THEN excused \cup {<<Resume, "forced">>} ELSE excused
  BY DEF RetryProcess, Resume
<1>2. row \in Rows /\ visit \in Visits /\ row.retry \in Nat /\ adv = NULL
  BY <1>1, Typed, Numbers DEF TypeInv, FlowTypes
<1>3. /\ row'.task = row.task /\ row'.retry = row.retry /\ row'.status = "running"
      /\ row'.wake = IF row.retry > 0 THEN NULL ELSE row.wake
  BY <1>1a, <1>2 DEF Rows
<1>4. row' # NULL
  <2>1. row' \in Rows
    <3>1. row.stale \cup {row.task} \in SUBSET STRING
      BY <1>2 DEF Rows
    <3>2. (IF row.retry > 0 THEN NULL ELSE row.wake) \in Int \cup {NULL}
      BY <1>2 DEF Rows
    <3> QED  BY <1>1a, <1>2, <3>1, <3>2 DEF Rows
  <2> QED  BY <2>1, NullIsNone
<1>5. /\ visit'.requests = visit.requests /\ visit'.reached = visit.reached
      /\ visit'.reruns = visit.reruns + 1 /\ visit'.armed = visit.armed
  BY <1>1b, <1>2 DEF Visits
<1>6. Resume' = Resume
  BY <1>1, <1>3 DEF Resume
<1>7. Resumed' /\ AnswersToCalls'
  BY <1>1, <1>2 DEF Resumed, AnswersToCalls
<1>8. RequestsOfCalls'
  BY <1>1, <1>5 DEF PathInv, RequestsOfCalls
<1>9. TimersOfRetries'
  <2>1. row.retry # 0 => row'.wake = NULL
    BY <1>2, <1>3
  <2> QED  BY <1>1, <1>3, <1>6, <2>1 DEF PathInv, TimersOfRetries
<1>10. TimersOfDelays'
  <2>1. row'.wake # NULL => row.wake # NULL
    BY <1>3
  <2> QED  BY <1>1, <1>5, <1>6, <2>1 DEF PathInv, TimersOfDelays
<1>11. AttemptsAllowed'
  BY <1>1, <1>2, <1>3, <1>6 DEF PathInv, AttemptsAllowed, Allowed
<1>12. RequestsCovered'
  <2> SUFFICES ASSUME NEW p \in DOMAIN def PROVE Covered(p)'
    BY <1>1 DEF RequestsCovered
  <2>1. Covered(p) /\ visit.requests[p] \in Nat /\ visit.reruns \in Nat
    BY Numbers DEF PathInv, RequestsCovered
  <2>2. CASE p = Resume
    <3>1. visit.requests[p] <= visit.reruns + row.retry + 1
      BY <1>1, <1>2, <2>1, <2>2 DEF Covered
    <3>2. /\ visit.requests[p] <= visit.reruns + 1 + row.retry
          /\ visit.requests[p] <= visit.reruns + 1 + row.retry + 1
      BY <1>2, <2>1, <3>1
    <3> QED  BY <1>1, <1>2, <1>3, <1>4, <1>5, <1>6, <2>2, <3>2 DEF Covered
  <2>3. CASE p # Resume
    <3>1. visit.requests[p] <= visit.reruns
      BY <1>2, <2>1, <2>3 DEF Covered
    <3>2. visit.requests[p] <= visit.reruns + 1
      BY <2>1, <3>1
    <3> QED  BY <1>1, <1>2, <1>4, <1>5, <1>6, <2>3, <3>2 DEF Covered
  <2> QED  BY <2>2, <2>3
<1>13. OnceSpent'
  <2> SUFFICES ASSUME NEW p \in DOMAIN def, def[p].once, visit.reached[p] # 0
               PROVE  Excused(p)'
    BY <1>1, <1>5 DEF OnceSpent
  <2>1. CASE p = Resume
    BY <1>1, <1>1c, <2>1 DEF Excused
  <2>2. CASE p # Resume
    <3>1. Excused(p)
      BY <1>2, <2>2 DEF PathInv, OnceSpent, Spent
    <3> QED  BY <1>1, <1>1c, <3>1 DEF Excused
  <2> QED  BY <2>1, <2>2
<1> QED
  BY <1>7, <1>8, <1>9, <1>10, <1>11, <1>12, <1>13 DEF PathInv

LEMMA InitPath == Init => PathInv
<1> SUFFICES ASSUME Init PROVE PathInv
  OBVIOUS
<1>1. row = NULL /\ adv = NULL /\ visit = None
  BY DEF Init
<1>2. /\ \A p \in DOMAIN def : visit.requests[p] = 0 /\ visit.reached[p] = 0
      /\ visit.reruns = 0
  BY <1>1 DEF None
<1>3. Resumed /\ AnswersToCalls /\ TimersOfRetries /\ TimersOfDelays /\ AttemptsAllowed
  BY <1>1 DEF Resumed, AnswersToCalls, TimersOfRetries, TimersOfDelays, AttemptsAllowed
<1>4. RequestsOfCalls /\ RequestsCovered /\ OnceSpent
  BY <1>1, <1>2 DEF RequestsOfCalls, RequestsCovered, Covered, OnceSpent
<1> QED
  BY <1>3, <1>4 DEF PathInv

LEMMA PathStep == TypeInv /\ Distinct(def) /\ PathInv /\ [Next]_vars => PathInv'
<1> SUFFICES ASSUME TypeInv, Distinct(def), PathInv, [Next]_vars PROVE PathInv'
  OBVIOUS
<1>1. CASE Register  BY <1>1, RegisterPath
<1>2. CASE CancelInstance \/ FailInterrupted  BY <1>2, RefusedClaimPath
<1>3. CASE Claim  BY <1>3, ClaimPath
<1>4. CASE Advance
  <2>1. adv # NULL
    BY <1>4 DEF Advance, FailInstance, SendCall, ArmDelay, GotoEnd, RetryCall, ErrorEnd,
                ErrorRoute, ErrorFails, Failed
  <2>2. CASE \E done \in BOOLEAN : FailInstance(done)  BY <2>2, FailPath
  <2>3. CASE \E o \in Outcome : SendCall(o)  BY <2>3, SendPath
  <2>4. CASE ArmDelay  BY <2>4, ArmPath
  <2>5. CASE GotoEnd  BY <2>5, EndPath
  <2>6. CASE \E g \in Task.switch : GotoInline(g)  BY <2>1, <2>6, InlinePath
  <2>7. CASE ErrorRoute \/ \E g \in Task.switch : GotoCheckpoint(g)  BY <2>1, <2>7, RoutePath
  <2>8. CASE RetryCall  BY <2>8, RetryPath
  <2>9. CASE ErrorEnd \/ ErrorFails  BY <2>9, ErrorPath
  <2> QED
    BY <1>4, <2>2, <2>3, <2>4, <2>5, <2>6, <2>7, <2>8, <2>9 DEF Advance
<1>5. CASE Crash  BY <1>5, CrashPath
<1>6. CASE CancelProcess  BY <1>6, CancelPath
<1>7. CASE \E force \in BOOLEAN : RetryProcess(force)  BY <1>7, RevivePath
<1>8. CASE UNCHANGED vars
  <2>1. Resume' = Resume
    BY <1>8 DEF vars, Resume
  <2> QED
    BY <1>8, <2>1 DEF vars, PathInv, Resumed, AnswersToCalls, RequestsOfCalls, TimersOfRetries,
         TimersOfDelays, AttemptsAllowed, Allowed, RequestsCovered, Covered, OnceSpent, Spent,
         Excused, Task
<1> QED
  BY <1>1, <1>2, <1>3, <1>4, <1>5, <1>6, <1>7, <1>8 DEF Next

\* FlowInv is inductive: the definition of an instance never changes.
THEOREM Invariance == Spec => []FlowInv
<1>1. Init => FlowInv
  BY InitType, InitPath DEF FlowInv
<1>2. FlowInv /\ [Next]_vars => FlowInv'
  <2> SUFFICES ASSUME FlowInv, [Next]_vars PROVE FlowInv'
    OBVIOUS
  <2>1. TypeInv /\ TypeInv'
    BY TypeStep DEF FlowInv
  <2>2. def' = def
    BY DEF Next, vars, Register, CancelInstance, FailInterrupted, Claim, Advance, Crash,
           CancelProcess, RetryProcess, FailInstance, SendCall, ArmDelay, GotoEnd, GotoInline,
           GotoCheckpoint, RetryCall, ErrorEnd, ErrorRoute, ErrorFails
  <2>3. Distinct(def)' => Distinct(def)
    BY <2>2
  <2>4. Distinct(def)' => PathInv'
    BY <2>1, <2>3, PathStep DEF FlowInv
  <2> QED  BY <2>1, <2>4 DEF FlowInv
<1> QED
  BY <1>1, <1>2, PTL DEF Spec

\* The server gets the request of an only_once task at most once per visit, but for the
\* named exceptions: a second request needs a claim or a retry that the engine refuses.
THEOREM OnceIsOnce == Spec => []AtMostOnce
<1>1. FlowInv => AtMostOnce
  <2> SUFFICES ASSUME FlowInv, Distinct(def), NEW p \in DOMAIN def,
                      def[p].once, visit.reached[p] > 1
               PROVE  Excused(p)
    BY DEF AtMostOnce, Excused
  <2>1. visit.reached[p] # 0 /\ visit.reached[p] # 1
    BY Numbers DEF FlowInv
  <2> QED  BY <2>1 DEF FlowInv, PathInv, OnceSpent, Spent
<1> QED
  BY <1>1, Invariance, PTL

\* A delay is passed only if it was armed on this visit.
THEOREM DelaysAreWaited == Spec => []DelayIsWaited
<1>1. FlowInv => DelayIsWaited
  BY AdvanceCarries DEF FlowInv, DelayIsWaited
<1> QED
  BY <1>1, Invariance, PTL

\* Failures in a row are bounded by the rules and the reruns, and retries are paced by
\* the exponential backoff up to the 33rd.
THEOREM RetriesAreBounded == Spec => []RetriesBounded
<1>1. FlowInv /\ Distinct(def) => AttemptsBounded
  <2> SUFFICES ASSUME TypeInv, PathInv, NEW p \in DOMAIN def
               PROVE  visit.requests[p] <= 1 + visit.reruns + Most(def, p)
    BY DEF FlowInv, AttemptsBounded, Most
  <2>1. /\ visit.requests[p] \in Nat /\ visit.reruns \in Nat /\ Most(def, p) \in Nat
        /\ adv # NULL => adv.retry \in Nat
        /\ row # NULL => row.retry \in Nat
    BY Numbers
  <2>2. Covered(p)
    BY DEF PathInv, RequestsCovered
  <2>3. CASE adv # NULL /\ adv.idx = p
    <3>1. visit.requests[p] <= visit.reruns + adv.retry + 1 /\ adv.retry <= Most(def, p)
      BY <2>2, <2>3 DEF Covered, PathInv, AttemptsAllowed, Allowed
    <3> QED  BY <2>1, <2>3, <3>1
  <2>4. CASE adv = NULL /\ row # NULL /\ Resume = p
    <3>1. visit.requests[p] <= visit.reruns + row.retry + 1 /\ row.retry <= Most(def, p)
      BY <2>2, <2>4, <2>1 DEF Covered, PathInv, AttemptsAllowed, Allowed
    <3> QED  BY <2>1, <2>4, <3>1
  <2>5. CASE ~(adv # NULL /\ adv.idx = p) /\ ~(adv = NULL /\ row # NULL /\ Resume = p)
    <3>1. visit.requests[p] <= visit.reruns
      BY <2>2, <2>5 DEF Covered
    <3> QED  BY <2>1, <3>1
  <2> QED  BY <2>3, <2>4, <2>5
<1>2. FlowInv /\ Distinct(def) => BackoffUpTo33
  <2> SUFFICES ASSUME TypeInv, PathInv, row # NULL, row.retry > 0, row.wake # NULL, ~(row.retry > 33)
               PROVE  row.wake = Backoff(row.retry)
    BY DEF FlowInv, BackoffUpTo33
  <2>1. row.retry \in Nat /\ row.retry # 0 /\ row.retry <= 33
    BY Numbers
  <2>2. row.wake = RetryDelay(row.retry)
    BY <2>1 DEF PathInv, TimersOfRetries
  <2> QED  BY <2>1, <2>2, DelayType
<1>3. FlowInv => RetriesBounded
  BY <1>1, <1>2 DEF RetriesBounded
<1> QED
  BY <1>3, Invariance, PTL

=============================================================================
