---------------------------- MODULE ObjectsProofs ----------------------------
(***************************************************************************)
(* Proofs about Objects, for any number of instances, contents and workers *)
(* and every retention.  What a transaction can do to one object is one of *)
(* five fates; each keeps what is known of an object, of those that a row  *)
(* refers to and of those that a log entry refers to.                      *)
(***************************************************************************)
EXTENDS Objects, TLAPS

\* What is known of an object, whoever refers to it: its horizon is one that a log write
\* could have set by now, and it is pinned or has a horizon.
Sound(o) ==
    o # NULL =>
        /\ o \in Object
        /\ o.until \in Nat => Retention > 0 /\ o.until <= clock + Retention
        /\ o.until = Forever => Retention = 0
        /\ o.pinned \/ o.until # NULL

\* The horizon of a log object that is written now.
Horizon == IF Retention > 0 THEN clock + Retention ELSE Forever

\* What a step can do to an object.
Fate(o, p) ==
    \/ p = o \/ p = Pinned(o) \/ p = Logged(o, Horizon) \/ p = Swept(o)
    \/ o # NULL /\ p = Dereferenced(o)

\* The object can be read until a log entry stamped at t has expired.
Outlives(o, t) ==
    o # NULL /\ (o.until = Forever \/ (o.until \in Nat /\ o.until >= t + Retention))

Expired(t) == Retention > 0 /\ t + Retention < clock

ObjectsSound == \A i \in Instance, v \in Big : Sound(objects[i][v])

------------------------------------------------------------------------------
(* One object. *)

LEMMA ObjectIsSome == NULL \notin Object
BY ObjectConstants DEF Object

\* What the statements leave in the columns.
LEMMA PinnedFields ==
    ASSUME NEW o, Sound(o)
    PROVE  /\ Pinned(o) \in Object /\ Pinned(o) # NULL /\ Pinned(o).pinned
           /\ Pinned(o).until = IF o = NULL THEN NULL ELSE o.until
<1>. DEFINE u == IF o = NULL THEN NULL ELSE o.until
<1>1. u \in Nat \cup {NULL, Forever}  BY DEF Sound, Object
<1>. HIDE DEF u
<1>2. [pinned |-> TRUE, until |-> u] \in Object  BY <1>1 DEF Object
<1>3. Pinned(o) = [pinned |-> TRUE, until |-> u]  BY DEF Pinned, u
<1>4. Pinned(o).pinned /\ Pinned(o).until = u  BY <1>3
<1>. QED  BY <1>2, <1>3, <1>4, ObjectIsSome DEF u

LEMMA HorizonCases ==
    ASSUME clock \in Nat
    PROVE  \/ Retention > 0 /\ Horizon = clock + Retention /\ Horizon \in Nat
           \/ Retention = 0 /\ Horizon = Forever
<1>1. CASE Retention > 0
  <2>1. clock + Retention \in Nat  BY ObjectConstants
  <2>. QED  BY <1>1, <2>1 DEF Horizon
<1>2. CASE ~ (Retention > 0)
  <2>1. Retention = 0  BY <1>2, ObjectConstants
  <2>. QED  BY <1>2, <2>1 DEF Horizon
<1>. QED  BY <1>1, <1>2

LEMMA LoggedFields ==
    ASSUME NEW o, Sound(o), NEW u \in Nat \cup {Forever}
    PROVE  /\ Logged(o, u) \in Object /\ Logged(o, u) # NULL
           /\ Logged(o, u).pinned <=> (o # NULL /\ o.pinned)
           /\ Logged(o, u).until = u
<1>. DEFINE b == o # NULL /\ o.pinned
<1>1. b \in BOOLEAN  BY DEF Sound, Object
<1>. HIDE DEF b
<1>2. [pinned |-> b, until |-> u] \in Object  BY <1>1 DEF Object
<1>3. Logged(o, u) = [pinned |-> b, until |-> u]  BY DEF Logged, b
<1>4. (Logged(o, u).pinned <=> b) /\ Logged(o, u).until = u  BY <1>1, <1>3
<1>. QED  BY <1>2, <1>3, <1>4, ObjectIsSome DEF b

LEMMA DereferencedFields ==
    ASSUME NEW o, Sound(o), o # NULL, ~ NotLogged(o, clock)
    PROVE  /\ Dereferenced(o) \in Object /\ Dereferenced(o) # NULL
           /\ ~ Dereferenced(o).pinned /\ Dereferenced(o).until = o.until
<1>1. Dereferenced(o) = [pinned |-> FALSE, until |-> o.until]
  BY DEF Dereferenced, Sound, Object
<1>2. [pinned |-> FALSE, until |-> o.until] \in Object  BY DEF Sound, Object
<1>3. ~ Dereferenced(o).pinned /\ Dereferenced(o).until = o.until  BY <1>1
<1>. QED  BY <1>1, <1>2, <1>3, ObjectIsSome

\* Each fate keeps an object sound.
LEMMA FateSound ==
    ASSUME NEW o, NEW p, Sound(o), Fate(o, p), clock \in Nat
    PROVE  Sound(p)
<1> USE ObjectConstants
<1>1. CASE p = o  BY <1>1
<1>2. CASE p = Pinned(o)  BY <1>2, PinnedFields DEF Sound
<1>3. CASE p = Logged(o, Horizon)
  <2>1. Horizon \in Nat \cup {Forever}  BY HorizonCases
  <2>2. p \in Object /\ p # NULL /\ p.until = Horizon  BY <1>3, <2>1, LoggedFields
  <2>. QED  BY <2>2, HorizonCases DEF Sound
<1>4. CASE p = Swept(o)  BY <1>4 DEF Swept, Sound
<1>5. CASE o # NULL /\ p = Dereferenced(o)
  <2>1. CASE NotLogged(o, clock)  BY <1>5, <2>1 DEF Dereferenced, Sound
  <2>2. CASE ~ NotLogged(o, clock)
    BY <1>5, <2>2, DereferencedFields DEF NotLogged, Sound
  <2>. QED  BY <2>1, <2>2
<1>. QED  BY <1>1, <1>2, <1>3, <1>4, <1>5 DEF Fate

\* No fate takes an object from a log entry before that has expired.
LEMMA FateOutlives ==
    ASSUME NEW o, NEW p, Sound(o), Fate(o, p), clock \in Nat,
           NEW t \in Nat, t <= clock, Outlives(o, t) \/ Expired(t)
    PROVE  Outlives(p, t) \/ Expired(t)
<1> USE ObjectConstants
<1>. SUFFICES ASSUME Outlives(o, t), ~ Expired(t)  PROVE Outlives(p, t)
  OBVIOUS
<1>1. CASE p = o  BY <1>1
<1>2. CASE p = Pinned(o)  BY <1>2, PinnedFields DEF Outlives
<1>3. CASE p = Logged(o, Horizon)
  <2>1. Horizon \in Nat \cup {Forever}  BY HorizonCases
  <2>2. p # NULL /\ p.until = Horizon  BY <1>3, <2>1, LoggedFields
  <2>3. CASE Horizon = Forever  BY <2>2, <2>3 DEF Outlives
  <2>4. CASE Horizon = clock + Retention /\ Horizon \in Nat
    <3>1. Horizon >= t + Retention  BY <2>4
    <3>. QED  BY <2>2, <2>4, <3>1 DEF Outlives
  <2>. QED  BY <2>3, <2>4, HorizonCases
<1>4. ~ NotLogged(o, clock)
  BY DEF NotLogged, Outlives, Expired, Sound
<1>5. CASE p = Swept(o)  BY <1>1, <1>4, <1>5 DEF Swept
<1>6. CASE o # NULL /\ p = Dereferenced(o)
  BY <1>4, <1>6, DereferencedFields DEF Outlives
<1>. QED  BY <1>1, <1>2, <1>3, <1>5, <1>6 DEF Fate

------------------------------------------------------------------------------
(* Every step. *)

\* The slots that an advance may set, and what it may set them to.
LEMMA WrittenFacts ==
    ASSUME NEW new \in Written
    PROVE  /\ DOMAIN new \subseteq TaskSlot \cup {Output}
           /\ \A s \in DOMAIN new : new[s] \in Big \cup {Inline}
BY DEF Written

\* What a save does to one object.
LEMMA DiffFate ==
    ASSUME NEW i \in Instance, NEW v \in Big, NEW ctx, NEW new
    PROVE  Fate(objects[i][v], ContextObjectDiff(i, ctx, new)[v])
BY DEF ContextObjectDiff, Diff, Fate

\* The table keeps its shape, and each object meets one of the fates.
LEMMA StepFates ==
    ASSUME TypeOK, [Next]_vars
    PROVE  /\ objects' = [i \in Instance |-> [v \in Big |-> objects'[i][v]]]
           /\ \A i \in Instance, v \in Big : Fate(objects[i][v], objects'[i][v])
<1>. DEFINE Fated ==
       /\ objects' = [i \in Instance |-> [v \in Big |-> objects'[i][v]]]
       /\ \A i \in Instance, v \in Big : Fate(objects[i][v], objects'[i][v])
<1>0. objects \in [Instance -> [Big -> Object \cup {NULL}]]  BY DEF TypeOK
<1>1. CASE objects' = objects  BY <1>0, <1>1 DEF Fate
<1>2. ASSUME NEW j \in Instance, NEW ctx, NEW new,
             objects' = [objects EXCEPT ![j] = ContextObjectDiff(j, ctx, new)]
      PROVE  Fated
  <2>. DEFINE diff == ContextObjectDiff(j, ctx, new)
  <2>1. diff = [v \in Big |-> diff[v]]  BY DEF ContextObjectDiff, Diff
  <2>2. \A v \in Big : Fate(objects[j][v], diff[v])  BY DiffFate
  <2>. HIDE DEF diff
  <2>3. \A i \in Instance : objects'[i] = IF i = j THEN diff ELSE objects[i]
    BY <1>0, <1>2 DEF diff
  <2>4. objects' = [i \in Instance |-> objects'[i]]  BY <1>0, <1>2
  <2>5. \A i \in Instance : objects'[i] = [v \in Big |-> objects'[i][v]]
    BY <1>0, <2>1, <2>3
  <2>6. \A i \in Instance, v \in Big : Fate(objects[i][v], objects'[i][v])
    BY <2>2, <2>3 DEF Fate
  <2>. QED  BY <2>4, <2>5, <2>6
<1>3. CASE \E i \in Instance, in \in Big \cup {Inline} : SaveInstance(i, in)
  BY <1>2, <1>3 DEF SaveInstance
<1>4. ASSUME NEW w \in Worker, NEW new, NEW full, Update(w, new, full)
      PROVE  Fated
  <2>1. advance[w].of \in Instance  BY <1>4 DEF Update, TypeOK
  <2>. QED  BY <1>2, <1>4, <2>1 DEF Update
<1>5. ASSUME NEW w \in Worker, NEW v \in Big, WriteLogObject(w, v)
      PROVE  Fated
  <2>. DEFINE j == advance[w].of
              p == Logged(objects[j][v], Horizon)
  <2>1. j \in Instance  BY <1>5 DEF WriteLogObject, TypeOK
  <2>2. objects' = [objects EXCEPT ![j] = [objects[j] EXCEPT ![v] = p]]
    BY <1>5 DEF WriteLogObject, Horizon
  <2>3. Fate(objects[j][v], p)  BY DEF Fate
  <2>. HIDE DEF j, p
  <2>4. \A i \in Instance, u \in Big :
            objects'[i][u] = IF i = j /\ u = v THEN p ELSE objects[i][u]
    BY <1>0, <2>1, <2>2
  <2>5. objects' = [i \in Instance |-> [u \in Big |-> objects'[i][u]]]
    BY <1>0, <2>1, <2>2
  <2>. QED  BY <2>3, <2>4, <2>5 DEF Fate
<1>6. CASE DeleteExpiredObjects
  <2>1. objects' = [i \in Instance |-> [v \in Big |-> Swept(objects[i][v])]]
    BY <1>6 DEF DeleteExpiredObjects
  <2>. QED  BY <2>1 DEF Fate
<1>7. ASSUME NEW w \in Worker, Advancing(w)
      PROVE  Fated
  BY <1>1, <1>4, <1>5, <1>7 DEF Advancing, Claim, UpdateFails, AppendLog
<1>8. CASE DetachLogs \/ WriteLogBatch \/ PruneLogs \/ Tick \/ Crash \/ UNCHANGED vars
  BY <1>1, <1>8 DEF DetachLogs, WriteLogBatch, PruneLogs, Tick, Crash, vars
<1>. QED  BY <1>3, <1>6, <1>7, <1>8 DEF Next

\* The clock does not run back, and stands still while objects are written.
LEMMA ClockStep ==
    ASSUME TypeOK, [Next]_vars
    PROVE  /\ clock' \in 0 .. MaxClock /\ clock' >= clock
           /\ clock' = clock \/ objects' = objects
<1> USE ObjectConstants DEF TypeOK
<1>1. CASE Tick  BY <1>1 DEF Tick
<1>2. CASE UNCHANGED clock  BY <1>2
<1>3. CASE UNCHANGED vars  BY <1>2, <1>3 DEF vars
<1>4. CASE \E i \in Instance, in \in Big \cup {Inline} : SaveInstance(i, in)
  BY <1>2, <1>4 DEF SaveInstance
<1>5. CASE \E w \in Worker : Advancing(w)
  BY <1>2, <1>5 DEF Advancing, Claim, Update, UpdateFails, WriteLogObject, AppendLog
<1>6. CASE DetachLogs \/ WriteLogBatch \/ PruneLogs \/ DeleteExpiredObjects \/ Crash
  BY <1>2, <1>6 DEF DetachLogs, WriteLogBatch, PruneLogs, DeleteExpiredObjects, Crash
<1>. QED  BY <1>1, <1>3, <1>4, <1>5, <1>6 DEF Next

LEMMA LaterHorizon ==
    ASSUME NEW c \in Nat, NEW d \in Nat, d >= c
    PROVE  \A n \in Nat : n <= c + Retention => n <= d + Retention
<1>1. Retention \in Nat  BY ObjectConstants
<1>. QED  BY <1>1

\* Objects stay sound.
LEMMA SoundStep ==
    ASSUME TypeOK, ObjectsSound, [Next]_vars
    PROVE  ObjectsSound'
<1>1. clock \in Nat /\ clock' \in Nat /\ clock' >= clock
  BY ClockStep, ObjectConstants DEF TypeOK
<1>2. ASSUME NEW i \in Instance, NEW v \in Big
      PROVE  Sound(objects[i][v])'
  <2>1. Sound(objects'[i][v])  BY <1>1, StepFates, FateSound DEF ObjectsSound
  <2>2. CASE clock' = clock  BY <2>1, <2>2 DEF Sound
  <2>3. CASE objects' = objects
    <3>1. \A n \in Nat : n <= clock + Retention => n <= clock' + Retention
      BY <1>1, LaterHorizon
    <3>. QED  BY <2>1, <2>3, <3>1 DEF Sound
  <2>. QED  BY <2>2, <2>3, ClockStep
<1>. QED  BY <1>2 DEF ObjectsSound

------------------------------------------------------------------------------
(* Types. *)

\* An advance works on an instance whose row was inserted.
RowsOfAdvances == \A w \in Worker : advance[w] # NULL => row[advance[w].of] # NULL

\* Setting slots gives a context.
LEMMA UpdatedType ==
    ASSUME NEW ctx \in Context, NEW new \in Written
    PROVE  Updated(ctx, new) \in Context
BY WrittenFacts DEF Updated, Context, Value

LEMMA ColumnsType ==
    ASSUME NEW i \in Instance, row[i] \in Context, NEW ctx \in Context, NEW full
    PROVE  Columns(i, ctx, full) \in Context
BY DEF Columns, Context

\* The type of the table of objects.
TableTyped == objects \in [Instance -> [Big -> Object \cup {NULL}]]

\* The types of what is not the table of objects.
RestTyped ==
    /\ row \in [Instance -> Context \cup {NULL}]
    /\ advance \in [Worker -> [of : Instance, ctx : Context] \cup {NULL}]
    /\ holder \in [Instance -> Worker \cup {NULL}]
    /\ audit \in [Worker -> [of : Instance, ref : Big, stamped : Nat] \cup {NULL}]
    /\ logBuf \in SUBSET Entry /\ batch \in SUBSET Entry /\ logs \in SUBSET Entry
    /\ pruning \in BOOLEAN
    /\ clock \in 0 .. MaxClock
    /\ overtaken \in SUBSET Instance

LEMMA RestTypedStep ==
    ASSUME TypeOK, RowsOfAdvances, [Next]_vars
    PROVE  RestTyped'
<1>0. RestTyped /\ clock \in Nat  BY ObjectConstants DEF TypeOK, RestTyped
<1>1. CASE UNCHANGED vars  BY <1>0, <1>1 DEF RestTyped, vars, logging
<1>2. ASSUME NEW i \in Instance, NEW in \in Big \cup {Inline}, SaveInstance(i, in)
      PROVE  RestTyped'
  <2>1. [Empty EXCEPT ![Input] = in] \in Context  BY DEF Empty, Context, Slot, Value
  <2>. HIDE DEF Context, Empty
  <2>2. row' \in [Instance -> Context \cup {NULL}]
    BY <1>0, <1>2, <2>1 DEF SaveInstance, RestTyped
  <2>. QED  BY <1>0, <1>2, <2>2 DEF SaveInstance, RestTyped, logging
<1>3. ASSUME NEW w \in Worker, NEW i \in Instance, Claim(w, i)
      PROVE  RestTyped'
  <2>1. row[i] \in Context  BY <1>0, <1>3 DEF RestTyped, Claim
  <2>2. [of |-> i, ctx |-> row[i]] \in [of : Instance, ctx : Context]  BY <2>1
  <2>3. advance' \in [Worker -> [of : Instance, ctx : Context] \cup {NULL}]
    BY <1>0, <1>3, <2>2 DEF RestTyped, Claim
  <2>4. holder' \in [Instance -> Worker \cup {NULL}]
    BY <1>0, <1>3 DEF RestTyped, Claim
  <2>. QED  BY <1>0, <1>3, <2>3, <2>4 DEF RestTyped, Claim, logging
<1>4. ASSUME NEW w \in Worker, NEW new \in Written, NEW full \in BOOLEAN, Update(w, new, full)
      PROVE  RestTyped'
  <2>. DEFINE i == advance[w].of
              ctx == advance[w].ctx
  <2>1. i \in Instance /\ ctx \in Context  BY <1>0, <1>4 DEF RestTyped, Update
  <2>2. row[i] \in Context  BY <1>0, <1>4, <2>1 DEF RestTyped, Update, RowsOfAdvances
  <2>3. Columns(i, Updated(ctx, new), full) \in Context
    BY <2>1, <2>2, UpdatedType, ColumnsType
  <2>4. row' \in [Instance -> Context \cup {NULL}]
    BY <1>0, <1>4, <2>1, <2>3 DEF RestTyped, Update
  <2>5. advance' \in [Worker -> [of : Instance, ctx : Context] \cup {NULL}]
    BY <1>0, <1>4 DEF RestTyped, Update
  <2>6. holder' \in [Instance -> Worker \cup {NULL}]
    BY <1>0, <1>4 DEF RestTyped, Update
  <2>7. overtaken' \in SUBSET Instance
    <3>1. CASE holder[i] = w  BY <1>0, <1>4, <3>1 DEF RestTyped, Update
    <3>2. CASE holder[i] # w  BY <1>0, <1>4, <2>1, <3>2 DEF RestTyped, Update
    <3>. QED  BY <3>1, <3>2
  <2>. QED  BY <1>0, <1>4, <2>4, <2>5, <2>6, <2>7 DEF RestTyped, Update, logging
<1>5. ASSUME NEW w \in Worker, UpdateFails(w)
      PROVE  RestTyped'
  <2>1. advance' \in [Worker -> [of : Instance, ctx : Context] \cup {NULL}]
    BY <1>0, <1>5 DEF RestTyped, UpdateFails
  <2>. QED  BY <1>0, <1>5, <2>1 DEF RestTyped, UpdateFails, logging
<1>6. ASSUME NEW w \in Worker, NEW v \in Big, WriteLogObject(w, v)
      PROVE  RestTyped'
  <2>1. advance[w].of \in Instance  BY <1>0, <1>6 DEF RestTyped, WriteLogObject
  <2>2. [of |-> advance[w].of, ref |-> v, stamped |-> clock]
            \in [of : Instance, ref : Big, stamped : Nat]
    BY <1>0, <2>1
  <2>3. audit' \in [Worker -> [of : Instance, ref : Big, stamped : Nat] \cup {NULL}]
    BY <1>0, <1>6, <2>2 DEF RestTyped, WriteLogObject
  <2>. QED  BY <1>0, <1>6, <2>3 DEF RestTyped, WriteLogObject
<1>7. ASSUME NEW w \in Worker, AppendLog(w)
      PROVE  RestTyped'
  <2>1. audit[w] \in [of : Instance, ref : Big, stamped : Nat]
    BY <1>0, <1>7 DEF RestTyped, AppendLog
  <2>2. logBuf' \in SUBSET Entry
    <3>1. [of |-> audit[w].of, ref |-> audit[w].ref,
           stamped |-> audit[w].stamped, at |-> clock] \in Entry
      BY <1>0, <2>1 DEF Entry
    <3>. QED  BY <1>0, <1>7, <3>1 DEF RestTyped, AppendLog
  <2>3. audit' \in [Worker -> [of : Instance, ref : Big, stamped : Nat] \cup {NULL}]
    BY <1>0, <1>7 DEF RestTyped, AppendLog
  <2>. QED  BY <1>0, <1>7, <2>2, <2>3 DEF RestTyped, AppendLog
<1>8. CASE DetachLogs  BY <1>0, <1>8 DEF RestTyped, DetachLogs
<1>9. CASE WriteLogBatch
  <2>1. PICK chunk \in (SUBSET batch) \ {{}} :
             batch' = batch \ chunk /\ logs' \in {logs, logs \cup chunk}
    BY <1>9 DEF WriteLogBatch
  <2>2. batch' \in SUBSET Entry /\ logs' \in SUBSET Entry  BY <1>0, <2>1 DEF RestTyped
  <2>. QED  BY <1>0, <1>9, <2>2 DEF RestTyped, WriteLogBatch
<1>10. CASE PruneLogs
  <2>1. logs' \in SUBSET Entry  BY <1>0, <1>10 DEF RestTyped, PruneLogs
  <2>. QED  BY <1>0, <1>10, <2>1 DEF RestTyped, PruneLogs
<1>11. CASE DeleteExpiredObjects  BY <1>0, <1>11 DEF RestTyped, DeleteExpiredObjects
<1>12. CASE Tick
  <2>1. clock' \in 0 .. MaxClock  BY ClockStep
  <2>. QED  BY <1>0, <1>12, <2>1 DEF RestTyped, Tick, logging
<1>13. CASE Crash  BY <1>0, <1>13 DEF RestTyped, Crash
<1>. QED
  BY <1>1, <1>2, <1>3, <1>4, <1>5, <1>6, <1>7, <1>8, <1>9, <1>10, <1>11, <1>12, <1>13
  DEF Next, Advancing

LEMMA TypeStep ==
    ASSUME TypeOK, ObjectsSound, RowsOfAdvances, [Next]_vars
    PROVE  TypeOK'
<1>1. TableTyped'
  <2>1. objects' = [i \in Instance |-> [v \in Big |-> objects'[i][v]]]  BY StepFates
  <2>2. ObjectsSound'  BY SoundStep
  <2>3. \A i \in Instance, v \in Big : objects'[i][v] \in Object \cup {NULL}
    BY <2>2 DEF ObjectsSound, Sound
  <2>. QED  BY <2>1, <2>3 DEF TableTyped
<1>2. RestTyped'  BY RestTypedStep
<1>. QED  BY <1>1, <1>2 DEF TypeOK, TableTyped, RestTyped

------------------------------------------------------------------------------
(* Rows and the advances that work on them. *)

\* The advance that holds a row has loaded the row as it is.
HoldersAreCurrent ==
    \A w \in Worker :
        /\ advance[w] # NULL
        /\ advance[w].of \notin overtaken
        /\ holder[advance[w].of] = w
        => advance[w].ctx = row[advance[w].of]

\* A save leaves a row.
LEMMA SavedRow ==
    ASSUME TypeOK, RowsOfAdvances, NEW w \in Worker, NEW new \in Written,
           NEW full \in BOOLEAN, Update(w, new, full)
    PROVE  /\ advance[w].of \in Instance /\ row'[advance[w].of] # NULL
           /\ \A j \in Instance : j # advance[w].of => row'[j] = row[j]
<1>. DEFINE i == advance[w].of
            ctx == advance[w].ctx
<1>1. i \in Instance /\ ctx \in Context  BY DEF TypeOK, Update
<1>2. row[i] \in Context  BY <1>1 DEF TypeOK, Update, RowsOfAdvances
<1>3. Columns(i, Updated(ctx, new), full) \in Context
  BY <1>1, <1>2, UpdatedType, ColumnsType
<1>4. row' = [row EXCEPT ![i] = Columns(i, Updated(ctx, new), full)]  BY DEF Update
<1>5. row'[i] = Columns(i, Updated(ctx, new), full)  BY <1>1, <1>4 DEF TypeOK
<1>. QED  BY <1>1, <1>3, <1>4, <1>5, ObjectConstants DEF TypeOK

LEMMA InsertedRow ==
    ASSUME TypeOK, NEW i \in Instance, NEW in \in Big \cup {Inline}, SaveInstance(i, in)
    PROVE  /\ row'[i] = [Empty EXCEPT ![Input] = in] /\ row'[i] # NULL
           /\ \A j \in Instance : j # i => row'[j] = row[j]
<1>1. [Empty EXCEPT ![Input] = in] \in Context  BY DEF Empty, Context, Slot, Value
<1>. HIDE DEF Context, Empty
<1>. QED  BY <1>1, ObjectConstants DEF TypeOK, SaveInstance

LEMMA RowsOfAdvancesStep ==
    ASSUME TypeOK, RowsOfAdvances, [Next]_vars
    PROVE  RowsOfAdvances'
<1>1. ASSUME UNCHANGED row,
             \A w \in Worker : advance'[w] = NULL \/ advance'[w] = advance[w]
      PROVE  RowsOfAdvances'
  BY <1>1 DEF RowsOfAdvances
<1>2. ASSUME NEW i \in Instance, NEW in \in Big \cup {Inline}, SaveInstance(i, in)
      PROVE  RowsOfAdvances'
  <2>1. \A w \in Worker : advance[w] # NULL => advance[w].of \in Instance  BY DEF TypeOK
  <2>. QED  BY <1>2, <2>1, InsertedRow DEF RowsOfAdvances, SaveInstance
<1>3. ASSUME NEW w \in Worker, NEW i \in Instance, Claim(w, i)
      PROVE  RowsOfAdvances'
  <2>1. \A u \in Worker : advance'[u] = IF u = w THEN [of |-> i, ctx |-> row[i]] ELSE advance[u]
    BY <1>3 DEF Claim, TypeOK
  <2>. QED  BY <1>3, <2>1 DEF RowsOfAdvances, Claim
<1>4. ASSUME NEW w \in Worker, NEW new \in Written, NEW full \in BOOLEAN, Update(w, new, full)
      PROVE  RowsOfAdvances'
  <2>1. \A u \in Worker : advance'[u] = NULL \/ advance'[u] = advance[u]
    BY <1>4 DEF Update, TypeOK
  <2>2. \A u \in Worker : advance[u] # NULL => advance[u].of \in Instance  BY DEF TypeOK
  <2>. QED  BY <1>4, <2>1, <2>2, SavedRow DEF RowsOfAdvances
<1>5. ASSUME NEW w \in Worker, UpdateFails(w)
      PROVE  RowsOfAdvances'
  BY <1>1, <1>5 DEF UpdateFails, TypeOK
<1>6. ASSUME NEW w \in Worker, AppendLog(w) \/ \E v \in Big : WriteLogObject(w, v)
      PROVE  RowsOfAdvances'
  BY <1>1, <1>6 DEF AppendLog, WriteLogObject
<1>7. CASE DetachLogs \/ WriteLogBatch \/ PruneLogs \/ DeleteExpiredObjects
  BY <1>1, <1>7 DEF DetachLogs, WriteLogBatch, PruneLogs, DeleteExpiredObjects
<1>8. CASE Tick \/ Crash \/ UNCHANGED vars  BY <1>1, <1>8 DEF Tick, Crash, vars
<1>. QED  BY <1>2, <1>3, <1>4, <1>5, <1>6, <1>7, <1>8 DEF Next, Advancing

LEMMA HoldersAreCurrentStep ==
    ASSUME TypeOK, RowsOfAdvances, HoldersAreCurrent, [Next]_vars
    PROVE  HoldersAreCurrent'
<1>0. \A w \in Worker : advance[w] # NULL => advance[w].of \in Instance  BY DEF TypeOK
<1>1. ASSUME UNCHANGED <<row, holder, overtaken>>,
             \A w \in Worker : advance'[w] = NULL \/ advance'[w] = advance[w]
      PROVE  HoldersAreCurrent'
  BY <1>1 DEF HoldersAreCurrent
<1>2. ASSUME NEW i \in Instance, NEW in \in Big \cup {Inline}, SaveInstance(i, in)
      PROVE  HoldersAreCurrent'
  <2>1. row[i] = NULL /\ UNCHANGED <<advance, holder, overtaken>>  BY <1>2 DEF SaveInstance
  <2>. QED  BY <1>0, <1>2, <2>1, InsertedRow DEF HoldersAreCurrent, RowsOfAdvances
<1>3. ASSUME NEW w \in Worker, NEW i \in Instance, Claim(w, i)
      PROVE  HoldersAreCurrent'
  <2>1. advance'[w] = [of |-> i, ctx |-> row[i]]
    BY <1>3 DEF Claim, TypeOK
  <2>2. \A u \in Worker : u # w => advance'[u] = advance[u]  BY <1>3 DEF Claim, TypeOK
  <2>3. holder'[i] = w  BY <1>3 DEF Claim, TypeOK
  <2>4. \A j \in Instance : j # i => holder'[j] = holder[j]  BY <1>3 DEF Claim, TypeOK
  <2>5. UNCHANGED <<row, overtaken>>  BY <1>3 DEF Claim
  <2>. QED  BY <1>0, <2>1, <2>2, <2>3, <2>4, <2>5 DEF HoldersAreCurrent
<1>4. ASSUME NEW w \in Worker, NEW new \in Written, NEW full \in BOOLEAN, Update(w, new, full)
      PROVE  HoldersAreCurrent'
  <2>. DEFINE i == advance[w].of
  <2>1. i \in Instance /\ \A j \in Instance : j # i => row'[j] = row[j]
    BY <1>4, SavedRow
  <2>2. \A u \in Worker : advance'[u] = NULL \/ advance'[u] = advance[u]
    BY <1>4 DEF Update, TypeOK
  <2>3. holder' = [holder EXCEPT ![i] = NULL]  BY <1>4 DEF Update
  <2>. HIDE DEF i
  <2>4. holder'[i] = NULL  BY <2>1, <2>3 DEF TypeOK
  <2>5. \A j \in Instance : j # i => holder'[j] = holder[j]  BY <2>1, <2>3 DEF TypeOK
  <2>6. overtaken \subseteq overtaken'  BY <1>4 DEF Update
  <2>. QED
    BY <1>0, <2>1, <2>2, <2>4, <2>5, <2>6, ObjectConstants DEF HoldersAreCurrent
<1>5. ASSUME NEW w \in Worker, UpdateFails(w)
      PROVE  HoldersAreCurrent'
  BY <1>1, <1>5 DEF UpdateFails, TypeOK
<1>6. ASSUME NEW w \in Worker, AppendLog(w) \/ \E v \in Big : WriteLogObject(w, v)
      PROVE  HoldersAreCurrent'
  BY <1>1, <1>6 DEF AppendLog, WriteLogObject
<1>7. CASE DetachLogs \/ WriteLogBatch \/ PruneLogs \/ DeleteExpiredObjects
  BY <1>1, <1>7 DEF DetachLogs, WriteLogBatch, PruneLogs, DeleteExpiredObjects
<1>8. CASE Tick \/ Crash \/ UNCHANGED vars  BY <1>1, <1>8 DEF Tick, Crash, vars
<1>. QED  BY <1>2, <1>3, <1>4, <1>5, <1>6, <1>7, <1>8 DEF Next, Advancing

------------------------------------------------------------------------------
(* Pins and references. *)

Pins(i, v) == objects[i][v] # NULL /\ objects[i][v].pinned

\* The objects that a row pins are exactly the ones it refers to.
PinsAreRefs ==
    \A i \in Instance \ overtaken, v \in Big :
        Pins(i, v) <=> (row[i] # NULL /\ v \in Refs(row[i]))

\* What a context refers to once some slots are set.
LEMMA UpdatedRefs ==
    ASSUME NEW ctx, NEW new, DOMAIN new \subseteq Slot, NEW v \in Big
    PROVE  v \in Refs(Updated(ctx, new)) <=>
             (v \in Pending(new) \/ \E s \in Slot : s \notin DOMAIN new /\ ctx[s] = v)
<1>1. \A s \in Slot : Updated(ctx, new)[s] = IF s \in DOMAIN new THEN new[s] ELSE ctx[s]
  BY DEF Updated
<1>. QED  BY <1>1 DEF Refs, Pending

\* A save by a context that pins what it refers to leaves the same of the new context.
LEMMA SavedPins ==
    ASSUME NEW i \in Instance, NEW v \in Big, Sound(objects[i][v]),
           NEW ctx, NEW new, DOMAIN new \subseteq Slot,
           Pins(i, v) <=> v \in Refs(ctx),
           NEW p, p = ContextObjectDiff(i, ctx, new)[v]
    PROVE  (p # NULL /\ p.pinned) <=> v \in Refs(Updated(ctx, new))
<1>. DEFINE o == objects[i][v]
            kept == v \in Refs(Updated(ctx, new))
<1>1. p = CASE v \in Pending(new) -> Pinned(o)
            [] v \in Refs(ctx) \ Refs(Updated(ctx, new)) /\ o # NULL -> Dereferenced(o)
            [] OTHER -> o
  BY DEF ContextObjectDiff, Diff
<1>2. CASE v \in Pending(new)
  <2>1. p = Pinned(o)  BY <1>1, <1>2, UpdatedRefs
  <2>2. p # NULL /\ p.pinned  BY <2>1, PinnedFields
  <2>. QED  BY <1>2, <2>2, UpdatedRefs
<1>3. CASE v \notin Pending(new) /\ v \in Refs(ctx) /\ ~ kept
  <2>1. o # NULL /\ p = Dereferenced(o)  BY <1>1, <1>3 DEF Pins
  <2>2. CASE NotLogged(o, clock)  BY <1>3, <2>1, <2>2 DEF Dereferenced
  <2>3. CASE ~ NotLogged(o, clock)  BY <1>3, <2>1, <2>3, DereferencedFields
  <2>. QED  BY <2>2, <2>3
<1>4. CASE v \notin Pending(new) /\ ~ (v \in Refs(ctx) /\ ~ kept)
  <2>1. p = o  BY <1>1, <1>4
  <2>2. kept => v \in Refs(ctx)  BY <1>4, UpdatedRefs DEF Refs
  <2>. QED  BY <1>4, <2>1, <2>2 DEF Pins
<1>. QED  BY <1>2, <1>3, <1>4

\* A log write and a sweep leave every pin as it is.
LEMMA LoggedPin ==
    ASSUME NEW o, Sound(o), clock \in Nat
    PROVE  (Logged(o, Horizon) # NULL /\ Logged(o, Horizon).pinned) <=> (o # NULL /\ o.pinned)
BY HorizonCases, LoggedFields

LEMMA SweptPin ==
    ASSUME NEW o
    PROVE  (Swept(o) # NULL /\ Swept(o).pinned) <=> (o # NULL /\ o.pinned)
BY DEF Swept

\* The save of the advance that holds the row writes the row it loaded, with the slots
\* that were set.
LEMMA HeldSave ==
    ASSUME TypeOK, RowsOfAdvances, HoldersAreCurrent,
           NEW w \in Worker, NEW new \in Written, NEW full \in BOOLEAN, Update(w, new, full),
           advance[w].of \notin overtaken'
    PROVE  LET i == advance[w].of IN
           /\ i \in Instance \ overtaken /\ row[i] # NULL
           /\ row'[i] = Updated(row[i], new)
           /\ objects'[i] = ContextObjectDiff(i, row[i], new)
<1>. DEFINE i == advance[w].of
<1>1. i \in Instance /\ row[i] \in Context
  BY DEF TypeOK, RowsOfAdvances, Update
<1>2. holder[i] = w /\ i \notin overtaken  BY DEF Update
<1>3. advance[w].ctx = row[i]  BY <1>2 DEF HoldersAreCurrent, Update
<1>4. row'[i] = Columns(i, Updated(row[i], new), full)
      /\ objects'[i] = ContextObjectDiff(i, row[i], new)
  BY <1>1, <1>3 DEF Update, TypeOK
<1>5. Columns(i, Updated(row[i], new), full) = Updated(row[i], new)
  <2>1. DOMAIN new \subseteq TaskSlot \cup {Output} /\ (Output \in DOMAIN new => full)
    BY WrittenFacts DEF Update
  <2>2. ASSUME NEW s \in Slot
        PROVE  (IF s \in TaskSlot \/ (full /\ s = Output)
                THEN Updated(row[i], new)[s] ELSE row[i][s]) = Updated(row[i], new)[s]
    BY <2>1 DEF Updated
  <2>3. Updated(row[i], new) = [s \in Slot |-> Updated(row[i], new)[s]]  BY DEF Updated
  <2>. QED  BY <2>2, <2>3 DEF Columns
<1>6. row[i] # NULL  BY <1>1, ObjectConstants
<1>. QED  BY <1>1, <1>2, <1>4, <1>5, <1>6

LEMMA PinsAreRefsStep ==
    ASSUME TypeOK, ObjectsSound, RowsOfAdvances, HoldersAreCurrent, PinsAreRefs, [Next]_vars
    PROVE  PinsAreRefs'
<1>0. clock \in Nat  BY ObjectConstants DEF TypeOK
<1>1. ASSUME UNCHANGED <<row, overtaken>>,
             \A i \in Instance, v \in Big : Pins(i, v)' <=> Pins(i, v)
      PROVE  PinsAreRefs'
  BY <1>1 DEF PinsAreRefs
<1>2. CASE UNCHANGED <<row, overtaken, objects>>  BY <1>1, <1>2 DEF Pins
<1>3. ASSUME NEW j \in Instance, NEW in \in Big \cup {Inline}, SaveInstance(j, in)
      PROVE  PinsAreRefs'
  <2>. DEFINE new == [s \in {Input} |-> in]
  <2>1. row'[j] = Updated(Empty, new) /\ row'[j] # NULL
    <3>1. [Empty EXCEPT ![Input] = in] = Updated(Empty, new)  BY DEF Updated, Empty, Slot
    <3>. QED  BY <1>3, <3>1, InsertedRow
  <2>2. row[j] = NULL /\ UNCHANGED overtaken
        /\ objects' = [objects EXCEPT ![j] = ContextObjectDiff(j, Empty, new)]
    BY <1>3 DEF SaveInstance
  <2>3. DOMAIN new \subseteq Slot  BY DEF Slot
  <2>4. \A v \in Big : v \notin Refs(Empty)  BY ObjectConstants DEF Refs, Empty
  <2>. HIDE DEF new
  <2>5. objects'[j] = ContextObjectDiff(j, Empty, new)  BY <2>2 DEF TypeOK
  <2>6. ASSUME NEW v \in Big, j \notin overtaken
        PROVE  Pins(j, v)' <=> v \in Refs(row'[j])
    <3>1. Pins(j, v) <=> v \in Refs(Empty)  BY <2>2, <2>4, <2>6 DEF PinsAreRefs
    <3>2. Sound(objects[j][v])  BY DEF ObjectsSound
    <3>. QED  BY <2>1, <2>3, <2>5, <3>1, <3>2, SavedPins DEF Pins
  <2>7. \A i \in Instance : i # j => objects'[i] = objects[i] /\ row'[i] = row[i]
    BY <1>3, <2>2, InsertedRow DEF TypeOK
  <2>. QED  BY <2>1, <2>2, <2>6, <2>7 DEF PinsAreRefs, Pins
<1>4. ASSUME NEW w \in Worker, NEW new \in Written, NEW full \in BOOLEAN, Update(w, new, full)
      PROVE  PinsAreRefs'
  <2>. DEFINE j == advance[w].of
  <2>1. j \in Instance /\ \A i \in Instance : i # j => row'[i] = row[i]
    BY <1>4, SavedRow
  <2>2. overtaken \subseteq overtaken'  BY <1>4 DEF Update
  <2>3. \A i \in Instance : i # j => objects'[i] = objects[i]
    BY <1>4, <2>1 DEF Update, TypeOK
  <2>4. ASSUME j \notin overtaken', NEW v \in Big
        PROVE  (objects'[j][v] # NULL /\ objects'[j][v].pinned)
                 <=> (row'[j] # NULL /\ v \in Refs(row'[j]))
    <3>1. /\ j \notin overtaken /\ row[j] # NULL
          /\ row'[j] = Updated(row[j], new)
          /\ objects'[j] = ContextObjectDiff(j, row[j], new)
      BY <1>4, <2>4, HeldSave
    <3>2. row'[j] # NULL  BY <1>4, SavedRow
    <3>3. Pins(j, v) <=> v \in Refs(row[j])  BY <2>1, <3>1 DEF PinsAreRefs
    <3>4. Sound(objects[j][v])  BY <2>1 DEF ObjectsSound
    <3>5. DOMAIN new \subseteq Slot  BY WrittenFacts DEF Slot
    <3>. HIDE DEF j
    <3>6. (objects'[j][v] # NULL /\ objects'[j][v].pinned) <=> v \in Refs(Updated(row[j], new))
      BY <2>1, <3>1, <3>3, <3>4, <3>5, SavedPins
    <3>. QED  BY <3>1, <3>2, <3>6
  <2>. HIDE DEF j
  <2>5. ASSUME NEW i \in Instance, i \notin overtaken', i # j, NEW v \in Big
        PROVE  Pins(i, v)' <=> (row'[i] # NULL /\ v \in Refs(row'[i]))
    BY <2>1, <2>2, <2>3, <2>5 DEF PinsAreRefs, Pins
  <2>6. ASSUME NEW i \in Instance, i \notin overtaken', NEW v \in Big
        PROVE  Pins(i, v)' <=> (row'[i] # NULL /\ v \in Refs(row'[i]))
    BY <2>4, <2>5, <2>6 DEF Pins
  <2>. QED  BY <2>6 DEF PinsAreRefs
<1>5. ASSUME NEW w \in Worker, NEW v \in Big, WriteLogObject(w, v)
      PROVE  PinsAreRefs'
  <2>. DEFINE j == advance[w].of
              p == Logged(objects[j][v], Horizon)
  <2>1. j \in Instance  BY <1>5 DEF WriteLogObject, TypeOK
  <2>2. objects' = [objects EXCEPT ![j] = [objects[j] EXCEPT ![v] = p]]
    BY <1>5 DEF WriteLogObject, Horizon
  <2>3. Sound(objects[j][v])  BY <2>1 DEF ObjectsSound
  <2>4. (p # NULL /\ p.pinned) <=> Pins(j, v)
    BY <1>0, <2>3, LoggedPin DEF Pins
  <2>. HIDE DEF j, p
  <2>5. \A i \in Instance, u \in Big :
            objects'[i][u] = IF i = j /\ u = v THEN p ELSE objects[i][u]
    BY <2>1, <2>2 DEF TypeOK
  <2>6. ASSUME NEW i \in Instance, NEW u \in Big
        PROVE  Pins(i, u)' <=> Pins(i, u)
    <3>1. CASE i = j /\ u = v  BY <2>4, <2>5, <3>1 DEF Pins
    <3>2. CASE ~ (i = j /\ u = v)  BY <2>5, <3>2 DEF Pins
    <3>. QED  BY <3>1, <3>2
  <2>7. UNCHANGED <<row, overtaken>>  BY <1>5 DEF WriteLogObject
  <2>. QED  BY <1>1, <2>6, <2>7
<1>6. CASE DeleteExpiredObjects
  <2>1. \A i \in Instance, v \in Big : objects'[i][v] = Swept(objects[i][v])
    BY <1>6 DEF DeleteExpiredObjects
  <2>2. UNCHANGED <<row, overtaken>>  BY <1>6 DEF DeleteExpiredObjects
  <2>. QED  BY <1>1, <2>1, <2>2, SweptPin DEF Pins
<1>7. ASSUME NEW w \in Worker, Advancing(w)
      PROVE  PinsAreRefs'
  BY <1>2, <1>4, <1>5, <1>7 DEF Advancing, Claim, UpdateFails, AppendLog
<1>8. CASE DetachLogs \/ WriteLogBatch \/ PruneLogs \/ Tick \/ Crash \/ UNCHANGED vars
  BY <1>2, <1>8 DEF DetachLogs, WriteLogBatch, PruneLogs, Tick, Crash, vars
<1>. QED  BY <1>3, <1>6, <1>7, <1>8 DEF Next

------------------------------------------------------------------------------
(* Log entries. *)

\* The object of a log entry, or of one that is about to be appended, outlives it.
Kept(e) ==
    /\ e.stamped \in Nat /\ e.stamped <= clock
    /\ Outlives(objects[e.of][e.ref], e.stamped) \/ Expired(e.stamped)

LogsKept ==
    /\ \A e \in Unpruned : Kept(e)
    /\ \A w \in Worker : audit[w] # NULL => Kept(audit[w])

\* What is kept stays kept, whatever the step.
LEMMA KeptStep ==
    ASSUME TypeOK, ObjectsSound, [Next]_vars,
           NEW i \in Instance, NEW v \in Big, NEW t \in Nat, t <= clock,
           Outlives(objects[i][v], t) \/ Expired(t)
    PROVE  t <= clock' /\ (Outlives(objects'[i][v], t) \/ Expired(t)')
<1>1. clock \in Nat /\ clock' \in Nat /\ clock' >= clock
  BY ClockStep, ObjectConstants DEF TypeOK
<1>2. Sound(objects[i][v])  BY DEF ObjectsSound
<1>3. Fate(objects[i][v], objects'[i][v])  BY StepFates
<1>4. Outlives(objects'[i][v], t) \/ Expired(t)  BY <1>1, <1>2, <1>3, FateOutlives
<1>5. Expired(t) => Expired(t)'
  <2>1. Retention \in Nat  BY ObjectConstants
  <2>. QED  BY <1>1, <2>1 DEF Expired
<1>6. t <= clock'  BY <1>1
<1>. QED  BY <1>4, <1>5, <1>6

\* The object that WriteLogObject leaves outlives the entry it is written for.
LEMMA FreshLog ==
    ASSUME NEW o, Sound(o), clock \in Nat
    PROVE  Outlives(Logged(o, Horizon), clock)
<1>1. Horizon \in Nat \cup {Forever}  BY HorizonCases
<1>2. Logged(o, Horizon) # NULL /\ Logged(o, Horizon).until = Horizon
  BY <1>1, LoggedFields
<1>3. clock + Retention \in Nat  BY ObjectConstants
<1>. QED  BY <1>2, <1>3, HorizonCases DEF Outlives

LEMMA LogsKeptStep ==
    ASSUME TypeOK, ObjectsSound, LogsKept, [Next]_vars
    PROVE  LogsKept'
<1>0. clock \in Nat  BY ObjectConstants DEF TypeOK
<1>. DEFINE StaysKept(e) ==
       /\ e.stamped \in Nat /\ e.stamped <= clock'
       /\ \/ Outlives(objects'[e.of][e.ref], e.stamped)
          \/ Retention > 0 /\ e.stamped + Retention < clock'
<1>1. ASSUME NEW e \in Unpruned
      PROVE  StaysKept(e)
  <2>1. e \in Entry  BY DEF TypeOK, Unpruned
  <2>2. e.of \in Instance /\ e.ref \in Big  BY <2>1 DEF Entry
  <2>3. Kept(e)  BY DEF LogsKept
  <2>. QED  BY <2>2, <2>3, KeptStep DEF Kept, Expired
<1>2. ASSUME NEW w \in Worker, audit[w] # NULL
      PROVE  StaysKept(audit[w])
  <2>1. audit[w].of \in Instance /\ audit[w].ref \in Big  BY <1>2 DEF TypeOK
  <2>2. Kept(audit[w])  BY <1>2 DEF LogsKept
  <2>. QED  BY <2>1, <2>2, KeptStep DEF Kept, Expired
<1>3. ASSUME \A e \in Unpruned' : StaysKept(e),
             \A w \in Worker : audit'[w] # NULL => StaysKept(audit'[w])
      PROVE  LogsKept'
  <2>1. \A e \in Unpruned' : Kept(e)'  BY <1>3 DEF Kept, Outlives, Expired
  <2>2. \A w \in Worker : audit'[w] # NULL => Kept(audit[w])'
    BY <1>3 DEF Kept, Outlives, Expired
  <2>. QED  BY <2>1, <2>2 DEF LogsKept
<1>4. CASE Unpruned' \subseteq Unpruned
           /\ \A w \in Worker : audit'[w] = NULL \/ audit'[w] = audit[w]
  BY <1>1, <1>2, <1>3, <1>4
<1>5. CASE UNCHANGED logging
  <2>1. Unpruned' = Unpruned /\ audit' = audit  BY <1>5 DEF logging, Unpruned
  <2>. QED  BY <1>4, <2>1
<1>6. ASSUME NEW w \in Worker, NEW v \in Big, WriteLogObject(w, v)
      PROVE  LogsKept'
  <2>. DEFINE j == advance[w].of
              p == Logged(objects[j][v], Horizon)
              e == [of |-> j, ref |-> v, stamped |-> clock]
  <2>1. j \in Instance  BY <1>6 DEF WriteLogObject, TypeOK
  <2>2. objects' = [objects EXCEPT ![j] = [objects[j] EXCEPT ![v] = p]]
    BY <1>6 DEF WriteLogObject, Horizon
  <2>3. Outlives(p, clock)  BY <1>0, <2>1, FreshLog DEF ObjectsSound
  <2>4. clock' = clock /\ audit' = [audit EXCEPT ![w] = e] /\ Unpruned' = Unpruned
    BY <1>6 DEF WriteLogObject, Unpruned
  <2>. HIDE DEF j, p
  <2>5. objects'[j][v] = p  BY <2>1, <2>2 DEF TypeOK
  <2>6. clock <= clock'  BY <1>0, <2>4
  <2>7. StaysKept(e)  BY <1>0, <2>3, <2>5, <2>6
  <2>. HIDE DEF e, StaysKept
  <2>8. \A u \in Worker : audit'[u] = IF u = w THEN e ELSE audit[u]
    BY <2>4 DEF TypeOK
  <2>9. \A u \in Worker : audit'[u] # NULL => StaysKept(audit'[u])
    BY <1>2, <2>7, <2>8
  <2>. QED  BY <1>1, <1>3, <2>4, <2>9
<1>7. ASSUME NEW w \in Worker, AppendLog(w)
      PROVE  LogsKept'
  <2>. DEFINE e == [of |-> audit[w].of, ref |-> audit[w].ref,
                    stamped |-> audit[w].stamped, at |-> clock]
  <2>1. e.of = audit[w].of /\ e.ref = audit[w].ref /\ e.stamped = audit[w].stamped
    OBVIOUS
  <2>2. audit[w] # NULL /\ Unpruned' = Unpruned \cup {e}
    BY <1>7 DEF AppendLog, Unpruned
  <2>. HIDE DEF e
  <2>3. StaysKept(e)  BY <1>2, <2>1, <2>2
  <2>4. \A u \in Worker : audit'[u] = NULL \/ audit'[u] = audit[u]
    BY <1>7 DEF AppendLog, TypeOK
  <2>. HIDE DEF StaysKept
  <2>. QED  BY <1>1, <1>2, <1>3, <2>2, <2>3, <2>4
<1>8. CASE DetachLogs
  <2>1. Unpruned' = Unpruned /\ audit' = audit  BY <1>8 DEF DetachLogs, Unpruned
  <2>. QED  BY <1>4, <2>1
<1>9. CASE WriteLogBatch
  <2>1. Unpruned' \subseteq Unpruned /\ audit' = audit  BY <1>9 DEF WriteLogBatch, Unpruned
  <2>. QED  BY <1>4, <2>1
<1>10. CASE PruneLogs
  <2>1. Unpruned' \subseteq Unpruned /\ audit' = audit  BY <1>10 DEF PruneLogs, Unpruned
  <2>. QED  BY <1>4, <2>1
<1>11. CASE DeleteExpiredObjects
  <2>1. Unpruned' = Unpruned /\ audit' = audit
    BY <1>11 DEF DeleteExpiredObjects, Unpruned
  <2>. QED  BY <1>4, <2>1
<1>12. CASE Crash
  <2>1. Unpruned' \subseteq Unpruned  BY <1>12 DEF Crash, Unpruned
  <2>2. \A w \in Worker : audit'[w] = NULL  BY <1>12 DEF Crash
  <2>. QED  BY <1>4, <2>1, <2>2
<1>13. CASE Tick \/ UNCHANGED vars  BY <1>5, <1>13 DEF Tick, vars
<1>14. CASE \E i \in Instance, in \in Big \cup {Inline} : SaveInstance(i, in)
  BY <1>5, <1>14 DEF SaveInstance
<1>15. ASSUME NEW w \in Worker, Advancing(w)
       PROVE  LogsKept'
  BY <1>5, <1>6, <1>7, <1>15 DEF Advancing, Claim, Update, UpdateFails
<1>. QED
  BY <1>8, <1>9, <1>10, <1>11, <1>12, <1>13, <1>14, <1>15 DEF Next

------------------------------------------------------------------------------
(* The theorems. *)

\* The inductive invariant.
ObjectsInv ==
    /\ TypeOK /\ ObjectsSound
    /\ RowsOfAdvances /\ HoldersAreCurrent /\ PinsAreRefs
    /\ LogsKept

LEMMA InitInv == Init => ObjectsInv
<1>. SUFFICES ASSUME Init  PROVE ObjectsInv
  OBVIOUS
<1>1. TypeOK
  <2>1. clock \in 0 .. MaxClock  BY ObjectConstants DEF Init
  <2>2. \A i \in Instance, v \in Big : objects[i][v] = NULL  BY DEF Init
  <2>. QED  BY <2>1, <2>2 DEF Init, TypeOK
<1>2. ObjectsSound  BY DEF Init, ObjectsSound, Sound
<1>3. RowsOfAdvances /\ HoldersAreCurrent
  BY DEF Init, RowsOfAdvances, HoldersAreCurrent
<1>4. PinsAreRefs  BY DEF Init, PinsAreRefs, Pins
<1>5. LogsKept  BY DEF Init, LogsKept, Unpruned
<1>. QED  BY <1>1, <1>2, <1>3, <1>4, <1>5 DEF ObjectsInv

LEMMA NextInv == ObjectsInv /\ [Next]_vars => ObjectsInv'
BY TypeStep, SoundStep, RowsOfAdvancesStep, HoldersAreCurrentStep, PinsAreRefsStep,
   LogsKeptStep DEF ObjectsInv

LEMMA AlwaysInv == Spec => []ObjectsInv
BY InitInv, NextInv, PTL DEF Spec

\* The table of objects, the rows, the advances and the log entries have their types.
THEOREM TypeCorrect == Spec => []TypeOK
<1>1. ObjectsInv => TypeOK  BY DEF ObjectsInv
<1>. QED  BY <1>1, AlwaysInv, PTL

\* Whatever a row, the advance that holds it or a log entry refers to can be read.
THEOREM NothingIsMissing == Spec => []NothingMissing
<1>1. ASSUME ObjectsInv  PROVE NothingMissing
  <2>1. ContextRefsResolve
    <3>1. ASSUME NEW i \in Instance \ overtaken, row[i] # NULL, NEW v \in Refs(row[i])
          PROVE  Readable(i, v) /\ objects[i][v].pinned
      <4>1. v \in Big  BY DEF Refs
      <4>. QED  BY <1>1, <3>1, <4>1 DEF ObjectsInv, PinsAreRefs, Pins, Readable
    <3>2. ASSUME NEW i \in Instance \ overtaken, NEW w \in Working(i), holder[i] = w
          PROVE  row[i] # NULL /\ advance[w].ctx = row[i]
      BY <1>1, <3>2 DEF ObjectsInv, RowsOfAdvances, HoldersAreCurrent, Working
    <3>. QED  BY <3>1, <3>2 DEF ContextRefsResolve
  <2>2. LogPayloadKept
    <3>1. \A e \in Unpruned : Kept(e)  BY <1>1 DEF ObjectsInv, LogsKept
    <3>. QED  BY <3>1 DEF LogPayloadKept, Kept, Outlives, Expired, Readable
  <2>. QED  BY <2>1, <2>2 DEF NothingMissing
<1>. QED  BY <1>1, AlwaysInv, PTL

\* A pin that no slot refers to is gone with the save that replaced the value, and an
\* object without a pin has a horizon, no further away than the retention.
THEOREM NothingIsLeftBehind == Spec => []NothingLingers
<1>1. ASSUME ObjectsInv  PROVE NothingLingers
  <2>1. PinnedIsReferenced
    BY <1>1 DEF ObjectsInv, PinsAreRefs, Pins, PinnedIsReferenced, Readable
  <2>2. NoOrphanContent
    BY <1>1 DEF ObjectsInv, ObjectsSound, Sound, NoOrphanContent, Readable
  <2>3. HorizonsEnd
    BY <1>1 DEF ObjectsInv, ObjectsSound, Sound, HorizonsEnd, Readable
  <2>. QED  BY <2>1, <2>2, <2>3 DEF NothingLingers
<1>. QED  BY <1>1, AlwaysInv, PTL
==============================================================================
