------------------------------- MODULE Objects -------------------------------
(***************************************************************************)
(* The object store behind the context of the instances and behind the     *)
(* audit log.  A value too large for its column is kept in process_objects *)
(* under its content hash, per instance: a value slot of a row holds only  *)
(* the reference and pins the object, a log row holds a reference that is  *)
(* good until the log horizon.  Advances, audit writes, the flusher of the *)
(* log buffer and the retention sweep interleave here.                     *)
(*                                                                         *)
(* A value is its own hash.  Every transaction is one step.  An advance    *)
(* whose lease lapses may be overtaken by another worker and still save,   *)
(* since the save does not look at the lease.  Objects are keyed by the    *)
(* instance that owns them, so a spawn, which inserts children and updates *)
(* their parent in one transaction, is an insert and an update here.       *)
(***************************************************************************)
EXTENDS Integers, FiniteSets

CONSTANTS
    Instance,       \* ids of process_instances
    TaskSlot,       \* task ids: the entries of outputs_data
    Input, Output,  \* the slots input_data and output_data
    Big,            \* contents above contextObjectThreshold
    Worker,         \* the goroutines that advance instances
    Retention,      \* the log retention, in clock units; 0 keeps logs forever
    MaxClock,       \* bound: the clock
    MaxLogs,        \* bound: log entries with a large payload at a time
    Inline,         \* any value that stays in its column
    Absent,         \* an empty slot
    Forever,        \* logForeverMillis
    NULL            \* the SQL null

Slot  == TaskSlot \cup {Input, Output}
Value == Big \cup {Inline, Absent}
Context == [Slot -> Value]

ASSUME ObjectConstants ==
    /\ Input \notin TaskSlot /\ Output \notin TaskSlot /\ Input # Output
    /\ Inline \notin Big /\ Absent \notin Big /\ Inline # Absent
    /\ Retention \in Nat /\ MaxClock \in Nat /\ MaxLogs \in Nat
    /\ Forever \notin Nat /\ NULL \notin Nat /\ NULL # Forever
    /\ NULL \notin Context /\ NULL \notin Worker
    /\ NULL \notin [pinned : BOOLEAN, until : Nat \cup {NULL, Forever}]

VARIABLES
    row,        \* row[i]: the value slots of instance i, NULL before its insert
    objects,    \* objects[i][v]: the row of process_objects, NULL if there is none
    advance,    \* advance[w]: the instance w works on and the context it loaded, or NULL
    holder,     \* holder[i]: worker_id, the worker of the latest claim of i, or NULL
    audit,      \* audit[w]: the log object w wrote and has no log entry for yet, or NULL
    logBuf,     \* log entries in the memory of the process
    batch,      \* log entries the flusher took out of it and has not written
    logs,       \* process_logs, the entries with a reference
    pruning,    \* TRUE between the two deletes of pruneLogs
    clock,
    \* history
    overtaken   \* instances that an advance saved after another had claimed them

logging == <<audit, logBuf, batch, logs, pruning>>
vars    == <<row, objects, advance, holder, logging, clock, overtaken>>

Object  == [pinned : BOOLEAN, until : Nat \cup {NULL, Forever}]
Entry   == [of : Instance, ref : Big, stamped : Nat, at : Nat]

------------------------------------------------------------------------------
(* Encoding and decoding a context. *)

\* The hashes a context refers to: decodeContext's loaded, encodeContext's referenced.
Refs(slots) == {slots[s] : s \in Slot} \cap Big

\* The slots an advance sets; the others are still what was loaded.
Written == UNION {[S -> Big \cup {Inline}] : S \in SUBSET (TaskSlot \cup {Output})}

\* The context at the save: setTaskOutput and computeOutput replace the value of a slot.
Updated(ctx, new) == [s \in Slot |-> IF s \in DOMAIN new THEN new[s] ELSE ctx[s]]

\* The objects a save writes.  An untouched slot that holds a reference is still that
\* reference (encodeContextValue), so it needs none.
Pending(new) == {new[s] : s \in DOMAIN new} \cap Big

\* The columns a save writes: input_data never, output_data only in a full update.
Columns(i, ctx, full) ==
    [s \in Slot |-> IF s \in TaskSlot \/ (full /\ s = Output) THEN ctx[s] ELSE row[i][s]]

------------------------------------------------------------------------------
(* The statements on process_objects, for the objects o of one instance. *)

Pinned(o) == [pinned |-> TRUE, until |-> IF o = NULL THEN NULL ELSE o.until]

\* Fault: every log is taken to be kept forever.
LoggedForever(o, until) == [pinned |-> o # NULL /\ o.pinned, until |-> Forever]

\* Fault: a horizon, once set, is kept.
LoggedOnce(o, until) ==
    [pinned |-> o # NULL /\ o.pinned,
     until  |-> IF o # NULL /\ o.until # NULL THEN o.until ELSE until]

\* ReferenceLogObject
Logged(o, until) == [pinned |-> o # NULL /\ o.pinned, until |-> until]

\* No log needs the object at time t.
NotLogged(o, t) == o.until = NULL \/ (o.until # Forever /\ o.until < t)

\* Fault: the pin is dropped and the row left to the sweep.
OnlyUnpinned(o) == [o EXCEPT !.pinned = FALSE]

\* Fault: the survivor stays pinned.
DeletedOrKept(o) == IF NotLogged(o, clock) THEN NULL ELSE o

\* DeleteDereferencedObject, then UnpinObject for the survivor.
Dereferenced(o) ==
    IF NotLogged(o, clock) THEN NULL ELSE [o EXCEPT !.pinned = FALSE]

Diff(i, pending, dropped) ==
    [v \in Big |-> CASE v \in pending                             -> Pinned(objects[i][v])
                     [] v \in dropped /\ objects[i][v] # NULL     -> Dereferenced(objects[i][v])
                     [] OTHER                                     -> objects[i][v]]

\* Fault: what was loaded is dropped even if another slot still refers to it.
DiffOfLoaded(i, ctx, new) == Diff(i, Pending(new), Refs(ctx) \ Pending(new))

\* applyContextObjectDiff, for a context that was loaded as ctx.
ContextObjectDiff(i, ctx, new) ==
    Diff(i, Pending(new), Refs(ctx) \ Refs(Updated(ctx, new)))

------------------------------------------------------------------------------
(* Instances and their advances. *)

Empty == [s \in Slot |-> Absent]

\* A new instance: only the input is there, and nothing was loaded.
SaveInstance(i, in) ==
    /\ row[i] = NULL
    /\ row' = [row EXCEPT ![i] = [Empty EXCEPT ![Input] = in]]
    /\ objects' = [objects EXCEPT ![i] = ContextObjectDiff(i, Empty, [s \in {Input} |-> in])]
    /\ UNCHANGED <<advance, holder, logging, clock, overtaken>>

Working(i) == {w \in Worker : advance[w] # NULL /\ advance[w].of = i}

\* ClaimInstances and decodeContext.  Another advance of the row may still be running,
\* if its lease has lapsed.
Claim(w, i) ==
    /\ advance[w] = NULL /\ row[i] # NULL /\ row[i][Output] = Absent
    /\ Working(i) = {} \/ i \notin overtaken
    /\ advance' = [advance EXCEPT ![w] = [of |-> i, ctx |-> row[i]]]
    /\ holder' = [holder EXCEPT ![i] = w]
    /\ UNCHANGED <<row, objects, logging, clock, overtaken>>

\* The end of an advance, which has set some slots in memory (tasks without an
\* action may set one several times): persistContext and the UPDATE are one
\* transaction.  full for UpdateInstance and the terminal saves, which an advance
\* that computed the output takes; else UpdateInstanceProgress.
Update(w, new, full) ==
    LET i   == advance[w].of
        ctx == advance[w].ctx IN
    /\ advance[w] # NULL /\ (Output \in DOMAIN new => full)
    /\ row' = [row EXCEPT ![i] = Columns(i, Updated(ctx, new), full)]
    /\ objects' = [objects EXCEPT ![i] = ContextObjectDiff(i, ctx, new)]
    /\ advance' = [advance EXCEPT ![w] = NULL]
    /\ holder' = [holder EXCEPT ![i] = NULL]
    /\ overtaken' = IF holder[i] = w THEN overtaken ELSE overtaken \cup {i}
    /\ UNCHANGED <<logging, clock>>

\* The save fails and rolls back; the context in memory is forgotten.
UpdateFails(w) ==
    /\ advance[w] # NULL
    /\ advance' = [advance EXCEPT ![w] = NULL]
    /\ UNCHANGED <<row, objects, holder, logging, clock, overtaken>>

------------------------------------------------------------------------------
(* The audit log. *)

Unpruned == logs \cup logBuf \cup batch
Auditing == {w \in Worker : audit[w] # NULL}

\* WriteLogObject, of a payload already scrubbed: its content may be that of a slot.
WriteLogObject(w, v) ==
    LET i == advance[w].of IN
    /\ advance[w] # NULL /\ audit[w] = NULL /\ Cardinality(Unpruned) + Cardinality(Auditing) < MaxLogs
    /\ objects' = [objects EXCEPT ![i][v] =
                     Logged(@, IF Retention > 0 THEN clock + Retention ELSE Forever)]
    /\ audit' = [audit EXCEPT ![w] = [of |-> i, ref |-> v, stamped |-> clock]]
    /\ UNCHANGED <<row, advance, holder, logBuf, batch, logs, pruning, clock, overtaken>>

\* AppendLog: the entry is stamped with the time of this call and buffered.
AppendLog(w) ==
    /\ audit[w] # NULL
    /\ logBuf' = logBuf \cup {[of |-> audit[w].of, ref |-> audit[w].ref,
                               stamped |-> audit[w].stamped, at |-> clock]}
    /\ audit' = [audit EXCEPT ![w] = NULL]
    /\ UNCHANGED <<row, objects, advance, holder, batch, logs, pruning, clock,
                   overtaken>>

\* flushLogs, of the ticker, of a full buffer or of a read: the buffer is detached
\* under the lock and written after it.
DetachLogs ==
    /\ logBuf # {}
    /\ batch' = batch \cup logBuf /\ logBuf' = {}
    /\ UNCHANGED <<row, objects, advance, holder, audit, logs, pruning, clock,
                   overtaken>>

\* writeLogBatch, of some chunk; an error loses its entries.
WriteLogBatch ==
    /\ \E chunk \in (SUBSET batch) \ {{}} :
         /\ batch' = batch \ chunk
         /\ logs' \in {logs, logs \cup chunk}
    /\ UNCHANGED <<row, objects, advance, holder, audit, logBuf, pruning, clock,
                   overtaken>>

\* pruneLogs up to DeleteLogsBefore: the buffer is written, then old entries go.
PruneLogs ==
    /\ Retention > 0 /\ ~pruning
    /\ logs' = {e \in logs \cup logBuf : e.at >= clock - Retention}
    /\ logBuf' = {} /\ pruning' = TRUE
    /\ UNCHANGED <<row, objects, advance, holder, audit, batch, clock,
                   overtaken>>

\* DeleteExpiredObjects
Swept(o) == IF o # NULL /\ ~o.pinned /\ NotLogged(o, clock) THEN NULL ELSE o

\* pruneLogs after its second reading of the clock.
DeleteExpiredObjects ==
    /\ pruning
    /\ objects' = [i \in Instance |-> [v \in Big |-> Swept(objects[i][v])]]
    /\ pruning' = FALSE
    /\ UNCHANGED <<row, advance, holder, audit, logBuf, batch, logs, clock,
                   overtaken>>

------------------------------------------------------------------------------
Tick ==
    /\ clock < MaxClock
    /\ clock' = clock + 1
    /\ UNCHANGED <<row, objects, advance, holder, logging, overtaken>>

\* The process dies: advances and everything that is only in memory are gone.
Crash ==
    /\ advance' = [w \in Worker |-> NULL] /\ audit' = [w \in Worker |-> NULL]
    /\ logBuf' = {} /\ batch' = {} /\ pruning' = FALSE
    /\ UNCHANGED <<row, objects, holder, logs, clock, overtaken>>

Init ==
    /\ row = [i \in Instance |-> NULL]
    /\ objects = [i \in Instance |-> [v \in Big |-> NULL]]
    /\ advance = [w \in Worker |-> NULL] /\ audit = [w \in Worker |-> NULL]
    /\ holder = [i \in Instance |-> NULL]
    /\ logBuf = {} /\ batch = {} /\ logs = {} /\ pruning = FALSE
    /\ clock = 0 /\ overtaken = {}

Advancing(w) ==
    \/ \E i \in Instance : Claim(w, i)
    \/ \E new \in Written, full \in BOOLEAN : Update(w, new, full)
    \/ UpdateFails(w)
    \/ \E v \in Big : WriteLogObject(w, v)
    \/ AppendLog(w)

Next ==
    \/ \E i \in Instance, in \in Big \cup {Inline} : SaveInstance(i, in)
    \/ \E w \in Worker : Advancing(w)
    \/ DetachLogs \/ WriteLogBatch \/ PruneLogs \/ DeleteExpiredObjects
    \/ Tick \/ Crash

Spec == Init /\ [][Next]_vars
------------------------------------------------------------------------------
(* Properties. *)

Readable(i, v) == objects[i][v] # NULL

\* Rows, objects, advances and log entries have their types.
TypeOK ==
    /\ row \in [Instance -> Context \cup {NULL}]
    /\ objects \in [Instance -> [Big -> Object \cup {NULL}]]
    /\ advance \in [Worker -> [of : Instance, ctx : Context] \cup {NULL}]
    /\ holder \in [Instance -> Worker \cup {NULL}]
    /\ audit \in [Worker -> [of : Instance, ref : Big, stamped : Nat] \cup {NULL}]
    /\ logBuf \in SUBSET Entry /\ batch \in SUBSET Entry /\ logs \in SUBSET Entry
    /\ pruning \in BOOLEAN
    /\ clock \in 0 .. MaxClock
    /\ overtaken \in SUBSET Instance

\* Whatever a row refers to can be loaded and is pinned, and so is what the advance
\* that holds the row took into memory (resolveValue loads it at first use), through
\* any sequence of saves that move a content between slots, drop it and bring it
\* back, of log writes and of sweeps; unless an advance saved the instance after it
\* had been overtaken.
ContextRefsResolve ==
    \A i \in Instance \ overtaken :
        /\ row[i] # NULL => \A v \in Refs(row[i]) : Readable(i, v) /\ objects[i][v].pinned
        /\ \A w \in Working(i) :
             holder[i] = w => \A v \in Refs(advance[w].ctx) : Readable(i, v)

\* A pin is never left behind: the objects a row pins are the ones it refers to, so
\* the sweep reaches everything else.
PinnedIsReferenced ==
    \A i \in Instance \ overtaken, v \in Big :
        Readable(i, v) /\ objects[i][v].pinned => row[i] # NULL /\ v \in Refs(row[i])

\* A replaced value that no log shares is gone with the save that replaced it: no
\* unpinned object without a log horizon waits for a sweep (which retention 0 never runs).
NoOrphanContent ==
    \A i \in Instance, v \in Big :
        Readable(i, v) => objects[i][v].pinned \/ objects[i][v].until # NULL

\* No log horizon is further away than the retention that WriteLogObject adds to the
\* clock, or is without end while there is a retention.
HorizonsEnd ==
    \A i \in Instance, v \in Big :
        Readable(i, v) =>
            /\ objects[i][v].until \in Nat => objects[i][v].until <= clock + Retention
            /\ objects[i][v].until = Forever => Retention = 0

\* The payload of a log entry can be read for the whole retention from its writing,
\* whatever becomes of the slots that share its content.
LogPayloadKept ==
    \A e \in Unpruned :
        Readable(e.of, e.ref) \/ (Retention > 0 /\ e.stamped + Retention < clock)

\* Whatever a row, an advance that holds its row or a log entry refers to can be read,
\* in every order of saves, log writes, flushes, sweeps and crashes.
NothingMissing == ContextRefsResolve /\ LogPayloadKept

\* No object outlives its uses: what is pinned is referred to, and what is not pinned
\* has a log horizon, within the retention, after which DeleteExpiredObjects takes it.
NothingLingers == PinnedIsReferenced /\ NoOrphanContent /\ HorizonsEnd
==============================================================================
