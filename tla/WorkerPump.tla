------------------------------ MODULE WorkerPump ------------------------------
(***************************************************************************)
(* The worker side of the engine: genroc processes that share one table    *)
(* process_instances.  Each process runs a pump that reserves slots of the *)
(* semaphore e.sem, claims runnable rows under a lease and dispatches one  *)
(* goroutine per row; a lease renewer that re-stamps all leases held under *)
(* the worker id of the process; and the in-memory set e.inflight that is  *)
(* meant to catch a row being advanced twice.  Rows are reduced to whether *)
(* they can run; what an advance computes is the subject of ProcessTree.   *)
(*                                                                         *)
(* Time is discrete: the lease of a row is the number of ticks it has left *)
(* (lease_expires_at minus now), at most LeaseDuration.                    *)
(***************************************************************************)
EXTENDS Integers

CONSTANTS
    Inst,           \* instance ids, in the order of (created_at, id)
    Proc,           \* operating system processes; each runs once
    Name,           \* worker ids (hostname-pid)
    WorkerID,       \* the worker id of a process; a restart may get the same one
    Slots,          \* the slots of the semaphores of all processes
    Host,           \* the process that a slot belongs to (--max-concurrent of them)
    LeaseDuration, RenewInterval,
    None,           \* no instance, no owner
    Timely,         \* renewals are on time, and a drain is shorter than a lease
    Faults          \* the database calls that may fail

ASSUME PumpConstants ==
    /\ WorkerID \in [Proc -> Name] /\ Host \in [Slots -> Proc]
    /\ None \notin Inst /\ None \notin Name
    /\ LeaseDuration \in Nat /\ RenewInterval \in Nat \ {0}
    /\ RenewInterval < LeaseDuration
    /\ Timely \in BOOLEAN
    /\ Faults \subseteq {"claim", "persist"}

ASSUME InstancesAreOrdered == Inst \subseteq Nat

VARIABLES
    \* rows
    state,      \* "absent", "ready" (claimable but for its lease), "parked", "done"
    owner,      \* worker_id
    left,       \* ticks until lease_expires_at
    \* processes
    pump,       \* where the pump goroutine is
    stopping,   \* ctx is cancelled
    wake,       \* a nudge is pending in the channel e.wake
    inflight,   \* the instances with a marker in e.inflight
    renewIn,    \* ticks until the renewer's ticker fires
    \* slots: what a slot of e.sem is used for, and the claim it is used for
    phase,
    job,        \* the instance
    takeover,   \* the claim found the row with an owner (ReclaimedExpired)
    stale,      \* the row was written by someone else after the claim
    fresh       \* history: rows a process made runnable and nobody claimed yet

rows  == <<state, owner, left>>
claim == <<job, takeover, stale>>
vars  == <<rows, pump, stopping, wake, inflight, renewIn, phase, claim, fresh>>

Phase == {"free", "reserved", "claimed", "rejected", "work", "parked", "save", "saved"}

Alive(p)    == pump[p] \notin {"down", "exited", "dead"}
Pumping(p)  == pump[p] \in {"reserve", "claim", "dispatch", "wait"}
Renewing(p) == Alive(p) /\ ~stopping[p]
SlotsOf(p)  == {s \in Slots : Host[s] = p}

\* The slot's goroutine, or the pump, will still write the row, on the snapshot
\* that was claimed.
Busy(s) == phase[s] \in {"work", "save"} \/ (phase[s] = "claimed" /\ Pumping(Host[s]))

\* The slots of S go back to the semaphore.
FreeSlots(S) ==
    /\ phase' = [s \in Slots |-> IF s \in S THEN "free" ELSE phase[s]]
    /\ takeover' = [s \in Slots |-> takeover[s] /\ s \notin S]
    /\ stale' = [s \in Slots |-> stale[s] /\ s \notin S]
    /\ UNCHANGED job

Goroutine(s) == phase[s] \in {"work", "parked", "save", "saved"}

------------------------------------------------------------------------------
(* The rows. *)

\* Fault: an expired lease still counts.
ClaimableUnowned(i) == state[i] = "ready" /\ owner[i] = None

Claimable(i) == state[i] = "ready" /\ (owner[i] = None \/ left[i] = 0)

\* The rows of new are the next ones to be inserted.
NextInserted(new) ==
    \A i \in new : /\ state[i] = "absent"
                   /\ \A j \in Inst : j < i /\ state[j] = "absent" => j \in new

\* A timer, the API or another instance makes a parked row runnable.
Unpark(i) ==
    /\ state[i] = "parked"
    /\ state' = [state EXCEPT ![i] = "ready"]
    /\ UNCHANGED <<owner, left, pump, stopping, wake, inflight, renewIn, phase, claim, fresh>>

\* startInstance inserts the row and nudges the pump of its own process.
StartInstance(p, i) ==
    /\ Renewing(p) /\ NextInserted({i})
    /\ state' = [state EXCEPT ![i] = "ready"]
    /\ wake' = [wake EXCEPT ![p] = TRUE]
    /\ fresh' = [fresh EXCEPT ![p] = @ \cup {i}]
    /\ UNCHANGED <<owner, left, pump, stopping, inflight, renewIn, phase, claim>>

------------------------------------------------------------------------------
(* The pump. *)

\* A new process; the supervisor restarts a worker after it is gone.
Start(p) ==
    /\ pump[p] = "down"
    /\ \A q \in Proc : WorkerID[q] = WorkerID[p] => ~Alive(q)
    /\ pump' = [pump EXCEPT ![p] = "reserve"]
    /\ renewIn' = [renewIn EXCEPT ![p] = RenewInterval]
    /\ UNCHANGED <<rows, stopping, wake, inflight, phase, claim, fresh>>

\* Blocks until a slot is free, then takes all free slots.
Reserve(p) ==
    LET free == {s \in SlotsOf(p) : phase[s] = "free"}
    IN  /\ pump[p] = "reserve" /\ free # {}
        /\ phase' = [s \in Slots |-> IF s \in free THEN "reserved" ELSE phase[s]]
        /\ pump' = [pump EXCEPT ![p] = "claim"]
        /\ UNCHANGED <<rows, stopping, wake, inflight, renewIn, claim, fresh>>

\* ClaimInstances, oldest rows first, with the number of reserved slots as its
\* limit: got[s] is the instance for slot s.  Slots that get none go back to the semaphore, and an
\* empty claim sends the pump to wait for a nudge or the ticker.
Claim(p, got) ==
    LET used     == DOMAIN got
        taken    == {got[s] : s \in used}
        reserved == {s \in SlotsOf(p) : phase[s] = "reserved"}
    IN  /\ pump[p] = "claim"
        /\ used \subseteq reserved
        /\ \A s \in used : Claimable(got[s])
        /\ \A s, t \in used : got[s] = got[t] => s = t
        /\ \A i \in taken, j \in Inst : Claimable(j) /\ j < i => j \in taken
        /\ used = reserved \/ \A i \in Inst : Claimable(i) => i \in taken
        /\ owner' = [i \in Inst |-> IF i \in taken THEN WorkerID[p] ELSE owner[i]]
        /\ left' = [i \in Inst |-> IF i \in taken THEN LeaseDuration ELSE left[i]]
        /\ phase' = [s \in Slots |-> IF s \in used THEN "claimed"
                                     ELSE IF s \in reserved THEN "free" ELSE phase[s]]
        /\ job' = [s \in Slots |-> IF s \in used THEN got[s] ELSE job[s]]
        /\ takeover' = [s \in Slots |-> IF s \in used THEN owner[got[s]] # None
                                        ELSE takeover[s]]
        /\ stale' = [s \in Slots |-> IF s \in used THEN FALSE ELSE stale[s]]
        /\ pump' = [pump EXCEPT ![p] = IF used = {} THEN "wait" ELSE "dispatch"]
        /\ fresh' = [q \in Proc |-> fresh[q] \ taken]
        /\ UNCHANGED <<state, stopping, wake, inflight, renewIn>>

\* The claim fails and changed nothing; the pump falls back to the ticker.
ClaimFails(p) ==
    /\ "claim" \in Faults
    /\ pump[p] = "claim"
    /\ FreeSlots({s \in SlotsOf(p) : phase[s] = "reserved"})
    /\ pump' = [pump EXCEPT ![p] = "wait"]
    /\ fresh' = [fresh EXCEPT ![p] = {}]
    /\ UNCHANGED <<rows, stopping, wake, inflight, renewIn>>

\* Fault: the in-flight set is not consulted.
DispatchUnguarded(s) ==
    LET p == Host[s]
    IN  /\ pump[p] = "dispatch" /\ phase[s] = "claimed"
        /\ phase' = [phase EXCEPT ![s] = "work"]
        /\ inflight' = [inflight EXCEPT ![p] = @ \cup {job[s]}]
        /\ pump' = [pump EXCEPT ![p] =
              IF \E t \in SlotsOf(p) \ {s} : phase[t] = "claimed" THEN "dispatch" ELSE "reserve"]
        /\ UNCHANGED <<rows, stopping, wake, renewIn, claim, fresh>>

\* One goroutine per claimed row.  A row that still has a marker stops the pump,
\* and the rest of the batch is dropped with its slots and its leases.
Dispatch(s) ==
    LET p == Host[s]
    IN  /\ pump[p] = "dispatch" /\ phase[s] = "claimed"
        /\ IF job[s] \in inflight[p]
           THEN /\ phase' = [phase EXCEPT ![s] = "rejected"]
                /\ pump' = [pump EXCEPT ![p] = "overwhelmed"]
                /\ UNCHANGED inflight
           ELSE /\ phase' = [phase EXCEPT ![s] = "work"]
                /\ inflight' = [inflight EXCEPT ![p] = @ \cup {job[s]}]
                /\ pump' = [pump EXCEPT ![p] =
                      IF \E t \in SlotsOf(p) \ {s} : phase[t] = "claimed"
                      THEN "dispatch" ELSE "reserve"]
        /\ UNCHANGED <<rows, stopping, wake, renewIn, claim, fresh>>

\* The pump waits for a nudge or for the next poll tick.
Nudged(p) ==
    /\ pump[p] = "wait" /\ wake[p]
    /\ wake' = [wake EXCEPT ![p] = FALSE]
    /\ pump' = [pump EXCEPT ![p] = "reserve"]
    /\ UNCHANGED <<rows, stopping, inflight, renewIn, phase, claim, fresh>>

Poll(p) ==
    /\ pump[p] = "wait"
    /\ pump' = [pump EXCEPT ![p] = "reserve"]
    /\ UNCHANGED <<rows, stopping, wake, inflight, renewIn, phase, claim, fresh>>

\* SIGTERM cancels ctx: the renewer stops at once, the pump at its next select.
Shutdown(p) ==
    /\ Renewing(p)
    /\ stopping' = [stopping EXCEPT ![p] = TRUE]
    /\ renewIn' = [renewIn EXCEPT ![p] = 0]
    /\ UNCHANGED <<rows, pump, wake, inflight, phase, claim, fresh>>

PumpStops(p) ==
    /\ stopping[p] /\ pump[p] \in {"reserve", "wait"}
    /\ pump' = [pump EXCEPT ![p] = "stopped"]
    /\ UNCHANGED <<rows, stopping, wake, inflight, renewIn, phase, claim, fresh>>

\* Fault: the process does not wait for the advances in flight.
ExitWithoutDrain(p) ==
    /\ pump[p] \in {"stopped", "overwhelmed"}
    /\ pump' = [pump EXCEPT ![p] = "exited"]
    /\ wake' = [wake EXCEPT ![p] = FALSE]
    /\ renewIn' = [renewIn EXCEPT ![p] = 0]
    /\ fresh' = [fresh EXCEPT ![p] = {}]
    /\ FreeSlots(SlotsOf(p))
    /\ UNCHANGED <<rows, stopping, inflight>>

\* runPump returns once the wait group is empty; the slots of a dropped batch
\* are never released, but they have no goroutine to wait for.
Exit(p) ==
    /\ pump[p] \in {"stopped", "overwhelmed"}
    /\ \A s \in SlotsOf(p) : ~Goroutine(s)
    /\ pump' = [pump EXCEPT ![p] = "exited"]
    /\ wake' = [wake EXCEPT ![p] = FALSE]
    /\ renewIn' = [renewIn EXCEPT ![p] = 0]
    /\ fresh' = [fresh EXCEPT ![p] = {}]
    /\ UNCHANGED <<rows, stopping, inflight, phase, claim>>

------------------------------------------------------------------------------
(* The advance in slot s. *)

\* Fault: the marker stays until the slot is used again.
KeepMarker(s) ==
    /\ phase[s] = "work"
    /\ phase' = [phase EXCEPT ![s] = "save"]
    /\ UNCHANGED <<rows, pump, stopping, wake, inflight, renewIn, claim, fresh>>

\* advance returned an outcome: the marker is dropped before the write.
DropMarker(s) ==
    /\ phase[s] = "work"
    /\ phase' = [phase EXCEPT ![s] = "save"]
    /\ inflight' = [inflight EXCEPT ![Host[s]] = @ \ {job[s]}]
    /\ UNCHANGED <<rows, pump, stopping, wake, renewIn, claim, fresh>>

\* The write of its row by slot s: the lease is released whoever holds it, all
\* other snapshots of the row are outdated, and the rows of new become runnable.
Release(s, st, new) ==
    LET i == job[s]
    IN  /\ state' = [j \in Inst |-> IF j = i THEN st
                                    ELSE IF j \in new THEN "ready" ELSE state[j]]
        /\ owner' = [owner EXCEPT ![i] = None]
        /\ left' = [left EXCEPT ![i] = 0]
        /\ stale' = [t \in Slots |-> stale[t] \/ (job[t] = i /\ t # s /\ Busy(t))]
        /\ fresh' = [q \in Proc |-> IF q # Host[s] THEN fresh[q] \ {i}
                                    ELSE IF st = "ready" THEN fresh[q] \cup new \cup {i}
                                    ELSE (fresh[q] \ {i}) \cup new]

\* persist: a checkpoint, a parked or a final state; the last child of a batch
\* makes its parent runnable in the same transaction.
Persist(s, st, new) ==
    /\ phase[s] = "save"
    /\ new \subseteq {j \in Inst \ {job[s]} : state[j] = "parked"}
    /\ new # {} => st = "done"
    /\ Release(s, st, new)
    /\ phase' = [phase EXCEPT ![s] = "saved"]
    /\ UNCHANGED <<pump, stopping, wake, inflight, renewIn, job, takeover>>

\* The write fails: the row keeps its owner, nobody is told, the slot is freed.
PersistFails(s) ==
    /\ "persist" \in Faults
    /\ phase[s] = "save"
    /\ FreeSlots({s})
    /\ UNCHANGED <<rows, pump, stopping, wake, inflight, renewIn, fresh>>

\* A spawn, or the arming of an external task, parks the row in a transaction of
\* its own, while the marker is still set; the marker goes afterwards.
ParkInTransaction(s, new) ==
    /\ phase[s] = "work"
    /\ new \subseteq Inst \ {job[s]} /\ NextInserted(new)
    /\ Release(s, "parked", new)
    /\ phase' = [phase EXCEPT ![s] = "parked"]
    /\ UNCHANGED <<pump, stopping, wake, inflight, renewIn, job, takeover>>

DropMarkerLate(s) ==
    /\ phase[s] = "parked"
    /\ phase' = [phase EXCEPT ![s] = "saved"]
    /\ inflight' = [inflight EXCEPT ![Host[s]] = @ \ {job[s]}]
    /\ UNCHANGED <<rows, pump, stopping, wake, renewIn, claim, fresh>>

\* Fault: the nudge is left to the ticker.
SignalNobody(s) ==
    /\ phase[s] = "saved"
    /\ FreeSlots({s})
    /\ UNCHANGED <<rows, pump, stopping, wake, inflight, renewIn, fresh>>

\* The nudge; the slot is released right after it.
SignalWork(s) ==
    /\ phase[s] = "saved"
    /\ FreeSlots({s})
    /\ wake' = [wake EXCEPT ![Host[s]] = TRUE]
    /\ UNCHANGED <<rows, pump, stopping, inflight, renewIn, fresh>>

------------------------------------------------------------------------------
(* Leases and time. *)

\* Fault: the renewal statement matches no row.
RenewNothing(p) ==
    /\ Renewing(p) /\ renewIn[p] = 0
    /\ renewIn' = [renewIn EXCEPT ![p] = RenewInterval]
    /\ UNCHANGED <<rows, pump, stopping, wake, inflight, phase, claim, fresh>>

\* All leases under the worker id, expired ones and those of rows that are not
\* in flight included.
RenewWorkerLeases(p) ==
    /\ Renewing(p) /\ renewIn[p] = 0
    /\ left' = [i \in Inst |-> IF owner[i] = WorkerID[p] THEN LeaseDuration ELSE left[i]]
    /\ renewIn' = [renewIn EXCEPT ![p] = RenewInterval]
    /\ UNCHANGED <<state, owner, pump, stopping, wake, inflight, phase, claim, fresh>>

\* A clock tick.  Timely: the renewer runs before the clock moves on, and the
\* process that drains (it has no renewer) is done before its leases run out.
Tick ==
    /\ Timely => /\ \A p \in Proc : Renewing(p) => renewIn[p] > 0
                 /\ \A s \in Slots : Busy(s) /\ stopping[Host[s]] => left[job[s]] > 1
    /\ left' = [i \in Inst |-> IF left[i] > 0 THEN left[i] - 1 ELSE 0]
    /\ renewIn' = [p \in Proc |-> IF renewIn[p] > 0 THEN renewIn[p] - 1 ELSE 0]
    /\ UNCHANGED <<state, owner, pump, stopping, wake, inflight, phase, claim, fresh>>

\* The process is killed; its rows keep their leases.
Crash(p) ==
    /\ Alive(p)
    /\ pump' = [pump EXCEPT ![p] = "dead"]
    /\ stopping' = [stopping EXCEPT ![p] = FALSE]
    /\ wake' = [wake EXCEPT ![p] = FALSE]
    /\ inflight' = [inflight EXCEPT ![p] = {}]
    /\ renewIn' = [renewIn EXCEPT ![p] = 0]
    /\ FreeSlots(SlotsOf(p))
    /\ fresh' = [fresh EXCEPT ![p] = {}]
    /\ UNCHANGED rows

------------------------------------------------------------------------------
Init ==
    /\ state = [i \in Inst |-> "absent"]
    /\ owner = [i \in Inst |-> None]
    /\ left = [i \in Inst |-> 0]
    /\ pump = [p \in Proc |-> "down"]
    /\ stopping = [p \in Proc |-> FALSE]
    /\ wake = [p \in Proc |-> FALSE]
    /\ inflight = [p \in Proc |-> {}]
    /\ renewIn = [p \in Proc |-> 0]
    /\ phase = [s \in Slots |-> "free"]
    /\ job \in [Slots -> Inst]
    /\ takeover = [s \in Slots |-> FALSE]
    /\ stale = [s \in Slots |-> FALSE]
    /\ fresh = [p \in Proc |-> {}]

Pump(p) ==
    \/ Reserve(p) \/ Nudged(p) \/ Poll(p) \/ PumpStops(p) \/ Exit(p)
    \/ \E used \in SUBSET SlotsOf(p) : \E got \in [used -> Inst] : Claim(p, got)
    \/ \E s \in SlotsOf(p) : Dispatch(s)

Advance(s) ==
    \/ DropMarker(s) \/ DropMarkerLate(s) \/ SignalWork(s) \/ PersistFails(s)
    \/ \E st \in {"ready", "parked", "done"}, new \in SUBSET Inst : Persist(s, st, new)
    \/ \E new \in SUBSET Inst : ParkInTransaction(s, new)

Next ==
    \/ \E i \in Inst : Unpark(i)
    \/ \E p \in Proc : \/ \E i \in Inst : StartInstance(p, i)
                       \/ Start(p) \/ Shutdown(p) \/ Crash(p)
                       \/ Pump(p) \/ ClaimFails(p) \/ RenewWorkerLeases(p)
    \/ \E s \in Slots : Advance(s)
    \/ Tick

Spec == Init /\ [][Next]_vars

\* Goroutines are scheduled, calls return and the clock runs; nothing obliges
\* the operator, the supervisor or a crash.
Fairness ==
    /\ WF_vars(Tick)
    /\ \A p \in Proc : WF_vars(Pump(p)) /\ WF_vars(RenewWorkerLeases(p))
    /\ \A s \in Slots : WF_vars(Advance(s))

FairSpec == Spec /\ Fairness
------------------------------------------------------------------------------
(* What must hold. *)

TypeOK ==
    /\ state \in [Inst -> {"absent", "ready", "parked", "done"}]
    /\ owner \in [Inst -> Name \cup {None}]
    /\ left \in [Inst -> 0 .. LeaseDuration]
    /\ pump \in [Proc -> {"down", "reserve", "claim", "dispatch", "wait", "stopped",
                          "overwhelmed", "exited", "dead"}]
    /\ stopping \in [Proc -> BOOLEAN]
    /\ wake \in [Proc -> BOOLEAN]
    /\ inflight \in [Proc -> SUBSET Inst]
    /\ renewIn \in [Proc -> 0 .. RenewInterval]
    /\ phase \in [Slots -> Phase]
    /\ job \in [Slots -> Inst]
    /\ takeover \in [Slots -> BOOLEAN]
    /\ stale \in [Slots -> BOOLEAN]
    /\ fresh \in [Proc -> SUBSET Inst]

\* While renewals are on time, an advance has its row to itself from the claim to
\* its write: nobody else holds a snapshot of the row, and the snapshot it will
\* write back is the current one, so no update is lost and no task runs twice.
ExclusiveAdvance ==
    Timely => \A s, t \in Slots :
        Busy(s) => /\ ~stale[s]
                   /\ Busy(t) /\ job[s] = job[t] => s = t

\* However late the renewals, one process never has two goroutines at work on an
\* instance: each has its marker, and the marker keeps a second one from starting.
OneRunPerProcess ==
    \A s, t \in Slots :
        phase[s] \in {"work", "parked"} =>
            /\ job[s] \in inflight[Host[s]]
            /\ phase[t] \in {"work", "parked"} /\ Host[s] = Host[t] /\ job[s] = job[t] => s = t

\* A pump that waits has heard of, or will hear of, the work that its own process
\* made runnable: it does not sleep out the poll interval over a nudge it missed.
NoMissedNudge ==
    \A p \in Proc : pump[p] = "wait" =>
        \/ wake[p]
        \/ \E s \in SlotsOf(p) : phase[s] \in {"parked", "saved"}
        \/ \A i \in fresh[p] : ~Claimable(i)

\* A clean shutdown releases its leases: after the drain no row is left under the
\* worker id, unless a write failed.
CleanExitReleasesLeases ==
    "persist" \notin Faults =>
        \A p \in Proc : pump[p] = "exited" /\ stopping[p]
              /\ (\A s \in SlotsOf(p) : phase[s] = "free")
              /\ (\A q \in Proc : WorkerID[q] = WorkerID[p] => q = p)
            => \A i \in Inst : owner[i] # WorkerID[p]

\* The pump stops as overwhelmed only over a row whose lease ran out under its advance
\* (or was released under it by the late write of an advance that had lost the lease),
\* or over one that a spawn or an external task parked in a transaction of its own and
\* that was made runnable again before the marker was dropped.
OverwhelmIsGenuine ==
    [][\A s \in Slots :
          phase[s] = "claimed" /\ phase'[s] = "rejected" =>
              \/ takeover[s]
              \/ \E t \in SlotsOf(Host[s]) :
                    job[t] = job[s] /\ (phase[t] = "parked" \/ (phase[t] = "work" /\ stale[t]))]_vars

\* The row is leased although no advance works on it.
Orphaned(i) ==
    /\ state[i] = "ready" /\ owner[i] # None
    /\ \A s \in Slots : Busy(s) => job[s] # i

\* Work that a dead or overwhelmed worker left behind is taken over, as long as
\* some process keeps pumping and older rows do not go on taking all slots.
OrphansAreReclaimed ==
    \A i \in Inst : Orphaned(i) ~> \/ ~Orphaned(i)
                                  \/ \A p \in Proc : ~Pumping(p)
                                  \/ \E j \in Inst : j < i /\ Claimable(j)
==============================================================================
