--------------------------- MODULE WorkerPumpProofs ---------------------------
(***************************************************************************)
(* Proofs about WorkerPump, for any number of processes, slots and         *)
(* instances and any lease duration longer than the renewal interval:      *)
(* type correctness, the exclusiveness of an advance while renewals are    *)
(* on time, and, with no such assumption, the guard of the in-flight set,  *)
(* the nudges, the leases that a clean exit releases and what can          *)
(* overwhelm a pump.  Each property has an inductive invariant of its own. *)
(***************************************************************************)
EXTENDS WorkerPump, TLAPS

\* Freeing slots keeps the types of the slots.
LEMMA FreeSlotsType ==
    ASSUME TypeOK, NEW S, FreeSlots(S)
    PROVE  /\ phase' \in [Slots -> Phase] /\ job' \in [Slots -> Inst]
           /\ takeover' \in [Slots -> BOOLEAN] /\ stale' \in [Slots -> BOOLEAN]
BY DEF FreeSlots, TypeOK, Phase

\* The write of a row keeps the types of the rows.
LEMMA ReleaseType ==
    ASSUME TypeOK, NEW s \in Slots, NEW st \in {"ready", "parked", "done"},
           NEW new \in SUBSET Inst, Release(s, st, new)
    PROVE  /\ state' \in [Inst -> {"absent", "ready", "parked", "done"}]
           /\ owner' \in [Inst -> Name \cup {None}]
           /\ left' \in [Inst -> 0 .. LeaseDuration]
           /\ stale' \in [Slots -> BOOLEAN]
           /\ fresh' \in [Proc -> SUBSET Inst]
<1>1. state' \in [Inst -> {"absent", "ready", "parked", "done"}]  BY DEF Release, TypeOK
<1>2. owner' \in [Inst -> Name \cup {None}]  BY DEF Release, TypeOK
<1>3. left' \in [Inst -> 0 .. LeaseDuration]  BY PumpConstants DEF Release, TypeOK
<1>4. stale' \in [Slots -> BOOLEAN]  BY DEF Release, TypeOK
<1>5. fresh' \in [Proc -> SUBSET Inst]  BY DEF Release, TypeOK
<1>. QED  BY <1>1, <1>2, <1>3, <1>4, <1>5

\* A claim keeps the types.
LEMMA ClaimType ==
    ASSUME TypeOK, NEW p \in Proc, NEW used \in SUBSET SlotsOf(p), NEW got \in [used -> Inst],
           Claim(p, got)
    PROVE  TypeOK'
<1>1. owner' \in [Inst -> Name \cup {None}]  BY PumpConstants DEF Claim, TypeOK
<1>2. left' \in [Inst -> 0 .. LeaseDuration]  BY PumpConstants DEF Claim, TypeOK
<1>3. phase' \in [Slots -> Phase]  BY DEF Claim, TypeOK, Phase
<1>4. job' \in [Slots -> Inst]  BY DEF Claim, TypeOK
<1>5. takeover' \in [Slots -> BOOLEAN]  BY DEF Claim, TypeOK
<1>6. stale' \in [Slots -> BOOLEAN]  BY DEF Claim, TypeOK
<1>7. pump' \in [Proc -> {"down", "reserve", "claim", "dispatch", "wait", "stopped",
                          "overwhelmed", "exited", "dead"}]
  BY DEF Claim, TypeOK
<1>8. fresh' \in [Proc -> SUBSET Inst]  BY DEF Claim, TypeOK
<1>. QED  BY <1>1, <1>2, <1>3, <1>4, <1>5, <1>6, <1>7, <1>8 DEF Claim, TypeOK

\* Every step of the pump keeps the types.
LEMMA PumpType ==
    ASSUME TypeOK, NEW p \in Proc, Pump(p)
    PROVE  TypeOK'
<1>1. CASE Reserve(p)
  BY <1>1 DEF Reserve, TypeOK, Phase, rows, claim
<1>2. CASE Nudged(p) \/ Poll(p) \/ PumpStops(p)
  BY <1>2 DEF Nudged, Poll, PumpStops, TypeOK, rows, claim
<1>3. CASE Exit(p)
  BY <1>3, PumpConstants DEF Exit, TypeOK, rows, claim
<1>4. ASSUME NEW used \in SUBSET SlotsOf(p), NEW got \in [used -> Inst], Claim(p, got)
      PROVE  TypeOK'
  BY <1>4, ClaimType
<1>5. ASSUME NEW s \in SlotsOf(p), Dispatch(s)
      PROVE  TypeOK'
  <2>1. s \in Slots /\ Host[s] = p  BY <1>5 DEF SlotsOf
  <2>2. phase' \in [Slots -> Phase]  BY <1>5, <2>1 DEF Dispatch, TypeOK, Phase
  <2>3. inflight' \in [Proc -> SUBSET Inst]  BY <1>5, <2>1 DEF Dispatch, TypeOK
  <2>4. pump' \in [Proc -> {"down", "reserve", "claim", "dispatch", "wait", "stopped",
                            "overwhelmed", "exited", "dead"}]
    BY <1>5, <2>1 DEF Dispatch, TypeOK
  <2>. QED  BY <1>5, <2>2, <2>3, <2>4 DEF Dispatch, TypeOK, rows, claim
<1>. QED  BY <1>1, <1>2, <1>3, <1>4, <1>5 DEF Pump

\* Every step of an advance keeps the types.
LEMMA AdvanceType ==
    ASSUME TypeOK, NEW s \in Slots, Advance(s)
    PROVE  TypeOK'
<1>1. CASE DropMarker(s)
  BY <1>1, PumpConstants DEF DropMarker, TypeOK, Phase, rows, claim
<1>2. CASE DropMarkerLate(s)
  BY <1>2, PumpConstants DEF DropMarkerLate, TypeOK, Phase, rows, claim
<1>3. CASE SignalWork(s)
  BY <1>3, FreeSlotsType DEF SignalWork, TypeOK, rows
<1>4. CASE PersistFails(s)
  BY <1>4, FreeSlotsType DEF PersistFails, TypeOK, rows
<1>5. ASSUME NEW st \in {"ready", "parked", "done"}, NEW new \in SUBSET Inst,
             Persist(s, st, new)
      PROVE  TypeOK'
  <2>1. Release(s, st, new)  BY <1>5 DEF Persist
  <2>2. phase' \in [Slots -> Phase]  BY <1>5 DEF Persist, TypeOK, Phase
  <2>. QED  BY <1>5, <2>1, <2>2, ReleaseType DEF Persist, TypeOK
<1>6. ASSUME NEW new \in SUBSET Inst, ParkInTransaction(s, new)
      PROVE  TypeOK'
  <2>1. Release(s, "parked", new)  BY <1>6 DEF ParkInTransaction
  <2>2. phase' \in [Slots -> Phase]  BY <1>6 DEF ParkInTransaction, TypeOK, Phase
  <2>. QED  BY <1>6, <2>1, <2>2, ReleaseType DEF ParkInTransaction, TypeOK
<1>. QED  BY <1>1, <1>2, <1>3, <1>4, <1>5, <1>6 DEF Advance

\* A clock tick keeps the types.
LEMMA TickType ==
    ASSUME TypeOK, Tick
    PROVE  TypeOK'
<1>1. left' \in [Inst -> 0 .. LeaseDuration]  BY PumpConstants DEF Tick, TypeOK
<1>2. renewIn' \in [Proc -> 0 .. RenewInterval]  BY PumpConstants DEF Tick, TypeOK
<1>. QED  BY <1>1, <1>2 DEF Tick, TypeOK, claim

\* Every step keeps the types.
LEMMA NextType == TypeOK /\ [Next]_vars => TypeOK'
<1>. SUFFICES ASSUME TypeOK, [Next]_vars PROVE TypeOK'
  OBVIOUS
<1>1. CASE UNCHANGED vars
  BY <1>1 DEF vars, rows, claim, TypeOK
<1>2. ASSUME NEW i \in Inst, Unpark(i)
      PROVE  TypeOK'
  BY <1>2 DEF Unpark, TypeOK, claim
<1>3. ASSUME NEW p \in Proc, NEW i \in Inst, StartInstance(p, i)
      PROVE  TypeOK'
  BY <1>3 DEF StartInstance, TypeOK, claim
<1>4. ASSUME NEW p \in Proc, Start(p)
      PROVE  TypeOK'
  BY <1>4, PumpConstants DEF Start, TypeOK, rows, claim
<1>5. ASSUME NEW p \in Proc, Shutdown(p)
      PROVE  TypeOK'
  BY <1>5, PumpConstants DEF Shutdown, TypeOK, rows, claim
<1>6. ASSUME NEW p \in Proc, Crash(p)
      PROVE  TypeOK'
  BY <1>6, PumpConstants, FreeSlotsType DEF Crash, TypeOK, rows
<1>7. ASSUME NEW p \in Proc, ClaimFails(p)
      PROVE  TypeOK'
  BY <1>7, FreeSlotsType DEF ClaimFails, TypeOK, rows
<1>8. ASSUME NEW p \in Proc, RenewWorkerLeases(p)
      PROVE  TypeOK'
  BY <1>8, PumpConstants DEF RenewWorkerLeases, TypeOK, claim
<1>. QED
  BY <1>1, <1>2, <1>3, <1>4, <1>5, <1>6, <1>7, <1>8, PumpType, AdvanceType, TickType DEF Next

\* Rows, slots, markers and timers keep their types, for any number of processes.
THEOREM TypeCorrect == Spec => []TypeOK
<1>1. Init => TypeOK
  BY PumpConstants DEF Init, TypeOK, Phase
<1>. QED  BY <1>1, NextType, PTL DEF Spec

------------------------------------------------------------------------------
(* The in-flight set. *)

\* A step leaves the goroutines at work and their markers as they are.
Unmarked == UNCHANGED <<inflight, job>> /\ \A s \in Slots :
                phase'[s] \in {"work", "parked"} => phase[s] \in {"work", "parked"}

\* Such a step keeps the guard.
LEMMA UnmarkedStep ==
    ASSUME TypeOK, OneRunPerProcess, Unmarked
    PROVE  OneRunPerProcess'
BY PumpConstants DEF TypeOK, OneRunPerProcess, Unmarked

\* A claim changes the jobs of reserved slots only.
LEMMA ClaimKeepsMarkers ==
    ASSUME TypeOK, OneRunPerProcess, NEW p \in Proc, NEW got, Claim(p, got)
    PROVE  OneRunPerProcess'
<1>1. inflight' = inflight  BY DEF Claim
<1>2. ASSUME NEW s \in Slots, phase'[s] \in {"work", "parked"}
      PROVE  phase[s] = phase'[s] /\ job'[s] = job[s]
  BY <1>2 DEF Claim, TypeOK
<1>. QED  BY <1>1, <1>2 DEF OneRunPerProcess

\* A dispatch starts a goroutine only if no other one has the marker.
LEMMA DispatchKeepsMarkers ==
    ASSUME TypeOK, OneRunPerProcess, NEW s \in Slots, Dispatch(s)
    PROVE  OneRunPerProcess'
<1>1. job' = job  BY DEF Dispatch, claim
<1>2. CASE job[s] \in inflight[Host[s]]
  <2>1. inflight' = inflight /\ phase' = [phase EXCEPT ![s] = "rejected"]
    BY <1>2 DEF Dispatch
  <2>. QED  BY <1>1, <2>1, UnmarkedStep DEF Unmarked, TypeOK
<1>3. CASE job[s] \notin inflight[Host[s]]
  <2>1. /\ inflight' = [inflight EXCEPT ![Host[s]] = @ \cup {job[s]}]
        /\ phase' = [phase EXCEPT ![s] = "work"]
    BY <1>3 DEF Dispatch
  <2>. QED  BY <1>1, <1>3, <2>1, PumpConstants, ZenonT(40) DEF OneRunPerProcess, TypeOK
<1>. QED  BY <1>2, <1>3

\* Dropping a marker takes it from the goroutine that drops it and no other.
LEMMA DropKeepsMarkers ==
    ASSUME TypeOK, OneRunPerProcess, NEW s \in Slots, DropMarker(s) \/ DropMarkerLate(s)
    PROVE  OneRunPerProcess'
<1>1. /\ job' = job /\ phase[s] \in {"work", "parked"}
      /\ inflight' = [inflight EXCEPT ![Host[s]] = @ \ {job[s]}]
      /\ phase' = [phase EXCEPT ![s] = "save"] \/ phase' = [phase EXCEPT ![s] = "saved"]
  BY DEF DropMarker, DropMarkerLate, claim
<1>. QED  BY <1>1, PumpConstants DEF OneRunPerProcess, TypeOK

\* Every step keeps the guard, whatever the renewals do.
LEMMA NextMarkers == TypeOK /\ OneRunPerProcess /\ [Next]_vars => OneRunPerProcess'
<1>. SUFFICES ASSUME TypeOK, OneRunPerProcess, [Next]_vars PROVE OneRunPerProcess'
  OBVIOUS
<1>1. CASE UNCHANGED vars
  BY <1>1, UnmarkedStep DEF vars, claim, Unmarked
<1>2. CASE \E i \in Inst : Unpark(i)
  BY <1>2, UnmarkedStep DEF Unpark, claim, Unmarked
<1>3. CASE \E p \in Proc, i \in Inst : StartInstance(p, i)
  BY <1>3, UnmarkedStep DEF StartInstance, claim, Unmarked
<1>4. CASE \E p \in Proc : Start(p) \/ Shutdown(p) \/ RenewWorkerLeases(p)
  BY <1>4, UnmarkedStep DEF Start, Shutdown, RenewWorkerLeases, claim, Unmarked
<1>5. ASSUME NEW p \in Proc, Crash(p)
      PROVE  OneRunPerProcess'
  <2>1. /\ job' = job /\ inflight' = [inflight EXCEPT ![p] = {}]
        /\ phase' = [s \in Slots |-> IF Host[s] = p THEN "free" ELSE phase[s]]
    BY <1>5 DEF Crash, FreeSlots, SlotsOf
  <2>. QED  BY <2>1, PumpConstants DEF OneRunPerProcess, TypeOK
<1>6. CASE \E p \in Proc : ClaimFails(p)
  BY <1>6, UnmarkedStep DEF ClaimFails, FreeSlots, Unmarked
<1>7. ASSUME NEW p \in Proc, Pump(p)
      PROVE  OneRunPerProcess'
  <2>1. CASE Reserve(p) \/ Nudged(p) \/ Poll(p) \/ PumpStops(p) \/ Exit(p)
    BY <2>1, UnmarkedStep DEF Reserve, Nudged, Poll, PumpStops, Exit, claim, Unmarked
  <2>2. CASE \E used \in SUBSET SlotsOf(p) : \E got \in [used -> Inst] : Claim(p, got)
    BY <2>2, ClaimKeepsMarkers
  <2>3. CASE \E s \in SlotsOf(p) : Dispatch(s)
    BY <2>3, DispatchKeepsMarkers DEF SlotsOf
  <2>. QED  BY <1>7, <2>1, <2>2, <2>3 DEF Pump
<1>8. ASSUME NEW s \in Slots, Advance(s)
      PROVE  OneRunPerProcess'
  <2>1. CASE DropMarker(s) \/ DropMarkerLate(s)
    BY <2>1, DropKeepsMarkers
  <2>2. CASE SignalWork(s) \/ PersistFails(s)
    BY <2>2, UnmarkedStep DEF SignalWork, PersistFails, FreeSlots, Unmarked
  <2>3. CASE \E st \in {"ready", "parked", "done"}, new \in SUBSET Inst : Persist(s, st, new)
    BY <2>3, UnmarkedStep DEF Persist, Unmarked, TypeOK
  <2>4. CASE \E new \in SUBSET Inst : ParkInTransaction(s, new)
    BY <2>4, UnmarkedStep DEF ParkInTransaction, Unmarked, TypeOK
  <2>. QED  BY <1>8, <2>1, <2>2, <2>3, <2>4 DEF Advance
<1>9. CASE Tick
  BY <1>9, UnmarkedStep DEF Tick, claim, Unmarked
<1>. QED
  BY <1>1, <1>2, <1>3, <1>4, <1>5, <1>6, <1>7, <1>8, <1>9 DEF Next

\* In one process no instance is worked on by two goroutines, even if its lease
\* ran out and the process claimed it again: dispatch finds the marker.
THEOREM MarkersGuardProcess == Spec => []OneRunPerProcess
<1>1. Init => OneRunPerProcess
  BY DEF Init, OneRunPerProcess
<1>. QED  BY <1>1, TypeCorrect, NextMarkers, PTL DEF Spec

------------------------------------------------------------------------------
(* Exclusive advances. *)

\* A process that is not alive has no goroutines, and one that has not started
\* uses no slot.
QuietWhenDown ==
    \A s \in Slots :
        /\ ~Alive(Host[s]) => ~Goroutine(s)
        /\ pump[Host[s]] = "down" => phase[s] = "free"

\* A slot that will still write its row owns it: its snapshot is current, and its
\* lease has not run out and will not run out before the next renewal.
OwnsRow(s) ==
    /\ ~stale[s]
    /\ owner[job[s]] = WorkerID[Host[s]] /\ left[job[s]] > 0
    /\ Renewing(Host[s]) => left[job[s]] > renewIn[Host[s]]

BusyOwns  == \A s \in Slots : Busy(s) => OwnsRow(s)
BusyApart == \A s, t \in Slots : Busy(s) /\ Busy(t) /\ job[s] = job[t] => s = t

\* The inductive invariant behind ExclusiveAdvance.
ExclusiveInv == QuietWhenDown /\ (Timely => BusyOwns /\ BusyApart)

\* A step that writes no row and starts no work.
NoNewWork ==
    /\ UNCHANGED <<owner, left, renewIn, stopping>>
    /\ \A s \in Slots : Busy(s)' => Busy(s) /\ job'[s] = job[s] /\ stale'[s] = stale[s]
    /\ \A p \in Proc : Alive(p)' => Alive(p)

\* Such a step keeps the leases of the busy slots.
LEMMA NoNewWorkStep ==
    ASSUME TypeOK, BusyOwns, BusyApart, NoNewWork
    PROVE  (BusyOwns /\ BusyApart)'
<1>1. ASSUME NEW s \in Slots, Busy(s)'
      PROVE  OwnsRow(s)' /\ Busy(s) /\ job'[s] = job[s]
  <2>1. Busy(s) /\ OwnsRow(s) /\ job'[s] = job[s] /\ stale'[s] = stale[s]
    BY <1>1 DEF NoNewWork, BusyOwns
  <2>2. Renewing(Host[s])' => Renewing(Host[s])
    BY PumpConstants DEF NoNewWork, Renewing
  <2>. QED  BY <2>1, <2>2 DEF OwnsRow, NoNewWork
<1>. QED  BY <1>1 DEF BusyOwns, BusyApart

\* A busy slot belongs to a process that is alive.
LEMMA BusyAlive ==
    ASSUME QuietWhenDown, NEW s \in Slots, Busy(s)
    PROVE  Alive(Host[s])
BY DEF QuietWhenDown, Busy, Goroutine, Pumping, Alive

\* A row that a busy slot owns cannot be claimed.
LEMMA BusyNotClaimable ==
    ASSUME TypeOK, BusyOwns, NEW s \in Slots, Busy(s)
    PROVE  ~Claimable(job[s])
BY PumpConstants DEF BusyOwns, OwnsRow, Claimable, TypeOK

\* A claim gives its slots rows that nobody else works on.
LEMMA ClaimExclusive ==
    ASSUME TypeOK, QuietWhenDown, BusyOwns, BusyApart, NEW p \in Proc,
           NEW used \in SUBSET SlotsOf(p), NEW got \in [used -> Inst], Claim(p, got)
    PROVE  (BusyOwns /\ BusyApart)'
<1>1. ASSUME NEW s \in Slots, s \notin used, Busy(s)'
      PROVE  /\ Busy(s) /\ job'[s] = job[s] /\ stale'[s] = stale[s]
             /\ \A u \in used : job[s] # got[u]
  <2>1. Busy(s)
    <3>1. phase'[s] = phase[s] \/ phase'[s] = "free"
      BY <1>1 DEF Claim, TypeOK
    <3>2. Pumping(Host[s])' => Pumping(Host[s])
      BY PumpConstants DEF Claim, TypeOK, Pumping
    <3>. QED  BY <1>1, <3>1, <3>2 DEF Busy
  <2>2. ~Claimable(job[s])  BY <2>1, BusyNotClaimable
  <2>3. \A u \in used : Claimable(got[u])  BY DEF Claim
  <2>. QED  BY <1>1, <2>1, <2>2, <2>3 DEF Claim
<1>2. ASSUME NEW s \in used
      PROVE  job'[s] = got[s] /\ ~stale'[s] /\ s \in Slots /\ Host[s] = p
  BY <1>2 DEF Claim, SlotsOf
<1>3. \A i \in Inst : i \in {got[u] : u \in used} =>
          owner'[i] = WorkerID[p] /\ left'[i] = LeaseDuration
  BY DEF Claim
<1>4. \A i \in Inst : i \notin {got[u] : u \in used} =>
          owner'[i] = owner[i] /\ left'[i] = left[i]
  BY DEF Claim
<1>5. renewIn' = renewIn /\ stopping' = stopping /\ \A q \in Proc : Alive(q)' => Alive(q)
  BY DEF Claim, Alive, TypeOK
<1>6. ASSUME NEW s \in Slots, Busy(s)'
      PROVE  OwnsRow(s)'
  <2>1. CASE s \in used
    <3>1. job'[s] \in Inst /\ job'[s] \in {got[u] : u \in used}  BY <2>1, <1>2
    <3>2. owner'[job'[s]] = WorkerID[p] /\ left'[job'[s]] = LeaseDuration  BY <3>1, <1>3
    <3>3. renewIn'[p] <= RenewInterval /\ renewIn'[p] \in Nat
      BY <1>5, PumpConstants DEF TypeOK
    <3>. QED  BY <2>1, <1>2, <3>2, <3>3, PumpConstants DEF OwnsRow
  <2>2. CASE s \notin used
    <3>1. /\ Busy(s) /\ job'[s] = job[s] /\ stale'[s] = stale[s]
          /\ job[s] \notin {got[u] : u \in used}
      BY <1>1, <1>6, <2>2
    <3>2. owner'[job'[s]] = owner[job[s]] /\ left'[job'[s]] = left[job[s]]
      BY <3>1, <1>4 DEF TypeOK
    <3>3. Renewing(Host[s])' => Renewing(Host[s])
      BY <1>5, PumpConstants DEF Renewing
    <3>4. OwnsRow(s)  BY <3>1 DEF BusyOwns
    <3>. QED  BY <1>5, <3>1, <3>2, <3>3, <3>4 DEF OwnsRow
  <2>. QED  BY <2>1, <2>2
<1>7. ASSUME NEW s \in Slots, NEW t \in Slots, Busy(s)', Busy(t)', job'[s] = job'[t]
      PROVE  s = t
  <2>1. CASE s \in used /\ t \in used
    BY <1>7, <2>1, <1>2 DEF Claim
  <2>2. CASE s \in used /\ t \notin used
    BY <1>7, <2>2, <1>1, <1>2
  <2>3. CASE s \notin used /\ t \in used
    BY <1>7, <2>3, <1>1, <1>2
  <2>4. CASE s \notin used /\ t \notin used
    BY <1>7, <2>4, <1>1 DEF BusyApart
  <2>. QED  BY <2>1, <2>2, <2>3, <2>4
<1>. QED  BY <1>6, <1>7 DEF BusyOwns, BusyApart

\* The write of a row by the slot that is busy with it concerns no other busy slot.
LEMMA ReleaseExclusive ==
    ASSUME TypeOK, BusyOwns, BusyApart, NEW s \in Slots, Busy(s), NEW st, NEW new,
           Release(s, st, new), UNCHANGED <<pump, stopping, renewIn, job>>,
           NEW ph \in {"saved", "parked"}, phase' = [phase EXCEPT ![s] = ph]
    PROVE  (BusyOwns /\ BusyApart)'
<1>1. ASSUME NEW t \in Slots, Busy(t)'
      PROVE  t # s /\ Busy(t)
  BY <1>1 DEF Busy, Pumping, TypeOK
<1>2. ASSUME NEW t \in Slots, Busy(t)'
      PROVE  OwnsRow(t)'
  <2>1. t # s /\ Busy(t) /\ OwnsRow(t)  BY <1>1, <1>2 DEF BusyOwns
  <2>2. job[t] # job[s] /\ job[t] \in Inst /\ job[s] \in Inst  BY <2>1 DEF BusyApart, TypeOK
  <2>3. stale'[t] = stale[t] /\ owner'[job[t]] = owner[job[t]] /\ left'[job[t]] = left[job[t]]
    BY <2>1, <2>2 DEF Release, TypeOK
  <2>4. Renewing(Host[t])' <=> Renewing(Host[t])  BY DEF Renewing, Alive
  <2>. QED  BY <2>1, <2>3, <2>4 DEF OwnsRow
<1>. QED  BY <1>1, <1>2 DEF BusyOwns, BusyApart

\* Punctual renewals and short drains keep the leases of busy slots from running out.
LEMMA TickExclusive ==
    ASSUME TypeOK, QuietWhenDown, Timely, BusyOwns, BusyApart, Tick
    PROVE  (BusyOwns /\ BusyApart)'
<1>1. UNCHANGED <<owner, pump, stopping, phase, job, stale>>  BY DEF Tick, claim
<1>2. \A s \in Slots : Busy(s)' <=> Busy(s)  BY <1>1 DEF Busy, Pumping
<1>3. ASSUME NEW s \in Slots, Busy(s)
      PROVE  OwnsRow(s)'
  <2>1. Alive(Host[s]) /\ OwnsRow(s) /\ Host[s] \in Proc /\ job[s] \in Inst
    BY <1>3, BusyAlive, PumpConstants DEF BusyOwns, TypeOK
  <2>2. left[job[s]] \in Nat /\ renewIn[Host[s]] \in Nat
    BY <2>1, PumpConstants DEF TypeOK
  <2>3. /\ left'[job[s]] = IF left[job[s]] > 0 THEN left[job[s]] - 1 ELSE 0
        /\ renewIn'[Host[s]] = IF renewIn[Host[s]] > 0 THEN renewIn[Host[s]] - 1 ELSE 0
    BY <2>1 DEF Tick
  <2>4. CASE stopping[Host[s]]
    <3>1. left[job[s]] > 1  BY <1>3, <2>4 DEF Tick
    <3>. QED  BY <1>1, <2>1, <2>2, <2>3, <2>4, <3>1 DEF OwnsRow, Renewing, Alive
  <2>5. CASE ~stopping[Host[s]]
    <3>1. renewIn[Host[s]] > 0 /\ left[job[s]] > renewIn[Host[s]]
      BY <2>1, <2>5 DEF Tick, Renewing, OwnsRow
    <3>. QED  BY <1>1, <2>1, <2>2, <2>3, <3>1 DEF OwnsRow
  <2>. QED  BY <2>4, <2>5
<1>. QED  BY <1>1, <1>2, <1>3 DEF BusyOwns, BusyApart

\* A renewal only lengthens leases.
LEMMA RenewExclusive ==
    ASSUME TypeOK, BusyOwns, BusyApart, NEW p \in Proc, RenewWorkerLeases(p)
    PROVE  (BusyOwns /\ BusyApart)'
<1>1. UNCHANGED <<owner, pump, stopping, phase, job, stale>>  BY DEF RenewWorkerLeases, claim
<1>2. \A s \in Slots : Busy(s)' <=> Busy(s)  BY <1>1 DEF Busy, Pumping
<1>3. ASSUME NEW s \in Slots, Busy(s)
      PROVE  OwnsRow(s)'
  <2>1. OwnsRow(s) /\ Host[s] \in Proc /\ job[s] \in Inst
    BY <1>3, PumpConstants DEF BusyOwns, TypeOK
  <2>2. Renewing(Host[s])' <=> Renewing(Host[s])  BY <1>1 DEF Renewing, Alive
  <2>3. left[job[s]] \in 0 .. LeaseDuration /\ renewIn[Host[s]] \in 0 .. RenewInterval
    BY <2>1 DEF TypeOK
  <2>4. left'[job[s]] = LeaseDuration \/ left'[job[s]] = left[job[s]]
    BY <2>1 DEF RenewWorkerLeases
  <2>5. CASE Host[s] = p
    <3>1. renewIn'[p] = RenewInterval /\ left'[job[s]] = LeaseDuration
      BY <2>1, <2>5 DEF RenewWorkerLeases, TypeOK, OwnsRow
    <3>. QED  BY <1>1, <2>1, <2>5, <3>1, PumpConstants DEF OwnsRow
  <2>6. CASE Host[s] # p
    <3>1. renewIn'[Host[s]] = renewIn[Host[s]]  BY <2>1, <2>6 DEF RenewWorkerLeases, TypeOK
    <3>. QED  BY <1>1, <2>1, <2>2, <2>3, <2>4, <3>1, PumpConstants DEF OwnsRow
  <2>. QED  BY <2>5, <2>6
<1>. QED  BY <1>1, <1>2, <1>3 DEF BusyOwns, BusyApart

\* A new process has no busy slots, whatever leases its predecessor left behind.
LEMMA StartExclusive ==
    ASSUME TypeOK, QuietWhenDown, BusyOwns, BusyApart, NEW p \in Proc, Start(p)
    PROVE  (BusyOwns /\ BusyApart)'
<1>1. UNCHANGED <<rows, stopping, phase, claim>>  BY DEF Start
<1>2. ASSUME NEW s \in Slots, Busy(s)'
      PROVE  Busy(s) /\ Host[s] # p
  <2>1. Host[s] # p
    BY <1>1, <1>2 DEF QuietWhenDown, Start, Busy
  <2>. QED  BY <1>1, <1>2, <2>1, PumpConstants DEF Start, Busy, Pumping, TypeOK
<1>3. ASSUME NEW s \in Slots, Busy(s)'
      PROVE  OwnsRow(s)'
  <2>1. OwnsRow(s) /\ Host[s] # p /\ Host[s] \in Proc
    BY <1>2, <1>3, PumpConstants DEF BusyOwns
  <2>2. renewIn'[Host[s]] = renewIn[Host[s]] /\ pump'[Host[s]] = pump[Host[s]]
    BY <2>1 DEF Start, TypeOK
  <2>. QED  BY <1>1, <2>1, <2>2 DEF OwnsRow, Renewing, Alive, rows, claim
<1>. QED  BY <1>1, <1>2, <1>3 DEF BusyOwns, BusyApart, claim

\* A process that is asked to stop keeps its leases, without renewing them.
LEMMA ShutdownExclusive ==
    ASSUME TypeOK, BusyOwns, BusyApart, NEW p \in Proc, Shutdown(p)
    PROVE  (BusyOwns /\ BusyApart)'
<1>1. UNCHANGED <<rows, pump, phase, claim>>  BY DEF Shutdown
<1>2. \A s \in Slots : Busy(s)' <=> Busy(s)  BY <1>1 DEF Busy, Pumping
<1>3. ASSUME NEW s \in Slots, Busy(s)
      PROVE  OwnsRow(s)'
  <2>1. OwnsRow(s) /\ Host[s] \in Proc  BY <1>3, PumpConstants DEF BusyOwns
  <2>2. CASE Host[s] = p
    BY <1>1, <2>1, <2>2 DEF Shutdown, OwnsRow, Renewing, TypeOK, rows, claim
  <2>3. CASE Host[s] # p
    BY <1>1, <2>1, <2>3 DEF Shutdown, OwnsRow, Renewing, Alive, TypeOK, rows, claim
  <2>. QED  BY <2>2, <2>3
<1>. QED  BY <1>1, <1>2, <1>3 DEF BusyOwns, BusyApart, claim

\* A process that is gone has no busy slots; the others keep theirs.
LEMMA GoneExclusive ==
    ASSUME TypeOK, BusyOwns, BusyApart, NEW p \in Proc, Crash(p) \/ Exit(p)
    PROVE  (BusyOwns /\ BusyApart)'
<1>1. UNCHANGED <<rows, job>>  BY DEF Crash, Exit, FreeSlots, claim
<1>2. ASSUME NEW s \in Slots, Busy(s)'
      PROVE  Busy(s) /\ Host[s] # p /\ stale'[s] = stale[s]
  <2>1. CASE Crash(p)
    BY <1>2, <2>1, PumpConstants DEF Crash, FreeSlots, SlotsOf, Busy, Pumping, TypeOK
  <2>2. CASE Exit(p)
    BY <1>2, <2>2, PumpConstants DEF Exit, SlotsOf, Busy, Goroutine, Pumping, TypeOK, claim
  <2>. QED  BY <2>1, <2>2
<1>3. ASSUME NEW s \in Slots, Busy(s)'
      PROVE  OwnsRow(s)'
  <2>1. OwnsRow(s) /\ Host[s] # p /\ Host[s] \in Proc /\ stale'[s] = stale[s]
    BY <1>2, <1>3, PumpConstants DEF BusyOwns
  <2>2. /\ renewIn'[Host[s]] = renewIn[Host[s]] /\ pump'[Host[s]] = pump[Host[s]]
        /\ stopping'[Host[s]] = stopping[Host[s]]
    BY <2>1 DEF Crash, Exit, TypeOK
  <2>. QED  BY <1>1, <2>1, <2>2 DEF OwnsRow, Renewing, Alive, rows
<1>. QED  BY <1>1, <1>2, <1>3 DEF BusyOwns, BusyApart

\* The other steps write no row and start no work.
LEMMA PlainExclusive ==
    ASSUME TypeOK,
           \/ UNCHANGED vars
           \/ \E i \in Inst : Unpark(i) \/ \E p \in Proc : StartInstance(p, i)
           \/ \E p \in Proc : \/ Reserve(p) \/ ClaimFails(p)
                              \/ Nudged(p) \/ Poll(p) \/ PumpStops(p)
           \/ \E s \in Slots : \/ Dispatch(s) \/ DropMarker(s) \/ DropMarkerLate(s)
                               \/ SignalWork(s) \/ PersistFails(s)
    PROVE  NoNewWork
<1>1. CASE UNCHANGED vars
  BY <1>1 DEF vars, rows, claim, NoNewWork, Busy, Pumping, Alive
<1>2. CASE \E i \in Inst : Unpark(i) \/ \E p \in Proc : StartInstance(p, i)
  BY <1>2 DEF Unpark, StartInstance, claim, NoNewWork, Busy, Pumping, Alive
<1>3. ASSUME NEW p \in Proc, Reserve(p)
      PROVE  NoNewWork
  BY <1>3 DEF Reserve, rows, claim, NoNewWork, Busy, Pumping, Alive, TypeOK
<1>4. ASSUME NEW p \in Proc, ClaimFails(p)
      PROVE  NoNewWork
  BY <1>4 DEF ClaimFails, FreeSlots, rows, NoNewWork, Busy, Pumping, Alive, TypeOK
<1>5. ASSUME NEW s \in Slots, Dispatch(s)
      PROVE  NoNewWork
  <2>1. /\ UNCHANGED <<rows, claim, renewIn, stopping>>
        /\ phase[s] = "claimed" /\ pump[Host[s]] = "dispatch"
        /\ phase' = [phase EXCEPT ![s] = "rejected"] \/ phase' = [phase EXCEPT ![s] = "work"]
        /\ \E x \in {"overwhelmed", "dispatch", "reserve"} :
              pump' = [pump EXCEPT ![Host[s]] = x]
    BY <1>5 DEF Dispatch
  <2>. QED  BY <2>1, PumpConstants DEF rows, claim, NoNewWork, Busy, Pumping, Alive, TypeOK
<1>6. ASSUME NEW p \in Proc, Nudged(p) \/ Poll(p) \/ PumpStops(p)
      PROVE  NoNewWork
  <2>1. /\ UNCHANGED <<rows, claim, phase, renewIn, stopping>>
        /\ pump[p] \in {"wait", "reserve"}
        /\ \E x \in {"reserve", "stopped"} : pump' = [pump EXCEPT ![p] = x]
    BY <1>6 DEF Nudged, Poll, PumpStops
  <2>. QED  BY <2>1, PumpConstants DEF rows, claim, NoNewWork, Busy, Pumping, Alive, TypeOK
<1>7. ASSUME NEW s \in Slots, DropMarker(s) \/ DropMarkerLate(s)
      PROVE  NoNewWork
  BY <1>7 DEF DropMarker, DropMarkerLate, rows, claim, NoNewWork, Busy, Pumping, Alive, TypeOK
<1>8. ASSUME NEW s \in Slots, SignalWork(s) \/ PersistFails(s)
      PROVE  NoNewWork
  BY <1>8 DEF SignalWork, PersistFails, FreeSlots, rows, NoNewWork, Busy, Pumping, Alive, TypeOK
<1>. QED  BY <1>1, <1>2, <1>3, <1>4, <1>5, <1>6, <1>7, <1>8

\* The slots of processes that are not running stay quiet.
LEMMA NextQuiet == TypeOK /\ QuietWhenDown /\ [Next]_vars => QuietWhenDown'
<1>. SUFFICES ASSUME TypeOK, QuietWhenDown, [Next]_vars PROVE QuietWhenDown'
  OBVIOUS
<1> USE PumpConstants DEF QuietWhenDown, Goroutine, Alive, TypeOK
<1>1. CASE UNCHANGED vars  BY <1>1 DEF vars
<1>2. CASE \E i \in Inst : Unpark(i)  BY <1>2 DEF Unpark
<1>3. CASE \E p \in Proc, i \in Inst : StartInstance(p, i)  BY <1>3 DEF StartInstance
<1>4. CASE \E p \in Proc : Start(p) \/ Shutdown(p) \/ RenewWorkerLeases(p)
  BY <1>4 DEF Start, Shutdown, RenewWorkerLeases
<1>5. CASE \E p \in Proc : Crash(p)  BY <1>5 DEF Crash, FreeSlots, SlotsOf
<1>6. CASE \E p \in Proc : ClaimFails(p)  BY <1>6 DEF ClaimFails, FreeSlots, SlotsOf
<1>7. ASSUME NEW p \in Proc, Pump(p)
      PROVE  QuietWhenDown'
  <2>1. CASE Reserve(p)  BY <2>1 DEF Reserve, SlotsOf
  <2>2. CASE Nudged(p) \/ Poll(p) \/ PumpStops(p)  BY <2>2 DEF Nudged, Poll, PumpStops
  <2>3. CASE Exit(p)  BY <2>3 DEF Exit, SlotsOf
  <2>4. CASE \E used \in SUBSET SlotsOf(p) : \E got \in [used -> Inst] : Claim(p, got)
    BY <2>4 DEF Claim, SlotsOf
  <2>5. CASE \E s \in SlotsOf(p) : Dispatch(s)  BY <2>5 DEF Dispatch, SlotsOf
  <2>. QED  BY <1>7, <2>1, <2>2, <2>3, <2>4, <2>5 DEF Pump
<1>8. ASSUME NEW s \in Slots, Advance(s)
      PROVE  QuietWhenDown'
  <2>1. pump' = pump /\ \A t \in Slots : phase'[t] = phase[t] \/ phase'[t] = "free"
                                         \/ (t = s /\ Goroutine(s))
    <3>1. CASE DropMarker(s) \/ DropMarkerLate(s)  BY <3>1 DEF DropMarker, DropMarkerLate
    <3>2. CASE SignalWork(s) \/ PersistFails(s)
      BY <3>2 DEF SignalWork, PersistFails, FreeSlots
    <3>3. CASE \E st \in {"ready", "parked", "done"}, new \in SUBSET Inst : Persist(s, st, new)
      BY <3>3 DEF Persist
    <3>4. CASE \E new \in SUBSET Inst : ParkInTransaction(s, new)
      BY <3>4 DEF ParkInTransaction
    <3>. QED  BY <1>8, <3>1, <3>2, <3>3, <3>4 DEF Advance
  <2>. QED  BY <2>1
<1>9. CASE Tick  BY <1>9 DEF Tick
<1>. QED
  BY <1>1, <1>2, <1>3, <1>4, <1>5, <1>6, <1>7, <1>8, <1>9 DEF Next

\* Every step keeps busy slots apart while renewals are on time.
LEMMA NextExclusive == TypeOK /\ ExclusiveInv /\ [Next]_vars => ExclusiveInv'
<1>. SUFFICES ASSUME TypeOK, ExclusiveInv, [Next]_vars, Timely
              PROVE  (BusyOwns /\ BusyApart)'
  BY NextQuiet DEF ExclusiveInv
<1>1. QuietWhenDown /\ BusyOwns /\ BusyApart  BY DEF ExclusiveInv
<1>2. CASE NoNewWork
  BY <1>1, <1>2, NoNewWorkStep
<1>3. ASSUME NEW p \in Proc, Start(p) \/ Shutdown(p) \/ Crash(p) \/ Exit(p)
                             \/ RenewWorkerLeases(p)
      PROVE  (BusyOwns /\ BusyApart)'
  BY <1>1, <1>3, StartExclusive, ShutdownExclusive, GoneExclusive, RenewExclusive
<1>4. ASSUME NEW p \in Proc, NEW used \in SUBSET SlotsOf(p), NEW got \in [used -> Inst],
             Claim(p, got)
      PROVE  (BusyOwns /\ BusyApart)'
  BY <1>1, <1>4, ClaimExclusive
<1>5. ASSUME NEW s \in Slots, NEW st \in {"ready", "parked", "done"}, NEW new \in SUBSET Inst,
             Persist(s, st, new)
      PROVE  (BusyOwns /\ BusyApart)'
  <2>1. /\ Busy(s) /\ Release(s, st, new) /\ UNCHANGED <<pump, stopping, renewIn, job>>
        /\ phase' = [phase EXCEPT ![s] = "saved"]
    BY <1>5 DEF Persist, Busy
  <2>. QED  BY <1>1, <2>1, ReleaseExclusive
<1>6. ASSUME NEW s \in Slots, NEW new \in SUBSET Inst, ParkInTransaction(s, new)
      PROVE  (BusyOwns /\ BusyApart)'
  <2>1. /\ Busy(s) /\ Release(s, "parked", new) /\ UNCHANGED <<pump, stopping, renewIn, job>>
        /\ phase' = [phase EXCEPT ![s] = "parked"]
    BY <1>6 DEF ParkInTransaction, Busy
  <2>. QED  BY <1>1, <2>1, ReleaseExclusive
<1>7. CASE Tick
  BY <1>1, <1>7, TickExclusive
<1>8. ASSUME NEW p \in Proc, Pump(p)
      PROVE  (BusyOwns /\ BusyApart)'
  BY <1>2, <1>3, <1>4, <1>8, PlainExclusive DEF Pump, SlotsOf
<1>9. ASSUME NEW s \in Slots, Advance(s)
      PROVE  (BusyOwns /\ BusyApart)'
  BY <1>2, <1>5, <1>6, <1>9, PlainExclusive DEF Advance
<1>. QED
  BY <1>2, <1>3, <1>7, <1>8, <1>9, PlainExclusive DEF Next

\* While renewals are on time, an advance has its row to itself: no other slot of
\* any process holds a snapshot of it, and nobody writes it before the advance does.
THEOREM AdvancesAreExclusive == Spec => []ExclusiveAdvance
<1>1. Init => ExclusiveInv
  BY DEF Init, ExclusiveInv, QuietWhenDown, BusyOwns, BusyApart, Busy, Goroutine
<1>2. ExclusiveInv => ExclusiveAdvance
  BY DEF ExclusiveInv, BusyOwns, BusyApart, OwnsRow, ExclusiveAdvance
<1>. QED  BY <1>1, <1>2, TypeCorrect, NextExclusive, PTL DEF Spec

------------------------------------------------------------------------------
(* Nudges. *)

\* Only a row that can run is leased, and a row that a process made runnable and that
\* nobody has claimed since can still be claimed.
IdleIsUnowned    == \A i \in Inst : state[i] # "ready" => owner[i] = None
FreshIsClaimable == \A p \in Proc : \A i \in fresh[p] : state[i] = "ready" /\ owner[i] = None

\* A pump that claims has reserved a slot for the claim.
ClaimHasSlot ==
    \A p \in Proc : pump[p] = "claim" => \E s \in SlotsOf(p) : phase[s] = "reserved"

\* A pump that waits has a nudge, will get one, or has missed nothing.
Heard ==
    \A p \in Proc : pump[p] = "wait" =>
        \/ wake[p] \/ fresh[p] = {}
        \/ \E s \in SlotsOf(p) : phase[s] \in {"parked", "saved"}

\* The inductive invariant behind NoMissedNudge.
NudgeInv == IdleIsUnowned /\ FreshIsClaimable /\ ClaimHasSlot /\ Heard

\* The write of a row, by whichever slot, keeps what is known of fresh rows.
LEMMA ReleaseFresh ==
    ASSUME TypeOK, IdleIsUnowned, FreshIsClaimable, NEW s \in Slots,
           NEW st \in {"ready", "parked", "done"}, NEW new \in SUBSET (Inst \ {job[s]}),
           \A j \in new : state[j] # "ready", Release(s, st, new)
    PROVE  IdleIsUnowned' /\ FreshIsClaimable'
<1>. DEFINE i == job[s]
<1>1. i \in Inst  BY DEF TypeOK
<1>2. /\ \A j \in Inst : state'[j] = IF j = i THEN st ELSE IF j \in new THEN "ready" ELSE state[j]
      /\ \A j \in Inst : owner'[j] = IF j = i THEN None ELSE owner[j]
  BY <1>1 DEF Release, TypeOK
<1>3. IdleIsUnowned'  BY <1>2 DEF IdleIsUnowned
<1>4. ASSUME NEW q \in Proc, NEW j \in fresh'[q]
      PROVE  state'[j] = "ready" /\ owner'[j] = None
  <2>1. fresh'[q] = IF q # Host[s] THEN fresh[q] \ {i}
                    ELSE IF st = "ready" THEN fresh[q] \cup new \cup {i}
                    ELSE (fresh[q] \ {i}) \cup new
    BY DEF Release
  <2>2. j \in Inst /\ (j = i => st = "ready") /\ (j # i => j \in fresh[q] \cup new)
    <3>1. fresh[q] \subseteq Inst  BY DEF TypeOK
    <3>. QED  BY <1>1, <1>4, <2>1, <3>1
  <2>3. CASE j \in new
    <3>1. j # i /\ owner[j] = None  BY <2>2, <2>3 DEF IdleIsUnowned
    <3>. QED  BY <1>2, <2>2, <2>3, <3>1
  <2>4. CASE j \notin new /\ j # i
    <3>1. state[j] = "ready" /\ owner[j] = None  BY <2>2, <2>4 DEF FreshIsClaimable
    <3>. QED  BY <1>2, <2>2, <2>4, <3>1
  <2>5. CASE j = i  BY <1>2, <2>2, <2>5
  <2>. QED  BY <2>3, <2>4, <2>5
<1>. QED  BY <1>3, <1>4 DEF FreshIsClaimable

\* A row can be leased only while it can run.
LEMMA NextFresh ==
    TypeOK /\ IdleIsUnowned /\ FreshIsClaimable /\ [Next]_vars
        => IdleIsUnowned' /\ FreshIsClaimable'
<1>. SUFFICES ASSUME TypeOK, IdleIsUnowned, FreshIsClaimable, [Next]_vars
              PROVE  IdleIsUnowned' /\ FreshIsClaimable'
  OBVIOUS
<1>0. ASSUME UNCHANGED <<state, owner>>, \A p \in Proc : fresh'[p] \subseteq fresh[p]
      PROVE  IdleIsUnowned' /\ FreshIsClaimable'
  BY <1>0 DEF IdleIsUnowned, FreshIsClaimable
<1>1. CASE UNCHANGED vars  BY <1>0, <1>1 DEF vars, rows
<1>2. ASSUME NEW i \in Inst, Unpark(i)
      PROVE  IdleIsUnowned' /\ FreshIsClaimable'
  BY <1>2 DEF Unpark, IdleIsUnowned, FreshIsClaimable, TypeOK
<1>3. ASSUME NEW p \in Proc, NEW i \in Inst, StartInstance(p, i)
      PROVE  IdleIsUnowned' /\ FreshIsClaimable'
  <2>1. /\ state[i] = "absent" /\ state' = [state EXCEPT ![i] = "ready"] /\ owner' = owner
        /\ fresh' = [fresh EXCEPT ![p] = @ \cup {i}]
    BY <1>3 DEF StartInstance, NextInserted
  <2>2. owner[i] = None  BY <2>1 DEF IdleIsUnowned
  <2>. QED  BY <2>1, <2>2 DEF IdleIsUnowned, FreshIsClaimable, TypeOK
<1>4. ASSUME NEW p \in Proc, Start(p) \/ Shutdown(p) \/ RenewWorkerLeases(p)
      PROVE  IdleIsUnowned' /\ FreshIsClaimable'
  BY <1>0, <1>4 DEF Start, Shutdown, RenewWorkerLeases, rows
<1>5. ASSUME NEW p \in Proc, Crash(p) \/ ClaimFails(p) \/ Exit(p)
      PROVE  IdleIsUnowned' /\ FreshIsClaimable'
  <2>1. UNCHANGED <<state, owner>> /\ fresh' = [fresh EXCEPT ![p] = {}]
    BY <1>5 DEF Crash, ClaimFails, Exit, rows
  <2>. QED  BY <1>0, <2>1 DEF TypeOK
<1>6. ASSUME NEW p \in Proc, Reserve(p) \/ Nudged(p) \/ Poll(p) \/ PumpStops(p)
      PROVE  IdleIsUnowned' /\ FreshIsClaimable'
  BY <1>0, <1>6 DEF Reserve, Nudged, Poll, PumpStops, rows
<1>7. ASSUME NEW s \in Slots, Dispatch(s)
      PROVE  IdleIsUnowned' /\ FreshIsClaimable'
  BY <1>0, <1>7 DEF Dispatch, rows
<1>8. ASSUME NEW p \in Proc, NEW used \in SUBSET SlotsOf(p), NEW got \in [used -> Inst],
             Claim(p, got)
      PROVE  IdleIsUnowned' /\ FreshIsClaimable'
  <2>. DEFINE taken == {got[s] : s \in used}
  <2>1. /\ \A i \in taken : state[i] = "ready"
        /\ \A i \in Inst : i \notin taken => owner'[i] = owner[i]
        /\ state' = state /\ fresh' = [q \in Proc |-> fresh[q] \ taken]
    BY <1>8 DEF Claim, Claimable
  <2>. HIDE DEF taken
  <2>. QED  BY <2>1 DEF IdleIsUnowned, FreshIsClaimable, TypeOK
<1>9. ASSUME NEW s \in Slots,
             DropMarker(s) \/ DropMarkerLate(s) \/ SignalWork(s) \/ PersistFails(s)
      PROVE  IdleIsUnowned' /\ FreshIsClaimable'
  BY <1>0, <1>9 DEF DropMarker, DropMarkerLate, SignalWork, PersistFails, rows
<1>10. ASSUME NEW s \in Slots, NEW st \in {"ready", "parked", "done"}, NEW new \in SUBSET Inst,
              Persist(s, st, new)
       PROVE  IdleIsUnowned' /\ FreshIsClaimable'
  <2>1. /\ Release(s, st, new) /\ new \in SUBSET (Inst \ {job[s]})
        /\ \A j \in new : state[j] # "ready"
    BY <1>10 DEF Persist
  <2>. QED  BY <2>1, ReleaseFresh
<1>11. ASSUME NEW s \in Slots, NEW new \in SUBSET Inst, ParkInTransaction(s, new)
       PROVE  IdleIsUnowned' /\ FreshIsClaimable'
  <2>1. /\ Release(s, "parked", new) /\ new \in SUBSET (Inst \ {job[s]})
        /\ \A j \in new : state[j] # "ready"
    BY <1>11 DEF ParkInTransaction, NextInserted
  <2>. QED  BY <2>1, ReleaseFresh
<1>12. CASE Tick  BY <1>0, <1>12 DEF Tick
<1>13. ASSUME NEW p \in Proc, Pump(p)
       PROVE  IdleIsUnowned' /\ FreshIsClaimable'
  BY <1>5, <1>6, <1>7, <1>8, <1>13 DEF Pump, SlotsOf
<1>14. ASSUME NEW s \in Slots, Advance(s)
       PROVE  IdleIsUnowned' /\ FreshIsClaimable'
  BY <1>9, <1>10, <1>11, <1>14 DEF Advance
<1>. QED
  BY <1>1, <1>2, <1>3, <1>4, <1>5, <1>12, <1>13, <1>14 DEF Next

\* The steps of a slot: all others stay as they are, the slot itself was not reserved,
\* and if it is done with a write it is still to signal that or has just done so.
SlotStep(s) ==
    /\ UNCHANGED pump /\ \A t \in Slots : t # s => phase'[t] = phase[t]
    /\ phase[s] # "reserved"
    /\ \A p \in Proc : wake[p] => wake'[p]
    /\ \/ phase'[s] \in {"parked", "saved"}
       \/ wake'[Host[s]]
       \/ phase[s] \notin {"parked", "saved"} /\ fresh' = fresh
    /\ \A q \in Proc : q # Host[s] => fresh'[q] \subseteq fresh[q]

LEMMA AdvanceIsSlotStep ==
    ASSUME TypeOK, NEW s \in Slots, Advance(s)
    PROVE  SlotStep(s)
<1> USE PumpConstants DEF TypeOK, SlotStep
<1>1. CASE DropMarker(s)  BY <1>1 DEF DropMarker
<1>2. CASE DropMarkerLate(s)  BY <1>2 DEF DropMarkerLate
<1>3. CASE SignalWork(s)  BY <1>3 DEF SignalWork, FreeSlots
<1>4. CASE PersistFails(s)  BY <1>4 DEF PersistFails, FreeSlots
<1>5. CASE \E st \in {"ready", "parked", "done"}, new \in SUBSET Inst : Persist(s, st, new)
  BY <1>5 DEF Persist, Release
<1>6. CASE \E new \in SUBSET Inst : ParkInTransaction(s, new)
  BY <1>6 DEF ParkInTransaction, Release
<1>. QED  BY <1>1, <1>2, <1>3, <1>4, <1>5, <1>6 DEF Advance

\* A step of a slot keeps the pumps' knowledge.
LEMMA SlotStepHeard ==
    ASSUME TypeOK, ClaimHasSlot, Heard, NEW s \in Slots, SlotStep(s)
    PROVE  ClaimHasSlot' /\ Heard'
<1>1. ClaimHasSlot'  BY DEF SlotStep, ClaimHasSlot, SlotsOf
<1>2. ASSUME NEW p \in Proc, pump'[p] = "wait"
      PROVE  \/ wake'[p] \/ fresh'[p] = {}
             \/ \E t \in SlotsOf(p) : phase'[t] \in {"parked", "saved"}
  <2>1. pump[p] = "wait"  BY <1>2 DEF SlotStep
  <2>2. CASE wake[p]  BY <2>2 DEF SlotStep
  <2>3. CASE fresh[p] = {}  BY <2>3 DEF SlotStep, SlotsOf
  <2>4. CASE \E t \in SlotsOf(p) : phase[t] \in {"parked", "saved"}
    BY <2>4 DEF SlotStep, SlotsOf
  <2>. QED  BY <2>1, <2>2, <2>3, <2>4 DEF Heard
<1>. QED  BY <1>1, <1>2 DEF Heard, SlotsOf

\* A step that concerns the pump of p only, or no pump, keeps what the other pumps know.
OthersHear(p) ==
    /\ \A q \in Proc : q # p => pump'[q] = pump[q] /\ wake'[q] = wake[q]
                                 /\ fresh'[q] \subseteq fresh[q]
    /\ \A s \in Slots : Host[s] # p => phase'[s] = phase[s]

LEMMA OthersHeard ==
    ASSUME TypeOK, ClaimHasSlot, Heard, NEW p \in Proc, OthersHear(p),
           pump'[p] = "claim" => \E s \in SlotsOf(p) : phase'[s] = "reserved",
           pump'[p] = "wait" => \/ wake'[p] \/ fresh'[p] = {}
                                \/ \E s \in SlotsOf(p) : phase'[s] \in {"parked", "saved"}
    PROVE  ClaimHasSlot' /\ Heard'
<1>1. \A q \in Proc : \A s \in SlotsOf(q) : q # p => phase'[s] = phase[s]
  BY DEF OthersHear, SlotsOf
<1>2. ASSUME NEW q \in Proc, pump'[q] = "claim"
      PROVE  \E s \in SlotsOf(q) : phase'[s] = "reserved"
  BY <1>1, <1>2 DEF OthersHear, ClaimHasSlot
<1>3. ASSUME NEW q \in Proc, pump'[q] = "wait"
      PROVE  \/ wake'[q] \/ fresh'[q] = {}
             \/ \E s \in SlotsOf(q) : phase'[s] \in {"parked", "saved"}
  <2>1. CASE q = p  BY <1>3, <2>1
  <2>2. CASE q # p
    <3>1. /\ pump[q] = "wait" /\ wake'[q] = wake[q] /\ fresh'[q] \subseteq fresh[q]
          /\ \A s \in SlotsOf(q) : phase'[s] = phase[s]
      BY <1>1, <1>3, <2>2 DEF OthersHear
    <3>. QED  BY <3>1 DEF Heard
  <2>. QED  BY <2>1, <2>2
<1>4. \A q \in Proc : SlotsOf(q)' = SlotsOf(q)  BY DEF SlotsOf
<1>. QED  BY <1>2, <1>3, <1>4 DEF ClaimHasSlot, Heard

\* A pump goes to wait only after a claim that found nothing or failed.
LEMMA ClaimHeard ==
    ASSUME TypeOK, FreshIsClaimable, ClaimHasSlot, Heard, NEW p \in Proc,
           NEW used \in SUBSET SlotsOf(p), NEW got \in [used -> Inst], Claim(p, got)
    PROVE  ClaimHasSlot' /\ Heard'
<1>1. OthersHear(p)  BY DEF Claim, OthersHear, SlotsOf, TypeOK
<1>2. pump'[p] # "claim"  BY DEF Claim, TypeOK
<1>3. ASSUME pump'[p] = "wait"
      PROVE  fresh'[p] = {}
  <2>1. used = {}  BY <1>3 DEF Claim, TypeOK
  <2>2. \E s \in SlotsOf(p) : phase[s] = "reserved"  BY DEF ClaimHasSlot, Claim
  <2>3. \A i \in Inst : ~ Claimable(i)  BY <2>1, <2>2 DEF Claim
  <2>4. fresh[p] = {}  BY <2>3 DEF FreshIsClaimable, Claimable, TypeOK
  <2>. QED  BY <2>4 DEF Claim
<1>. QED  BY <1>1, <1>2, <1>3, OthersHeard

\* Every step keeps what the pumps know.
LEMMA NextNudge == TypeOK /\ NudgeInv /\ [Next]_vars => NudgeInv'
<1>. SUFFICES ASSUME TypeOK, NudgeInv, [Next]_vars  PROVE ClaimHasSlot' /\ Heard'
  BY NextFresh DEF NudgeInv
<1>0. FreshIsClaimable /\ ClaimHasSlot /\ Heard  BY DEF NudgeInv
<1>1. CASE UNCHANGED <<pump, wake, phase, fresh>>
  BY <1>0, <1>1 DEF ClaimHasSlot, Heard, SlotsOf
<1>2. CASE (\E i \in Inst : Unpark(i)) \/ Tick \/ UNCHANGED vars
           \/ \E p \in Proc : Shutdown(p) \/ RenewWorkerLeases(p)
  BY <1>1, <1>2 DEF Unpark, Tick, Shutdown, RenewWorkerLeases, vars
<1>3. ASSUME NEW p \in Proc, NEW i \in Inst, StartInstance(p, i)
      PROVE  ClaimHasSlot' /\ Heard'
  <2>1. OthersHear(p) /\ wake'[p] /\ pump' = pump /\ phase' = phase
    BY <1>3 DEF StartInstance, OthersHear, TypeOK
  <2>2. pump[p] = "claim" => \E s \in SlotsOf(p) : phase'[s] = "reserved"
    BY <1>0, <2>1 DEF ClaimHasSlot
  <2>. QED  BY <1>0, <2>1, <2>2, OthersHeard
<1>4. ASSUME NEW p \in Proc, Start(p) \/ PumpStops(p) \/ Nudged(p) \/ Poll(p)
      PROVE  ClaimHasSlot' /\ Heard'
  <2>1. OthersHear(p) /\ pump'[p] \notin {"claim", "wait"}
    BY <1>4 DEF Start, PumpStops, Nudged, Poll, OthersHear, TypeOK
  <2>. QED  BY <1>0, <2>1, OthersHeard
<1>5. ASSUME NEW p \in Proc, Crash(p) \/ Exit(p)
      PROVE  ClaimHasSlot' /\ Heard'
  <2>1. OthersHear(p) /\ pump'[p] \notin {"claim", "wait"}
    BY <1>5 DEF Crash, Exit, FreeSlots, SlotsOf, OthersHear, TypeOK
  <2>. QED  BY <1>0, <2>1, OthersHeard
<1>6. ASSUME NEW p \in Proc, ClaimFails(p)
      PROVE  ClaimHasSlot' /\ Heard'
  <2>1. OthersHear(p) /\ pump'[p] # "claim" /\ fresh'[p] = {}
    BY <1>6 DEF ClaimFails, FreeSlots, SlotsOf, OthersHear, TypeOK
  <2>. QED  BY <1>0, <2>1, OthersHeard
<1>7. ASSUME NEW p \in Proc, Reserve(p)
      PROVE  ClaimHasSlot' /\ Heard'
  <2>1. OthersHear(p) /\ pump'[p] # "wait" /\ \E s \in SlotsOf(p) : phase'[s] = "reserved"
    BY <1>7 DEF Reserve, SlotsOf, OthersHear, TypeOK
  <2>. QED  BY <1>0, <2>1, OthersHeard
<1>8. ASSUME NEW p \in Proc, NEW s \in SlotsOf(p), Dispatch(s)
      PROVE  ClaimHasSlot' /\ Heard'
  <2>1. s \in Slots /\ Host[s] = p  BY DEF SlotsOf
  <2>2. /\ \E ph : phase' = [phase EXCEPT ![s] = ph]
        /\ \E x \in {"overwhelmed", "dispatch", "reserve"} : pump' = [pump EXCEPT ![p] = x]
        /\ UNCHANGED <<wake, fresh>>
    BY <1>8, <2>1 DEF Dispatch
  <2>3. OthersHear(p) /\ pump'[p] \notin {"claim", "wait"}
    BY <2>1, <2>2 DEF OthersHear, TypeOK
  <2>. QED  BY <1>0, <2>3, OthersHeard
<1>9. ASSUME NEW p \in Proc, Pump(p)
      PROVE  ClaimHasSlot' /\ Heard'
  BY <1>0, <1>4, <1>5, <1>7, <1>8, <1>9, ClaimHeard DEF Pump
<1>10. CASE \E s \in Slots : Advance(s)
  BY <1>0, <1>10, AdvanceIsSlotStep, SlotStepHeard
<1>. QED
  BY <1>2, <1>3, <1>4, <1>5, <1>6, <1>9, <1>10 DEF Next

\* A pump never sleeps out the poll interval over work of its own process that it missed:
\* the nudge of startInstance and of every write cannot fall between the empty claim and
\* the wait, however slots and pumps interleave.
THEOREM NudgesAreHeard == Spec => []NoMissedNudge
<1>1. Init => NudgeInv
  BY DEF Init, NudgeInv, IdleIsUnowned, FreshIsClaimable, ClaimHasSlot, Heard
<1>2. NudgeInv => NoMissedNudge  BY DEF NudgeInv, Heard, NoMissedNudge
<1>. QED  BY <1>1, <1>2, TypeCorrect, NextNudge, PTL DEF Spec

------------------------------------------------------------------------------
(* The leases of a process. *)

\* No other process has the worker id of p.
OwnName(p) == \A q \in Proc : WorkerID[q] = WorkerID[p] => q = p

\* A slot of p accounts for row i: it was claimed for it and has not written it.
Accounts(s, i) == job[s] = i /\ phase[s] \in {"claimed", "rejected", "work", "save"}

\* Every lease of a process that was not killed is accounted for.
LeasesAreHeld ==
    "persist" \notin Faults =>
        \A p \in Proc : OwnName(p) /\ pump[p] # "dead" =>
            \A i \in Inst : owner[i] = WorkerID[p] => \E s \in SlotsOf(p) : Accounts(s, i)

\* A step that leases no row and drops no account.
KeepsAccounts ==
    /\ \A i \in Inst : owner'[i] = owner[i] \/ owner'[i] = None
    /\ \A p \in Proc : pump[p] = "dead" => pump'[p] = "dead"
    /\ \A s \in Slots, i \in Inst :
           Accounts(s, i) /\ owner'[i] # None /\ pump'[Host[s]] # "dead" => Accounts(s, i)'

LEMMA AccountsKept ==
    ASSUME LeasesAreHeld, KeepsAccounts
    PROVE  LeasesAreHeld'
<1>. SUFFICES ASSUME "persist" \notin Faults, NEW p \in Proc, OwnName(p), pump'[p] # "dead",
                     NEW i \in Inst, owner'[i] = WorkerID[p]
              PROVE  \E s \in SlotsOf(p) : Accounts(s, i)'
  BY DEF LeasesAreHeld, OwnName, SlotsOf
<1>1. WorkerID[p] # None /\ owner[i] = WorkerID[p] /\ pump[p] # "dead"
  BY PumpConstants DEF KeepsAccounts
<1>2. PICK s \in SlotsOf(p) : Accounts(s, i)  BY <1>1 DEF LeasesAreHeld
<1>. QED  BY <1>1, <1>2 DEF KeepsAccounts, SlotsOf

\* A claim accounts for each row it leases with a slot that was reserved.
LEMMA ClaimAccounts ==
    ASSUME TypeOK, LeasesAreHeld, NEW p \in Proc, NEW used \in SUBSET SlotsOf(p),
           NEW got \in [used -> Inst], Claim(p, got)
    PROVE  LeasesAreHeld'
<1>. DEFINE taken == {got[s] : s \in used}
<1>. SUFFICES ASSUME "persist" \notin Faults, NEW q \in Proc, OwnName(q), pump'[q] # "dead",
                     NEW i \in Inst, owner'[i] = WorkerID[q]
              PROVE  \E s \in SlotsOf(q) : Accounts(s, i)'
  BY DEF LeasesAreHeld, OwnName, SlotsOf
<1>1. \A s \in used : /\ s \in Slots /\ phase[s] = "reserved" /\ phase'[s] = "claimed"
                       /\ job'[s] = got[s]
  BY DEF Claim, SlotsOf
<1>2. \A s \in Slots : s \notin used /\ phase[s] # "reserved" =>
          phase'[s] = phase[s] /\ job'[s] = job[s]
  BY DEF Claim
<1>3. CASE i \in taken
  <2>1. WorkerID[p] = WorkerID[q]  BY <1>3 DEF Claim
  <2>2. q = p  BY <2>1 DEF OwnName
  <2>3. PICK s \in used : i = got[s]  BY <1>3
  <2>4. Accounts(s, i)'  BY <1>1, <2>3 DEF Accounts
  <2>. QED  BY <2>2, <2>4
<1>4. CASE i \notin taken
  <2>1. owner[i] = WorkerID[q]  BY <1>4 DEF Claim
  <2>2. pump[q] # "dead"  BY DEF Claim, TypeOK
  <2>3. PICK s \in SlotsOf(q) : Accounts(s, i)  BY <2>1, <2>2 DEF LeasesAreHeld
  <2>4. s \in Slots /\ phase[s] # "reserved"  BY <2>3 DEF SlotsOf, Accounts
  <2>5. Accounts(s, i)'  BY <1>1, <1>2, <2>3, <2>4 DEF Accounts
  <2>. QED  BY <2>3, <2>5
<1>. QED  BY <1>3, <1>4

\* Every step keeps the leases accounted for.
LEMMA NextAccounts == TypeOK /\ LeasesAreHeld /\ [Next]_vars => LeasesAreHeld'
<1>. SUFFICES ASSUME TypeOK, LeasesAreHeld, [Next]_vars  PROVE LeasesAreHeld'
  OBVIOUS
<1>0. CASE "persist" \in Faults  BY <1>0 DEF LeasesAreHeld
<1>. SUFFICES ASSUME "persist" \notin Faults  PROVE LeasesAreHeld'
  BY <1>0
<1>1. CASE KeepsAccounts  BY <1>1, AccountsKept
<1>2. CASE UNCHANGED vars  BY <1>1, <1>2 DEF vars, rows, claim, KeepsAccounts, Accounts
<1>3. CASE (\E i \in Inst : Unpark(i)) \/ Tick
           \/ \E p \in Proc : \/ Shutdown(p) \/ RenewWorkerLeases(p)
                              \/ \E i \in Inst : StartInstance(p, i)
  BY <1>1, <1>3 DEF Unpark, Tick, Shutdown, RenewWorkerLeases, StartInstance, rows, claim,
     KeepsAccounts, Accounts
<1>4. ASSUME NEW p \in Proc,
             Start(p) \/ PumpStops(p) \/ Nudged(p) \/ Poll(p) \/ Exit(p)
      PROVE  KeepsAccounts
  <2>1. /\ UNCHANGED <<rows, phase, job>> /\ pump[p] # "dead"
        /\ \E x : pump' = [pump EXCEPT ![p] = x]
    BY <1>4 DEF Start, PumpStops, Nudged, Poll, Exit, claim
  <2>. QED  BY <2>1 DEF rows, KeepsAccounts, Accounts, TypeOK
<1>5. ASSUME NEW p \in Proc, Reserve(p)
      PROVE  KeepsAccounts
  BY <1>5 DEF Reserve, SlotsOf, rows, claim, KeepsAccounts, Accounts, TypeOK
<1>6. ASSUME NEW p \in Proc, Crash(p)
      PROVE  KeepsAccounts
  BY <1>6 DEF Crash, FreeSlots, SlotsOf, rows, KeepsAccounts, Accounts, TypeOK
<1>7. ASSUME NEW p \in Proc, ClaimFails(p)
      PROVE  KeepsAccounts
  BY <1>7 DEF ClaimFails, FreeSlots, SlotsOf, rows, KeepsAccounts, Accounts, TypeOK
<1>8. ASSUME NEW s \in Slots, Dispatch(s)
      PROVE  KeepsAccounts
  <2>1. /\ \E ph \in {"rejected", "work"} : phase' = [phase EXCEPT ![s] = ph]
        /\ \E x : pump' = [pump EXCEPT ![Host[s]] = x]
        /\ pump[Host[s]] = "dispatch" /\ UNCHANGED <<rows, job>>
    BY <1>8 DEF Dispatch, claim
  <2>. QED  BY <2>1, PumpConstants DEF rows, KeepsAccounts, Accounts, TypeOK
<1>9. ASSUME NEW s \in Slots, DropMarker(s) \/ DropMarkerLate(s) \/ SignalWork(s)
      PROVE  KeepsAccounts
  BY <1>9 DEF DropMarker, DropMarkerLate, SignalWork, FreeSlots, rows, claim,
     KeepsAccounts, Accounts, TypeOK
<1>10. ASSUME NEW s \in Slots, NEW st, NEW new, Persist(s, st, new)
       PROVE  KeepsAccounts
  BY <1>10 DEF Persist, Release, KeepsAccounts, Accounts, TypeOK
<1>11. ASSUME NEW s \in Slots, NEW new, ParkInTransaction(s, new)
       PROVE  KeepsAccounts
  BY <1>11 DEF ParkInTransaction, Release, KeepsAccounts, Accounts, TypeOK
<1>12. ASSUME NEW p \in Proc, Pump(p)
       PROVE  LeasesAreHeld'
  BY <1>1, <1>4, <1>5, <1>8, <1>12, ClaimAccounts DEF Pump, SlotsOf
<1>13. ASSUME NEW s \in Slots, Advance(s)
       PROVE  LeasesAreHeld'
  BY <1>1, <1>9, <1>10, <1>11, <1>13 DEF Advance, PersistFails
<1>. QED
  BY <1>1, <1>2, <1>3, <1>4, <1>6, <1>7, <1>12, <1>13 DEF Next

\* After a clean shutdown no row is left under the worker id: the drain waits for every
\* advance, and every advance that ends writes its row.
THEOREM CleanExitsReleaseLeases == Spec => []CleanExitReleasesLeases
<1>1. Init => LeasesAreHeld
  BY PumpConstants DEF Init, LeasesAreHeld
<1>2. LeasesAreHeld => CleanExitReleasesLeases
  BY DEF LeasesAreHeld, OwnName, Accounts, CleanExitReleasesLeases
<1>. QED  BY <1>1, <1>2, TypeCorrect, NextAccounts, PTL DEF Spec

------------------------------------------------------------------------------
(* The overwhelmed pump. *)

\* A marker belongs to a goroutine of the process.
MarkersAreHeld ==
    \A p \in Proc : \A i \in inflight[p] :
        \E s \in SlotsOf(p) : job[s] = i /\ phase[s] \in {"work", "parked"}

\* A row whose snapshot is current has an owner: whoever takes the owner away writes it.
CurrentIsOwned == \A s \in Slots : Busy(s) /\ ~stale[s] => owner[job[s]] # None

\* Claimed rows are dispatched before the next claim.
ClaimedInDispatch ==
    \A s \in Slots : phase[s] = "claimed" => pump[Host[s]] \in {"dispatch", "overwhelmed", "exited"}

\* A batch has a row once.
ClaimedApart ==
    \A s, t \in Slots :
        phase[s] = "claimed" /\ phase[t] = "claimed" /\ Host[s] = Host[t] /\ job[s] = job[t] => s = t

\* A row is claimed by the process that works on it only after its lease ran out or was
\* released under the work.
ClashIsGenuine ==
    \A s, t \in Slots :
        phase[s] = "claimed" /\ phase[t] = "work" /\ Host[s] = Host[t] /\ job[s] = job[t]
            => takeover[s] \/ stale[t]

OverwhelmInv ==
    MarkersAreHeld /\ CurrentIsOwned /\ ClaimedInDispatch /\ ClaimedApart /\ ClashIsGenuine

\* A step that neither claims nor dispatches.
Ordinary ==
    /\ \A p \in Proc : inflight'[p] \subseteq inflight[p]
    /\ \A s \in Slots :
           phase[s] \in {"work", "parked"} /\ job[s] \in inflight'[Host[s]] =>
               phase'[s] \in {"work", "parked"} /\ job'[s] = job[s]
    /\ \A s \in Slots : Busy(s)' /\ ~stale'[s] =>
           Busy(s) /\ ~stale[s] /\ job'[s] = job[s] /\ owner'[job[s]] = owner[job[s]]
    /\ \A s \in Slots : phase'[s] = "claimed" =>
           /\ phase[s] = "claimed" /\ job'[s] = job[s] /\ takeover'[s] = takeover[s]
           /\ pump'[Host[s]] \in {"dispatch", "overwhelmed", "exited"}
    /\ \A s \in Slots : phase'[s] = "work" =>
           phase[s] = "work" /\ job'[s] = job[s] /\ (stale[s] => stale'[s])
    /\ \A s \in Slots : phase'[s] = "rejected" => phase[s] = "rejected"

LEMMA OrdinaryStep ==
    ASSUME OverwhelmInv, Ordinary
    PROVE  OverwhelmInv'
<1>1. MarkersAreHeld'
  <2>1. ASSUME NEW p \in Proc, NEW i \in inflight'[p]
        PROVE  \E s \in SlotsOf(p) : job'[s] = i /\ phase'[s] \in {"work", "parked"}
    <3>1. i \in inflight[p]  BY <2>1 DEF Ordinary
    <3>2. PICK s \in SlotsOf(p) : job[s] = i /\ phase[s] \in {"work", "parked"}
      BY <3>1 DEF OverwhelmInv, MarkersAreHeld
    <3>. QED  BY <2>1, <3>2 DEF Ordinary, SlotsOf
  <2>. QED  BY <2>1 DEF MarkersAreHeld, SlotsOf
<1>2. CurrentIsOwned'  BY DEF OverwhelmInv, CurrentIsOwned, Ordinary
<1>3. ClaimedInDispatch'  BY DEF ClaimedInDispatch, Ordinary
<1>4. ClaimedApart'  BY DEF OverwhelmInv, ClaimedApart, Ordinary
<1>5. ClashIsGenuine'  BY DEF OverwhelmInv, ClashIsGenuine, Ordinary
<1>. QED  BY <1>1, <1>2, <1>3, <1>4, <1>5 DEF OverwhelmInv

\* The write of a row outdates the snapshots of the others who work on it.
LEMMA ReleaseOrdinary ==
    ASSUME TypeOK, ClaimedInDispatch, NEW s \in Slots, NEW st, NEW new, Release(s, st, new),
           NEW ph \in {"saved", "parked"}, phase' = [phase EXCEPT ![s] = ph],
           ph = "parked" \/ phase[s] = "save",
           UNCHANGED <<pump, inflight, job, takeover>>
    PROVE  Ordinary
<1>1. ASSUME NEW t \in Slots, Busy(t)', ~stale'[t]
      PROVE  Busy(t) /\ ~stale[t] /\ owner'[job[t]] = owner[job[t]]
  <2>1. t # s /\ Busy(t)  BY <1>1 DEF Busy, Pumping, TypeOK
  <2>2. ~stale[t] /\ job[t] # job[s]  BY <1>1, <2>1 DEF Release
  <2>. QED  BY <2>1, <2>2 DEF Release, TypeOK
<1>2. \A t \in Slots : t # s => phase'[t] = phase[t]  BY DEF TypeOK
<1>3. phase'[s] = ph  BY DEF TypeOK
<1>4. \A t \in Slots : stale[t] => stale'[t]  BY DEF Release
<1>. QED  BY <1>1, <1>2, <1>3, <1>4 DEF Ordinary, ClaimedInDispatch

\* All steps but claims and dispatches are ordinary.
LEMMA OrdinarySteps ==
    ASSUME TypeOK, ClaimedInDispatch,
           \/ UNCHANGED vars \/ Tick
           \/ \E i \in Inst : Unpark(i) \/ \E p \in Proc : StartInstance(p, i)
           \/ \E p \in Proc : \/ Start(p) \/ Shutdown(p) \/ Crash(p) \/ ClaimFails(p)
                              \/ RenewWorkerLeases(p) \/ Reserve(p) \/ Nudged(p) \/ Poll(p)
                              \/ PumpStops(p) \/ Exit(p)
           \/ \E s \in Slots : Advance(s)
    PROVE  Ordinary
<1> USE PumpConstants DEF TypeOK, ClaimedInDispatch
<1>1. CASE UNCHANGED <<owner, pump, inflight, phase, claim>>
  BY <1>1 DEF claim, Ordinary, Busy, Pumping
<1>2. CASE \/ UNCHANGED vars \/ Tick
           \/ \E i \in Inst : Unpark(i) \/ \E p \in Proc : StartInstance(p, i)
           \/ \E p \in Proc : Shutdown(p) \/ RenewWorkerLeases(p)
  BY <1>1, <1>2 DEF vars, rows, Tick, Unpark, StartInstance, Shutdown, RenewWorkerLeases
<1>3. ASSUME NEW p \in Proc, Start(p) \/ Nudged(p) \/ Poll(p) \/ PumpStops(p)
      PROVE  Ordinary
  <2>1. /\ UNCHANGED <<owner, inflight, phase, claim>>
        /\ pump[p] \in {"down", "wait", "reserve"}
        /\ \E x \in {"reserve", "stopped"} : pump' = [pump EXCEPT ![p] = x]
    BY <1>3 DEF Start, Nudged, Poll, PumpStops, rows
  <2>. QED  BY <2>1 DEF claim, Ordinary, Busy, Pumping
<1>4. ASSUME NEW p \in Proc, Exit(p)
      PROVE  Ordinary
  BY <1>4 DEF Exit, rows, claim, Ordinary, Busy, Pumping
<1>5. ASSUME NEW p \in Proc, Reserve(p)
      PROVE  Ordinary
  BY <1>5 DEF Reserve, SlotsOf, rows, claim, Ordinary, Busy, Pumping
<1>6. ASSUME NEW p \in Proc, Crash(p)
      PROVE  Ordinary
  BY <1>6 DEF Crash, FreeSlots, SlotsOf, rows, Ordinary, Busy, Pumping
<1>7. ASSUME NEW p \in Proc, ClaimFails(p)
      PROVE  Ordinary
  BY <1>7 DEF ClaimFails, FreeSlots, SlotsOf, rows, Ordinary, Busy, Pumping
<1>8. ASSUME NEW s \in Slots, DropMarker(s) \/ DropMarkerLate(s)
      PROVE  Ordinary
  BY <1>8 DEF DropMarker, DropMarkerLate, rows, claim, Ordinary, Busy, Pumping
<1>9. ASSUME NEW s \in Slots, SignalWork(s) \/ PersistFails(s)
      PROVE  Ordinary
  BY <1>9 DEF SignalWork, PersistFails, FreeSlots, rows, Ordinary, Busy, Pumping
<1>10. ASSUME NEW s \in Slots, NEW st, NEW new, Persist(s, st, new)
       PROVE  Ordinary
  BY <1>10, ReleaseOrdinary DEF Persist
<1>11. ASSUME NEW s \in Slots, NEW new, ParkInTransaction(s, new)
       PROVE  Ordinary
  BY <1>11, ReleaseOrdinary DEF ParkInTransaction
<1>12. ASSUME NEW s \in Slots, Advance(s)
       PROVE  Ordinary
  BY <1>8, <1>9, <1>10, <1>11, <1>12 DEF Advance
<1>. QED  BY <1>2, <1>3, <1>4, <1>5, <1>6, <1>7, <1>12

\* A claim takes a row that the process still works on only if the lease ran out or the
\* snapshot of that work is outdated.
LEMMA ClaimGenuine ==
    ASSUME TypeOK, OverwhelmInv, NEW p \in Proc, NEW used \in SUBSET SlotsOf(p),
           NEW got \in [used -> Inst], Claim(p, got)
    PROVE  OverwhelmInv' /\ \A s \in Slots : phase'[s] # "rejected" \/ phase[s] = "rejected"
<1>. DEFINE taken == {got[s] : s \in used}
<1>1. \A s \in used : /\ s \in Slots /\ Host[s] = p
                       /\ phase[s] = "reserved" /\ phase'[s] = "claimed"
                       /\ job'[s] = got[s] /\ (takeover'[s] <=> owner[got[s]] # None)
  BY DEF Claim, SlotsOf
<1>2. \A s \in Slots : s \notin used =>
          /\ phase'[s] = phase[s] \/ (phase[s] = "reserved" /\ phase'[s] = "free")
          /\ job'[s] = job[s] /\ takeover'[s] = takeover[s] /\ stale'[s] = stale[s]
  BY DEF Claim
<1>3. /\ \A i \in Inst : owner'[i] = IF i \in taken THEN WorkerID[p] ELSE owner[i]
      /\ WorkerID[p] # None /\ inflight' = inflight
      /\ pump[p] = "claim" /\ pump'[p] \in {"wait", "dispatch"}
      /\ used # {} => pump'[p] = "dispatch"
      /\ \A q \in Proc : q # p => pump'[q] = pump[q]
  <2>1. /\ inflight' = inflight /\ pump[p] = "claim"
        /\ pump' = [pump EXCEPT ![p] = IF used = {} THEN "wait" ELSE "dispatch"]
        /\ \A i \in Inst : owner'[i] = IF i \in taken THEN WorkerID[p] ELSE owner[i]
    BY DEF Claim
  <2>2. WorkerID[p] # None  BY PumpConstants
  <2>. QED  BY <2>1, <2>2 DEF TypeOK
<1>. HIDE DEF taken
<1>4. MarkersAreHeld'
  <2>1. \A s \in Slots : phase[s] \in {"work", "parked"} =>
            phase'[s] \in {"work", "parked"} /\ job'[s] = job[s]
    BY <1>1, <1>2
  <2>. QED  BY <1>3, <2>1 DEF OverwhelmInv, MarkersAreHeld, SlotsOf
<1>5. CurrentIsOwned'
  <2>1. ASSUME NEW s \in Slots, Busy(s)', ~stale'[s]
        PROVE  owner'[job'[s]] # None
    <3>1. CASE s \in used
      <4>1. got[s] \in taken /\ got[s] \in Inst  BY <3>1 DEF taken
      <4>. QED  BY <1>1, <1>3, <3>1, <4>1
    <3>2. CASE s \notin used
      <4>1. Pumping(Host[s])' => Pumping(Host[s])
        BY <1>3, PumpConstants DEF Pumping
      <4>2. Busy(s) /\ ~stale[s] /\ job'[s] = job[s]
        BY <1>2, <2>1, <3>2, <4>1 DEF Busy
      <4>3. owner[job[s]] # None /\ job[s] \in Inst
        BY <4>2 DEF OverwhelmInv, CurrentIsOwned, TypeOK
      <4>. QED  BY <1>3, <4>2, <4>3
    <3>. QED  BY <3>1, <3>2
  <2>. QED  BY <2>1 DEF CurrentIsOwned
<1>6. \A s \in Slots : Host[s] = p => phase[s] # "claimed"
  BY <1>3 DEF OverwhelmInv, ClaimedInDispatch
<1>7. ClaimedInDispatch'
  BY <1>1, <1>2, <1>3, <1>6, PumpConstants DEF OverwhelmInv, ClaimedInDispatch
<1>8. ClaimedApart'
  <2>1. \A s, t \in used : got[s] = got[t] => s = t  BY DEF Claim
  <2>. QED  BY <1>1, <1>2, <1>6, <2>1 DEF OverwhelmInv, ClaimedApart
<1>9. ClashIsGenuine'
  <2>1. ASSUME NEW s \in Slots, NEW t \in Slots, phase'[s] = "claimed", phase'[t] = "work",
               Host[s] = Host[t], job'[s] = job'[t]
        PROVE  takeover'[s] \/ stale'[t]
    <3>1. t \notin used /\ phase[t] = "work" /\ job'[t] = job[t] /\ stale'[t] = stale[t]
      BY <1>1, <1>2, <2>1
    <3>2. CASE s \in used
      <4>1. stale[t] \/ owner[job[t]] # None
        BY <3>1 DEF OverwhelmInv, CurrentIsOwned, Busy
      <4>. QED  BY <1>1, <2>1, <3>1, <3>2, <4>1
    <3>3. CASE s \notin used
      BY <1>2, <2>1, <3>1, <3>3 DEF OverwhelmInv, ClashIsGenuine
    <3>. QED  BY <3>2, <3>3
  <2>. QED  BY <2>1 DEF ClashIsGenuine
<1>. QED  BY <1>1, <1>2, <1>4, <1>5, <1>7, <1>8, <1>9 DEF OverwhelmInv

\* The guard of Dispatch meets only genuine clashes.
Clash(s) ==
    \/ takeover[s]
    \/ \E t \in SlotsOf(Host[s]) :
          job[t] = job[s] /\ (phase[t] = "parked" \/ (phase[t] = "work" /\ stale[t]))

LEMMA DispatchGenuine ==
    ASSUME TypeOK, OverwhelmInv, NEW s \in Slots, Dispatch(s)
    PROVE  /\ OverwhelmInv'
           /\ \A t \in Slots : phase'[t] = "rejected" /\ phase[t] = "claimed" => Clash(t)
<1>. DEFINE p == Host[s]
<1>0. /\ phase[s] = "claimed" /\ pump[p] = "dispatch" /\ p \in Proc /\ job[s] \in Inst
      /\ UNCHANGED <<rows, claim>>
      /\ \A q \in Proc : q # p => pump'[q] = pump[q] /\ inflight'[q] = inflight[q]
  BY PumpConstants DEF Dispatch, TypeOK
<1>1. \A t \in Slots : t # s => phase'[t] = phase[t]  BY DEF Dispatch, TypeOK
<1>2. \/ phase'[s] = "rejected" /\ job[s] \in inflight[p] /\ inflight' = inflight
      \/ phase'[s] = "work" /\ inflight'[p] = inflight[p] \cup {job[s]}
  BY <1>0 DEF Dispatch, TypeOK
<1>3. /\ pump'[p] \in {"overwhelmed", "dispatch", "reserve"}
      /\ pump'[p] = "reserve" =>
             \A t \in Slots : Host[t] = p /\ t # s => phase[t] # "claimed"
  BY <1>0 DEF Dispatch, SlotsOf, TypeOK
<1>4. MarkersAreHeld'
  <2>1. ASSUME NEW q \in Proc, NEW i \in inflight'[q]
        PROVE  \E t \in SlotsOf(q) : job[t] = i /\ phase'[t] \in {"work", "parked"}
    <3>1. CASE i \in inflight[q]
      <4>1. PICK t \in SlotsOf(q) : job[t] = i /\ phase[t] \in {"work", "parked"}
        BY <3>1 DEF OverwhelmInv, MarkersAreHeld
      <4>. QED  BY <1>0, <1>1, <4>1 DEF SlotsOf
    <3>2. CASE i \notin inflight[q]
      BY <1>0, <1>2, <2>1, <3>2 DEF SlotsOf
    <3>. QED  BY <3>1, <3>2
  <2>. QED  BY <1>0, <2>1 DEF MarkersAreHeld, SlotsOf, claim
<1>5. CurrentIsOwned'
  <2>1. \A t \in Slots : Busy(t)' => Busy(t)
    BY <1>0, <1>1, <1>3, PumpConstants DEF Busy, Pumping
  <2>. QED  BY <1>0, <2>1 DEF OverwhelmInv, CurrentIsOwned, rows, claim
<1>6. ClaimedInDispatch'
  BY <1>0, <1>1, <1>2, <1>3, PumpConstants DEF OverwhelmInv, ClaimedInDispatch
<1>7. ClaimedApart'
  BY <1>0, <1>1, <1>2 DEF OverwhelmInv, ClaimedApart, claim
<1>8. ClashIsGenuine'
  <2>1. ASSUME NEW u \in Slots, NEW t \in Slots, phase'[u] = "claimed", phase'[t] = "work",
               Host[u] = Host[t], job[u] = job[t]
        PROVE  takeover[u] \/ stale[t]
    <3>1. u # s /\ phase[u] = "claimed"  BY <1>1, <1>2, <2>1
    <3>2. t # s  BY <1>0, <2>1, <3>1 DEF OverwhelmInv, ClaimedApart
    <3>. QED  BY <1>1, <2>1, <3>1, <3>2 DEF OverwhelmInv, ClashIsGenuine
  <2>. QED  BY <1>0, <2>1 DEF ClashIsGenuine, claim
<1>9. ASSUME NEW t \in Slots, phase'[t] = "rejected", phase[t] = "claimed"
      PROVE  Clash(t)
  <2>1. t = s /\ job[s] \in inflight[p]  BY <1>1, <1>2, <1>9
  <2>2. PICK u \in SlotsOf(p) : job[u] = job[s] /\ phase[u] \in {"work", "parked"}
    BY <1>0, <2>1 DEF OverwhelmInv, MarkersAreHeld
  <2>3. phase[u] = "work" => takeover[s] \/ stale[u]
    BY <1>0, <2>2 DEF OverwhelmInv, ClashIsGenuine, SlotsOf
  <2>. QED  BY <2>1, <2>2, <2>3 DEF Clash
<1>. QED  BY <1>4, <1>5, <1>6, <1>7, <1>8, <1>9 DEF OverwhelmInv

\* Every step keeps the invariant, and a pump is overwhelmed only over a genuine clash.
LEMMA NextOverwhelm ==
    ASSUME TypeOK, OverwhelmInv, [Next]_vars
    PROVE  /\ OverwhelmInv'
           /\ \A s \in Slots : phase[s] = "claimed" /\ phase'[s] = "rejected" => Clash(s)
<1>0. ClaimedInDispatch  BY DEF OverwhelmInv
<1>1. CASE Ordinary  BY <1>1, OrdinaryStep DEF Ordinary
<1>2. ASSUME NEW p \in Proc, NEW used \in SUBSET SlotsOf(p), NEW got \in [used -> Inst],
             Claim(p, got)
      PROVE  /\ OverwhelmInv'
             /\ \A s \in Slots : phase[s] = "claimed" /\ phase'[s] = "rejected" => Clash(s)
  BY <1>2, ClaimGenuine
<1>3. ASSUME NEW s \in Slots, Dispatch(s)
      PROVE  /\ OverwhelmInv'
             /\ \A t \in Slots : phase[t] = "claimed" /\ phase'[t] = "rejected" => Clash(t)
  BY <1>3, DispatchGenuine
<1>4. \/ Ordinary
      \/ \E s \in Slots : Dispatch(s)
      \/ \E p \in Proc : \E used \in SUBSET SlotsOf(p) : \E got \in [used -> Inst] : Claim(p, got)
  BY <1>0, OrdinarySteps DEF Next, Pump, SlotsOf
<1>. QED  BY <1>1, <1>2, <1>3, <1>4

\* The pump stops as overwhelmed only if the row it found in flight was lost by the advance
\* that works on it, or was parked and made runnable before its marker was dropped,
\* however many slots and processes there are.
THEOREM OverwhelmsAreGenuine == Spec => OverwhelmIsGenuine
<1>1. Init => OverwhelmInv
  BY DEF Init, OverwhelmInv, MarkersAreHeld, CurrentIsOwned, ClaimedInDispatch, ClaimedApart,
     ClashIsGenuine, Busy
<1>2. TypeOK /\ OverwhelmInv /\ [Next]_vars => OverwhelmInv'  BY NextOverwhelm
<1>3. TypeOK /\ OverwhelmInv /\ [Next]_vars =>
          [\A s \in Slots :
              phase[s] = "claimed" /\ phase'[s] = "rejected" =>
                  \/ takeover[s]
                  \/ \E t \in SlotsOf(Host[s]) :
                        job[t] = job[s] /\ (phase[t] = "parked" \/ (phase[t] = "work" /\ stale[t]))]_vars
  BY NextOverwhelm DEF Clash
<1>. QED  BY <1>1, <1>2, <1>3, TypeCorrect, PTL DEF Spec, OverwhelmIsGenuine
==============================================================================
