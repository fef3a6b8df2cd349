---------------------------- MODULE RegistryProofs ----------------------------
(***************************************************************************)
(* Proofs about Registry, for all definitions, channels and bounds.        *)
(* EveryReferenceResolves holds for any number of concurrent requests:     *)
(* versions are never removed, so what a request has seen saved is still   *)
(* saved when it writes.  That a version never changes, and that a channel *)
(* fits together after a request, needs requests one at a time.            *)
(***************************************************************************)
EXTENDS Registry, SequenceTheorems, TLAPS

\* The number of versions of each name.
Size == [n \in Name |-> Len(defs[n])]

PinsOK(s, pins) == \A d \in pins : d.version \in 1 .. s[d.name]

RefsOK(s, b, version) ==
    \A r \in Refs[b] :
        IsSelf(b, version, r) \/ (IF r.version # 0 THEN r.version ELSE 1) \in 1 .. s[r.name]

RowOK(s, n, v, row) ==
    NameOf[row.body] = n /\ PinsOK(s, row.pins) /\ RefsOK(s, row.body, v)

\* Every child entry but a reference to itself has a pin.
Covers(w) ==
    \A r \in Refs[w.body] :
        \/ IsSelf(w.body, w.version, r)
        \/ \E d \in w.pins : /\ d.name = r.name /\ d.asked = r.version
                             /\ r.version # 0 => d.version = r.version

\* What a request has read and still relies on.
OpOK(s, o) ==
    /\ \A n \in Name : o.versions[n] \in 0 .. s[n]
    /\ o.pc \in {"save", "put"} => o.work.version \in 1 .. s[NameOf[o.work.body]] + 1
    /\ o.pc = "save" => Covers(o.work)
    /\ o.pc = "put" => o.work.pins = {} /\ RefsOK(s, o.work.body, o.work.version)

ChannelsOK(s) == \A ch \in Channel, n \in Name : channel[ch][n] \in 0 .. s[n]
RowsOK(s) == \A n \in Name : \A v \in 1 .. s[n] : RowOK(s, n, v, defs[n][v])
OpsOK(s) == \A c \in Client : OpOK(s, op[c])

RegistryInv == ChannelsOK(Size) /\ RowsOK(Size) /\ OpsOK(Size)

------------------------------------------------------------------------------
(* Types. *)

\* The initial request is well-typed.
LEMMA IdleType == NoWork \in Work /\ Idle \in Op
<1>1. (CHOOSE b \in Body : TRUE) \in Body
  BY RegistryConstants
<1>2. NoWork \in Work
  BY <1>1 DEF NoWork, Work
<1>3. QED
  BY <1>2, RegistryConstants DEF Idle, Op

\* A channel keeps its type under the upsert of a version.
LEMMA UpsertType ==
    ASSUME TypeOK, NEW n \in Name, NEW ch \in Channel, NEW v \in Nat, UpsertChannel(n, ch, v)
    PROVE  channel' \in [Channel -> [Name -> Nat]]
BY DEF TypeOK, UpsertChannel

\* What the upsert of a definition does: it replaces the body and the pins of one row,
\* or adds a row with the next version.
LEMMA InsertRow ==
    ASSUME TypeOK, NEW w \in Work, NEW hash \in {NoHash} \cup (Body \X SUBSET Pin),
           w.version \in 1 .. Len(defs[NameOf[w.body]]) + 1,
           InsertDefinition(w, hash)
    PROVE  LET n == NameOf[w.body] IN
           /\ n \in Name
           /\ defs' \in [Name -> Seq(Row)]
           /\ \A m \in Name : Len(defs[m]) \in Nat /\ Len(defs'[m]) \in Nat
           /\ \A m \in Name : m # n => defs'[m] = defs[m]
           /\ Len(defs'[n]) = IF w.version \in 1 .. Len(defs[n])
                              THEN Len(defs[n]) ELSE w.version
           /\ \A v \in 1 .. Len(defs[n]) : v # w.version => defs'[n][v] = defs[n][v]
           /\ defs'[n][w.version] =
                 [body |-> w.body, pins |-> w.pins,
                  hash |-> IF w.version \in 1 .. Len(defs[n])
                           THEN defs[n][w.version].hash ELSE hash]
<1> DEFINE n == NameOf[w.body]
           old == defs[n]
           row == [body |-> w.body, pins |-> w.pins, hash |-> hash]
           new == [body |-> w.body, pins |-> w.pins, hash |-> old[w.version].hash]
<1>1. n \in Name /\ old \in Seq(Row) /\ row \in Row /\ w.version \in Nat
  BY RegistryConstants DEF TypeOK, Work, Row
<1>2. \A m \in Name : Len(defs[m]) \in Nat
  BY LenProperties DEF TypeOK
<1>3. CASE w.version \in 1 .. Len(old)
  <2>1. defs' = [defs EXCEPT ![n] = [old EXCEPT ![w.version] = new]]
    BY <1>3 DEF InsertDefinition, Saved, TypeOK
  <2>2. new \in Row
    <3>1. old[w.version] \in Row
      BY <1>1, <1>3, ElementOfSeq
    <3>2. QED
      BY <3>1 DEF Row, Work
  <2> HIDE DEF old, new
  <2>3. /\ [old EXCEPT ![w.version] = new] \in Seq(Row)
        /\ Len([old EXCEPT ![w.version] = new]) = Len(old)
        /\ \A j \in 1 .. Len(old) :
              [old EXCEPT ![w.version] = new][j] = IF j = w.version THEN new ELSE old[j]
    BY <1>1, <1>3, <2>2, ExceptSeq
  <2>4. defs'[n] = [old EXCEPT ![w.version] = new]
    BY <1>1, <2>1 DEF TypeOK
  <2>5. \A m \in Name : m # n => defs'[m] = defs[m]
    BY <2>1 DEF TypeOK
  <2>6. defs' \in [Name -> Seq(Row)]
    BY <1>1, <2>1, <2>3 DEF TypeOK
  <2>7. QED
    BY <1>1, <1>2, <1>3, <2>3, <2>4, <2>5, <2>6 DEF old, new
<1>4. CASE w.version \notin 1 .. Len(old)
  <2>1. defs' = [defs EXCEPT ![n] = Append(old, row)]
    BY <1>4 DEF InsertDefinition, Saved, TypeOK
  <2>2. w.version = Len(old) + 1
    BY <1>1, <1>2, <1>4
  <2> HIDE DEF old, row
  <2>3. /\ Append(old, row) \in Seq(Row)
        /\ Len(Append(old, row)) = Len(old) + 1
        /\ \A i \in 1 .. Len(old) : Append(old, row)[i] = old[i]
        /\ Append(old, row)[Len(old) + 1] = row
    BY <1>1, AppendProperties
  <2>4. defs'[n] = Append(old, row)
    BY <1>1, <2>1 DEF TypeOK
  <2>5. \A m \in Name : m # n => defs'[m] = defs[m]
    BY <2>1 DEF TypeOK
  <2>6. defs' \in [Name -> Seq(Row)]
    BY <1>1, <2>1, <2>3 DEF TypeOK
  <2>7. QED
    <3>1. Len(defs'[n]) = Len(old) + 1 /\ defs'[n][w.version] = row
      BY <2>2, <2>3, <2>4
    <3>2. \A j \in 1 .. Len(old) : defs'[n][j] = old[j] /\ j # w.version
      BY <1>1, <2>2, <2>3, <2>4
    <3>3. QED
      BY <1>1, <1>2, <1>4, <2>2, <2>5, <2>6, <3>1, <3>2 DEF old, row
<1>5. QED
  BY <1>3, <1>4

\* The helpers of the loop keep the request well-typed.
LEMMA LoopType ==
    ASSUME NEW o \in Op
    PROVE  /\ Advance(o) \in Op
           /\ \A v \in Nat : Settled(o, v) \in Op
<1>1. ASSUME NEW q \in Op PROVE Advance(q) \in Op
  <2> DEFINE pc == IF q.todo # {} THEN "next" ELSE IF q.auto THEN "find" ELSE "done"
  <2>1. pc \in {"next", "find", "done"} /\ NoWork \in Work
    BY IdleType
  <2>2. Advance(q) = [q EXCEPT !.work = NoWork, !.pc = pc]
    BY DEF Advance
  <2> HIDE DEF pc
  <2>3. QED
    BY <2>1, <2>2 DEF Op
<1>2. ASSUME NEW v \in Nat PROVE Settled(o, v) \in Op
  <2> DEFINE p == [o EXCEPT !.versions[NameOf[o.work.body]] = v]
  <2>1. p \in Op /\ [p EXCEPT !.pc = "ensure"] \in Op
    BY DEF Op
  <2> HIDE DEF p
  <2>2. Settled(o, v) = IF o.phase = "batch" THEN [p EXCEPT !.pc = "ensure"] ELSE Advance(p)
    BY DEF Settled, p
  <2>3. QED
    BY <1>1, <2>1, <2>2
<1>3. QED
  BY <1>1, <1>2

\* Pins that are resolved are well-typed.
LEMMA PinsType ==
    ASSUME TypeOK, NEW b \in Body, NEW version \in Nat, NEW ch \in Channel,
           NEW versions \in [Name -> Nat],
           \A r \in Refs[b] : IsSelf(b, version, r) \/ resolveChildVersion(r, ch, versions) # 0
    PROVE  buildResolvedDeps(b, version, ch, versions) \in SUBSET Pin
<1>1. SUFFICES ASSUME NEW r \in Refs[b], ~IsSelf(b, version, r)
               PROVE  [name |-> r.name, asked |-> r.version,
                       version |-> resolveChildVersion(r, ch, versions)] \in Pin
  BY DEF buildResolvedDeps
<1>2. r \in [name : Name, version : Nat]
  BY RegistryConstants
<1>3. resolveChildVersion(r, ch, versions) \in Nat \ {0}
  BY <1>1, <1>2 DEF resolveChildVersion, TypeOK
<1>4. QED
  BY <1>2, <1>3 DEF Pin

\* Types are preserved by the steps of a request that was accepted.
LEMMA StepType ==
    ASSUME TypeOK, OpsOK(Size), RowsOK(Size), ChannelsOK(Size), NEW c \in Client, Step(c)
    PROVE  TypeOK'
<1> DEFINE o == op[c]
<1>0. /\ o \in Op /\ o.work \in Work /\ NameOf[o.work.body] \in Name
      /\ o.channel \in Channel /\ o.versions \in [Name -> Nat] /\ o.todo \in SUBSET Body
      /\ o.work.body \in Body /\ o.work.pins \in SUBSET Pin /\ o.work.version \in Nat
  BY RegistryConstants DEF TypeOK, Op, Work
<1>00. \A n \in Name : Len(defs[n]) \in Nat /\ \A v \in 1 .. Len(defs[n]) : defs[n][v] \in Row
  BY LenProperties, ElementOfSeq DEF TypeOK
<1>a. ASSUME NEW q \in Op, Goto(c, q)
      PROVE  op' \in [Client -> Op] /\ requests' \in 0 .. MaxRequests
  BY <1>a DEF TypeOK, Goto
<1>1. ASSUME NEW b \in Body, ResolveDef(c, b) PROVE TypeOK'
  <2> DEFINE version == LatestVersion(NameOf[b]) + 1
             pins == buildResolvedDeps(b, version, o.channel, o.versions)
             w == [body |-> b, version |-> version, pins |-> pins]
             q == [o EXCEPT !.pc = "save", !.todo = @ \ {b}, !.work = w]
  <2>1. version \in Nat
    BY <1>00, RegistryConstants DEF LatestVersion
  <2>2. pins \in SUBSET Pin
    BY <1>0, <1>1, <2>1, PinsType DEF ResolveDef
  <2>3. w \in Work
    BY <2>1, <2>2 DEF Work
  <2>4. q \in Op
    BY <1>0, <2>3 DEF Op
  <2>5. Goto(c, q) /\ UNCHANGED <<defs, channel>>
    BY <1>1 DEF ResolveDef
  <2>6. QED
    BY <1>a, <2>4, <2>5 DEF TypeOK
<1>2. ASSUME NEW v \in 1 .. MaxVersion, ReuseVersion(c, v) PROVE TypeOK'
  <2>1. v \in Nat
    BY RegistryConstants
  <2>2. Settled(o, v) \in Op
    BY <1>0, <2>1, LoopType
  <2>3. Goto(c, Settled(o, v)) /\ UpsertChannel(NameOf[o.work.body], o.channel, v) /\ UNCHANGED defs
    BY <1>2 DEF ReuseVersion
  <2>4. channel' \in [Channel -> [Name -> Nat]]
    BY <1>0, <2>1, <2>3, UpsertType
  <2>5. QED
    BY <1>a, <2>2, <2>3, <2>4 DEF TypeOK
<1>b. ASSUME NEW hash \in {NoHash} \cup (Body \X SUBSET Pin), NEW ch \in Channel,
             o.pc \in {"save", "put"}, SaveDefinition(o.work, hash, ch)
      PROVE  defs' \in [Name -> Seq(Row)] /\ channel' \in [Channel -> [Name -> Nat]]
  <2>1. o.work.version \in 1 .. Len(defs[NameOf[o.work.body]]) + 1
    BY <1>0, <1>b DEF OpsOK, OpOK, Size
  <2>2. defs' \in [Name -> Seq(Row)]
    BY <1>0, <1>b, <2>1, InsertRow DEF SaveDefinition
  <2>3. channel' \in [Channel -> [Name -> Nat]]
    BY <1>0, <1>b, UpsertType DEF SaveDefinition
  <2>4. QED
    BY <2>2, <2>3
<1>3. CASE SaveNewVersion(c)
  <2> DEFINE hash == contentHash(o.work.body, o.work.pins)
  <2>1. hash \in {NoHash} \cup (Body \X SUBSET Pin)
    BY <1>0 DEF contentHash
  <2>2. /\ o.pc = "save" /\ SaveDefinition(o.work, hash, o.channel)
        /\ Goto(c, Settled(o, o.work.version))
    BY <1>3 DEF SaveNewVersion
  <2> HIDE DEF hash
  <2>3. defs' \in [Name -> Seq(Row)] /\ channel' \in [Channel -> [Name -> Nat]]
    BY <1>0, <1>b, <2>1, <2>2
  <2>4. Settled(o, o.work.version) \in Op
    BY <1>0, LoopType
  <2>5. QED
    BY <1>a, <2>2, <2>3, <2>4 DEF TypeOK
<1>4. CASE EnsureLatest(c)
  <2>1. Advance(o) \in Op /\ [o EXCEPT !.pc = "create"] \in Op
    BY <1>0, LoopType DEF Op
  <2>2. QED
    BY <1>4, <1>a, <2>1 DEF EnsureLatest, TypeOK
<1>5. CASE CreateLatest(c)
  <2>1. Advance(o) \in Op
    BY <1>0, LoopType
  <2>2. o.versions[NameOf[o.work.body]] \in Nat
    BY <1>0
  <2>3. channel' \in [Channel -> [Name -> Nat]]
    BY <1>5, <2>2, <1>0, UpsertType, RegistryConstants DEF CreateLatest
  <2>4. QED
    BY <1>5, <1>a, <2>1, <2>3 DEF CreateLatest, TypeOK
<1>6. CASE FindParents(c)
  <2> DEFINE stale == {p \in StaleParents(o.channel, o.versions) : o.versions[p] = 0}
             todo == {defs[p][channel[o.channel][p]].body : p \in stale}
  <2>1. todo \in SUBSET Body
    <3>1. SUFFICES ASSUME NEW p \in Name, channel[o.channel][p] # 0
                   PROVE  defs[p][channel[o.channel][p]].body \in Body
      BY DEF StaleParents
    <3>2. channel[o.channel][p] \in 1 .. Len(defs[p])
      BY <1>0, <1>00, <3>1 DEF ChannelsOK, Size, TypeOK
    <3>3. QED
      BY <1>00, <3>2 DEF Row
  <2>2. [o EXCEPT !.pc = "done"] \in Op
    BY <1>0 DEF Op
  <2>3. [o EXCEPT !.pc = "next", !.phase = "cascade", !.todo = todo] \in Op
    BY <1>0, <2>1 DEF Op
  <2>4. QED
    BY <1>6, <1>a, <2>2, <2>3 DEF FindParents, TypeOK
<1>7. CASE PutSaves(c)
  <2>1. defs' \in [Name -> Seq(Row)] /\ channel' \in [Channel -> [Name -> Nat]]
    BY <1>7, <1>b, RegistryConstants DEF PutSaves
  <2>2. QED
    BY <1>7, <1>a, <2>1, IdleType DEF PutSaves, TypeOK
<1>8. ASSUME NEW b \in Body, PromoteOne(c, b) PROVE TypeOK'
  <2>1. [o EXCEPT !.todo = @ \ {b}] \in Op
    BY <1>0 DEF Op
  <2>2. NameOf[b] \in Name /\ o.versions[NameOf[b]] \in Nat
    BY <1>0, RegistryConstants
  <2>3. channel' \in [Channel -> [Name -> Nat]]
    BY <1>0, <1>8, <2>2, UpsertType DEF PromoteOne
  <2>4. QED
    BY <1>8, <1>a, <2>1, <2>3 DEF PromoteOne, TypeOK
<1>9. CASE Refuse(c) \/ Reply(c)
  BY <1>9, <1>a, IdleType DEF Refuse, Reply, TypeOK
<1>10. QED
  BY <1>1, <1>2, <1>3, <1>4, <1>5, <1>6, <1>7, <1>8, <1>9 DEF Step

\* Types are preserved when a request is accepted.
LEMMA StartType ==
    ASSUME TypeOK, ChannelsOK(Size), NEW c \in Client, Start(c)
    PROVE  TypeOK'
<1>0. \A n \in Name : Len(defs[n]) \in Nat /\ \A v \in 1 .. Len(defs[n]) : defs[n][v] \in Row
  BY LenProperties, ElementOfSeq DEF TypeOK
<1>a. ASSUME NEW q \in Op, Request(c), op' = [op EXCEPT ![c] = q]
      PROVE  op' \in [Client -> Op] /\ requests' \in 0 .. MaxRequests
  BY <1>a, RegistryConstants DEF TypeOK, Request
<1>b. ASSUME Request(c)
      PROVE  requests' \in 0 .. MaxRequests
  BY <1>b, RegistryConstants DEF TypeOK, Request
<1>1. ASSUME NEW batch \in SUBSET Body, NEW ch \in Channel, NEW auto \in BOOLEAN,
             ApplyBatch(c, batch, ch, auto)
      PROVE  TypeOK'
  <2>1. [Idle EXCEPT !.pc = "next", !.auto = auto, !.channel = ch,
                     !.batch = batch, !.todo = batch] \in Op
    BY IdleType DEF Op
  <2>2. QED
    BY <1>1, <1>a, <2>1 DEF ApplyBatch, TypeOK
<1>2. ASSUME NEW b \in Body, PutDefinition(c, b) PROVE TypeOK'
  <2> DEFINE version == LatestVersion(NameOf[b]) + 1
             w == [NoWork EXCEPT !.body = b, !.version = version]
             q == [Idle EXCEPT !.pc = "put", !.work = w]
  <2>1. version \in Nat
    BY <1>0, RegistryConstants DEF LatestVersion
  <2>2. w \in Work
    BY <2>1, IdleType DEF Work
  <2>3. q \in Op
    BY <2>2, IdleType DEF Op
  <2>4. Request(c) /\ op' = [op EXCEPT ![c] = q] /\ UNCHANGED <<defs, channel>>
    BY <1>2 DEF PutDefinition
  <2>5. QED
    BY <1>a, <2>3, <2>4 DEF TypeOK
<1>3. ASSUME NEW n \in Name, NEW ch \in Channel, NEW v \in 1 .. MaxVersion,
             PutChannel(c, n, ch, v)
      PROVE  TypeOK'
  <2>1. channel' \in [Channel -> [Name -> Nat]]
    BY <1>3, UpsertType, RegistryConstants DEF PutChannel
  <2>2. QED
    BY <1>3, <1>b, <2>1 DEF PutChannel, TypeOK
<1>4. ASSUME NEW n \in Name, NEW ch \in Channel, DeleteChannel(c, n, ch) PROVE TypeOK'
  BY <1>4, <1>b DEF DeleteChannel, TypeOK
<1>5. ASSUME NEW from \in Channel, NEW to \in Channel, NEW scope \in SUBSET Name,
             \A n \in scope : channel[from][n] # 0, PromoteChannel(c, from, to, scope)
      PROVE  TypeOK'
  <2> DEFINE versions == [n \in Name |-> IF n \in scope THEN channel[from][n] ELSE 0]
             todo == {defs[n][channel[from][n]].body : n \in scope}
             q == [Idle EXCEPT !.pc = "promote", !.channel = to, !.from = from,
                               !.versions = versions, !.todo = todo]
  <2>1. versions \in [Name -> Nat]
    BY <1>5 DEF TypeOK
  <2>2. todo \in SUBSET Body
    <3>1. SUFFICES ASSUME NEW n \in scope PROVE defs[n][channel[from][n]].body \in Body
      OBVIOUS
    <3>2. channel[from][n] \in 1 .. Len(defs[n])
      BY <1>0, <1>5 DEF ChannelsOK, Size, TypeOK
    <3>3. QED
      BY <1>0, <3>2 DEF Row
  <2>3. q \in Op
    BY <2>1, <2>2, IdleType DEF Op
  <2>4. Request(c) /\ op' = [op EXCEPT ![c] = q] /\ UNCHANGED <<defs, channel>>
    BY <1>5 DEF PromoteChannel
  <2>5. QED
    BY <1>a, <2>3, <2>4 DEF TypeOK
<1>6. ASSUME NEW from \in Channel, NEW to \in Channel, PromoteAll(c, from, to) PROVE TypeOK'
  BY <1>5, <1>6 DEF PromoteAll
<1>7. ASSUME NEW from \in Channel, NEW to \in Channel, NEW root \in Name,
             PromoteProcess(c, from, to, root)
      PROVE  TypeOK'
  <2>1. subtree(from, root) \in SUBSET Name /\ \A n \in subtree(from, root) : channel[from][n] # 0
    BY DEF subtree
  <2>2. QED
    BY <1>5, <1>7, <2>1 DEF PromoteProcess
<1>8. QED
  BY <1>1, <1>2, <1>3, <1>4, <1>6, <1>7 DEF Start

------------------------------------------------------------------------------
(* References. *)

\* What relies on saved versions goes on to hold when there are more of them.
LEMMA Monotone ==
    ASSUME NEW s \in [Name -> Nat], NEW t \in [Name -> Nat], \A n \in Name : s[n] <= t[n]
    PROVE  /\ \A pins \in SUBSET Pin : PinsOK(s, pins) => PinsOK(t, pins)
           /\ \A b \in Body, v \in Nat : RefsOK(s, b, v) => RefsOK(t, b, v)
           /\ \A n \in Name, v \in Nat, row \in Row : RowOK(s, n, v, row) => RowOK(t, n, v, row)
           /\ \A o \in Op : OpOK(s, o) => OpOK(t, o)
<1>1. ASSUME NEW pins \in SUBSET Pin, PinsOK(s, pins) PROVE PinsOK(t, pins)
  BY <1>1 DEF PinsOK, Pin
<1>2. ASSUME NEW b \in Body, NEW v \in Nat, RefsOK(s, b, v) PROVE RefsOK(t, b, v)
  <2>1. SUFFICES ASSUME NEW r \in Refs[b], ~IsSelf(b, v, r)
                 PROVE  (IF r.version # 0 THEN r.version ELSE 1) \in 1 .. t[r.name]
    BY DEF RefsOK
  <2>2. r.name \in Name /\ r.version \in Nat
    BY RegistryConstants
  <2>3. (IF r.version # 0 THEN r.version ELSE 1) \in 1 .. s[r.name]
    BY <1>2, <2>1 DEF RefsOK
  <2>4. QED
    BY <2>2, <2>3
<1>3. ASSUME NEW n \in Name, NEW v \in Nat, NEW row \in Row, RowOK(s, n, v, row)
      PROVE  RowOK(t, n, v, row)
  BY <1>1, <1>2, <1>3 DEF RowOK, Row
<1>4. ASSUME NEW o \in Op, OpOK(s, o) PROVE OpOK(t, o)
  <2>1. o.work \in Work /\ o.work.body \in Body /\ o.work.version \in Nat
        /\ NameOf[o.work.body] \in Name /\ o.versions \in [Name -> Nat]
    BY RegistryConstants DEF Op, Work
  <2>2. \A n \in Name : o.versions[n] \in 0 .. t[n]
    BY <1>4, <2>1 DEF OpOK
  <2>3. o.pc \in {"save", "put"} => o.work.version \in 1 .. t[NameOf[o.work.body]] + 1
    BY <1>4, <2>1 DEF OpOK
  <2>4. o.pc = "put" => RefsOK(t, o.work.body, o.work.version)
    BY <1>2, <1>4, <2>1 DEF OpOK
  <2>5. QED
    BY <1>4, <2>2, <2>3, <2>4 DEF OpOK
<1>5. QED
  BY <1>1, <1>2, <1>3, <1>4

\* A step that leaves the definitions alone keeps the invariant if what it writes to
\* the channels and to its request is saved.
LEMMA QuietStep ==
    ASSUME TypeOK, RegistryInv, NEW c \in Client, NEW q \in Op, UNCHANGED defs,
           op' = [op EXCEPT ![c] = q], OpOK(Size, q), ChannelsOK(Size)'
    PROVE  RegistryInv'
<1>1. Size' = Size
  BY DEF Size
<1>2. RowsOK(Size)'
  BY <1>1 DEF RegistryInv, RowsOK
<1>3. OpsOK(Size)'
  BY <1>1 DEF RegistryInv, OpsOK, TypeOK
<1>4. QED
  BY <1>2, <1>3 DEF RegistryInv

\* Pointing a channel to a saved version.
LEMMA UpsertSaved ==
    ASSUME TypeOK, ChannelsOK(Size), UNCHANGED defs, NEW n \in Name, NEW ch \in Channel,
           NEW v \in 0 .. Len(defs[n]), UpsertChannel(n, ch, v)
    PROVE  ChannelsOK(Size)'
BY DEF TypeOK, ChannelsOK, UpsertChannel, Size

\* Saving a definition whose children are saved.
LEMMA SaveStep ==
    ASSUME TypeOK, TypeOK', RegistryInv, NEW c \in Client, NEW q \in Op, NEW w \in Work,
           NEW hash \in {NoHash} \cup (Body \X SUBSET Pin), NEW ch \in Channel,
           w.version \in 1 .. Len(defs[NameOf[w.body]]) + 1,
           PinsOK(Size, w.pins), RefsOK(Size, w.body, w.version),
           SaveDefinition(w, hash, ch), op' = [op EXCEPT ![c] = q],
           \A s \in [Name -> Nat] : /\ \A n \in Name : Size[n] <= s[n]
                                    /\ w.version <= s[NameOf[w.body]]
                                    => OpOK(s, q)
    PROVE  RegistryInv'
<1> DEFINE n == NameOf[w.body]
           s == Size
           t == Size'
<1>0. w.body \in Body /\ w.pins \in SUBSET Pin /\ w.version \in Nat /\ n \in Name
  BY RegistryConstants DEF Work
<1>1. /\ \A m \in Name : Len(defs[m]) \in Nat /\ Len(defs'[m]) \in Nat
      /\ \A m \in Name : m # n => defs'[m] = defs[m]
      /\ Len(defs'[n]) = IF w.version \in 1 .. Len(defs[n]) THEN Len(defs[n]) ELSE w.version
      /\ \A v \in 1 .. Len(defs[n]) : v # w.version => defs'[n][v] = defs[n][v]
      /\ defs'[n][w.version].body = w.body /\ defs'[n][w.version].pins = w.pins
  <2>1. InsertDefinition(w, hash)
    BY DEF SaveDefinition
  <2>2. /\ \A m \in Name : Len(defs[m]) \in Nat /\ Len(defs'[m]) \in Nat
        /\ \A m \in Name : m # n => defs'[m] = defs[m]
        /\ Len(defs'[n]) = IF w.version \in 1 .. Len(defs[n]) THEN Len(defs[n]) ELSE w.version
        /\ \A v \in 1 .. Len(defs[n]) : v # w.version => defs'[n][v] = defs[n][v]
    BY <2>1, InsertRow
  <2>3. defs'[n][w.version] =
          [body |-> w.body, pins |-> w.pins,
           hash |-> IF w.version \in 1 .. Len(defs[n]) THEN defs[n][w.version].hash ELSE hash]
    BY <2>1, InsertRow
  <2>4. QED
    BY <2>2, <2>3
<1>2. /\ s \in [Name -> Nat] /\ t \in [Name -> Nat]
      /\ \A m \in Name : s[m] <= t[m]
      /\ w.version <= t[n]
      /\ \A m \in Name : \A v \in 1 .. t[m] : v \in 1 .. s[m] \/ (m = n /\ v = w.version)
  <2>1. s \in [Name -> Nat] /\ t \in [Name -> Nat]
    BY <1>1 DEF Size
  <2>2. \A m \in Name : s[m] = Len(defs[m]) /\ t[m] = Len(defs'[m])
    BY DEF Size
  <2>3. \A m \in Name : m # n => s[m] = t[m]
    BY <1>1, <2>2
  <2>4. s[n] <= t[n] /\ w.version <= t[n]
    BY <1>0, <1>1, <2>2
  <2>5. \A v \in 1 .. t[n] : v \in 1 .. s[n] \/ v = w.version
    BY <1>0, <1>1, <2>2
  <2>6. ASSUME NEW m \in Name PROVE s[m] <= t[m]
    <3>1. s[m] \in Nat /\ t[m] \in Nat
      BY <2>1
    <3>2. CASE m = n
      BY <2>4, <3>2
    <3>3. CASE m # n
      BY <2>3, <3>1, <3>3
    <3>4. QED
      BY <3>2, <3>3
  <2>7. ASSUME NEW m \in Name, NEW v \in 1 .. t[m]
        PROVE  v \in 1 .. s[m] \/ (m = n /\ v = w.version)
    <3>1. CASE m = n
      BY <2>5, <3>1
    <3>2. CASE m # n
      BY <2>3, <3>2
    <3>3. QED
      BY <3>1, <3>2
  <2>8. QED
    BY <2>1, <2>4, <2>6, <2>7
<1>3. ChannelsOK(Size)'
  <2>1. channel' = [channel EXCEPT ![ch][n] = w.version]
    BY DEF SaveDefinition, UpsertChannel
  <2>2. SUFFICES ASSUME NEW d \in Channel, NEW m \in Name PROVE channel'[d][m] \in 0 .. t[m]
    BY DEF ChannelsOK
  <2>3. channel[d][m] \in 0 .. s[m]
    BY DEF RegistryInv, ChannelsOK
  <2>4. channel'[d][m] = IF d = ch /\ m = n THEN w.version ELSE channel[d][m]
    BY <1>0, <2>1 DEF TypeOK
  <2>5. QED
    BY <1>0, <1>2, <2>3, <2>4
<1>4. RowsOK(Size)'
  <2>1. SUFFICES ASSUME NEW m \in Name, NEW v \in 1 .. t[m] PROVE RowOK(t, m, v, defs'[m][v])
    BY DEF RowsOK
  <2>2. CASE m = n /\ v = w.version
    <3>1. PinsOK(t, w.pins) /\ RefsOK(t, w.body, w.version)
      BY <1>0, <1>2, Monotone
    <3>2. QED
      BY <1>1, <2>2, <3>1 DEF RowOK
  <2>3. CASE ~(m = n /\ v = w.version)
    <3>1. v \in 1 .. s[m] /\ v \in Nat
      BY <1>2, <2>3
    <3>2. v \in 1 .. Len(defs[m])
      BY <3>1 DEF Size
    <3>3. defs'[m][v] = defs[m][v]
      BY <1>1, <2>3, <3>2
    <3>4. defs[m][v] \in Row
      BY <3>2, ElementOfSeq DEF TypeOK
    <3>5. RowOK(s, m, v, defs[m][v])
      BY <3>1 DEF RegistryInv, RowsOK
    <3>6. RowOK(t, m, v, defs[m][v])
      BY <1>2, <3>1, <3>4, <3>5, Monotone
    <3>7. QED
      BY <3>3, <3>6
  <2>4. QED
    BY <2>2, <2>3
<1>5. OpsOK(Size)'
  <2>1. SUFFICES ASSUME NEW d \in Client PROVE OpOK(t, op'[d])
    BY DEF OpsOK
  <2>2. OpOK(t, q)
    BY <1>2
  <2>3. op[d] \in Op /\ OpOK(s, op[d])
    BY DEF RegistryInv, OpsOK, TypeOK
  <2>4. OpOK(t, op[d])
    BY <1>2, <2>3, Monotone
  <2>5. QED
    BY <2>2, <2>4 DEF TypeOK
<1>6. QED
  BY <1>3, <1>4, <1>5 DEF RegistryInv

\* Requests that rely on nothing but the versions they have noted.
LEMMA LoopOK ==
    ASSUME NEW s \in [Name -> Nat], NEW o \in Op,
           \A n \in Name : o.versions[n] \in 0 .. s[n]
    PROVE  /\ OpOK(s, Idle)
           /\ OpOK(s, Advance(o))
           /\ \A pc \in {"ensure", "create", "done"} : OpOK(s, [o EXCEPT !.pc = pc])
           /\ \A v \in 0 .. s[NameOf[o.work.body]] : OpOK(s, Settled(o, v))
<1>1. OpOK(s, Idle)
  BY DEF OpOK, Idle
<1>2. ASSUME NEW q \in Op, \A n \in Name : q.versions[n] \in 0 .. s[n]
      PROVE  OpOK(s, Advance(q))
  BY <1>2 DEF OpOK, Advance, Op
<1>3. ASSUME NEW q \in Op, \A n \in Name : q.versions[n] \in 0 .. s[n],
             NEW pc \in {"ensure", "create", "done"}
      PROVE  OpOK(s, [q EXCEPT !.pc = pc])
  BY <1>3 DEF OpOK, Op
<1>4. ASSUME NEW v \in 0 .. s[NameOf[o.work.body]] PROVE OpOK(s, Settled(o, v))
  <2> DEFINE k == NameOf[o.work.body]
             p == [o EXCEPT !.versions[k] = v]
  <2>1. k \in Name /\ s[k] \in Nat /\ v \in Nat
    BY RegistryConstants DEF Op, Work
  <2>2. p \in Op /\ \A n \in Name : p.versions[n] \in 0 .. s[n]
    BY <2>1 DEF Op
  <2>3. Settled(o, v) = IF o.phase = "batch" THEN [p EXCEPT !.pc = "ensure"] ELSE Advance(p)
    BY DEF Settled
  <2> HIDE DEF p
  <2>4. QED
    BY <1>2, <1>3, <2>2, <2>3
<1>5. QED
  BY <1>1, <1>2, <1>3, <1>4

\* Pins that were validated are saved, and so are the children they stand for.
LEMMA Validated ==
    ASSUME TypeOK, NEW o \in Op, NEW w \in Work, OpOK(Size, o), ValidateChildProcessRefs(o, w)
    PROVE  /\ PinsOK(Size, w.pins)
           /\ Covers(w) => RefsOK(Size, w.body, w.version)
<1>1. ASSUME NEW d \in w.pins PROVE d.version \in 1 .. Size[d.name]
  <2>1. d \in Pin /\ d.name \in Name /\ d.version \in Nat \ {0}
    BY DEF Work, Pin
  <2>2. Size[d.name] = Len(defs[d.name]) /\ Size[d.name] \in Nat
    BY <2>1, LenProperties DEF Size, TypeOK
  <2>3. CASE d.version \in Saved(d.name)
    BY <2>2, <2>3 DEF Saved
  <2>4. CASE SubmittedAs(o, d.name, d.version)
    <3>1. o.versions[d.name] = d.version
      BY <2>4 DEF SubmittedAs
    <3>2. o.versions[d.name] \in 0 .. Size[d.name]
      BY <2>1 DEF OpOK
    <3>3. QED
      BY <2>1, <2>2, <3>1, <3>2
  <2>5. QED
    BY <2>3, <2>4 DEF ValidateChildProcessRefs
<1>2. ASSUME Covers(w) PROVE RefsOK(Size, w.body, w.version)
  <2>1. SUFFICES ASSUME NEW r \in Refs[w.body], ~IsSelf(w.body, w.version, r)
                 PROVE  (IF r.version # 0 THEN r.version ELSE 1) \in 1 .. Size[r.name]
    BY DEF RefsOK
  <2>2. PICK d \in w.pins : d.name = r.name /\ (r.version # 0 => d.version = r.version)
    BY <1>2, <2>1 DEF Covers
  <2>3. d.version \in 1 .. Size[r.name]
    BY <1>1, <2>2
  <2>4. r.name \in Name /\ Size[r.name] \in Nat
    <3>1. r.name \in Name
      BY RegistryConstants DEF Work
    <3>2. QED
      BY <3>1, LenProperties DEF Size, TypeOK
  <2>5. QED
    BY <2>2, <2>3, <2>4
<1>3. QED
  BY <1>1, <1>2 DEF PinsOK

\* The resolved pins cover the child entries.
LEMMA ResolvedCovers ==
    ASSUME NEW b \in Body, NEW version \in Nat, NEW ch, NEW versions,
           NEW w, w = [body |-> b, version |-> version,
                       pins |-> buildResolvedDeps(b, version, ch, versions)]
    PROVE  Covers(w)
<1>1. SUFFICES ASSUME NEW r \in Refs[b], ~IsSelf(b, version, r)
               PROVE  \E d \in buildResolvedDeps(b, version, ch, versions) :
                         /\ d.name = r.name /\ d.asked = r.version
                         /\ r.version # 0 => d.version = r.version
  BY DEF Covers
<1> DEFINE d == [name |-> r.name, asked |-> r.version,
                 version |-> resolveChildVersion(r, ch, versions)]
<1>2. d \in buildResolvedDeps(b, version, ch, versions)
  BY <1>1 DEF buildResolvedDeps
<1>3. r.version # 0 => d.version = r.version
  BY DEF resolveChildVersion
<1>4. QED
  BY <1>2, <1>3

\* The steps of a request keep the references intact.
LEMMA StepInv ==
    ASSUME TypeOK, TypeOK', RegistryInv, NEW c \in Client, Step(c)
    PROVE  RegistryInv'
<1> DEFINE o == op[c]
           n == NameOf[o.work.body]
<1>0. /\ o \in Op /\ o.work \in Work /\ n \in Name
      /\ o.channel \in Channel /\ o.versions \in [Name -> Nat]
      /\ o.work.body \in Body /\ o.work.pins \in SUBSET Pin /\ o.work.version \in Nat
  BY RegistryConstants DEF TypeOK, Op, Work
<1>00. /\ Size \in [Name -> Nat] /\ \A m \in Name : Size[m] = Len(defs[m])
       /\ OpOK(Size, o) /\ \A m \in Name : o.versions[m] \in 0 .. Size[m]
  BY LenProperties DEF Size, TypeOK, RegistryInv, OpsOK, OpOK
<1>000. UNCHANGED <<defs, channel>> => ChannelsOK(Size)'
  BY DEF RegistryInv, ChannelsOK, Size
<1>1. ASSUME NEW b \in Body, ResolveDef(c, b) PROVE RegistryInv'
  <2> DEFINE version == LatestVersion(NameOf[b]) + 1
             w == [body |-> b, version |-> version,
                   pins |-> buildResolvedDeps(b, version, o.channel, o.versions)]
             q == [o EXCEPT !.pc = "save", !.todo = @ \ {b}, !.work = w]
  <2>1. NameOf[b] \in Name /\ version \in Nat /\ version \in 1 .. Size[NameOf[b]] + 1
    BY <1>00, RegistryConstants DEF LatestVersion
  <2>2. Covers(w)
    BY <2>1, ResolvedCovers
  <2>3. op' = [op EXCEPT ![c] = q] /\ UNCHANGED <<defs, channel>>
    BY <1>1 DEF ResolveDef, Goto
  <2> HIDE DEF w
  <2>4. q.versions = o.versions /\ q.pc = "save" /\ q.work = w
    BY <1>0 DEF Op
  <2>5. w.body = b /\ w.version = version
    BY DEF w
  <2> HIDE DEF q, version
  <2>6. OpOK(Size, q)
    BY <1>00, <2>1, <2>2, <2>4, <2>5 DEF OpOK
  <2>7. q \in Op
    BY <2>3 DEF TypeOK
  <2>8. QED
    BY <1>000, <2>3, <2>6, <2>7, QuietStep
<1>2. ASSUME NEW v \in 1 .. MaxVersion, ReuseVersion(c, v) PROVE RegistryInv'
  <2>0. v \in Saved(n)
    BY <1>2 DEF ReuseVersion, FindVersionByHash, VersionsByHash
  <2>1. v \in 0 .. Size[n] /\ v \in 0 .. Len(defs[n]) /\ v \in Nat
    BY <1>0, <1>00, <2>0 DEF Saved
  <2>2. OpOK(Size, Settled(o, v)) /\ Settled(o, v) \in Op
    BY <1>0, <1>00, <2>1, LoopOK, LoopType
  <2>3. /\ UpsertChannel(n, o.channel, v) /\ UNCHANGED defs
        /\ op' = [op EXCEPT ![c] = Settled(o, v)]
    BY <1>2 DEF ReuseVersion, Goto
  <2>4. ChannelsOK(Size)'
    BY <1>0, <2>1, <2>3, UpsertSaved DEF RegistryInv
  <2>5. QED
    BY <2>2, <2>3, <2>4, QuietStep
<1>3. CASE SaveNewVersion(c)
  <2> DEFINE hash == contentHash(o.work.body, o.work.pins)
             q == Settled(o, o.work.version)
  <2>1. hash \in {NoHash} \cup (Body \X SUBSET Pin)
    BY <1>0 DEF contentHash
  <2>2. /\ o.pc = "save" /\ SaveDefinition(o.work, hash, o.channel)
        /\ op' = [op EXCEPT ![c] = q] /\ ValidateChildProcessRefs(o, o.work)
    BY <1>3 DEF SaveNewVersion, Goto
  <2> HIDE DEF hash
  <2>3. /\ o.work.version \in 1 .. Len(defs[n]) + 1 /\ PinsOK(Size, o.work.pins)
        /\ RefsOK(Size, o.work.body, o.work.version)
    BY <1>0, <1>00, <2>2, Validated DEF OpOK
  <2>4. q \in Op
    BY <1>0, LoopType
  <2>5. ASSUME NEW s \in [Name -> Nat], \A m \in Name : Size[m] <= s[m], o.work.version <= s[n]
        PROVE  OpOK(s, q)
    <3>1. o.work.version \in 0 .. s[n] /\ \A m \in Name : o.versions[m] \in 0 .. s[m]
      BY <1>0, <1>00, <2>5
    <3>2. QED
      BY <1>0, <3>1, LoopOK
  <2> HIDE DEF q
  <2>6. QED
    BY <1>0, <2>1, <2>2, <2>3, <2>4, <2>5, SaveStep
<1>4. CASE EnsureLatest(c)
  <2> DEFINE q == IF channel[Latest][n] # 0 THEN Advance(o) ELSE [o EXCEPT !.pc = "create"]
  <2>1. op' = [op EXCEPT ![c] = q] /\ UNCHANGED <<defs, channel>>
    BY <1>4 DEF EnsureLatest, Goto
  <2>2. q \in Op /\ OpOK(Size, q)
    <3>1. Advance(o) \in Op /\ [o EXCEPT !.pc = "create"] \in Op
      BY <1>0, LoopType DEF Op
    <3>2. OpOK(Size, Advance(o)) /\ OpOK(Size, [o EXCEPT !.pc = "create"])
      BY <1>0, <1>00, LoopOK
    <3>3. QED
      BY <3>1, <3>2
  <2>3. QED
    BY <1>000, <2>1, <2>2, QuietStep
<1>5. CASE CreateLatest(c)
  <2>1. /\ UpsertChannel(n, Latest, o.versions[n]) /\ UNCHANGED defs
        /\ op' = [op EXCEPT ![c] = Advance(o)]
    BY <1>5 DEF CreateLatest, Goto
  <2>2. OpOK(Size, Advance(o)) /\ Advance(o) \in Op
    BY <1>0, <1>00, LoopOK, LoopType
  <2>3. o.versions[n] \in 0 .. Len(defs[n])
    BY <1>0, <1>00
  <2>4. ChannelsOK(Size)'
    BY <1>0, <2>1, <2>3, UpsertSaved, RegistryConstants DEF RegistryInv
  <2>5. QED
    BY <2>1, <2>2, <2>4, QuietStep
<1>6. CASE FindParents(c)
  <2>1. PICK q : /\ op' = [op EXCEPT ![c] = q] /\ UNCHANGED <<defs, channel>>
                 /\ q.versions = o.versions /\ q.pc \in {"done", "next"}
    <3> DEFINE todo == {defs[p][channel[o.channel][p]].body :
                           p \in {p \in StaleParents(o.channel, o.versions) : o.versions[p] = 0}}
               q1 == [o EXCEPT !.pc = "done"]
               q2 == [o EXCEPT !.pc = "next", !.phase = "cascade", !.todo = todo]
    <3>1. q1.versions = o.versions /\ q1.pc = "done"
      BY <1>0 DEF Op
    <3>2. q2.versions = o.versions /\ q2.pc = "next"
      BY <1>0 DEF Op
    <3>3. \/ op' = [op EXCEPT ![c] = q1]
          \/ op' = [op EXCEPT ![c] = q2]
      BY <1>6 DEF FindParents, Goto
    <3>4. UNCHANGED <<defs, channel>>
      BY <1>6 DEF FindParents
    <3> HIDE DEF q1, q2
    <3>5. QED
      BY <3>1, <3>2, <3>3, <3>4
  <2>2. q \in Op
    BY <2>1 DEF TypeOK
  <2>3. OpOK(Size, q)
    BY <1>00, <2>1 DEF OpOK
  <2>4. QED
    BY <1>000, <2>1, <2>2, <2>3, QuietStep
<1>7. CASE PutSaves(c)
  <2>1. /\ o.pc = "put" /\ SaveDefinition(o.work, NoHash, Latest)
        /\ op' = [op EXCEPT ![c] = Idle]
    BY <1>7 DEF PutSaves, Goto
  <2>2. /\ o.work.version \in 1 .. Len(defs[n]) + 1 /\ PinsOK(Size, o.work.pins)
        /\ RefsOK(Size, o.work.body, o.work.version)
    BY <1>0, <1>00, <2>1 DEF OpOK, PinsOK
  <2>3. ASSUME NEW s \in [Name -> Nat] PROVE OpOK(s, Idle)
    BY DEF OpOK, Idle
  <2>4. QED
    BY <1>0, <2>1, <2>2, <2>3, IdleType, SaveStep, RegistryConstants
<1>8. ASSUME NEW b \in Body, PromoteOne(c, b) PROVE RegistryInv'
  <2> DEFINE q == [o EXCEPT !.todo = @ \ {b}]
  <2>1. /\ o.pc = "promote" /\ UpsertChannel(NameOf[b], o.channel, o.versions[NameOf[b]])
        /\ UNCHANGED defs /\ op' = [op EXCEPT ![c] = q]
    BY <1>8 DEF PromoteOne, Goto
  <2>2. q \in Op /\ q.pc = o.pc /\ q.versions = o.versions
    BY <1>0 DEF Op
  <2> HIDE DEF q
  <2>3. OpOK(Size, q)
    BY <1>00, <2>1, <2>2 DEF OpOK
  <2>4. NameOf[b] \in Name /\ o.versions[NameOf[b]] \in 0 .. Len(defs[NameOf[b]])
    BY <1>00, RegistryConstants
  <2>5. ChannelsOK(Size)'
    BY <1>0, <2>1, <2>4, UpsertSaved DEF RegistryInv
  <2>6. QED
    BY <2>1, <2>2, <2>3, <2>5, QuietStep
<1>9. CASE Refuse(c) \/ Reply(c)
  <2>1. op' = [op EXCEPT ![c] = Idle] /\ UNCHANGED <<defs, channel>>
    BY <1>9 DEF Refuse, Reply, Goto
  <2>2. QED
    BY <1>0, <1>00, <1>000, <2>1, IdleType, LoopOK, QuietStep
<1>10. QED
  BY <1>1, <1>2, <1>3, <1>4, <1>5, <1>6, <1>7, <1>8, <1>9 DEF Step

\* Accepting a request keeps the references intact.
LEMMA StartInv ==
    ASSUME TypeOK, TypeOK', RegistryInv, NEW c \in Client, Start(c)
    PROVE  RegistryInv'
<1>00. /\ Size \in [Name -> Nat] /\ \A m \in Name : Size[m] = Len(defs[m])
       /\ OpOK(Size, op[c]) /\ op[c] \in Op /\ op = [op EXCEPT ![c] = op[c]]
  BY LenProperties DEF Size, TypeOK, RegistryInv, OpsOK
<1>000. UNCHANGED <<defs, channel>> => ChannelsOK(Size)'
  BY DEF RegistryInv, ChannelsOK, Size
<1>1. ASSUME NEW batch \in SUBSET Body, NEW ch \in Channel, NEW auto \in BOOLEAN,
             ApplyBatch(c, batch, ch, auto)
      PROVE  RegistryInv'
  <2> DEFINE q == [Idle EXCEPT !.pc = "next", !.auto = auto, !.channel = ch,
                               !.batch = batch, !.todo = batch]
  <2>1. q \in Op /\ q.pc = "next" /\ q.versions = [m \in Name |-> 0]
    BY IdleType DEF Op, Idle
  <2>2. op' = [op EXCEPT ![c] = q] /\ UNCHANGED <<defs, channel>>
    BY <1>1 DEF ApplyBatch
  <2> HIDE DEF q
  <2>3. OpOK(Size, q)
    BY <1>00, <2>1 DEF OpOK
  <2>4. QED
    BY <1>000, <2>1, <2>2, <2>3, QuietStep
<1>2. ASSUME NEW b \in Body, PutDefinition(c, b) PROVE RegistryInv'
  <2> DEFINE version == LatestVersion(NameOf[b]) + 1
             seen == {[name |-> r.name, asked |-> r.version,
                       version |-> IF r.version # 0 THEN r.version ELSE LatestVersion(r.name)] :
                         r \in {q \in Refs[b] : ~IsSelf(b, version, q)}}
             q == [Idle EXCEPT !.pc = "put", !.work = [NoWork EXCEPT !.body = b, !.version = version]]
  <2>1. NameOf[b] \in Name /\ version \in Nat /\ version \in 1 .. Size[NameOf[b]] + 1
    BY <1>00, RegistryConstants DEF LatestVersion
  <2>2. /\ ValidateChildProcessRefs(Idle, [body |-> b, version |-> version, pins |-> seen])
        /\ op' = [op EXCEPT ![c] = q] /\ UNCHANGED <<defs, channel>>
    BY <1>2 DEF PutDefinition
  <2> HIDE DEF version
  <2>3. RefsOK(Size, b, version)
    <3>1. SUFFICES ASSUME NEW r \in Refs[b], ~IsSelf(b, version, r)
                   PROVE  (IF r.version # 0 THEN r.version ELSE 1) \in 1 .. Size[r.name]
      BY DEF RefsOK
    <3> DEFINE d == [name |-> r.name, asked |-> r.version,
                     version |-> IF r.version # 0 THEN r.version ELSE LatestVersion(r.name)]
    <3>2. r.name \in Name /\ r.version \in Nat /\ Size[r.name] = Len(defs[r.name])
          /\ Size[r.name] \in Nat
      BY <1>00, RegistryConstants
    <3>3. d \in seen
      BY <3>1
    <3>4. ~SubmittedAs(Idle, d.name, d.version)
      BY DEF SubmittedAs, Idle, Named
    <3> HIDE DEF seen
    <3>5. d.version \in Saved(d.name)
      BY <2>2, <3>3, <3>4 DEF ValidateChildProcessRefs
    <3>6. QED
      BY <3>2, <3>5 DEF Saved, LatestVersion
  <2>4. /\ q.versions = [m \in Name |-> 0] /\ q.pc = "put"
        /\ q.work.body = b /\ q.work.version = version /\ q.work.pins = {}
    BY DEF Idle, NoWork
  <2>5. q \in Op
    BY <2>2 DEF TypeOK
  <2> HIDE DEF q
  <2>6. OpOK(Size, q)
    BY <1>00, <2>1, <2>3, <2>4 DEF OpOK
  <2>7. QED
    BY <1>000, <2>2, <2>5, <2>6, QuietStep
<1>3. ASSUME NEW n \in Name, NEW ch \in Channel, NEW v \in 1 .. MaxVersion,
             PutChannel(c, n, ch, v)
      PROVE  RegistryInv'
  <2>1. v \in 0 .. Len(defs[n])
    BY <1>3 DEF PutChannel, Saved
  <2>2. ChannelsOK(Size)'
    BY <1>3, <2>1, UpsertSaved DEF PutChannel, RegistryInv
  <2>3. QED
    BY <1>3, <1>00, <2>2, QuietStep DEF PutChannel
<1>4. ASSUME NEW n \in Name, NEW ch \in Channel, DeleteChannel(c, n, ch) PROVE RegistryInv'
  <2>1. ChannelsOK(Size)'
    BY <1>4, <1>00 DEF DeleteChannel, RegistryInv, ChannelsOK, TypeOK, Size
  <2>2. QED
    BY <1>4, <1>00, <2>1, QuietStep DEF DeleteChannel
<1>5. ASSUME NEW from \in Channel, NEW to \in Channel, NEW scope \in SUBSET Name,
             PromoteChannel(c, from, to, scope)
      PROVE  RegistryInv'
  <2> DEFINE versions == [n \in Name |-> IF n \in scope THEN channel[from][n] ELSE 0]
             q == [Idle EXCEPT !.pc = "promote", !.channel = to, !.from = from,
                               !.versions = versions,
                               !.todo = {defs[n][channel[from][n]].body : n \in scope}]
  <2>1. op' = [op EXCEPT ![c] = q] /\ UNCHANGED <<defs, channel>>
    BY <1>5 DEF PromoteChannel
  <2>2. q.versions = versions /\ q.pc = "promote"
    BY DEF Idle
  <2>3. q \in Op
    BY <2>1 DEF TypeOK
  <2> HIDE DEF q
  <2>4. OpOK(Size, q)
    BY <1>00, <2>2 DEF OpOK, RegistryInv, ChannelsOK
  <2>5. QED
    BY <1>000, <2>1, <2>3, <2>4, QuietStep
<1>6. ASSUME NEW from \in Channel, NEW to \in Channel, PromoteAll(c, from, to) PROVE RegistryInv'
  BY <1>5, <1>6 DEF PromoteAll
<1>7. ASSUME NEW from \in Channel, NEW to \in Channel, NEW root \in Name,
             PromoteProcess(c, from, to, root)
      PROVE  RegistryInv'
  <2>1. subtree(from, root) \in SUBSET Name
    BY DEF subtree
  <2>2. QED
    BY <1>5, <1>7, <2>1 DEF PromoteProcess
<1>8. QED
  BY <1>1, <1>2, <1>3, <1>4, <1>6, <1>7 DEF Start

\* Every step keeps types and references.
LEMMA NextInv ==
    ASSUME TypeOK, RegistryInv, [Next]_vars
    PROVE  TypeOK' /\ RegistryInv'
<1>1. ASSUME NEW c \in Client, Start(c) PROVE TypeOK' /\ RegistryInv'
  BY <1>1, StartType, StartInv DEF RegistryInv
<1>2. ASSUME NEW c \in Client, Step(c) PROVE TypeOK' /\ RegistryInv'
  BY <1>2, StepType, StepInv DEF RegistryInv
<1>3. ASSUME NEW c \in Client, Abort(c) PROVE TypeOK' /\ RegistryInv'
  <2>1. op' = [op EXCEPT ![c] = Idle] /\ UNCHANGED <<defs, channel, requests>>
    BY <1>3 DEF Abort, Goto
  <2>2. TypeOK'
    BY <2>1, IdleType DEF TypeOK
  <2>3. OpOK(Size, Idle)
    BY LenProperties DEF OpOK, Idle, Size, TypeOK
  <2>4. ChannelsOK(Size)'
    BY <2>1 DEF RegistryInv, ChannelsOK, Size
  <2>5. QED
    BY <2>1, <2>2, <2>3, <2>4, IdleType, QuietStep
<1>4. CASE UNCHANGED vars
  BY <1>4 DEF vars, TypeOK, RegistryInv, ChannelsOK, RowsOK, OpsOK, Size
<1>5. QED
  BY <1>1, <1>2, <1>3, <1>4 DEF Next

\* The initial state.
LEMMA InitInv == Init => TypeOK /\ RegistryInv
<1> SUFFICES ASSUME Init PROVE TypeOK /\ RegistryInv
  OBVIOUS
<1>1. \A n \in Name : defs[n] = << >> /\ Len(defs[n]) = 0
  BY EmptySeq DEF Init
<1>2. TypeOK
  <2>1. defs \in [Name -> Seq(Row)]
    BY EmptySeq DEF Init
  <2>2. QED
    BY <2>1, IdleType, RegistryConstants DEF Init, TypeOK
<1>3. ChannelsOK(Size) /\ RowsOK(Size)
  BY <1>1 DEF Init, ChannelsOK, RowsOK, Size
<1>4. OpsOK(Size)
  <2>1. \A n \in Name : Size[n] = 0
    BY <1>1 DEF Size
  <2>2. OpOK(Size, Idle)
    BY <2>1 DEF OpOK, Idle
  <2>3. QED
    BY <2>2 DEF Init, OpsOK
<1>5. QED
  BY <1>2, <1>3, <1>4 DEF RegistryInv

\* Types and the invariant behind the references, for any number of requests.
THEOREM Invariance == Spec => [](TypeOK /\ RegistryInv)
<1>1. TypeOK /\ RegistryInv /\ [Next]_vars => (TypeOK /\ RegistryInv)'
  BY NextInv
<1>2. QED
  BY <1>1, InitInv, PTL DEF Spec

\* The database and the requests keep their types.
THEOREM RegistryTypes == Spec => []TypeOK
BY Invariance, PTL

\* Channels and child entries name saved versions, whatever the interleaving of any
\* number of requests and wherever they stop.
THEOREM ReferencesResolve == Spec => []EveryReferenceResolves
<1>1. TypeOK /\ RegistryInv => EveryReferenceResolves
  <2> SUFFICES ASSUME TypeOK, RegistryInv PROVE EveryReferenceResolves
    OBVIOUS
  <2>0. \A n \in Name : Size[n] = Len(defs[n]) /\ Len(defs[n]) \in Nat
    BY LenProperties DEF Size, TypeOK
  <2>1. ASSUME NEW ch \in Channel, NEW n \in Name
        PROVE  channel[ch][n] \in Saved(n) \cup {0}
    BY <2>0 DEF RegistryInv, ChannelsOK, Saved
  <2>2. ASSUME NEW n \in Name, NEW v \in Saved(n), NEW r \in Refs[defs[n][v].body]
        PROVE  ChildVersion(n, v, r) \in Saved(r.name)
    <3> DEFINE row == defs[n][v]
               pinned == {d \in row.pins : d.name = r.name /\ d.asked = 0}
    <3>0. v \in 1 .. Size[n] /\ v \in 1 .. Len(defs[n]) /\ v \in Nat
      BY <2>0 DEF Saved
    <3>1. RowOK(Size, n, v, row) /\ row \in Row
      BY <3>0, ElementOfSeq DEF RegistryInv, RowsOK, TypeOK
    <3>2. r.name \in Name /\ r.version \in Nat
      BY <3>1, RegistryConstants DEF Row
    <3>3. IsSelf(row.body, v, r) \/ (IF r.version # 0 THEN r.version ELSE 1) \in 1 .. Size[r.name]
      BY <3>1 DEF RowOK, RefsOK
    <3>4. CASE r.version # 0
      <4>1. ChildVersion(n, v, r) = r.version
        BY <3>4 DEF ChildVersion
      <4>2. CASE IsSelf(row.body, v, r)
        BY <3>0, <3>1, <3>4, <4>1, <4>2 DEF IsSelf, RowOK, Saved
      <4>3. QED
        BY <2>0, <3>2, <3>3, <3>4, <4>1, <4>2 DEF Saved
    <3>5. CASE r.version = 0 /\ r.name = n
      <4>1. ChildVersion(n, v, r) = v
        BY <3>5 DEF ChildVersion
      <4>2. QED
        BY <3>5, <4>1
    <3>6. CASE r.version = 0 /\ r.name # n /\ pinned # {}
      <4>1. ChildVersion(n, v, r) = (CHOOSE d \in pinned : TRUE).version
        BY <3>6 DEF ChildVersion
      <4>2. (CHOOSE d \in pinned : TRUE) \in pinned
        BY <3>6
      <4>3. (CHOOSE d \in pinned : TRUE).version \in 1 .. Size[r.name]
        BY <3>1, <4>2 DEF RowOK, PinsOK
      <4>4. QED
        BY <2>0, <3>2, <4>1, <4>3 DEF Saved
    <3>7. CASE r.version = 0 /\ r.name # n /\ pinned = {}
      <4>1. ChildVersion(n, v, r) = LatestVersion(r.name)
        BY <3>7 DEF ChildVersion
      <4>2. ~IsSelf(row.body, v, r)
        BY <3>1, <3>7 DEF IsSelf, RowOK
      <4>3. 1 \in 1 .. Size[r.name]
        BY <3>3, <3>7, <4>2
      <4>4. QED
        BY <2>0, <3>2, <4>1, <4>3 DEF Saved, LatestVersion
    <3>8. QED
      BY <3>2, <3>4, <3>5, <3>6, <3>7
  <2>3. QED
    BY <2>1, <2>2 DEF EveryReferenceResolves
<1>2. QED
  BY <1>1, Invariance, PTL

------------------------------------------------------------------------------
(* Requests one at a time. *)

OneClient == \A c, d \in Client : c = d

\* The hash of a row is that of its content.
HashFits ==
    \A n \in Name : \A v \in Saved(n) : LET row == defs[n][v] IN
        row.hash # NoHash => row.hash = contentHash(row.body, row.pins)

\* A row that was applied was validated with the children it is pinned to.
Accepts(n, v) ==
    LET row == defs[n][v] IN
    row.hash # NoHash =>
        /\ Covers([body |-> row.body, version |-> v, pins |-> row.pins])
        /\ \A r \in Refs[row.body] : IsSelf(row.body, v, r) => <<row.body, row.body>> \in Accepted
        /\ \A d \in row.pins : <<row.body, defs[d.name][d.version].body>> \in Accepted

AllAccept == \A n \in Name : \A v \in Saved(n) : Accepts(n, v)

\* The loop over the batch: the versions noted so far hold what was submitted.
InBatch(rows, o) ==
    /\ \A b, d \in o.batch : NameOf[b] = NameOf[d] => b = d
    /\ o.pc # "promote" => o.todo \subseteq o.batch
    /\ o.pc = "save" => o.work.body \in o.batch
    /\ \A b \in o.batch : o.versions[NameOf[b]] # 0 =>
                             rows[NameOf[b]][o.versions[NameOf[b]]].body = b

OpOne(rows, o) ==
    /\ o.pc \in {"save", "put"} => o.work.version = Len(rows[NameOf[o.work.body]]) + 1
    /\ o.phase = "batch" => InBatch(rows, o)

OneInv == HashFits /\ AllAccept /\ AppliedOnce /\ \A c \in Client : OpOne(defs, op[c])

\* A step that leaves the definitions alone.
LEMMA QuietOne ==
    ASSUME OneClient, TypeOK, OneInv, NEW c \in Client, NEW q, UNCHANGED defs,
           op' = [op EXCEPT ![c] = q], OpOne(defs, q)
    PROVE  OneInv'
<1>1. HashFits' /\ AllAccept' /\ AppliedOnce'
  BY DEF OneInv, HashFits, AllAccept, Accepts, AppliedOnce, Saved
<1>2. ASSUME NEW d \in Client PROVE OpOne(defs', op'[d])
  <2>1. d = c
    BY DEF OneClient
  <2>2. op'[d] = q
    BY <2>1 DEF TypeOK
  <2>3. QED
    BY <2>2
<1>3. QED
  BY <1>1, <1>2 DEF OneInv

\* What a save does when nobody has saved meanwhile: it adds a row.
LEMMA SaveAppends ==
    ASSUME TypeOK, NEW w \in Work, NEW hash \in {NoHash} \cup (Body \X SUBSET Pin),
           w.version = Len(defs[NameOf[w.body]]) + 1, InsertDefinition(w, hash)
    PROVE  LET n == NameOf[w.body] IN
           /\ n \in Name
           /\ w.version \notin Saved(n)
           /\ \A m \in Name : \A v \in Saved(m) : v \in Saved(m)' /\ defs'[m][v] = defs[m][v]
           /\ \A m \in Name : \A v \in Saved(m)' : v \in Saved(m) \/ (m = n /\ v = w.version)
           /\ w.version \in Saved(n)'
           /\ defs'[n][w.version] = [body |-> w.body, pins |-> w.pins, hash |-> hash]
<1> DEFINE n == NameOf[w.body]
<1>0. n \in Name /\ Len(defs[n]) \in Nat /\ \A m \in Name : Len(defs[m]) \in Nat
  BY RegistryConstants, LenProperties DEF TypeOK, Work
<1>1. w.version \in 1 .. Len(defs[n]) + 1 /\ w.version \notin 1 .. Len(defs[n])
  BY <1>0
<1>2. /\ \A m \in Name : m # n => defs'[m] = defs[m]
      /\ Len(defs'[n]) = w.version
      /\ \A v \in 1 .. Len(defs[n]) : v # w.version => defs'[n][v] = defs[n][v]
  BY <1>1, InsertRow
<1>3. defs'[n][w.version] = [body |-> w.body, pins |-> w.pins, hash |-> hash]
  BY <1>1, InsertRow
<1>4. ASSUME NEW m \in Name, NEW v \in Saved(m)
      PROVE  v \in Saved(m)' /\ defs'[m][v] = defs[m][v]
  <2>1. CASE m = n
    BY <1>0, <1>1, <1>2, <2>1 DEF Saved
  <2>2. CASE m # n
    BY <1>2, <2>2 DEF Saved
  <2>3. QED
    BY <2>1, <2>2
<1>5. ASSUME NEW m \in Name, NEW v \in Saved(m)'
      PROVE  v \in Saved(m) \/ (m = n /\ v = w.version)
  <2>1. CASE m = n
    BY <1>0, <1>1, <1>2, <2>1 DEF Saved
  <2>2. CASE m # n
    BY <1>2, <2>2 DEF Saved
  <2>3. QED
    BY <2>1, <2>2
<1>6. w.version \in Saved(n)' /\ w.version \notin Saved(n)
  BY <1>0, <1>1, <1>2 DEF Saved
<1>7. QED
  BY <1>0, <1>3, <1>4, <1>5, <1>6

\* A save of a validated definition, or of one without a hash.
LEMMA SaveOne ==
    ASSUME OneClient, TypeOK, RegistryInv, OneInv, NEW c \in Client, NEW q, NEW w \in Work,
           NEW hash \in {NoHash} \cup (Body \X SUBSET Pin),
           w.version = Len(defs[NameOf[w.body]]) + 1, InsertDefinition(w, hash),
           PinsOK(Size, w.pins),
           hash # NoHash =>
               /\ hash = contentHash(w.body, w.pins)
               /\ VersionsByHash(NameOf[w.body], hash) = {}
               /\ Covers([body |-> w.body, version |-> w.version, pins |-> w.pins])
               /\ \A r \in Refs[w.body] :
                     IsSelf(w.body, w.version, r) => <<w.body, w.body>> \in Accepted
               /\ \A d \in w.pins : <<w.body, defs[d.name][d.version].body>> \in Accepted,
           op' = [op EXCEPT ![c] = q], OpOne(defs', q)
    PROVE  OneInv'
<1> DEFINE n == NameOf[w.body]
           row == [body |-> w.body, pins |-> w.pins, hash |-> hash]
<1>1. /\ n \in Name /\ w.version \notin Saved(n) /\ w.version \in Saved(n)'
      /\ \A m \in Name : \A v \in Saved(m) : v \in Saved(m)' /\ defs'[m][v] = defs[m][v]
      /\ \A m \in Name : \A v \in Saved(m)' : v \in Saved(m) \/ (m = n /\ v = w.version)
      /\ defs'[n][w.version] = row
  BY SaveAppends
<1>2. ASSUME NEW pins \in SUBSET Pin, PinsOK(Size, pins), NEW d \in pins
      PROVE  defs'[d.name][d.version] = defs[d.name][d.version]
  <2>1. d.name \in Name /\ d.version \in 1 .. Size[d.name]
    BY <1>2 DEF Pin, PinsOK
  <2>2. d.version \in Saved(d.name)
    BY <2>1 DEF Size, Saved
  <2>3. QED
    BY <1>1, <2>1, <2>2
<1>3. HashFits'
  <2>1. SUFFICES ASSUME NEW m \in Name, NEW v \in Saved(m)', defs'[m][v].hash # NoHash
                 PROVE  defs'[m][v].hash = contentHash(defs'[m][v].body, defs'[m][v].pins)
    BY DEF HashFits, contentHash
  <2>2. CASE v \in Saved(m)
    BY <1>1, <2>1, <2>2 DEF OneInv, HashFits
  <2>3. CASE m = n /\ v = w.version
    BY <1>1, <2>1, <2>3
  <2>4. QED
    BY <1>1, <2>2, <2>3
<1>4. AppliedOnce'
  <2>1. SUFFICES ASSUME NEW m \in Name, NEW v \in Saved(m)', NEW u \in Saved(m)',
                        defs'[m][v].hash = defs'[m][u].hash, defs'[m][v].hash # NoHash
                 PROVE  v = u
    BY DEF AppliedOnce
  <2>2. CASE v \in Saved(m) /\ u \in Saved(m)
    BY <1>1, <2>1, <2>2 DEF OneInv, AppliedOnce
  <2>3. ASSUME m = n, NEW x \in Saved(n), defs'[n][x].hash = hash, hash # NoHash
        PROVE  FALSE
    <3>1. defs[n][x].hash = hash
      BY <1>1, <2>3
    <3>2. x \in VersionsByHash(n, hash)
      BY <3>1 DEF VersionsByHash
    <3>3. QED
      BY <2>3, <3>2
  <2>4. defs'[n][w.version].hash = hash
    BY <1>1
  <2>5. QED
    BY <1>1, <2>1, <2>2, <2>3, <2>4
<1>5. AllAccept'
  <2>1. SUFFICES ASSUME NEW m \in Name, NEW v \in Saved(m)', defs'[m][v].hash # NoHash
                 PROVE  LET r1 == defs'[m][v] IN
                        /\ Covers([body |-> r1.body, version |-> v, pins |-> r1.pins])
                        /\ \A r \in Refs[r1.body] :
                              IsSelf(r1.body, v, r) => <<r1.body, r1.body>> \in Accepted
                        /\ \A d \in r1.pins : <<r1.body, defs'[d.name][d.version].body>> \in Accepted
    BY DEF AllAccept, Accepts, Covers, IsSelf
  <2>2. CASE v \in Saved(m)
    <3> DEFINE r1 == defs[m][v]
    <3>1. defs'[m][v] = r1 /\ Accepts(m, v) /\ r1.hash # NoHash
      BY <1>1, <2>1, <2>2 DEF OneInv, AllAccept
    <3>2. v \in 1 .. Size[m] /\ v \in 1 .. Len(defs[m])
      BY <2>2 DEF Saved, Size
    <3>3. r1 \in Row /\ RowOK(Size, m, v, r1)
      BY <3>2, ElementOfSeq DEF RegistryInv, RowsOK, TypeOK
    <3>4. r1.pins \in SUBSET Pin /\ PinsOK(Size, r1.pins)
      BY <3>3 DEF RowOK, Row
    <3>5. /\ Covers([body |-> r1.body, version |-> v, pins |-> r1.pins])
          /\ \A r \in Refs[r1.body] : IsSelf(r1.body, v, r) => <<r1.body, r1.body>> \in Accepted
          /\ \A d \in r1.pins : <<r1.body, defs[d.name][d.version].body>> \in Accepted
      BY <3>1 DEF Accepts
    <3> HIDE DEF r1
    <3>6. \A d \in r1.pins : <<r1.body, defs'[d.name][d.version].body>> \in Accepted
      BY <1>2, <3>4, <3>5
    <3>7. QED
      BY <3>1, <3>5, <3>6
  <2>3. CASE m = n /\ v = w.version
    <3>1. defs'[m][v] = row /\ hash # NoHash /\ w.pins \in SUBSET Pin
      BY <1>1, <2>1, <2>3 DEF Work
    <3>2. \A d \in w.pins : <<w.body, defs'[d.name][d.version].body>> \in Accepted
      BY <1>2, <3>1
    <3>3. QED
      BY <2>3, <3>1, <3>2
  <2>4. QED
    BY <1>1, <2>2, <2>3
<1>6. ASSUME NEW d \in Client PROVE OpOne(defs', op'[d])
  <2>1. d = c
    BY DEF OneClient
  <2>2. op'[d] = q
    BY <2>1 DEF TypeOK
  <2>3. QED
    BY <2>2
<1>7. QED
  BY <1>3, <1>4, <1>5, <1>6 DEF OneInv

\* The loop keeps what it knows of the batch.
LEMMA LoopOne ==
    ASSUME NEW rows, NEW o \in Op, o.phase = "batch" => InBatch(rows, o), o.pc # "promote"
    PROVE  /\ OpOne(rows, Idle)
           /\ OpOne(rows, Advance(o))
           /\ OpOne(rows, [o EXCEPT !.pc = "create"])
           /\ \A v \in Nat :
                 o.pc = "save" /\ rows[NameOf[o.work.body]][v].body = o.work.body
                     => OpOne(rows, Settled(o, v))
<1>1. OpOne(rows, Idle)
  BY DEF OpOne, InBatch, Idle
<1>2. ASSUME NEW q \in Op, q.pc # "promote", q.phase = "batch" => InBatch(rows, q)
      PROVE  OpOne(rows, Advance(q))
  <2>1. /\ Advance(q).phase = q.phase /\ Advance(q).batch = q.batch /\ Advance(q).todo = q.todo
        /\ Advance(q).versions = q.versions /\ Advance(q).pc \in {"next", "find", "done"}
    BY DEF Advance, Op
  <2>2. QED
    BY <1>2, <2>1 DEF OpOne, InBatch
<1>3. ASSUME NEW q \in Op, q.pc # "promote", q.phase = "batch" => InBatch(rows, q),
             NEW pc \in {"ensure", "create"}
      PROVE  OpOne(rows, [q EXCEPT !.pc = pc])
  <2> DEFINE x == [q EXCEPT !.pc = pc]
  <2>1. /\ x.phase = q.phase /\ x.batch = q.batch /\ x.todo = q.todo
        /\ x.versions = q.versions /\ x.pc \in {"ensure", "create"}
    BY DEF Op
  <2> HIDE DEF x
  <2>2. OpOne(rows, x)
    BY <1>3, <2>1 DEF OpOne, InBatch
  <2>3. QED
    BY <2>2 DEF x
<1>4. ASSUME NEW v \in Nat, o.pc = "save", rows[NameOf[o.work.body]][v].body = o.work.body
      PROVE  OpOne(rows, Settled(o, v))
  <2> DEFINE n == NameOf[o.work.body]
             p == [o EXCEPT !.versions[n] = v]
  <2>1. n \in Name /\ o.work.body \in Body /\ o.versions \in [Name -> Nat] /\ o.batch \in SUBSET Body
    BY RegistryConstants DEF Op, Work
  <2>2. /\ p \in Op /\ p.phase = o.phase /\ p.batch = o.batch /\ p.todo = o.todo
        /\ p.work = o.work /\ p.pc = o.pc
        /\ p.versions = [o.versions EXCEPT ![n] = v]
    BY <2>1 DEF Op
  <2>3. ASSUME o.phase = "batch" PROVE InBatch(rows, p)
    <3>1. InBatch(rows, o)
      BY <2>3
    <3>2. ASSUME NEW b \in o.batch, p.versions[NameOf[b]] # 0
          PROVE  rows[NameOf[b]][p.versions[NameOf[b]]].body = b
      <4>1. NameOf[b] \in Name
        BY <2>1, RegistryConstants
      <4>2. CASE NameOf[b] = n
        <5>1. b = o.work.body
          BY <1>4, <3>1, <4>2 DEF InBatch
        <5>2. p.versions[n] = v
          BY <2>1, <2>2
        <5>3. QED
          BY <1>4, <5>1, <5>2
      <4>3. CASE NameOf[b] # n
        <5>1. p.versions[NameOf[b]] = o.versions[NameOf[b]]
          BY <2>1, <2>2, <4>1, <4>3
        <5>2. QED
          BY <3>1, <3>2, <5>1 DEF InBatch
      <4>4. QED
        BY <4>2, <4>3
    <3> HIDE DEF p
    <3>3. QED
      BY <2>2, <3>1, <3>2 DEF InBatch
  <2>4. Settled(o, v) = IF o.phase = "batch" THEN [p EXCEPT !.pc = "ensure"] ELSE Advance(p)
    BY DEF Settled
  <2> HIDE DEF p
  <2>5. p.pc # "promote"
    BY <1>4, <2>2
  <2>6. QED
    BY <1>2, <1>3, <2>2, <2>3, <2>4, <2>5
<1>5. QED
  BY <1>1, <1>2, <1>3, <1>4

\* The definition that validation looked at is the one that is saved.
LEMMA ValidatedSaved ==
    ASSUME TypeOK, NEW o \in Op, OpOne(defs, o), OpOK(Size, o),
           ValidateChildProcessRefs(o, o.work), NEW d \in o.work.pins
    PROVE  <<o.work.body, defs[d.name][d.version].body>> \in Accepted
<1>0. d.name \in Name /\ d.version \in Nat \ {0}
  BY DEF Op, Work, Pin
<1>1. <<o.work.body, GetDefinition(o, d.name, d.version)>> \in Accepted
  BY DEF ValidateChildProcessRefs
<1>2. CASE ~SubmittedAs(o, d.name, d.version)
  BY <1>1, <1>2 DEF GetDefinition
<1>3. CASE SubmittedAs(o, d.name, d.version)
  <2>1. /\ o.phase = "batch" /\ o.versions[d.name] = d.version /\ InBatch(defs, o)
        /\ \E b \in o.batch : NameOf[b] = d.name
    BY <1>3 DEF SubmittedAs, Named, OpOne
  <2> DEFINE b == CHOOSE b \in o.batch : NameOf[b] = d.name
  <2>2. b \in o.batch /\ NameOf[b] = d.name
    BY <2>1
  <2>3. GetDefinition(o, d.name, d.version) = b
    BY <1>3 DEF GetDefinition
  <2> HIDE DEF b
  <2>4. defs[d.name][d.version].body = b
    BY <1>0, <2>1, <2>2 DEF InBatch
  <2>5. QED
    BY <1>1, <2>3, <2>4
<1>4. QED
  BY <1>2, <1>3

\* Every step of the only request.
LEMMA NextOne ==
    ASSUME OneClient, TypeOK, RegistryInv, OneInv, NEW c \in Client,
           Start(c) \/ Step(c) \/ Abort(c)
    PROVE  /\ OneInv'
           /\ \A n \in Name : \A v \in Saved(n) : defs'[n][v] = defs[n][v]
<1> DEFINE o == op[c]
           n == NameOf[o.work.body]
<1>0. /\ o \in Op /\ o.work \in Work /\ n \in Name /\ o.work.pins \in SUBSET Pin
      /\ o.work.body \in Body /\ o.work.version \in Nat /\ o.batch \in SUBSET Body
  BY RegistryConstants DEF TypeOK, Op, Work
<1>00. OpOne(defs, o) /\ OpOK(Size, o) /\ op = [op EXCEPT ![c] = o]
  BY DEF OneInv, RegistryInv, OpsOK, TypeOK
<1>a. ASSUME NEW q, op' = [op EXCEPT ![c] = q], UNCHANGED defs, OpOne(defs, q)
      PROVE  /\ OneInv'
             /\ \A m \in Name : \A v \in Saved(m) : defs'[m][v] = defs[m][v]
  BY <1>a, QuietOne
<1>b. OpOne(defs, Idle) /\ (o.pc # "promote" =>
          OpOne(defs, Advance(o)) /\ OpOne(defs, [o EXCEPT !.pc = "create"]))
  <2>1. OpOne(defs, Idle)
    BY DEF OpOne, InBatch, Idle
  <2>2. QED
    BY <1>0, <1>00, <2>1, LoopOne DEF OpOne
<1>1. ASSUME NEW b \in Body, ResolveDef(c, b)
      PROVE  OneInv' /\ \A m \in Name : \A v \in Saved(m) : defs'[m][v] = defs[m][v]
  <2> DEFINE version == LatestVersion(NameOf[b]) + 1
             w == [body |-> b, version |-> version,
                   pins |-> buildResolvedDeps(b, version, o.channel, o.versions)]
             q == [o EXCEPT !.pc = "save", !.todo = @ \ {b}, !.work = w]
  <2>1. /\ o.pc = "next" /\ b \in o.todo /\ UNCHANGED defs /\ op' = [op EXCEPT ![c] = q]
    BY <1>1 DEF ResolveDef, Goto
  <2>2. w.body = b /\ w.version = Len(defs[NameOf[b]]) + 1
    BY DEF LatestVersion
  <2> HIDE DEF w
  <2>3. /\ q.pc = "save" /\ q.phase = o.phase /\ q.batch = o.batch /\ q.todo = o.todo \ {b}
        /\ q.versions = o.versions /\ q.work = w
    BY <1>0 DEF Op
  <2> HIDE DEF q
  <2>4. OpOne(defs, q)
    BY <1>00, <2>1, <2>2, <2>3 DEF OpOne, InBatch
  <2>5. QED
    BY <1>a, <2>1, <2>4
<1>2. ASSUME NEW v \in 1 .. MaxVersion, ReuseVersion(c, v)
      PROVE  OneInv' /\ \A m \in Name : \A u \in Saved(m) : defs'[m][u] = defs[m][u]
  <2>1. /\ o.pc = "save" /\ UNCHANGED defs /\ op' = [op EXCEPT ![c] = Settled(o, v)]
        /\ v \in Saved(n) /\ defs[n][v].hash = contentHash(o.work.body, o.work.pins)
    BY <1>2 DEF ReuseVersion, Goto, FindVersionByHash, VersionsByHash
  <2>2. defs[n][v].hash # NoHash
    <3>1. \A a, x : contentHash(a, x) # NoHash
      BY DEF contentHash, NoHash
    <3>2. QED
      BY <2>1, <3>1
  <2>3. defs[n][v].hash = contentHash(defs[n][v].body, defs[n][v].pins)
    BY <1>0, <2>1, <2>2 DEF OneInv, HashFits
  <2>4. defs[n][v].body = o.work.body
    <3>1. contentHash(defs[n][v].body, defs[n][v].pins) = contentHash(o.work.body, o.work.pins)
      BY <2>1, <2>3
    <3>2. \A a, b, x, y : contentHash(a, x) = contentHash(b, y) => a = b
      BY DEF contentHash
    <3>3. QED
      BY <3>1, <3>2
  <2>5. v \in Nat
    BY RegistryConstants
  <2>6. OpOne(defs, Settled(o, v))
    BY <1>0, <1>00, <2>1, <2>4, <2>5, LoopOne DEF OpOne
  <2>7. QED
    BY <1>a, <2>1, <2>6
<1>3. ASSUME SaveNewVersion(c)
      PROVE  OneInv' /\ \A m \in Name : \A v \in Saved(m) : defs'[m][v] = defs[m][v]
  <2> DEFINE hash == contentHash(o.work.body, o.work.pins)
             q == Settled(o, o.work.version)
             w == o.work
  <2>1. hash \in {NoHash} \cup (Body \X SUBSET Pin)
    BY <1>0 DEF contentHash
  <2>2. /\ o.pc = "save" /\ InsertDefinition(w, hash) /\ ValidateChildProcessRefs(o, w)
        /\ op' = [op EXCEPT ![c] = q] /\ VersionsByHash(n, hash) = {}
    BY <1>3 DEF SaveNewVersion, SaveDefinition, Goto
  <2>3. w.version = Len(defs[n]) + 1
    BY <1>00, <2>2 DEF OpOne
  <2> HIDE DEF hash
  <2>4. /\ \A m \in Name : \A v \in Saved(m) : v \in Saved(m)' /\ defs'[m][v] = defs[m][v]
        /\ defs'[n][w.version] = [body |-> w.body, pins |-> w.pins, hash |-> hash]
    BY <1>0, <2>1, <2>2, <2>3, SaveAppends
  <2>5. o.phase = "batch" => InBatch(defs', o)
    <3>1. SUFFICES ASSUME o.phase = "batch", NEW b \in o.batch, o.versions[NameOf[b]] # 0
                   PROVE  defs'[NameOf[b]][o.versions[NameOf[b]]].body = b
      BY <1>00 DEF OpOne, InBatch
    <3>2. NameOf[b] \in Name /\ o.versions[NameOf[b]] \in Nat
      BY <1>0, RegistryConstants DEF Op
    <3>3. o.versions[NameOf[b]] \in 0 .. Size[NameOf[b]]
      BY <1>00, <3>2 DEF OpOK
    <3>4. o.versions[NameOf[b]] \in Saved(NameOf[b])
      BY <3>1, <3>2, <3>3 DEF Size, Saved
    <3>5. QED
      BY <1>00, <2>4, <3>1, <3>2, <3>4 DEF OpOne, InBatch
  <2>6. OpOne(defs', q)
    <3>1. defs'[n][w.version].body = w.body
      BY <2>4
    <3>2. QED
      BY <1>0, <2>2, <2>5, <3>1, LoopOne
  <2>7. PinsOK(Size, w.pins) /\ Covers(w)
    BY <1>0, <1>00, <2>2, Validated DEF OpOK
  <2>8. Covers([body |-> w.body, version |-> w.version, pins |-> w.pins])
    BY <2>7 DEF Covers
  <2>9. \A r \in Refs[w.body] : IsSelf(w.body, w.version, r) => <<w.body, w.body>> \in Accepted
    BY <2>2 DEF ValidateChildProcessRefs
  <2>10. \A d \in w.pins : <<w.body, defs[d.name][d.version].body>> \in Accepted
    BY <1>0, <1>00, <2>2, ValidatedSaved
  <2>11. hash = contentHash(w.body, w.pins)
    BY DEF hash
  <2> HIDE DEF q, w
  <2>12. OneInv'
    BY <1>0, <2>1, <2>2, <2>3, <2>6, <2>7, <2>8, <2>9, <2>10, <2>11, SaveOne DEF w
  <2>13. QED
    BY <2>4, <2>12
<1>4. ASSUME EnsureLatest(c)
      PROVE  OneInv' /\ \A m \in Name : \A v \in Saved(m) : defs'[m][v] = defs[m][v]
  <2>1. /\ o.pc = "ensure" /\ UNCHANGED defs
        /\ \/ op' = [op EXCEPT ![c] = Advance(o)]
           \/ op' = [op EXCEPT ![c] = [o EXCEPT !.pc = "create"]]
    BY <1>4 DEF EnsureLatest, Goto
  <2>2. QED
    BY <1>a, <1>b, <2>1
<1>5. ASSUME CreateLatest(c)
      PROVE  OneInv' /\ \A m \in Name : \A v \in Saved(m) : defs'[m][v] = defs[m][v]
  <2>1. o.pc = "create" /\ UNCHANGED defs /\ op' = [op EXCEPT ![c] = Advance(o)]
    BY <1>5 DEF CreateLatest, Goto
  <2>2. QED
    BY <1>a, <1>b, <2>1
<1>6. ASSUME FindParents(c)
      PROVE  OneInv' /\ \A m \in Name : \A v \in Saved(m) : defs'[m][v] = defs[m][v]
  <2> DEFINE todo == {defs[p][channel[o.channel][p]].body :
                         p \in {p \in StaleParents(o.channel, o.versions) : o.versions[p] = 0}}
             q1 == [o EXCEPT !.pc = "done"]
             q2 == [o EXCEPT !.pc = "next", !.phase = "cascade", !.todo = todo]
  <2>1. /\ o.pc = "find" /\ UNCHANGED defs
        /\ op' = [op EXCEPT ![c] = q1] \/ op' = [op EXCEPT ![c] = q2]
    BY <1>6 DEF FindParents, Goto
  <2>2. /\ q1.phase = o.phase /\ q1.batch = o.batch /\ q1.todo = o.todo
        /\ q1.versions = o.versions /\ q1.pc = "done"
    BY <1>0 DEF Op
  <2>3. q2.phase = "cascade" /\ q2.pc = "next"
    BY <1>0 DEF Op
  <2> HIDE DEF q1, q2
  <2>4. OpOne(defs, q1) /\ OpOne(defs, q2)
    BY <1>00, <2>1, <2>2, <2>3 DEF OpOne, InBatch
  <2>5. QED
    BY <1>a, <2>1, <2>4
<1>7. ASSUME PutSaves(c)
      PROVE  OneInv' /\ \A m \in Name : \A v \in Saved(m) : defs'[m][v] = defs[m][v]
  <2>1. /\ o.pc = "put" /\ InsertDefinition(o.work, NoHash) /\ op' = [op EXCEPT ![c] = Idle]
    BY <1>7 DEF PutSaves, SaveDefinition, Goto
  <2>2. o.work.version = Len(defs[n]) + 1 /\ PinsOK(Size, o.work.pins)
    BY <1>00, <2>1 DEF OpOne, OpOK, PinsOK
  <2>3. OpOne(defs', Idle)
    BY DEF OpOne, InBatch, Idle
  <2>4. \A m \in Name : \A v \in Saved(m) : defs'[m][v] = defs[m][v]
    BY <1>0, <2>1, <2>2, SaveAppends
  <2>5. OneInv'
    BY <1>0, <2>1, <2>2, <2>3, SaveOne
  <2>6. QED
    BY <2>4, <2>5
<1>8. ASSUME NEW b \in Body, PromoteOne(c, b)
      PROVE  OneInv' /\ \A m \in Name : \A v \in Saved(m) : defs'[m][v] = defs[m][v]
  <2> DEFINE q == [o EXCEPT !.todo = @ \ {b}]
  <2>1. o.pc = "promote" /\ UNCHANGED defs /\ op' = [op EXCEPT ![c] = q]
    BY <1>8 DEF PromoteOne, Goto
  <2>2. q.phase = o.phase /\ q.batch = o.batch /\ q.versions = o.versions /\ q.pc = "promote"
    BY <1>0, <2>1 DEF Op
  <2> HIDE DEF q
  <2>3. OpOne(defs, q)
    BY <1>00, <2>1, <2>2 DEF OpOne, InBatch
  <2>4. QED
    BY <1>a, <2>1, <2>3
<1>9. ASSUME Refuse(c) \/ Reply(c) \/ Abort(c)
      PROVE  OneInv' /\ \A m \in Name : \A v \in Saved(m) : defs'[m][v] = defs[m][v]
  <2>1. UNCHANGED defs /\ op' = [op EXCEPT ![c] = Idle]
    BY <1>9 DEF Refuse, Reply, Abort, Goto
  <2>2. QED
    BY <1>a, <1>b, <2>1
<1>10. ASSUME NEW batch \in SUBSET Body, NEW ch \in Channel, NEW auto \in BOOLEAN,
              ApplyBatch(c, batch, ch, auto)
       PROVE  OneInv' /\ \A m \in Name : \A v \in Saved(m) : defs'[m][v] = defs[m][v]
  <2> DEFINE q == [Idle EXCEPT !.pc = "next", !.auto = auto, !.channel = ch,
                               !.batch = batch, !.todo = batch]
  <2>1. /\ \A b, d \in batch : NameOf[b] = NameOf[d] => b = d
        /\ UNCHANGED defs /\ op' = [op EXCEPT ![c] = q]
    BY <1>10 DEF ApplyBatch
  <2>2. q.pc = "next" /\ q.batch = batch /\ q.todo = batch /\ q.versions = [m \in Name |-> 0]
    BY DEF Idle
  <2> HIDE DEF q
  <2>3. \A b \in batch : NameOf[b] \in Name
    BY RegistryConstants
  <2>4. OpOne(defs, q)
    BY <2>1, <2>2, <2>3 DEF OpOne, InBatch
  <2>5. QED
    BY <1>a, <2>1, <2>4
<1>11. ASSUME NEW b \in Body, PutDefinition(c, b)
       PROVE  OneInv' /\ \A m \in Name : \A v \in Saved(m) : defs'[m][v] = defs[m][v]
  <2> DEFINE version == LatestVersion(NameOf[b]) + 1
             q == [Idle EXCEPT !.pc = "put", !.work = [NoWork EXCEPT !.body = b, !.version = version]]
  <2>1. UNCHANGED defs /\ op' = [op EXCEPT ![c] = q]
    BY <1>11 DEF PutDefinition
  <2>2. /\ q.pc = "put" /\ q.batch = {} /\ q.todo = {}
        /\ q.work.body = b /\ q.work.version = version
    BY DEF Idle, NoWork
  <2> HIDE DEF q
  <2>3. OpOne(defs, q)
    BY <2>2 DEF OpOne, InBatch, LatestVersion
  <2>4. QED
    BY <1>a, <2>1, <2>3
<1>12. ASSUME NEW m \in Name, NEW ch \in Channel, NEW v,
              PutChannel(c, m, ch, v) \/ DeleteChannel(c, m, ch)
       PROVE  OneInv' /\ \A k \in Name : \A u \in Saved(k) : defs'[k][u] = defs[k][u]
  <2>1. UNCHANGED defs /\ op' = [op EXCEPT ![c] = o]
    BY <1>12, <1>00 DEF PutChannel, DeleteChannel
  <2>2. QED
    BY <1>a, <1>00, <2>1
<1>13. ASSUME NEW from, NEW to, NEW scope, PromoteChannel(c, from, to, scope)
       PROVE  OneInv' /\ \A m \in Name : \A v \in Saved(m) : defs'[m][v] = defs[m][v]
  <2> DEFINE versions == [m \in Name |-> IF m \in scope THEN channel[from][m] ELSE 0]
             q == [Idle EXCEPT !.pc = "promote", !.channel = to, !.from = from,
                               !.versions = versions,
                               !.todo = {defs[m][channel[from][m]].body : m \in scope}]
  <2>1. UNCHANGED defs /\ op' = [op EXCEPT ![c] = q]
    BY <1>13 DEF PromoteChannel
  <2>2. q.pc = "promote" /\ q.batch = {}
    BY DEF Idle
  <2> HIDE DEF q
  <2>3. OpOne(defs, q)
    BY <2>2 DEF OpOne, InBatch
  <2>4. QED
    BY <1>a, <2>1, <2>3
<1>14. CASE Start(c)
  BY <1>10, <1>11, <1>12, <1>13, <1>14 DEF Start, PromoteAll, PromoteProcess
<1>15. CASE Step(c) \/ Abort(c)
  BY <1>1, <1>2, <1>3, <1>4, <1>5, <1>6, <1>7, <1>8, <1>9, <1>15 DEF Step
<1>16. QED
  BY <1>14, <1>15

\* Requests one at a time keep what validation has established.
THEOREM OneAtATime == OneClient /\ Spec => [](TypeOK /\ RegistryInv /\ OneInv)
<1> SUFFICES ASSUME OneClient PROVE Spec => [](TypeOK /\ RegistryInv /\ OneInv)
  OBVIOUS
<1>1. Init => OneInv
  <2> SUFFICES ASSUME Init PROVE OneInv
    OBVIOUS
  <2>1. \A n \in Name : Saved(n) = {}
    BY EmptySeq DEF Init, Saved
  <2>2. OpOne(defs, Idle)
    BY DEF OpOne, InBatch, Idle
  <2>3. QED
    BY <2>1, <2>2 DEF Init, OneInv, HashFits, AllAccept, AppliedOnce
<1>2. TypeOK /\ RegistryInv /\ OneInv /\ [Next]_vars => OneInv'
  <2> SUFFICES ASSUME TypeOK, RegistryInv, OneInv, [Next]_vars PROVE OneInv'
    OBVIOUS
  <2>1. CASE UNCHANGED vars
    BY <2>1 DEF vars, OneInv, HashFits, AllAccept, Accepts, AppliedOnce, Saved
  <2>2. CASE Next
    BY <2>2, NextOne DEF Next
  <2>3. QED
    BY <2>1, <2>2
<1>3. QED
  BY <1>1, <1>2, Invariance, PTL DEF Spec

\* With requests one at a time a version keeps its content for ever.
THEOREM Immutability == OneClient /\ Spec => VersionsAreImmutable
<1> SUFFICES ASSUME OneClient PROVE Spec => VersionsAreImmutable
  OBVIOUS
<1>1. TypeOK /\ RegistryInv /\ OneInv /\ [Next]_vars
        => [\A n \in Name : \A v \in Saved(n) : defs'[n][v] = defs[n][v]]_vars
  BY NextOne DEF Next
<1>2. Spec => [](TypeOK /\ RegistryInv /\ OneInv)
  BY OneAtATime
<1>3. QED
  BY <1>1, <1>2, PTL DEF Spec, VersionsAreImmutable

\* With requests one at a time an unchanged definition is not saved again.
THEOREM NoDuplicates == OneClient /\ Spec => []AppliedOnce
<1>1. OneInv => AppliedOnce
  BY DEF OneInv
<1>2. QED
  BY <1>1, OneAtATime, PTL

\* With requests one at a time every applied version runs with children that accept
\* the input it was validated with, however the children change afterwards.
THEOREM ChildrenFit == OneClient /\ Spec => []ChildrenAcceptInput
<1>1. TypeOK /\ RegistryInv /\ OneInv => ChildrenAcceptInput
  <2> SUFFICES ASSUME TypeOK, RegistryInv, OneInv,
                      NEW n \in Name, NEW v \in Saved(n), NEW r \in Refs[defs[n][v].body],
                      defs[n][v].hash # NoHash
               PROVE  <<defs[n][v].body, defs[r.name][ChildVersion(n, v, r)].body>> \in Accepted
    BY DEF ChildrenAcceptInput
  <2> DEFINE row == defs[n][v]
             pinned == {d \in row.pins : d.name = r.name /\ d.asked = 0}
  <2>0. v \in 1 .. Size[n] /\ v \in 1 .. Len(defs[n]) /\ v \in Nat
    BY LenProperties DEF Size, TypeOK, Saved
  <2>1. RowOK(Size, n, v, row) /\ row \in Row
    BY <2>0, ElementOfSeq DEF RegistryInv, RowsOK, TypeOK
  <2>2. /\ Covers([body |-> row.body, version |-> v, pins |-> row.pins])
        /\ IsSelf(row.body, v, r) => <<row.body, row.body>> \in Accepted
        /\ \A d \in row.pins : <<row.body, defs[d.name][d.version].body>> \in Accepted
    BY DEF OneInv, AllAccept, Accepts
  <2>3. r.name \in Name /\ r.version \in Nat /\ NameOf[row.body] = n
    BY <2>1, RegistryConstants DEF Row, RowOK
  <2>4. CASE IsSelf(row.body, v, r)
    <3>1. r.name = n /\ ChildVersion(n, v, r) = v
      BY <2>3, <2>4 DEF IsSelf, ChildVersion
    <3>2. QED
      BY <2>2, <2>4, <3>1
  <2>5. CASE ~IsSelf(row.body, v, r)
    <3>1. PICK e \in row.pins : /\ e.name = r.name /\ e.asked = r.version
                                /\ r.version # 0 => e.version = r.version
      BY <2>2, <2>5 DEF Covers
    <3>2. CASE r.version # 0
      <4>1. ChildVersion(n, v, r) = r.version
        BY <3>2 DEF ChildVersion
      <4>2. QED
        BY <2>2, <3>1, <3>2, <4>1
    <3>3. CASE r.version = 0
      <4>1. r.name # n /\ pinned # {}
        BY <2>3, <2>5, <3>1, <3>3 DEF IsSelf
      <4>2. ChildVersion(n, v, r) = (CHOOSE d \in pinned : TRUE).version
        BY <3>3, <4>1 DEF ChildVersion
      <4>3. (CHOOSE d \in pinned : TRUE) \in pinned
        BY <4>1
      <4>4. QED
        BY <2>2, <4>2, <4>3
    <3>4. QED
      BY <3>2, <3>3
  <2>6. QED
    BY <2>4, <2>5
<1>2. QED
  BY <1>1, OneAtATime, PTL

------------------------------------------------------------------------------
(* What a request leaves on its channel. *)

\* A pin stands for a child entry; an entry that leaves the version open is not for the
\* process itself.
FromRefs(b, pins) ==
    \A d \in pins : /\ \E r \in Refs[b] : r.name = d.name /\ r.version = d.asked
                    /\ d.asked = 0 => d.name # NameOf[b]

RowsFromRefs(rows) ==
    \A n \in Name : \A v \in 1 .. Len(rows[n]) : FromRefs(rows[n][v].body, rows[n][v].pins)

Applying(o) == o.pc \in {"next", "save", "ensure", "create", "find", "done"}

\* The row of n on the channel of the request.
OnChannel(rows, chans, o, n) == rows[n][chans[o.channel][n]]

\* What the request has published is what the channel points to.
Noted(chans, o) == \A n \in Name : o.versions[n] # 0 => chans[o.channel][n] = o.versions[n]

\* An entry is published when the loop is through with it.
Handled(o, b) == b \notin o.todo /\ ~(o.pc = "save" /\ o.work.body = b)

BatchProgress(rows, chans, o) ==
    /\ \A b, d \in o.batch : NameOf[b] = NameOf[d] => b = d
    /\ o.pc \in {"find", "done"} \/ o.phase = "cascade" => \A b \in o.batch : o.versions[NameOf[b]] # 0
    /\ \A b \in o.batch : o.versions[NameOf[b]] # 0 => OnChannel(rows, chans, o, NameOf[b]).body = b

\* The loop over the batch takes children before parents.
BatchPhase(rows, chans, o) ==
    /\ o.todo \subseteq o.batch
    /\ o.pc \in {"find", "done"} => o.todo = {}
    /\ \A b \in o.batch : Handled(o, b) <=> o.versions[NameOf[b]] # 0
    /\ \A n \in Name \ Named(o.batch) : o.versions[n] = 0
    /\ o.pc \in {"save", "ensure", "create"} => o.work.body \in o.batch \ o.todo
    /\ \A b \in o.batch \ o.todo : \A r \in Refs[b] :
           r.name \in Named(o.batch) \ {NameOf[b]} => o.versions[r.name] # 0
    /\ \A b \in o.batch : o.versions[NameOf[b]] # 0 =>
           \A d \in OnChannel(rows, chans, o, NameOf[b]).pins :
               d.asked = 0 => d.version = chans[o.channel][d.name]

\* What the request saves next is pinned to what is on the channel.
WorkFits(chans, o) ==
    o.pc = "save" =>
        /\ FromRefs(o.work.body, o.work.pins)
        /\ o.versions[NameOf[o.work.body]] = 0
        /\ \A d \in o.work.pins : d.asked = 0 => d.version = chans[o.channel][d.name]

\* A body that the cascade is to update is on the channel, not updated yet, and has a
\* child that was updated.
Stale(rows, chans, o, b) ==
    /\ o.versions[NameOf[b]] = 0
    /\ chans[o.channel][NameOf[b]] # 0
    /\ OnChannel(rows, chans, o, NameOf[b]).body = b
    /\ \E d \in OnChannel(rows, chans, o, NameOf[b]).pins : o.versions[d.name] # 0

CascadePhase(rows, chans, o) ==
    /\ o.auto
    /\ o.pc \in {"next", "save", "find", "done"}
    /\ o.pc \in {"find", "done"} => o.todo = {}
    /\ \A b, d \in o.todo : NameOf[b] = NameOf[d] => b = d
    /\ \A b \in o.todo : Stale(rows, chans, o, b)
    /\ o.pc = "save" => /\ NameOf[o.work.body] \notin Named(o.todo)
                        /\ \E d \in o.work.pins : o.versions[d.name] # 0

\* A parent that the cascade has updated has an updated child, and is pinned to what
\* was published, unless it has another updated child.
Updated(rows, chans, o) ==
    \A n \in Name \ Named(o.batch) : o.versions[n] # 0 =>
        LET pins == OnChannel(rows, chans, o, n).pins IN
        /\ \E e \in pins : o.versions[e.name] # 0
        /\ \A d \in pins : d.asked = 0 =>
               \/ o.versions[d.name] \in {0, d.version}
               \/ \E e \in pins : e.name # d.name /\ o.versions[e.name] # 0

\* The search for parents has found none.
NoneStale(rows, chans, o) ==
    \A p \in Name : o.versions[p] = 0 /\ chans[o.channel][p] # 0 =>
        \A d \in OnChannel(rows, chans, o, p).pins : o.versions[d.name] \in {0, d.version}

\* The loops of putDefinitions and cascadeUpdate.
Apply(rows, chans, o) ==
    /\ Noted(chans, o)
    /\ BatchProgress(rows, chans, o)
    /\ WorkFits(chans, o)
    /\ Updated(rows, chans, o)
    /\ o.phase = "batch" => BatchPhase(rows, chans, o)
    /\ o.phase = "cascade" => CascadePhase(rows, chans, o)
    /\ o.pc = "find" => o.auto
    /\ o.pc = "done" /\ o.auto => NoneStale(rows, chans, o)

\* What promoteChannel has read and not written yet.
Promote(rows, chans, o) ==
    /\ o.from # o.channel
    /\ \A n \in Name : o.versions[n] # 0 =>
        /\ chans[o.from][n] = o.versions[n]
        /\ \A r \in Refs[rows[n][o.versions[n]].body] :
              chans[o.from][r.name] # 0 => o.versions[r.name] # 0
        /\ chans[o.channel][n] = o.versions[n] \/ n \in Named(o.todo)

OpPublish(rows, chans, o) ==
    /\ Applying(o) => Apply(rows, chans, o)
    /\ o.pc = "promote" => Promote(rows, chans, o)

PublishInv == RowsFromRefs(defs) /\ \A c \in Client : OpPublish(defs, channel, op[c])

\* The loop goes on to the next entry, or is through.
LEMMA AdvanceApply ==
    ASSUME NEW rows, NEW chans, NEW o \in Op, Apply(rows, chans, o), o.pc \in {"ensure", "create"}
    PROVE  Apply(rows, chans, Advance(o)) /\ Advance(o).pc \in {"next", "find", "done"}
<1> DEFINE q == Advance(o)
<1>1. o.phase = "batch" /\ BatchPhase(rows, chans, o)
  BY DEF Apply, CascadePhase, Op
<1>2. /\ q.pc = IF o.todo # {} THEN "next" ELSE IF o.auto THEN "find" ELSE "done"
      /\ q.phase = "batch" /\ q.auto = o.auto /\ q.channel = o.channel /\ q.batch = o.batch
      /\ q.todo = o.todo /\ q.versions = o.versions
  BY <1>1 DEF Advance, Op
<1> HIDE DEF q
<1>3. q.pc # "save" /\ (q.pc \in {"find", "done"} => o.todo = {})
  BY <1>2
<1>4. \A b \in o.batch : (Handled(q, b) <=> Handled(o, b)) /\ (Handled(o, b) <=> b \notin o.todo)
  BY <1>2, <1>3 DEF Handled
<1>5. Noted(chans, q)
  BY <1>2 DEF Apply, Noted
<1>6. BatchProgress(rows, chans, q)
  <2>1. BatchProgress(rows, chans, o)
    BY DEF Apply
  <2>2. q.pc \in {"find", "done"} => \A b \in o.batch : o.versions[NameOf[b]] # 0
    BY <1>1, <1>3, <1>4 DEF BatchPhase
  <2>3. QED
    BY <1>2, <2>1, <2>2 DEF BatchProgress, OnChannel
<1>7. WorkFits(chans, q)
  BY <1>3 DEF WorkFits
<1>8. Updated(rows, chans, q)
  <2>1. Updated(rows, chans, o)
    BY DEF Apply
  <2>2. QED
    BY <1>2, <2>1 DEF Updated, OnChannel
<1>9. BatchPhase(rows, chans, q)
  BY <1>1, <1>2, <1>3, <1>4 DEF BatchPhase, OnChannel
<1>10. (q.pc = "find" => q.auto) /\ ~(q.pc = "done" /\ q.auto)
  BY <1>2
<1>11. QED
  BY <1>2, <1>5, <1>6, <1>7, <1>8, <1>9, <1>10 DEF Apply, q

\* Between the two statements that make sure of "latest".
LEMMA CreateApply ==
    ASSUME NEW rows, NEW chans, NEW o \in Op, Apply(rows, chans, o), o.pc = "ensure"
    PROVE  Apply(rows, chans, [o EXCEPT !.pc = "create"])
<1> DEFINE q == [o EXCEPT !.pc = "create"]
<1>1. /\ q.pc = "create" /\ q.phase = o.phase /\ q.auto = o.auto /\ q.channel = o.channel
      /\ q.batch = o.batch /\ q.todo = o.todo /\ q.versions = o.versions /\ q.work = o.work
  BY DEF Op
<1> HIDE DEF q
<1>2. o.phase = "batch" /\ BatchPhase(rows, chans, o)
  BY DEF Apply, CascadePhase, Op
<1>3. \A b \in o.batch : Handled(q, b) <=> Handled(o, b)
  BY <1>1 DEF Handled
<1>4. BatchPhase(rows, chans, q)
  BY <1>1, <1>2, <1>3 DEF BatchPhase, OnChannel
<1>5. Noted(chans, q) /\ BatchProgress(rows, chans, q) /\ WorkFits(chans, q)
  BY <1>1, <1>2 DEF Apply, Noted, BatchProgress, OnChannel, WorkFits
<1>6. Updated(rows, chans, q)
  <2>1. Updated(rows, chans, o)
    BY DEF Apply
  <2>2. QED
    BY <1>1, <2>1 DEF Updated, OnChannel
<1>7. QED
  BY <1>1, <1>2, <1>4, <1>5, <1>6 DEF Apply, q

\* What a request knows is about its own channel.
LEMMA OwnChannel ==
    ASSUME NEW rows, NEW chans, NEW new, NEW o, new[o.channel] = chans[o.channel],
           Apply(rows, chans, o)
    PROVE  Apply(rows, new, o)
<1>1. Noted(new, o) /\ WorkFits(new, o) /\ BatchProgress(rows, new, o)
  BY DEF Apply, Noted, WorkFits, BatchProgress, OnChannel
<1>2. Updated(rows, new, o)
  BY DEF Apply, Updated, OnChannel
<1>3. o.phase = "batch" => BatchPhase(rows, new, o)
  BY DEF Apply, BatchPhase, OnChannel
<1>4. o.phase = "cascade" => CascadePhase(rows, new, o)
  BY DEF Apply, CascadePhase, Stale, OnChannel
<1>5. o.pc = "done" /\ o.auto => NoneStale(rows, new, o)
  BY DEF Apply, NoneStale, OnChannel
<1>6. o.pc = "find" => o.auto
  BY DEF Apply
<1>7. QED
  BY <1>1, <1>2, <1>3, <1>4, <1>5, <1>6 DEF Apply

\* The pins that are resolved are those of the child entries, on the channel.
LEMMA ResolvedPins ==
    ASSUME TypeOK, NEW o \in Op, Noted(channel, o), NEW b \in Body, NEW version
    PROVE  LET pins == buildResolvedDeps(b, version, o.channel, o.versions) IN
           /\ FromRefs(b, pins)
           /\ \A d \in pins : d.asked = 0 => d.version = channel[o.channel][d.name]
           /\ \A r \in Refs[b] : r.name # NameOf[b] => \E d \in pins : d.name = r.name
<1> DEFINE pins == buildResolvedDeps(b, version, o.channel, o.versions)
<1>1. ASSUME NEW d \in pins
      PROVE  \E r \in Refs[b] : /\ r.name \in Name /\ ~IsSelf(b, version, r)
                                /\ d.name = r.name /\ d.asked = r.version
                                /\ d.version = resolveChildVersion(r, o.channel, o.versions)
  BY RegistryConstants DEF buildResolvedDeps
<1>2. ASSUME NEW r \in Refs[b], r.name # NameOf[b]
      PROVE  \E d \in pins : d.name = r.name
  <2>1. ~IsSelf(b, version, r)
    BY <1>2 DEF IsSelf
  <2>2. [name |-> r.name, asked |-> r.version,
         version |-> resolveChildVersion(r, o.channel, o.versions)] \in pins
    BY <2>1 DEF buildResolvedDeps
  <2>3. QED
    BY <2>2
<1> HIDE DEF pins
<1>3. FromRefs(b, pins)
  <2>1. SUFFICES ASSUME NEW d \in pins
                 PROVE  /\ \E r \in Refs[b] : r.name = d.name /\ r.version = d.asked
                        /\ d.asked = 0 => d.name # NameOf[b]
    BY DEF FromRefs
  <2>2. PICK r \in Refs[b] : ~IsSelf(b, version, r) /\ d.name = r.name /\ d.asked = r.version
    BY <1>1
  <2>3. QED
    BY <2>2 DEF IsSelf
<1>4. ASSUME NEW d \in pins, d.asked = 0
      PROVE  d.version = channel[o.channel][d.name]
  <2>1. PICK r \in Refs[b] : /\ r.name \in Name /\ d.name = r.name /\ d.asked = r.version
                             /\ d.version = resolveChildVersion(r, o.channel, o.versions)
    BY <1>1
  <2>2. o.versions[r.name] # 0 => channel[o.channel][r.name] = o.versions[r.name]
    BY <2>1 DEF Noted
  <2>3. QED
    BY <1>4, <2>1, <2>2 DEF resolveChildVersion
<1>5. QED
  BY <1>2, <1>3, <1>4 DEF pins

\* Resolving an entry prepares what fits the channel.
LEMMA ResolveApply ==
    ASSUME TypeOK, RegistryInv, RowsFromRefs(defs), NEW c \in Client, Apply(defs, channel, op[c]),
           NEW b \in Body, ResolveDef(c, b)
    PROVE  op'[c].pc = "save" /\ Apply(defs, channel, op'[c])
<1> DEFINE o == op[c]
           version == LatestVersion(NameOf[b]) + 1
           pins == buildResolvedDeps(b, version, o.channel, o.versions)
           w == [body |-> b, version |-> version, pins |-> pins]
           q == op'[c]
<1>0. /\ o \in Op /\ o.versions \in [Name -> Nat] /\ o.batch \in SUBSET Body
      /\ o.todo \in SUBSET Body /\ NameOf[b] \in Name /\ o.channel \in Channel
  BY RegistryConstants DEF TypeOK, Op
<1>1. /\ o.pc = "next" /\ b \in o.todo /\ (o.phase = "batch" => ComesFirst(b, o.todo))
      /\ q = [o EXCEPT !.pc = "save", !.todo = @ \ {b}, !.work = w]
  BY DEF ResolveDef, Goto, TypeOK
<1>2. w.body = b /\ w.pins = pins
  OBVIOUS
<1> HIDE DEF w
<1>3. /\ q.pc = "save" /\ q.phase = o.phase /\ q.auto = o.auto /\ q.channel = o.channel
      /\ q.batch = o.batch /\ q.todo = o.todo \ {b} /\ q.versions = o.versions
      /\ q.work.body = b /\ q.work.pins = pins
  BY <1>0, <1>1, <1>2 DEF Op
<1> HIDE DEF q
<1>4. /\ Noted(channel, o) /\ BatchProgress(defs, channel, o) /\ Updated(defs, channel, o)
      /\ o.phase = "batch" => BatchPhase(defs, channel, o)
      /\ o.phase = "cascade" => CascadePhase(defs, channel, o)
  BY DEF Apply
<1>5. /\ FromRefs(b, pins)
      /\ \A d \in pins : d.asked = 0 => d.version = channel[o.channel][d.name]
  BY <1>0, <1>4, ResolvedPins
<1>6. \A r \in Refs[b] : r.name # NameOf[b] => \E d \in pins : d.name = r.name
  BY <1>0, <1>4, ResolvedPins
<1> HIDE DEF pins, version
<1>7. o.phase = "batch" \/ o.phase = "cascade"
  BY <1>0 DEF Op
<1>8. o.versions[NameOf[b]] = 0
  <2>1. CASE o.phase = "batch"
    <3>1. b \in o.batch /\ ~Handled(o, b)
      BY <1>1, <1>4, <2>1 DEF BatchPhase, Handled
    <3>2. QED
      BY <1>4, <2>1, <3>1 DEF BatchPhase
  <2>2. CASE o.phase = "cascade"
    BY <1>1, <1>4, <2>2 DEF CascadePhase, Stale
  <2>3. QED
    BY <1>7, <2>1, <2>2
<1>9. Noted(channel, q)
  BY <1>3, <1>4 DEF Noted
<1>10. BatchProgress(defs, channel, q)
  BY <1>3, <1>4 DEF BatchProgress, OnChannel
<1>11. WorkFits(channel, q)
  BY <1>3, <1>5, <1>8 DEF WorkFits
<1>12. Updated(defs, channel, q)
  BY <1>3, <1>4 DEF Updated, OnChannel
<1>13. ASSUME o.phase = "batch" PROVE BatchPhase(defs, channel, q)
  <2>1. BatchPhase(defs, channel, o)
    BY <1>4, <1>13
  <2>2. \A d \in o.batch : Handled(q, d) <=> Handled(o, d)
    BY <1>1, <1>3 DEF Handled
  <2>3. b \in o.batch
    BY <1>1, <2>1 DEF BatchPhase
  <2>4. ASSUME NEW r \in Refs[b], r.name \in Named(o.batch) \ {NameOf[b]}
        PROVE  o.versions[r.name] # 0
    <3>1. PICK d \in o.batch : NameOf[d] = r.name
      BY <2>4 DEF Named
    <3>2. d \notin o.todo
      BY <1>1, <1>13, <2>4, <3>1 DEF ComesFirst, Named
    <3>3. Handled(o, d)
      BY <1>1, <3>2 DEF Handled
    <3>4. QED
      BY <2>1, <3>1, <3>3 DEF BatchPhase
  <2>5. \A d \in o.batch \ (o.todo \ {b}) : \A r \in Refs[d] :
           r.name \in Named(o.batch) \ {NameOf[d]} => o.versions[r.name] # 0
    BY <2>1, <2>4 DEF BatchPhase
  <2>6. \A d \in o.batch : o.versions[NameOf[d]] # 0 =>
           \A e \in OnChannel(defs, channel, q, NameOf[d]).pins :
               e.asked = 0 => e.version = channel[o.channel][e.name]
    BY <1>3, <2>1 DEF BatchPhase, OnChannel
  <2>7. QED
    BY <1>3, <2>1, <2>2, <2>3, <2>5, <2>6 DEF BatchPhase
<1>14. ASSUME o.phase = "cascade" PROVE CascadePhase(defs, channel, q)
  <2>1. CascadePhase(defs, channel, o) /\ Stale(defs, channel, o, b)
    BY <1>1, <1>4, <1>14 DEF CascadePhase
  <2>2. \A d \in q.todo : Stale(defs, channel, q, d)
    BY <1>3, <2>1 DEF CascadePhase, Stale, OnChannel
  <2>3. NameOf[b] \notin Named(q.todo)
    BY <1>1, <1>3, <2>1 DEF CascadePhase, Named
  <2>4. \E d \in pins : o.versions[d.name] # 0
    <3> DEFINE n == NameOf[b]
               v == channel[o.channel][n]
    <3>1. /\ v # 0 /\ defs[n][v].body = b
          /\ \E d \in defs[n][v].pins : o.versions[d.name] # 0
      BY <2>1 DEF Stale, OnChannel
    <3>2. v \in 1 .. Len(defs[n])
      <4>1. v \in 0 .. Size[n]
        BY <1>0 DEF RegistryInv, ChannelsOK
      <4>2. QED
        BY <1>0, <3>1, <4>1 DEF Size
    <3> HIDE DEF v
    <3>3. FromRefs(b, defs[n][v].pins)
      BY <1>0, <3>1, <3>2 DEF RowsFromRefs
    <3>4. PICK e \in defs[n][v].pins : o.versions[e.name] # 0
      BY <3>1
    <3>5. PICK r \in Refs[b] : r.name = e.name
      BY <3>3 DEF FromRefs
    <3>6. r.name # n
      BY <1>8, <3>4, <3>5
    <3>7. QED
      BY <1>6, <3>4, <3>5, <3>6
  <2>5. QED
    BY <1>1, <1>3, <2>1, <2>2, <2>3, <2>4 DEF CascadePhase
<1>15. QED
  BY <1>3, <1>9, <1>10, <1>11, <1>12, <1>13, <1>14 DEF Apply, q

\* A row on the channel of the request before and after it publishes v for its work.
Published(rows, chans, new, newChans, o, v) ==
    LET n == NameOf[o.work.body] IN
    /\ newChans[o.channel] = [chans[o.channel] EXCEPT ![n] = v]
    /\ new[n][v].body = o.work.body /\ new[n][v].pins = o.work.pins
    /\ \A m \in Name : chans[o.channel][m] # 0 =>
          new[m][chans[o.channel][m]] = rows[m][chans[o.channel][m]]

RowsTyped(rows, chans, o) ==
    /\ chans[o.channel] \in [Name -> Nat]
    /\ \A m \in Name : chans[o.channel][m] # 0 =>
          LET row == OnChannel(rows, chans, o, m) IN
          row.pins \in SUBSET Pin /\ FromRefs(row.body, row.pins)

\* The request goes on with its work published.
LEMMA PublishApply ==
    ASSUME NEW rows, NEW chans, NEW new, NEW newChans, NEW o \in Op, o.pc = "save",
           NEW v \in Nat \ {0}, Apply(rows, chans, o), RowsTyped(rows, chans, o),
           Published(rows, chans, new, newChans, o, v)
    PROVE  /\ Apply(new, newChans, Settled(o, v))
           /\ Settled(o, v).pc \in {"ensure", "next", "find"}
<1> DEFINE n == NameOf[o.work.body]
           q == Settled(o, v)
           C == chans[o.channel]
           D == newChans[o.channel]
           V == o.versions
           W == [V EXCEPT ![n] = v]
<1>0. /\ n \in Name /\ o.work.body \in Body /\ V \in [Name -> Nat] /\ o.batch \in SUBSET Body
      /\ o.todo \in SUBSET Body /\ o.work.pins \in SUBSET Pin /\ C \in [Name -> Nat]
      /\ \A b \in Body : NameOf[b] \in Name
  BY RegistryConstants DEF Op, Work, RowsTyped
<1>1. /\ Noted(chans, o) /\ BatchProgress(rows, chans, o) /\ Updated(rows, chans, o)
      /\ WorkFits(chans, o)
      /\ o.phase = "batch" => BatchPhase(rows, chans, o)
      /\ o.phase = "cascade" => CascadePhase(rows, chans, o)
      /\ o.phase = "batch" \/ o.phase = "cascade"
  BY DEF Apply, Op
<1>2. /\ q.phase = o.phase /\ q.auto = o.auto /\ q.channel = o.channel /\ q.batch = o.batch
      /\ q.todo = o.todo /\ q.versions = W
      /\ o.phase = "batch" => q.pc = "ensure" /\ q.work = o.work
      /\ o.phase = "cascade" => q.pc = IF o.todo # {} THEN "next" ELSE "find"
  <2> DEFINE p == [o EXCEPT !.versions[n] = v]
  <2>1. /\ p \in Op /\ p.phase = o.phase /\ p.auto = o.auto /\ p.channel = o.channel
        /\ p.batch = o.batch /\ p.todo = o.todo /\ p.versions = W /\ p.work = o.work
    BY <1>0 DEF Op
  <2>2. q = IF o.phase = "batch" THEN [p EXCEPT !.pc = "ensure"] ELSE Advance(p)
    BY DEF Settled
  <2> HIDE DEF p, q, W
  <2>3. CASE o.phase = "batch"
    BY <2>1, <2>2, <2>3 DEF Op
  <2>4. CASE o.phase = "cascade"
    <3>1. o.auto
      BY <1>1, <2>4 DEF CascadePhase
    <3>2. q = Advance(p)
      BY <2>2, <2>4
    <3>3. /\ q.phase = p.phase /\ q.auto = p.auto /\ q.channel = p.channel /\ q.batch = p.batch
          /\ q.todo = p.todo /\ q.versions = p.versions
          /\ q.pc = IF p.todo # {} THEN "next" ELSE IF p.auto THEN "find" ELSE "done"
      BY <2>1, <3>2 DEF Advance, Op
    <3>4. QED
      BY <2>1, <2>4, <3>1, <3>3
  <2>5. QED
    BY <1>1, <2>3, <2>4
<1>3. /\ V[n] = 0 /\ FromRefs(o.work.body, o.work.pins)
      /\ \A d \in o.work.pins : d.asked = 0 => d.version = C[d.name]
  BY <1>1 DEF WorkFits
<1>4. /\ W[n] = v /\ D[n] = v /\ \A m \in Name : m # n => W[m] = V[m] /\ D[m] = C[m]
      /\ \A m \in Name : V[m] # 0 => W[m] = V[m] /\ W[m] # 0 /\ m # n
  BY <1>0, <1>3 DEF Published
<1>5. \A m \in Name : V[m] # 0 => C[m] = V[m]
  BY <1>1 DEF Noted
\* The rows on the channel: the new one, and the others as they were.
<1>6. /\ OnChannel(new, newChans, q, n).body = o.work.body
      /\ OnChannel(new, newChans, q, n).pins = o.work.pins
      /\ \A m \in Name : m # n /\ C[m] # 0 =>
            OnChannel(new, newChans, q, m) = OnChannel(rows, chans, o, m)
  <2> HIDE DEF q, W, V
  <2>1. \A m \in Name : OnChannel(new, newChans, q, m) = new[m][D[m]]
    BY <1>2 DEF OnChannel
  <2>2. \A m \in Name : OnChannel(rows, chans, o, m) = rows[m][C[m]]
    BY DEF OnChannel
  <2>3. /\ new[n][v].body = o.work.body /\ new[n][v].pins = o.work.pins
        /\ \A m \in Name : C[m] # 0 => new[m][C[m]] = rows[m][C[m]]
    BY DEF Published
  <2> HIDE DEF C, D
  <2>4. QED
    BY <1>0, <1>4, <2>1, <2>2, <2>3
<1>7. \A m \in Name : C[m] # 0 =>
         /\ OnChannel(rows, chans, o, m).pins \in SUBSET Pin
         /\ FromRefs(OnChannel(rows, chans, o, m).body, OnChannel(rows, chans, o, m).pins)
  BY DEF RowsTyped
<1>8. \A d \in Pin : d.name \in Name
  BY DEF Pin
<1> HIDE DEF q, W, V, C, D
<1>9. Noted(newChans, q)
  BY <1>2, <1>4, <1>5 DEF Noted, D
<1>10. WorkFits(newChans, q)
  BY <1>1, <1>2 DEF WorkFits
<1>11. BatchProgress(new, newChans, q)
  <2>1. /\ \A b, d \in o.batch : NameOf[b] = NameOf[d] => b = d
        /\ o.phase = "cascade" => \A b \in o.batch : V[NameOf[b]] # 0
        /\ \A b \in o.batch : V[NameOf[b]] # 0 => OnChannel(rows, chans, o, NameOf[b]).body = b
    BY <1>1 DEF BatchProgress, V
  <2>2. q.pc \in {"find", "done"} \/ q.phase = "cascade" => \A b \in o.batch : W[NameOf[b]] # 0
    BY <1>0, <1>1, <1>2, <1>4, <2>1
  <2>3. ASSUME NEW b \in o.batch, W[NameOf[b]] # 0
        PROVE  OnChannel(new, newChans, q, NameOf[b]).body = b
    <3>1. NameOf[b] \in Name
      BY <1>0
    <3>2. CASE NameOf[b] = n
      <4>1. o.phase = "batch"
        BY <1>1, <1>3, <2>1, <3>2
      <4>2. o.work.body \in o.batch
        BY <1>1, <4>1 DEF BatchPhase
      <4>3. QED
        BY <1>6, <2>1, <3>2, <4>2
    <3>3. CASE NameOf[b] # n
      <4>1. V[NameOf[b]] # 0 /\ C[NameOf[b]] # 0
        BY <1>4, <1>5, <2>3, <3>1, <3>3
      <4>2. QED
        BY <1>6, <2>1, <3>1, <3>3, <4>1
    <3>4. QED
      BY <3>2, <3>3
  <2>4. QED
    BY <1>2, <2>1, <2>2, <2>3 DEF BatchProgress
<1>12. Updated(new, newChans, q)
  <2>1. SUFFICES ASSUME NEW m \in Name \ Named(o.batch), W[m] # 0
                 PROVE  LET pins == OnChannel(new, newChans, q, m).pins IN
                        /\ \E e \in pins : W[e.name] # 0
                        /\ \A d \in pins : d.asked = 0 =>
                              \/ W[d.name] \in {0, d.version}
                              \/ \E e \in pins : e.name # d.name /\ W[e.name] # 0
    BY <1>2 DEF Updated
  <2>2. o.phase = "cascade"
    <3>1. SUFFICES ASSUME o.phase = "batch" PROVE FALSE
      BY <1>1
    <3>2. BatchPhase(rows, chans, o)
      BY <1>1, <3>1
    <3>3. o.work.body \in o.batch
      BY <3>2 DEF BatchPhase
    <3>4. m # n
      BY <3>3 DEF Named
    <3>5. V[m] = 0
      BY <3>2 DEF BatchPhase, V
    <3>6. QED
      BY <1>4, <2>1, <3>4, <3>5
  <2>3. CASE m = n
    <3>1. PICK e \in o.work.pins : V[e.name] # 0
      BY <1>1, <2>2 DEF CascadePhase, V
    <3>2. W[e.name] # 0
      BY <1>0, <1>4, <1>8, <3>1
    <3>3. ASSUME NEW d \in o.work.pins, d.asked = 0
          PROVE  W[d.name] \in {0, d.version}
      <4>1. d.name \in Name /\ d.name # n /\ d.version = C[d.name]
        BY <1>0, <1>3, <1>8, <3>3 DEF FromRefs
      <4>2. QED
        BY <1>4, <1>5, <4>1
    <3>4. QED
      BY <1>6, <2>3, <3>1, <3>2, <3>3
  <2>4. CASE m # n
    <3> DEFINE pins == OnChannel(rows, chans, o, m).pins
    <3>1. V[m] # 0 /\ C[m] # 0
      BY <1>4, <1>5, <2>1, <2>4
    <3>2. OnChannel(new, newChans, q, m).pins = pins /\ pins \in SUBSET Pin
      BY <1>6, <1>7, <2>4, <3>1
    <3>3. /\ \E e \in pins : V[e.name] # 0
          /\ \A d \in pins : d.asked = 0 =>
                \/ V[d.name] \in {0, d.version}
                \/ \E e \in pins : e.name # d.name /\ V[e.name] # 0
      BY <1>1, <3>1 DEF Updated, V
    <3> HIDE DEF pins
    <3>4. PICK x \in pins : V[x.name] # 0
      BY <3>3
    <3>5. W[x.name] # 0 /\ x.name # n
      BY <1>4, <1>8, <3>2, <3>4
    <3>6. ASSUME NEW d \in pins, d.asked = 0
          PROVE  \/ W[d.name] \in {0, d.version}
                 \/ \E e \in pins : e.name # d.name /\ W[e.name] # 0
      <4>1. d.name \in Name
        BY <1>8, <3>2
      <4>2. CASE d.name = n
        BY <3>5, <4>2
      <4>3. CASE d.name # n /\ V[d.name] \in {0, d.version}
        BY <1>4, <4>1, <4>3
      <4>4. ASSUME NEW e \in pins, e.name # d.name, V[e.name] # 0
            PROVE  W[e.name] # 0
        BY <1>4, <1>8, <3>2, <4>4
      <4>5. QED
        BY <3>3, <3>6, <4>2, <4>3, <4>4
    <3>7. QED
      BY <3>2, <3>4, <3>5, <3>6
  <2>5. QED
    BY <2>3, <2>4
<1>13. ASSUME o.phase = "batch" PROVE BatchPhase(new, newChans, q)
  <2>1. BatchPhase(rows, chans, o) /\ q.pc = "ensure" /\ q.work = o.work
    BY <1>1, <1>2, <1>13
  <2>2. /\ o.todo \subseteq o.batch /\ o.work.body \in o.batch \ o.todo
        /\ \A b, d \in o.batch : NameOf[b] = NameOf[d] => b = d
    BY <1>1, <2>1 DEF BatchPhase, BatchProgress
  <2>3. ASSUME NEW b \in o.batch PROVE Handled(q, b) <=> W[NameOf[b]] # 0
    <3>1. Handled(o, b) <=> V[NameOf[b]] # 0
      BY <2>1 DEF BatchPhase, V
    <3>2. Handled(q, b) <=> b \notin o.todo
      BY <1>2, <2>1 DEF Handled
    <3>3. Handled(o, b) <=> b \notin o.todo /\ b # o.work.body
      BY DEF Handled
    <3>4. CASE b = o.work.body
      BY <1>4, <2>2, <3>2, <3>4
    <3>5. CASE b # o.work.body
      <4>1. NameOf[b] # n /\ NameOf[b] \in Name
        BY <1>0, <2>2, <3>5
      <4>2. QED
        BY <1>4, <3>1, <3>2, <3>3, <3>5, <4>1
    <3>6. QED
      BY <3>4, <3>5
  <2>4. \A m \in Name \ Named(o.batch) : W[m] = 0
    <3>1. n \in Named(o.batch)
      BY <2>2 DEF Named
    <3>2. QED
      BY <1>4, <2>1, <3>1 DEF BatchPhase, V
  <2>5. \A b \in o.batch \ o.todo : \A r \in Refs[b] :
           r.name \in Named(o.batch) \ {NameOf[b]} => V[r.name] # 0
    BY <2>1 DEF BatchPhase, V
  <2>6. \A b \in o.batch \ o.todo : \A r \in Refs[b] :
           r.name \in Named(o.batch) \ {NameOf[b]} => W[r.name] # 0
    BY <1>0, <1>4, <2>5 DEF Named
  <2>7. ASSUME NEW b \in o.batch, W[NameOf[b]] # 0,
               NEW d \in OnChannel(new, newChans, q, NameOf[b]).pins, d.asked = 0
        PROVE  d.version = D[d.name]
    <3>1. CASE b = o.work.body
      <4>1. d \in o.work.pins
        BY <1>6, <2>7, <3>1
      <4>2. d.name \in Name /\ d.name # n /\ d.version = C[d.name]
        BY <1>0, <1>3, <1>8, <2>7, <4>1 DEF FromRefs
      <4>3. QED
        BY <1>4, <4>2
    <3>2. CASE b # o.work.body
      <4> DEFINE m == NameOf[b]
                 row == OnChannel(rows, chans, o, m)
      <4>1. m # n /\ m \in Name /\ V[m] # 0 /\ C[m] # 0
        BY <1>0, <1>4, <1>5, <2>2, <2>7, <3>2
      <4>2. d \in row.pins /\ d \in Pin /\ FromRefs(row.body, row.pins) /\ d.name \in Name
        BY <1>6, <1>7, <1>8, <2>7, <4>1
      <4>3. row.body = b
        BY <1>1, <4>1 DEF BatchProgress, V
      <4>4. d.version = C[d.name]
        BY <2>1, <2>7, <4>1, <4>2 DEF BatchPhase, V, C
      <4> HIDE DEF row
      <4>5. d.name # n
        <5>1. SUFFICES ASSUME d.name = n PROVE FALSE
          OBVIOUS
        <5>2. PICK r \in Refs[b] : r.name = n
          BY <4>2, <4>3, <5>1 DEF FromRefs
        <5>3. Handled(o, b)
          BY <2>1, <4>1 DEF BatchPhase, V
        <5>4. b \in o.batch \ o.todo
          BY <5>3 DEF Handled
        <5>5. r.name \in Named(o.batch) \ {NameOf[b]}
          BY <2>2, <4>1, <5>2 DEF Named
        <5>6. V[n] # 0
          BY <2>5, <5>2, <5>4, <5>5
        <5>7. QED
          BY <1>3, <5>6
      <4>6. QED
        BY <1>4, <4>2, <4>4, <4>5
    <3>3. QED
      BY <3>1, <3>2
  <2>8. QED
    BY <1>2, <2>1, <2>2, <2>3, <2>4, <2>6, <2>7 DEF BatchPhase, D
<1>14. ASSUME o.phase = "cascade" PROVE CascadePhase(new, newChans, q)
  <2>1. CascadePhase(rows, chans, o) /\ q.pc = IF o.todo # {} THEN "next" ELSE "find"
    BY <1>1, <1>2, <1>14
  <2>2. ASSUME NEW b \in o.todo PROVE Stale(new, newChans, q, b)
    <3> DEFINE m == NameOf[b]
    <3>1. m # n /\ m \in Name
      BY <1>0, <2>1 DEF CascadePhase, Named
    <3>2. /\ V[m] = 0 /\ C[m] # 0 /\ OnChannel(rows, chans, o, m).body = b
          /\ \E d \in OnChannel(rows, chans, o, m).pins : V[d.name] # 0
      BY <2>1 DEF CascadePhase, Stale, V, C
    <3>3. PICK d \in OnChannel(rows, chans, o, m).pins : V[d.name] # 0
      BY <3>2
    <3>4. W[d.name] # 0
      BY <1>4, <1>7, <1>8, <3>1, <3>2, <3>3
    <3>5. OnChannel(new, newChans, q, m) = OnChannel(rows, chans, o, m)
      BY <1>6, <3>1, <3>2
    <3>6. W[m] = 0 /\ D[m] # 0
      BY <1>4, <3>1, <3>2
    <3>7. QED
      BY <1>2, <3>2, <3>3, <3>4, <3>5, <3>6 DEF Stale, D
  <2>3. /\ q.auto /\ q.pc \in {"next", "find"} /\ (q.pc = "find" => o.todo = {})
        /\ \A b, d \in o.todo : NameOf[b] = NameOf[d] => b = d
    BY <1>2, <2>1 DEF CascadePhase
  <2>4. QED
    BY <1>2, <2>2, <2>3 DEF CascadePhase
<1>15. q.pc \in {"ensure", "next", "find"} /\ (q.pc = "find" => q.auto) /\ q.pc # "done"
  BY <1>1, <1>2 DEF CascadePhase
<1>16. Apply(new, newChans, q)
  BY <1>2, <1>9, <1>10, <1>11, <1>12, <1>13, <1>14, <1>15 DEF Apply
<1>17. QED
  BY <1>15, <1>16 DEF q

\* The search for parents ends the request, or begins a round with parents to update.
LEMMA FindApply ==
    ASSUME TypeOK, RegistryInv, NEW c \in Client, Apply(defs, channel, op[c]), FindParents(c)
    PROVE  op'[c].pc \in {"next", "done"} /\ Apply(defs, channel, op'[c])
<1> DEFINE o == op[c]
           q == op'[c]
           C == channel[o.channel]
           stale == {p \in StaleParents(o.channel, o.versions) : o.versions[p] = 0}
           todo == {defs[p][C[p]].body : p \in stale}
<1>0. o \in Op /\ o.channel \in Channel /\ o.versions \in [Name -> Nat] /\ C \in [Name -> Nat]
  BY DEF TypeOK, Op
<1>1. /\ o.pc = "find" /\ o.auto
      /\ q = IF stale = {} THEN [o EXCEPT !.pc = "done"]
             ELSE [o EXCEPT !.pc = "next", !.phase = "cascade", !.todo = todo]
  BY DEF FindParents, Goto, TypeOK, Apply
<1>2. \A p \in stale : /\ p \in Name /\ C[p] # 0 /\ o.versions[p] = 0
                       /\ \E d \in defs[p][C[p]].pins : o.versions[d.name] \notin {0, d.version}
  BY DEF StaleParents
<1>3. \A p \in Name \ stale : o.versions[p] = 0 /\ C[p] # 0 =>
         \A d \in defs[p][C[p]].pins : o.versions[d.name] \in {0, d.version}
  BY DEF StaleParents
<1>4. \A p \in stale : NameOf[defs[p][C[p]].body] = p
  <2>1. SUFFICES ASSUME NEW p \in stale PROVE NameOf[defs[p][C[p]].body] = p
    OBVIOUS
  <2>2. p \in Name /\ C[p] \in 1 .. Size[p]
    <3>1. C[p] \in 0 .. Size[p]
      BY <1>0, <1>2 DEF RegistryInv, ChannelsOK
    <3>2. QED
      BY <1>0, <1>2, <3>1
  <2>3. QED
    BY <2>2 DEF RegistryInv, RowsOK, RowOK
<1>5. q.versions = o.versions /\ q.batch = o.batch /\ q.channel = o.channel /\ q.auto = o.auto
  BY <1>0, <1>1 DEF Op
<1>6. /\ stale = {} => q.pc = "done" /\ q.phase = o.phase /\ q.todo = o.todo
      /\ stale # {} => q.pc = "next" /\ q.phase = "cascade" /\ q.todo = todo
  <2> HIDE DEF q, stale, todo
  <2>1. CASE stale = {}
    BY <1>0, <1>1, <2>1 DEF Op
  <2>2. CASE stale # {}
    BY <1>0, <1>1, <2>2 DEF Op
  <2>3. QED
    BY <2>1, <2>2
<1> HIDE DEF q, stale
<1>7. /\ Noted(channel, o) /\ BatchProgress(defs, channel, o) /\ Updated(defs, channel, o)
      /\ o.phase = "batch" => BatchPhase(defs, channel, o)
      /\ o.phase = "cascade" => CascadePhase(defs, channel, o)
  BY DEF Apply
<1>8. Noted(channel, q) /\ Updated(defs, channel, q)
  BY <1>5, <1>7 DEF Noted, Updated, OnChannel
<1>9. BatchProgress(defs, channel, q)
  BY <1>1, <1>5, <1>7 DEF BatchProgress, OnChannel
<1>10. q.pc \in {"next", "done"}
  BY <1>6
<1>11. WorkFits(channel, q)
  BY <1>10 DEF WorkFits
<1>12. CASE stale = {}
  <2>1. q.pc = "done" /\ q.phase = o.phase /\ q.todo = o.todo
    BY <1>6, <1>12
  <2>2. \A b \in o.batch : Handled(q, b) <=> Handled(o, b)
    BY <1>1, <2>1 DEF Handled
  <2>3. ASSUME q.phase = "batch" PROVE BatchPhase(defs, channel, q)
    <3>1. BatchPhase(defs, channel, o)
      BY <1>7, <2>1, <2>3
    <3>2. o.todo = {}
      BY <1>1, <3>1 DEF BatchPhase
    <3> HIDE DEF o, C
    <3>3. QED
      BY <1>5, <2>1, <2>2, <3>1, <3>2 DEF BatchPhase, OnChannel
  <2>4. q.phase = "cascade" => CascadePhase(defs, channel, q)
    BY <1>1, <1>5, <1>7, <2>1 DEF CascadePhase, Stale, OnChannel
  <2>5. NoneStale(defs, channel, q)
    BY <1>3, <1>5, <1>12 DEF NoneStale, OnChannel
  <2>6. QED
    BY <1>8, <1>9, <1>11, <2>1, <2>3, <2>4, <2>5 DEF Apply, q
<1>13. CASE stale # {}
  <2>1. q.pc = "next" /\ q.phase = "cascade" /\ q.todo = todo
    BY <1>6, <1>13
  <2>2. \A b, d \in todo : NameOf[b] = NameOf[d] => b = d
    BY <1>4
  <2>3. ASSUME NEW b \in todo PROVE Stale(defs, channel, q, b)
    <3>1. PICK p \in stale : b = defs[p][C[p]].body
      OBVIOUS
    <3>2. NameOf[b] = p
      BY <1>4, <3>1
    <3>3. /\ p \in Name /\ C[p] # 0 /\ o.versions[p] = 0
          /\ \E d \in defs[p][C[p]].pins : o.versions[d.name] # 0
      BY <1>2
    <3>4. QED
      BY <1>5, <3>1, <3>2, <3>3 DEF Stale, OnChannel
  <2> HIDE DEF todo
  <2>4. CascadePhase(defs, channel, q)
    BY <1>1, <1>5, <2>1, <2>2, <2>3 DEF CascadePhase
  <2>5. QED
    BY <1>8, <1>9, <1>11, <2>1, <2>4 DEF Apply, q
<1>14. QED
  BY <1>12, <1>13

\* One pointer of a promotion is copied.
LEMMA PromoteApply ==
    ASSUME TypeOK, NEW c \in Client, Promote(defs, channel, op[c]), NEW b \in Body, PromoteOne(c, b)
    PROVE  op'[c].pc = "promote" /\ Promote(defs, channel', op'[c])
<1> DEFINE o == op[c]
           q == op'[c]
           n == NameOf[b]
<1>0. /\ o \in Op /\ n \in Name /\ o.channel \in Channel /\ o.from \in Channel
      /\ o.versions \in [Name -> Nat]
  BY RegistryConstants DEF TypeOK, Op
<1>1. /\ o.pc = "promote" /\ channel' = [channel EXCEPT ![o.channel][n] = o.versions[n]]
      /\ q = [o EXCEPT !.todo = @ \ {b}]
  BY DEF PromoteOne, UpsertChannel, Goto, TypeOK
<1>2. /\ q.pc = "promote" /\ q.from = o.from /\ q.channel = o.channel
      /\ q.versions = o.versions /\ q.todo = o.todo \ {b}
  BY <1>0, <1>1 DEF Op
<1> HIDE DEF q
<1>3. o.from # o.channel
  BY DEF Promote
<1>4. channel'[o.from] = channel[o.from]
  BY <1>0, <1>1, <1>3 DEF TypeOK
<1>5. \A m \in Name : channel'[o.channel][m] =
                         IF m = n THEN o.versions[n] ELSE channel[o.channel][m]
  BY <1>0, <1>1 DEF TypeOK
<1>6. ASSUME NEW m \in Name, o.versions[m] # 0
      PROVE  channel'[o.channel][m] = o.versions[m] \/ m \in Named(q.todo)
  <2>1. channel[o.channel][m] = o.versions[m] \/ m \in Named(o.todo)
    BY <1>6 DEF Promote
  <2>2. m # n /\ m \in Named(o.todo) => m \in Named(q.todo)
    BY <1>2 DEF Named
  <2>3. QED
    BY <1>5, <2>1, <2>2
<1>7. Promote(defs, channel', q)
  BY <1>2, <1>4, <1>6 DEF Promote
<1>8. QED
  BY <1>2, <1>7 DEF q

\* What a promotion reads is closed under references.
LEMMA PromoteStarts ==
    ASSUME TypeOK, RegistryInv, NEW c \in Client, NEW from \in Channel, NEW to \in Channel,
           NEW scope \in SUBSET Name, PromoteChannel(c, from, to, scope),
           \A n \in scope : channel[from][n] # 0,
           \A n \in scope : \A r \in Refs[defs[n][channel[from][n]].body] :
               channel[from][r.name] # 0 => r.name \in scope
    PROVE  op'[c].pc = "promote" /\ Promote(defs, channel, op'[c])
<1> DEFINE C == channel[from]
           V == [n \in Name |-> IF n \in scope THEN C[n] ELSE 0]
           todo == {defs[n][C[n]].body : n \in scope}
           q == op'[c]
<1>1. from # to /\ q = [Idle EXCEPT !.pc = "promote", !.channel = to, !.from = from,
                                    !.versions = V, !.todo = todo]
  BY DEF PromoteChannel, TypeOK
<1>2. q.pc = "promote" /\ q.from = from /\ q.channel = to /\ q.versions = V /\ q.todo = todo
  BY <1>1 DEF Idle
<1> HIDE DEF q
<1>3. ASSUME NEW n \in scope
      PROVE  /\ n \in Named(todo)
             /\ \A r \in Refs[defs[n][C[n]].body] : r.name \in Name
  <2>1. C[n] \in 1 .. Size[n]
    <3>1. C[n] \in 0 .. Size[n] /\ C[n] # 0
      BY DEF RegistryInv, ChannelsOK
    <3>2. C[n] \in Nat
      BY DEF TypeOK
    <3>3. QED
      BY <3>1, <3>2
  <2>2. NameOf[defs[n][C[n]].body] = n
    BY <2>1 DEF RegistryInv, RowsOK, RowOK
  <2>3. defs[n][C[n]].body \in Body
    <3>1. defs[n] \in Seq(Row) /\ C[n] \in 1 .. Len(defs[n])
      BY <2>1 DEF TypeOK, Size
    <3>2. defs[n][C[n]] \in Row
      BY <3>1, ElementOfSeq
    <3>3. QED
      BY <3>2 DEF Row
  <2>4. n \in Named(todo)
    BY <2>2 DEF Named
  <2>5. QED
    BY <2>3, <2>4, RegistryConstants
<1>4. \A n \in Name : V[n] # 0 => n \in scope /\ V[n] = C[n]
  OBVIOUS
<1>5. \A n \in Name : n \in scope => V[n] # 0
  OBVIOUS
<1> HIDE DEF V, todo
<1>6. ASSUME NEW n \in Name, V[n] # 0
      PROVE  /\ C[n] = V[n] /\ n \in Named(todo)
             /\ \A r \in Refs[defs[n][V[n]].body] : C[r.name] # 0 => V[r.name] # 0
  BY <1>3, <1>4, <1>5, <1>6
<1>7. Promote(defs, channel, q)
  BY <1>1, <1>2, <1>6 DEF Promote
<1>8. QED
  BY <1>2, <1>7 DEF q

\* A batch as it is submitted.
LEMMA ApplyStarts ==
    ASSUME TypeOK, NEW c \in Client, NEW batch \in SUBSET Body, NEW ch \in Channel,
           NEW auto \in BOOLEAN, ApplyBatch(c, batch, ch, auto)
    PROVE  op'[c].pc = "next" /\ Apply(defs, channel, op'[c])
<1> DEFINE q == op'[c]
<1>1. /\ q = [Idle EXCEPT !.pc = "next", !.auto = auto, !.channel = ch,
                          !.batch = batch, !.todo = batch]
      /\ \A b, d \in batch : NameOf[b] = NameOf[d] => b = d
  BY DEF ApplyBatch, TypeOK
<1>2. /\ q.pc = "next" /\ q.phase = "batch" /\ q.channel = ch /\ q.batch = batch
      /\ q.todo = batch /\ q.versions = [n \in Name |-> 0]
  BY <1>1 DEF Idle
<1> HIDE DEF q
<1>3. /\ \A n \in Name : q.versions[n] = 0
      /\ \A b \in batch : q.versions[NameOf[b]] = 0 /\ ~Handled(q, b)
  BY <1>2, RegistryConstants DEF Handled
<1>4. Noted(channel, q) /\ WorkFits(channel, q) /\ Updated(defs, channel, q)
  BY <1>2, <1>3 DEF Noted, WorkFits, Updated
<1>5. BatchProgress(defs, channel, q)
  BY <1>1, <1>2, <1>3 DEF BatchProgress
<1>6. BatchPhase(defs, channel, q)
  BY <1>2, <1>3 DEF BatchPhase
<1>7. Apply(defs, channel, q)
  BY <1>2, <1>4, <1>5, <1>6 DEF Apply
<1>8. QED
  BY <1>2, <1>7 DEF q

\* The row of a version that was applied with some content has that content.
LEMMA HashContent ==
    ASSUME HashFits, NEW n \in Name, NEW v \in Saved(n), NEW b, NEW pins,
           defs[n][v].hash = contentHash(b, pins)
    PROVE  defs[n][v].body = b /\ defs[n][v].pins = pins
<1>1. \A a, x : contentHash(a, x) # NoHash
  BY DEF contentHash, NoHash
<1>2. defs[n][v].hash = contentHash(defs[n][v].body, defs[n][v].pins)
  BY <1>1 DEF HashFits
<1>3. contentHash(defs[n][v].body, defs[n][v].pins) = contentHash(b, pins)
  BY <1>2
<1>4. \A a, d, x, y : contentHash(a, x) = contentHash(d, y) => a = d /\ x = y
  BY DEF contentHash
<1>5. QED
  BY <1>3, <1>4

\* A save adds a row whose pins stand for its child entries.
LEMMA SaveFromRefs ==
    ASSUME TypeOK, RowsFromRefs(defs), NEW w \in Work,
           NEW hash \in {NoHash} \cup (Body \X SUBSET Pin),
           w.version = Len(defs[NameOf[w.body]]) + 1, InsertDefinition(w, hash),
           FromRefs(w.body, w.pins)
    PROVE  RowsFromRefs(defs')
<1>1. SUFFICES ASSUME NEW m \in Name, NEW v \in Saved(m)'
               PROVE  FromRefs(defs'[m][v].body, defs'[m][v].pins)
  BY DEF RowsFromRefs, Saved
<1>2. CASE v \in Saved(m)
  <2>1. defs'[m][v] = defs[m][v]
    BY <1>2, SaveAppends
  <2>2. QED
    BY <1>2, <2>1 DEF RowsFromRefs, Saved
<1>3. CASE m = NameOf[w.body] /\ v = w.version
  <2>1. defs'[m][v] = [body |-> w.body, pins |-> w.pins, hash |-> hash]
    BY <1>3, SaveAppends
  <2>2. defs'[m][v].body = w.body /\ defs'[m][v].pins = w.pins
    BY <2>1
  <2>3. QED
    BY <2>2
<1>4. QED
  BY <1>2, <1>3, SaveAppends

\* The rows that channels point to are well-typed, and a save keeps them.
LEMMA ChannelRows ==
    ASSUME TypeOK, RegistryInv, RowsFromRefs(defs), NEW c \in Client
    PROVE  /\ RowsTyped(defs, channel, op[c])
           /\ \A m \in Name : channel[op[c].channel][m] # 0 => channel[op[c].channel][m] \in Saved(m)
<1> DEFINE ch == op[c].channel
<1>1. ch \in Channel /\ channel[ch] \in [Name -> Nat]
  BY DEF TypeOK, Op
<1>2. ASSUME NEW m \in Name, channel[ch][m] # 0 PROVE channel[ch][m] \in Saved(m)
  <2>1. channel[ch][m] \in 0 .. Size[m] /\ channel[ch][m] \in Nat
    BY <1>1 DEF RegistryInv, ChannelsOK
  <2>2. QED
    BY <1>2, <2>1 DEF Size, Saved
<1>3. ASSUME NEW m \in Name, channel[ch][m] # 0
      PROVE  LET row == defs[m][channel[ch][m]] IN
             row.pins \in SUBSET Pin /\ FromRefs(row.body, row.pins)
  <2>1. channel[ch][m] \in 1 .. Len(defs[m]) /\ defs[m] \in Seq(Row)
    BY <1>2, <1>3 DEF Saved, TypeOK
  <2>2. defs[m][channel[ch][m]] \in Row
    BY <2>1, ElementOfSeq
  <2>3. QED
    BY <2>1, <2>2 DEF Row, RowsFromRefs
<1>4. QED
  BY <1>1, <1>2, <1>3 DEF RowsTyped, OnChannel

\* A scope that a promotion reads is closed under references on the source channel.
LEMMA SubtreeClosed ==
    ASSUME NEW from, NEW root \in Name, NEW n \in subtree(from, root),
           NEW r \in Refs[defs[n][channel[from][n]].body],
           r.name \in Name, channel[from][r.name] # 0
    PROVE  r.name \in subtree(from, root)
<1> DEFINE on == {m \in Name : channel[from][m] # 0}
           closed(S) == \A m \in S : \A x \in Refs[defs[m][channel[from][m]].body] :
                           x.name \in on => x.name \in S
<1>1. subtree(from, root) =
         {m \in on : root \in on /\ \A S \in SUBSET on : root \in S /\ closed(S) => m \in S}
  BY Zenon DEF subtree
<1>2. r.name \in on
  OBVIOUS
<1>3. ASSUME NEW S \in SUBSET on, root \in S, closed(S) PROVE r.name \in S
  <2>1. n \in S
    BY <1>1, <1>3
  <2>2. QED
    BY <1>2, <1>3, <2>1
<1>4. root \in on
  BY <1>1
<1> HIDE DEF on, closed
<1>5. QED
  BY <1>1, <1>2, <1>3, <1>4

\* Every step of the only request keeps what it knows of its channel.
LEMMA NextPublish ==
    ASSUME OneClient, TypeOK, RegistryInv, OneInv, PublishInv, NEW c \in Client,
           Start(c) \/ Step(c) \/ Abort(c)
    PROVE  PublishInv'
<1> DEFINE o == op[c]
           q == op'[c]
           n == NameOf[o.work.body]
<1>0. /\ o \in Op /\ o.work \in Work /\ n \in Name /\ o.work.pins \in SUBSET Pin
      /\ o.work.body \in Body /\ o.channel \in Channel /\ o.versions \in [Name -> Nat]
  BY RegistryConstants DEF TypeOK, Op, Work
<1>00. RowsFromRefs(defs) /\ OpPublish(defs, channel, o)
  BY DEF PublishInv
<1>a. ASSUME RowsFromRefs(defs'), OpPublish(defs', channel', q) PROVE PublishInv'
  <2>1. \A d \in Client : d = c
    BY DEF OneClient
  <2>2. \A d \in Client : OpPublish(defs', channel', op'[d])
    BY <1>a, <2>1
  <2>3. QED
    BY <1>a, <2>2 DEF PublishInv
<1>b. ASSUME q.pc \in {"next", "save", "ensure", "create", "find", "done"},
             Apply(defs', channel', q)
      PROVE  OpPublish(defs', channel', q)
  BY <1>b DEF OpPublish
<1>c. ASSUME q = Idle \/ q.pc = "put" \/ q.pc = "idle" PROVE OpPublish(defs', channel', q)
  BY <1>c DEF OpPublish, Applying, Idle
<1>d. ASSUME q.pc = "promote", Promote(defs', channel', q) PROVE OpPublish(defs', channel', q)
  BY <1>d DEF OpPublish, Applying
<1>e. ASSUME o.pc \in {"next", "save", "ensure", "create", "find", "done"}
      PROVE  Apply(defs, channel, o)
  BY <1>00, <1>e DEF OpPublish, Applying
<1>f. ASSUME NEW v \in Nat \ {0}, o.pc = "save", RowsFromRefs(defs'), q = Settled(o, v),
             Published(defs, channel, defs', channel', o, v)
      PROVE  PublishInv'
  <2>1. Apply(defs, channel, o) /\ RowsTyped(defs, channel, o)
    BY <1>00, <1>e, <1>f, ChannelRows
  <2>2. Apply(defs', channel', Settled(o, v)) /\ Settled(o, v).pc \in {"ensure", "next", "find"}
    BY <1>0, <1>f, <2>1, PublishApply
  <2>3. QED
    BY <1>a, <1>b, <1>f, <2>2
<1>1. ASSUME NEW b \in Body, ResolveDef(c, b) PROVE PublishInv'
  <2>1. o.pc = "next" /\ UNCHANGED <<defs, channel>>
    BY <1>1 DEF ResolveDef
  <2>2. q.pc = "save" /\ Apply(defs, channel, q)
    BY <1>00, <1>1, <1>e, <2>1, ResolveApply
  <2>3. QED
    BY <1>00, <1>a, <1>b, <2>1, <2>2
<1>2. ASSUME NEW v \in 1 .. MaxVersion, ReuseVersion(c, v) PROVE PublishInv'
  <2>1. /\ o.pc = "save" /\ UNCHANGED defs /\ q = Settled(o, v) /\ v \in Saved(n)
        /\ defs[n][v].hash = contentHash(o.work.body, o.work.pins)
        /\ channel' = [channel EXCEPT ![o.channel][n] = v]
    BY <1>0, <1>2 DEF ReuseVersion, Goto, FindVersionByHash, VersionsByHash, UpsertChannel, TypeOK
  <2>2. defs[n][v].body = o.work.body /\ defs[n][v].pins = o.work.pins
    BY <1>0, <2>1, HashContent DEF OneInv
  <2>3. channel'[o.channel] = [channel[o.channel] EXCEPT ![n] = v]
    BY <1>0, <2>1 DEF TypeOK
  <2>4. Published(defs, channel, defs', channel', o, v)
    BY <2>1, <2>2, <2>3 DEF Published
  <2>5. v \in Nat \ {0}
    BY RegistryConstants
  <2>6. QED
    BY <1>00, <1>f, <2>1, <2>4, <2>5
<1>3. ASSUME SaveNewVersion(c) PROVE PublishInv'
  <2> DEFINE hash == contentHash(o.work.body, o.work.pins)
             w == o.work
  <2>1. /\ o.pc = "save" /\ InsertDefinition(w, hash) /\ q = Settled(o, w.version)
        /\ channel' = [channel EXCEPT ![o.channel][n] = w.version]
    BY <1>3 DEF SaveNewVersion, SaveDefinition, Goto, UpsertChannel, TypeOK
  <2>2. hash \in {NoHash} \cup (Body \X SUBSET Pin)
    BY <1>0 DEF contentHash
  <2> HIDE DEF hash
  <2>3. w.version = Len(defs[n]) + 1
    BY <2>1 DEF OneInv, OpOne
  <2>4. /\ \A m \in Name : \A v \in Saved(m) : defs'[m][v] = defs[m][v]
        /\ defs'[n][w.version] = [body |-> w.body, pins |-> w.pins, hash |-> hash]
    BY <1>0, <2>1, <2>2, <2>3, SaveAppends
  <2>5. FromRefs(w.body, w.pins)
    BY <1>e, <2>1 DEF Apply, WorkFits
  <2>6. RowsFromRefs(defs')
    BY <1>0, <1>00, <2>1, <2>2, <2>3, <2>5, SaveFromRefs
  <2>7. w.version \in Nat \ {0}
    BY <1>0, <2>3, LenProperties DEF TypeOK
  <2>8. channel'[o.channel] = [channel[o.channel] EXCEPT ![n] = w.version]
    BY <1>0, <2>1 DEF TypeOK
  <2>9. \A m \in Name : channel[o.channel][m] # 0 => channel[o.channel][m] \in Saved(m)
    BY <1>00, ChannelRows
  <2>10. Published(defs, channel, defs', channel', o, w.version)
    BY <2>4, <2>8, <2>9 DEF Published
  <2>11. QED
    BY <1>f, <2>1, <2>6, <2>7, <2>10
<1>4. ASSUME EnsureLatest(c) PROVE PublishInv'
  <2>1. /\ o.pc = "ensure" /\ UNCHANGED <<defs, channel>>
        /\ q = Advance(o) \/ q = [o EXCEPT !.pc = "create"]
    BY <1>4 DEF EnsureLatest, Goto, TypeOK
  <2>2. Apply(defs, channel, o)
    BY <1>e, <2>1
  <2>3. /\ Apply(defs, channel, Advance(o)) /\ Advance(o).pc \in {"next", "find", "done"}
        /\ Apply(defs, channel, [o EXCEPT !.pc = "create"])
    BY <1>0, <2>1, <2>2, AdvanceApply, CreateApply
  <2>4. [o EXCEPT !.pc = "create"].pc = "create"
    BY <1>0 DEF Op
  <2>5. QED
    BY <1>00, <1>a, <1>b, <2>1, <2>3, <2>4
<1>5. ASSUME CreateLatest(c) PROVE PublishInv'
  <2>1. /\ o.pc = "create" /\ UNCHANGED defs /\ q = Advance(o)
        /\ channel' = [channel EXCEPT ![Latest][n] = o.versions[n]]
    BY <1>5 DEF CreateLatest, Goto, TypeOK, UpsertChannel
  <2>2. Apply(defs, channel, o)
    BY <1>e, <2>1
  <2>3. o.versions[n] # 0
    <3>1. BatchPhase(defs, channel, o)
      BY <1>0, <2>1, <2>2 DEF Apply, CascadePhase, Op
    <3>2. o.work.body \in o.batch /\ Handled(o, o.work.body)
      BY <2>1, <3>1 DEF BatchPhase, Handled
    <3>3. QED
      BY <3>1, <3>2 DEF BatchPhase
  <2>4. channel[o.channel][n] = o.versions[n]
    BY <1>0, <2>2, <2>3 DEF Apply, Noted
  <2>5. channel'[o.channel] = channel[o.channel]
    BY <1>0, <2>1, <2>4, RegistryConstants DEF TypeOK
  <2>6. Apply(defs, channel', o)
    BY <2>2, <2>5, OwnChannel
  <2>7. Apply(defs, channel', Advance(o)) /\ Advance(o).pc \in {"next", "find", "done"}
    BY <1>0, <2>1, <2>6, AdvanceApply
  <2>8. QED
    BY <1>00, <1>a, <1>b, <2>1, <2>7
<1>6. ASSUME FindParents(c) PROVE PublishInv'
  <2>1. o.pc = "find" /\ UNCHANGED <<defs, channel>>
    BY <1>6 DEF FindParents
  <2>2. q.pc \in {"next", "done"} /\ Apply(defs, channel, q)
    BY <1>6, <1>e, <2>1, FindApply
  <2>3. QED
    BY <1>00, <1>a, <1>b, <2>1, <2>2
<1>7. ASSUME PutSaves(c) PROVE PublishInv'
  <2>1. o.pc = "put" /\ InsertDefinition(o.work, NoHash) /\ q = Idle
    BY <1>7 DEF PutSaves, SaveDefinition, Goto, TypeOK
  <2>2. o.work.version = Len(defs[n]) + 1 /\ o.work.pins = {}
    BY <2>1 DEF OneInv, OpOne, RegistryInv, OpsOK, OpOK
  <2>3. FromRefs(o.work.body, o.work.pins)
    BY <2>2 DEF FromRefs
  <2>4. RowsFromRefs(defs')
    BY <1>0, <1>00, <2>1, <2>2, <2>3, SaveFromRefs
  <2>5. QED
    BY <1>a, <1>c, <2>1, <2>4
<1>8. ASSUME NEW b \in Body, PromoteOne(c, b) PROVE PublishInv'
  <2>1. o.pc = "promote" /\ UNCHANGED defs
    BY <1>8 DEF PromoteOne
  <2>2. Promote(defs, channel, o)
    BY <1>00, <2>1 DEF OpPublish
  <2>3. q.pc = "promote" /\ Promote(defs, channel', q)
    BY <1>8, <2>2, PromoteApply
  <2>4. QED
    BY <1>00, <1>a, <1>d, <2>1, <2>3
<1>9. ASSUME Refuse(c) \/ Reply(c) \/ Abort(c) PROVE PublishInv'
  <2>1. UNCHANGED defs /\ q = Idle
    BY <1>9 DEF Refuse, Reply, Abort, Goto, TypeOK
  <2>2. QED
    BY <1>00, <1>a, <1>c, <2>1
<1>10. ASSUME NEW batch \in SUBSET Body, NEW ch \in Channel, NEW auto \in BOOLEAN,
              ApplyBatch(c, batch, ch, auto)
       PROVE  PublishInv'
  <2>1. UNCHANGED <<defs, channel>>
    BY <1>10 DEF ApplyBatch
  <2>2. q.pc = "next" /\ Apply(defs, channel, q)
    BY <1>10, ApplyStarts
  <2>3. QED
    BY <1>00, <1>a, <1>b, <2>1, <2>2
<1>11. ASSUME NEW b \in Body, PutDefinition(c, b) PROVE PublishInv'
  <2> DEFINE w == [NoWork EXCEPT !.body = b, !.version = LatestVersion(NameOf[b]) + 1]
  <2>1. UNCHANGED defs /\ q = [Idle EXCEPT !.pc = "put", !.work = w]
    BY <1>11 DEF PutDefinition, TypeOK
  <2> HIDE DEF w
  <2>2. q.pc = "put"
    BY <2>1 DEF Idle
  <2>3. QED
    BY <1>00, <1>a, <1>c, <2>1, <2>2
<1>12. ASSUME NEW m \in Name, NEW ch \in Channel, NEW v,
              PutChannel(c, m, ch, v) \/ DeleteChannel(c, m, ch)
       PROVE  PublishInv'
  <2>1. UNCHANGED defs /\ q.pc = "idle"
    BY <1>12 DEF PutChannel, DeleteChannel, Request
  <2>2. QED
    BY <1>00, <1>a, <1>c, <2>1
<1>13. ASSUME NEW from \in Channel, NEW to \in Channel, NEW scope \in SUBSET Name,
              PromoteChannel(c, from, to, scope), \A m \in scope : channel[from][m] # 0,
              \A m \in scope : \A r \in Refs[defs[m][channel[from][m]].body] :
                  channel[from][r.name] # 0 => r.name \in scope
       PROVE  PublishInv'
  <2>1. UNCHANGED <<defs, channel>>
    BY <1>13 DEF PromoteChannel
  <2>2. q.pc = "promote" /\ Promote(defs, channel, q)
    BY <1>13, PromoteStarts
  <2>3. QED
    BY <1>00, <1>a, <1>d, <2>1, <2>2
<1>14. ASSUME NEW from \in Channel, NEW m \in Name, channel[from][m] # 0,
              NEW r \in Refs[defs[m][channel[from][m]].body]
       PROVE  r.name \in Name
  <2>1. channel[from][m] \in 0 .. Size[m] /\ channel[from][m] \in Nat
    BY DEF RegistryInv, ChannelsOK, TypeOK
  <2>2. channel[from][m] \in 1 .. Len(defs[m]) /\ defs[m] \in Seq(Row)
    BY <1>14, <2>1 DEF Size, TypeOK
  <2>3. defs[m][channel[from][m]] \in Row
    BY <2>2, ElementOfSeq
  <2>4. QED
    BY <2>3, RegistryConstants DEF Row
<1>15. ASSUME NEW from \in Channel, NEW to \in Channel, PromoteAll(c, from, to)
       PROVE  PublishInv'
  <2> DEFINE scope == {m \in Name : channel[from][m] # 0}
  <2>1. \A m \in scope : \A r \in Refs[defs[m][channel[from][m]].body] :
           channel[from][r.name] # 0 => r.name \in scope
    BY <1>14
  <2>2. PromoteChannel(c, from, to, scope)
    BY <1>15 DEF PromoteAll
  <2>3. scope \in SUBSET Name /\ \A m \in scope : channel[from][m] # 0
    OBVIOUS
  <2> HIDE DEF scope
  <2>4. QED
    BY <1>13, <2>1, <2>2, <2>3
<1>16. ASSUME NEW from \in Channel, NEW to \in Channel, NEW root \in Name,
              PromoteProcess(c, from, to, root)
       PROVE  PublishInv'
  <2> DEFINE scope == subtree(from, root)
  <2>1. scope \in SUBSET Name /\ \A m \in scope : channel[from][m] # 0
    BY DEF subtree
  <2>2. \A m \in scope : \A r \in Refs[defs[m][channel[from][m]].body] :
           channel[from][r.name] # 0 => r.name \in scope
    BY <1>14, <2>1, SubtreeClosed
  <2>3. PromoteChannel(c, from, to, scope)
    BY <1>16 DEF PromoteProcess
  <2> HIDE DEF scope
  <2>4. QED
    BY <1>13, <2>1, <2>2, <2>3
<1>17. CASE Start(c)
  BY <1>10, <1>11, <1>12, <1>15, <1>16, <1>17 DEF Start
<1>18. CASE Step(c) \/ Abort(c)
  BY <1>1, <1>2, <1>3, <1>4, <1>5, <1>6, <1>7, <1>8, <1>9, <1>18 DEF Step
<1>19. QED
  BY <1>17, <1>18

\* With requests one at a time the channel has, after an apply, what was submitted with
\* the children that are on it and with its parents up to date, and after a promotion
\* every dependency of what was promoted.
THEOREM ChannelFits == OneClient /\ Spec => []ChannelAfterRequest
<1> SUFFICES ASSUME OneClient PROVE Spec => []ChannelAfterRequest
  OBVIOUS
<1>1. Init => PublishInv
  <2> SUFFICES ASSUME Init PROVE PublishInv
    OBVIOUS
  <2>1. RowsFromRefs(defs)
    BY EmptySeq DEF Init, RowsFromRefs
  <2>2. OpPublish(defs, channel, Idle)
    BY DEF OpPublish, Applying, Idle
  <2>3. QED
    BY <2>1, <2>2 DEF Init, PublishInv
<1>2. TypeOK /\ RegistryInv /\ OneInv /\ PublishInv /\ [Next]_vars => PublishInv'
  <2> SUFFICES ASSUME TypeOK, RegistryInv, OneInv, PublishInv, [Next]_vars PROVE PublishInv'
    OBVIOUS
  <2>1. CASE UNCHANGED vars
    BY <2>1 DEF vars, PublishInv
  <2>2. CASE Next
    BY <2>2, NextPublish DEF Next
  <2>3. QED
    BY <2>1, <2>2
<1>3. TypeOK /\ RegistryInv /\ PublishInv => ChannelAfterRequest
  <2> SUFFICES ASSUME TypeOK, RegistryInv, PublishInv PROVE ChannelAfterRequest
    OBVIOUS
  <2>1. ApplyPublishes
    <3>1. SUFFICES ASSUME NEW c \in Client, op[c].pc = "done", NEW b \in op[c].batch
                   PROVE  LET o == op[c]
                              row == defs[NameOf[b]][channel[o.channel][NameOf[b]]]
                          IN  /\ row.body = b
                              /\ \A d \in row.pins :
                                    d.asked = 0 /\ ~o.auto => d.version = channel[o.channel][d.name]
      BY DEF ApplyPublishes
    <3> DEFINE o == op[c]
    <3>2. Apply(defs, channel, o) /\ o \in Op
      BY <3>1 DEF PublishInv, OpPublish, Applying, TypeOK
    <3>3. o.versions[NameOf[b]] # 0 /\ OnChannel(defs, channel, o, NameOf[b]).body = b
      BY <3>1, <3>2 DEF Apply, BatchProgress
    <3>4. ASSUME ~o.auto
          PROVE  \A d \in OnChannel(defs, channel, o, NameOf[b]).pins :
                    d.asked = 0 => d.version = channel[o.channel][d.name]
      <4>1. BatchPhase(defs, channel, o)
        BY <3>2, <3>4 DEF Apply, CascadePhase, Op
      <4>2. QED
        BY <3>3, <4>1 DEF BatchPhase
    <3>5. QED
      BY <3>3, <3>4 DEF OnChannel
  <2>2. CascadeReachesParents
    <3>1. SUFFICES ASSUME NEW c \in Client, op[c].pc = "done", op[c].auto,
                          NEW p \in Outdated(op[c]), p \notin Named(op[c].batch)
                   PROVE  p \in Twice(op[c])
      BY DEF CascadeReachesParents
    <3> DEFINE o == op[c]
               pins == OnChannel(defs, channel, o, p).pins
    <3>2. Apply(defs, channel, o)
      BY <3>1 DEF PublishInv, OpPublish, Applying
    <3>3. /\ p \in Name /\ channel[o.channel][p] # 0
          /\ \E d \in pins : d.asked = 0 /\ o.versions[d.name] \notin {0, d.version}
      BY <3>1 DEF Outdated, OnChannel
    <3>4. PICK d \in pins : d.asked = 0 /\ o.versions[d.name] \notin {0, d.version}
      BY <3>3
    <3>5. o.versions[p] # 0
      BY <3>1, <3>2, <3>3, <3>4 DEF Apply, NoneStale
    <3>6. \E e \in pins : e.name # d.name /\ o.versions[e.name] # 0
      BY <3>1, <3>2, <3>3, <3>4, <3>5 DEF Apply, Updated
    <3>7. QED
      BY <3>3, <3>4, <3>6 DEF Twice, OnChannel
  <2>3. PromotionIsClosed
    <3>1. SUFFICES ASSUME NEW c \in Client, op[c].pc = "promote", op[c].todo = {},
                          NEW n \in Name, op[c].versions[n] # 0,
                          NEW r \in Refs[defs[n][op[c].versions[n]].body],
                          channel[op[c].from][r.name] # 0
                   PROVE  channel[op[c].from][r.name] = channel[op[c].channel][r.name]
      BY DEF PromotionIsClosed
    <3> DEFINE o == op[c]
    <3>2. Promote(defs, channel, o)
      BY <3>1 DEF PublishInv, OpPublish
    <3>3. o.versions[r.name] # 0
      BY <3>1, <3>2 DEF Promote
    <3>4. \A m \in Name : o.versions[m] # 0 =>
             channel[o.from][m] = o.versions[m] /\ channel[o.channel][m] = o.versions[m]
      BY <3>1, <3>2 DEF Promote, Named
    <3>5. r.name \in Name
      <4>1. o.versions[n] \in 0 .. Size[n] /\ o.versions[n] \in Nat
        BY DEF RegistryInv, OpsOK, OpOK, TypeOK, Op
      <4>2. o.versions[n] \in 1 .. Len(defs[n]) /\ defs[n] \in Seq(Row)
        BY <3>1, <4>1 DEF Size, TypeOK
      <4>3. defs[n][o.versions[n]] \in Row
        BY <4>2, ElementOfSeq
      <4>4. QED
        BY <4>3, RegistryConstants DEF Row
    <3>6. QED
      BY <3>3, <3>4, <3>5
  <2>4. QED
    BY <2>1, <2>2, <2>3 DEF ChannelAfterRequest
<1>4. QED
  BY <1>1, <1>2, <1>3, OneAtATime, PTL DEF Spec
==============================================================================
