------------------------------- MODULE Registry -------------------------------
(***************************************************************************)
(* Definitions, their versions, the pins of parents to versions of their   *)
(* children, and the channels that publish versions.  A request of the API *)
(* is no transaction: it reads, validates and writes in several statements *)
(* that interleave with those of other requests, and it may stop between   *)
(* any two of them (an error, or the death of the server).                 *)
(*                                                                         *)
(* A definition is reduced to its references to other definitions and to   *)
(* which input schemas its input expressions satisfy.  Children are known  *)
(* by the reference, since equal references are resolved alike.            *)
(***************************************************************************)
EXTENDS Integers, Sequences, FiniteSets

CONSTANTS
    Name,           \* names of processes
    Channel,        \* names of channels
    Latest,         \* defaultChannel
    Body,           \* normalised definitions, without their version
    NameOf,         \* NameOf[b]: the name in b
    Refs,           \* Refs[b]: the child entries of b, version 0 for "resolve it"
    Accepted,       \* <<p, b>>: what p passes is a subset of b's input_schema
    Client,         \* the requests that may be under way at once
    MaxVersion,     \* bound: versions of a name
    MaxRequests     \* bound: requests

ASSUME RegistryConstants ==
    /\ Latest \in Channel
    /\ Body # {}
    /\ NameOf \in [Body -> Name]
    /\ Refs \in [Body -> SUBSET [name : Name, version : Nat]]
    /\ MaxVersion \in Nat /\ MaxRequests \in Nat

VARIABLES
    defs,       \* defs[n]: rows of process_definitions by version, with their pins
    channel,    \* channel[c][n]: process_channels, 0 when there is no row
    op,         \* op[c]: the request of c
    requests    \* requests made so far

vars == <<defs, channel, op, requests>>

(* A row of process_dependencies: the child entry and the version it is pinned to. *)
Pin  == [name : Name, asked : Nat, version : Nat \ {0}]
Work == [body : Body, version : Nat, pins : SUBSET Pin]
NoHash == << >>

NoWork == [body |-> CHOOSE b \in Body : TRUE, version |-> 0, pins |-> {}]
Idle == [pc |-> "idle", phase |-> "batch", auto |-> FALSE, channel |-> Latest,
         from |-> Latest, batch |-> {}, todo |-> {}, versions |-> [n \in Name |-> 0],
         work |-> NoWork]

------------------------------------------------------------------------------
(* Queries *)

LatestVersion(n) == Len(defs[n])

Saved(n) == 1 .. Len(defs[n])

contentHash(b, pins) == <<b, pins>>

VersionsByHash(n, hash) == {v \in Saved(n) : defs[n][v].hash = hash}

\* SELECT MAX(version): v is what the query returns.
FindVersionByHash(n, hash, v) ==
    v \in VersionsByHash(n, hash) /\ \A w \in VersionsByHash(n, hash) : w <= v

IsSelf(b, version, r) == r.name = NameOf[b] /\ r.version \in {0, version}

\* The upsert keeps the hash of an existing row.
InsertDefinition(w, hash) ==
    LET n == NameOf[w.body]
        row(h) == [body |-> w.body, pins |-> w.pins, hash |-> h]
    IN
    defs' = [defs EXCEPT ![n] =
                IF w.version \in Saved(n)
                THEN [defs[n] EXCEPT ![w.version] = row(defs[n][w.version].hash)]
                ELSE Append(defs[n], row(hash))]

UpsertChannel(n, ch, v) == channel' = [channel EXCEPT ![ch][n] = v]

SaveDefinition(w, hash, ch) ==
    /\ InsertDefinition(w, hash)
    /\ UpsertChannel(NameOf[w.body], ch, w.version)

\* Names on the channel with a pin to another version than the given one.
StaleParents(ch, versions) ==
    {p \in Name : /\ channel[ch][p] # 0
                  /\ \E d \in defs[p][channel[ch][p]].pins :
                        versions[d.name] \notin {0, d.version}}

\* Fault: the engine does not look at the pins.
ChildVersionUnpinned(n, v, r) ==
    IF r.version # 0 THEN r.version ELSE IF r.name = n THEN v ELSE LatestVersion(r.name)

\* The version that an instance of n v runs for its child entry r.
ChildVersion(n, v, r) ==
    LET pinned == {d \in defs[n][v].pins : d.name = r.name /\ d.asked = 0} IN
    CASE r.version # 0 -> r.version
      [] r.version = 0 /\ r.name = n -> v
      [] r.version = 0 /\ r.name # n /\ pinned # {} -> (CHOOSE d \in pinned : TRUE).version
      [] OTHER -> LatestVersion(r.name)

------------------------------------------------------------------------------
(* Helpers of the handlers *)

Named(bodies) == {NameOf[b] : b \in bodies}

\* topoSort finds no cycle: in every part of the batch something comes first.
Sortable(batch) ==
    \A S \in SUBSET batch : S # {} =>
        \E b \in S : \A r \in Refs[b] : r.name \notin Named(S) \ {NameOf[b]}

\* Fault: the batch is taken in the order of the request.
AnyOrder(b, todo) == TRUE

\* A child precedes its parents.
ComesFirst(b, todo) == \A r \in Refs[b] : r.name \notin Named(todo) \ {NameOf[b]}

\* resolveChildVersion; 0 when the child is not on the channel.
resolveChildVersion(r, ch, versions) ==
    IF r.version # 0 THEN r.version
    ELSE IF versions[r.name] # 0 THEN versions[r.name]
    ELSE channel[ch][r.name]

buildResolvedDeps(b, version, ch, versions) ==
    {[name |-> r.name, asked |-> r.version, version |-> resolveChildVersion(r, ch, versions)] :
        r \in {q \in Refs[b] : ~IsSelf(b, version, q)}}

\* The getter of the batch knows what was submitted under the versions it assigned.
SubmittedAs(o, n, v) == o.phase = "batch" /\ o.versions[n] = v /\ n \in Named(o.batch)

GetDefinition(o, n, v) ==
    IF SubmittedAs(o, n, v) THEN CHOOSE b \in o.batch : NameOf[b] = n ELSE defs[n][v].body

\* Fault: a child that cannot be found is passed over.
ValidateFoundChildren(o, w) ==
    \A d \in w.pins : d.version \in Saved(d.name) =>
        <<w.body, GetDefinition(o, d.name, d.version)>> \in Accepted

\* Each child exists and accepts its input; a reference to itself is checked as such.
ValidateChildProcessRefs(o, w) ==
    /\ \A r \in Refs[w.body] : IsSelf(w.body, w.version, r) => <<w.body, w.body>> \in Accepted
    /\ \A d \in w.pins : /\ SubmittedAs(o, d.name, d.version) \/ d.version \in Saved(d.name)
                         /\ <<w.body, GetDefinition(o, d.name, d.version)>> \in Accepted

\* Fault: parents are searched for once.
AdvanceOneRound(o) ==
    [o EXCEPT !.work = NoWork,
              !.pc = IF o.todo # {} THEN "next"
                     ELSE IF o.auto /\ o.phase = "batch" THEN "find" ELSE "done"]

\* What the loop does when it is through with an entry: the next one, or the search
\* for parents, or the reply.
Advance(o) ==
    [o EXCEPT !.work = NoWork,
              !.pc = IF o.todo # {} THEN "next"
                     ELSE IF o.auto THEN "find" ELSE "done"]

\* The entry is at version v; only the loop over the batch makes sure of "latest".
Settled(o, v) ==
    LET p == [o EXCEPT !.versions[NameOf[o.work.body]] = v] IN
    IF o.phase = "batch" THEN [p EXCEPT !.pc = "ensure"] ELSE Advance(p)

\* Fault: children of children are left out.
rootAndChildren(ch, root) ==
    {n \in Name : /\ channel[ch][n] # 0 /\ channel[ch][root] # 0
                  /\ \/ n = root
                     \/ \E r \in Refs[defs[root][channel[ch][root]].body] : r.name = n}

\* The definitions on a channel that root reaches over references by name.
subtree(ch, root) ==
    LET on == {n \in Name : channel[ch][n] # 0}
        closed(S) == \A n \in S : \A r \in Refs[defs[n][channel[ch][n]].body] :
                        r.name \in on => r.name \in S
    IN  {n \in on : root \in on /\ \A S \in SUBSET on : root \in S /\ closed(S) => n \in S}

------------------------------------------------------------------------------
(* Requests *)

Request(c) ==
    /\ op[c].pc = "idle"
    /\ requests < MaxRequests
    /\ requests' = requests + 1

Goto(c, o) == op' = [op EXCEPT ![c] = o] /\ UNCHANGED requests

\* putDefinitions: a batch for a channel.  Of two entries with a name the last counts.
ApplyBatch(c, batch, ch, auto) ==
    /\ Request(c)
    /\ batch # {} /\ \A b, d \in batch : NameOf[b] = NameOf[d] => b = d
    /\ Sortable(batch)
    /\ op' = [op EXCEPT ![c] = [Idle EXCEPT !.pc = "next", !.auto = auto, !.channel = ch,
                                            !.batch = batch, !.todo = batch]]
    /\ UNCHANGED <<defs, channel>>

\* The entry's next version and the versions of its children.
ResolveDef(c, b) ==
    LET o == op[c]
        version == LatestVersion(NameOf[b]) + 1
    IN
    /\ o.pc = "next" /\ b \in o.todo
    /\ o.phase = "batch" => ComesFirst(b, o.todo)
    /\ version <= MaxVersion
    /\ \A r \in Refs[b] :
           IsSelf(b, version, r) \/ resolveChildVersion(r, o.channel, o.versions) # 0
    /\ Goto(c, [o EXCEPT !.pc = "save", !.todo = @ \ {b},
                         !.work = [body |-> b, version |-> version,
                                   pins |-> buildResolvedDeps(b, version, o.channel, o.versions)]])
    /\ UNCHANGED <<defs, channel>>

\* The same content with the same children has a version already.
ReuseVersion(c, v) ==
    LET o == op[c]
        n == NameOf[o.work.body]
    IN
    /\ o.pc = "save"
    /\ FindVersionByHash(n, contentHash(o.work.body, o.work.pins), v)
    /\ UpsertChannel(n, o.channel, v)
    /\ Goto(c, Settled(o, v))
    /\ UNCHANGED defs

SaveNewVersion(c) ==
    LET o == op[c]
        hash == contentHash(o.work.body, o.work.pins)
    IN
    /\ o.pc = "save" /\ VersionsByHash(NameOf[o.work.body], hash) = {}
    /\ ValidateChildProcessRefs(o, o.work)
    /\ SaveDefinition(o.work, hash, o.channel)
    /\ Goto(c, Settled(o, o.work.version))

\* ensureLatestChannel reads, and creates the channel in a statement of its own.
EnsureLatest(c) ==
    LET o == op[c] IN
    /\ o.pc = "ensure"
    /\ Goto(c, IF channel[Latest][NameOf[o.work.body]] # 0
               THEN Advance(o) ELSE [o EXCEPT !.pc = "create"])
    /\ UNCHANGED <<defs, channel>>

CreateLatest(c) ==
    LET o == op[c]
        n == NameOf[o.work.body]
    IN
    /\ o.pc = "create"
    /\ UpsertChannel(n, Latest, o.versions[n])
    /\ Goto(c, Advance(o))
    /\ UNCHANGED defs

\* Fault: what the request has updated is looked at again.
FindAllParents(c) ==
    LET o == op[c]
        stale == StaleParents(o.channel, o.versions)
    IN
    /\ o.pc = "find"
    /\ Goto(c, IF stale = {} THEN [o EXCEPT !.pc = "done"]
               ELSE [o EXCEPT !.pc = "next", !.phase = "cascade",
                              !.todo = {defs[p][channel[o.channel][p]].body : p \in stale}])
    /\ UNCHANGED <<defs, channel>>

\* A round of cascadeUpdate: stale parents that the request has not updated yet.
FindParents(c) ==
    LET o == op[c]
        stale == {p \in StaleParents(o.channel, o.versions) : o.versions[p] = 0}
    IN
    /\ o.pc = "find"
    /\ Goto(c, IF stale = {} THEN [o EXCEPT !.pc = "done"]
               ELSE [o EXCEPT !.pc = "next", !.phase = "cascade",
                              !.todo = {defs[p][channel[o.channel][p]].body : p \in stale}])
    /\ UNCHANGED <<defs, channel>>

\* Fault: the latest version is replaced.
PutOverLatest(c, b) ==
    LET version == IF Saved(NameOf[b]) = {} THEN 1 ELSE LatestVersion(NameOf[b])
        seen == {[name |-> r.name, asked |-> r.version,
                  version |-> IF r.version # 0 THEN r.version ELSE LatestVersion(r.name)] :
                    r \in {q \in Refs[b] : ~IsSelf(b, version, q)}}
    IN
    /\ Request(c)
    /\ version <= MaxVersion
    /\ ValidateChildProcessRefs(Idle, [body |-> b, version |-> version, pins |-> seen])
    /\ op' = [op EXCEPT ![c] = [Idle EXCEPT !.pc = "put",
                                            !.work = [NoWork EXCEPT !.body = b, !.version = version]]]
    /\ UNCHANGED <<defs, channel>>

\* putDefinition: one definition, validated with the latest versions of its children,
\* without pins and without a hash, published on "latest".
PutDefinition(c, b) ==
    LET version == LatestVersion(NameOf[b]) + 1
        seen == {[name |-> r.name, asked |-> r.version,
                  version |-> IF r.version # 0 THEN r.version ELSE LatestVersion(r.name)] :
                    r \in {q \in Refs[b] : ~IsSelf(b, version, q)}}
    IN
    /\ Request(c)
    /\ version <= MaxVersion
    /\ ValidateChildProcessRefs(Idle, [body |-> b, version |-> version, pins |-> seen])
    /\ op' = [op EXCEPT ![c] = [Idle EXCEPT !.pc = "put",
                                            !.work = [NoWork EXCEPT !.body = b, !.version = version]]]
    /\ UNCHANGED <<defs, channel>>

PutSaves(c) ==
    LET o == op[c] IN
    /\ o.pc = "put"
    /\ SaveDefinition(o.work, NoHash, Latest)
    /\ Goto(c, Idle)

PutChannel(c, n, ch, v) ==
    /\ Request(c)
    /\ v \in Saved(n)
    /\ UpsertChannel(n, ch, v)
    /\ UNCHANGED <<defs, op>>

DeleteChannel(c, n, ch) ==
    /\ Request(c)
    /\ channel[ch][n] # 0
    /\ channel' = [channel EXCEPT ![ch][n] = 0]
    /\ UNCHANGED <<defs, op>>

\* promoteChannel copies the pointers that it has read, of the whole channel or of a
\* process with its dependencies, one statement each.
PromoteChannel(c, from, to, scope) ==
    /\ Request(c)
    /\ from # to
    /\ op' = [op EXCEPT ![c] =
                 [Idle EXCEPT !.pc = "promote", !.channel = to, !.from = from,
                              !.versions = [n \in Name |-> IF n \in scope THEN channel[from][n] ELSE 0],
                              !.todo = {defs[n][channel[from][n]].body : n \in scope}]]
    /\ UNCHANGED <<defs, channel>>

PromoteAll(c, from, to) == PromoteChannel(c, from, to, {n \in Name : channel[from][n] # 0})

PromoteProcess(c, from, to, root) == PromoteChannel(c, from, to, subtree(from, root))

PromoteOne(c, b) ==
    LET o == op[c]
        n == NameOf[b]
    IN
    /\ o.pc = "promote" /\ b \in o.todo
    /\ UpsertChannel(n, o.channel, o.versions[n])
    /\ Goto(c, [o EXCEPT !.todo = @ \ {b}])
    /\ UNCHANGED defs

\* A child is not on the channel, or does not accept its input: the request ends with
\* an error, and what it has saved so far stays.
Refuse(c) ==
    LET o == op[c] IN
    /\ \/ /\ o.pc = "next"
          /\ \E b \in o.todo :
                /\ o.phase = "batch" => ComesFirst(b, o.todo)
                /\ \E r \in Refs[b] :
                       /\ ~IsSelf(b, LatestVersion(NameOf[b]) + 1, r)
                       /\ resolveChildVersion(r, o.channel, o.versions) = 0
       \/ /\ o.pc = "save"
          /\ VersionsByHash(NameOf[o.work.body], contentHash(o.work.body, o.work.pins)) = {}
          /\ ~ValidateChildProcessRefs(o, o.work)
    /\ Goto(c, Idle)
    /\ UNCHANGED <<defs, channel>>

\* A request that went through is answered.
Reply(c) ==
    /\ op[c].pc = "done" \/ (op[c].pc = "promote" /\ op[c].todo = {})
    /\ Goto(c, Idle)
    /\ UNCHANGED <<defs, channel>>

\* An error of the database, a definition that is refused for itself or for a config
\* variable that is not set, or the death of the server; what is written stays.
Abort(c) ==
    /\ op[c].pc # "idle"
    /\ Goto(c, Idle)
    /\ UNCHANGED <<defs, channel>>

------------------------------------------------------------------------------
Init ==
    /\ defs = [n \in Name |-> << >>]
    /\ channel = [ch \in Channel |-> [n \in Name |-> 0]]
    /\ op = [c \in Client |-> Idle]
    /\ requests = 0

\* The steps of a request after it is accepted.
Step(c) ==
    \/ \E b \in Body : ResolveDef(c, b)
    \/ \E v \in 1 .. MaxVersion : ReuseVersion(c, v)
    \/ SaveNewVersion(c)
    \/ EnsureLatest(c) \/ CreateLatest(c)
    \/ FindParents(c)
    \/ Refuse(c)
    \/ PutSaves(c)
    \/ \E b \in Body : PromoteOne(c, b)
    \/ Reply(c)

Start(c) ==
    \/ \E batch \in SUBSET Body, ch \in Channel, auto \in BOOLEAN : ApplyBatch(c, batch, ch, auto)
    \/ \E b \in Body : PutDefinition(c, b)
    \/ \E n \in Name, ch \in Channel, v \in 1 .. MaxVersion : PutChannel(c, n, ch, v)
    \/ \E n \in Name, ch \in Channel : DeleteChannel(c, n, ch)
    \/ \E from, to \in Channel : PromoteAll(c, from, to)
    \/ \E from, to \in Channel, root \in Name : PromoteProcess(c, from, to, root)

Next == \E c \in Client : Start(c) \/ Step(c) \/ Abort(c)

Spec == Init /\ [][Next]_vars

\* A handler runs until it returns.
FairSpec == Spec /\ \A c \in Client : WF_vars(Step(c))

------------------------------------------------------------------------------
(* Properties *)

Row == [body : Body, pins : SUBSET Pin, hash : {NoHash} \cup (Body \X SUBSET Pin)]

Op  == [pc : {"idle", "next", "save", "ensure", "create", "find", "put", "promote", "done"},
        phase : {"batch", "cascade"}, auto : BOOLEAN, channel : Channel, from : Channel,
        batch : SUBSET Body, todo : SUBSET Body, versions : [Name -> Nat], work : Work]

TypeOK ==
    /\ defs \in [Name -> Seq(Row)]
    /\ channel \in [Channel -> [Name -> Nat]]
    /\ op \in [Client -> Op]
    /\ requests \in 0 .. MaxRequests

\* Whatever order the statements of concurrent requests come in: a channel points to
\* a saved version, and the engine finds a saved version for every child entry of
\* every version.
EveryReferenceResolves ==
    /\ \A ch \in Channel, n \in Name : channel[ch][n] \in Saved(n) \cup {0}
    /\ \A n \in Name : \A v \in Saved(n) : \A r \in Refs[defs[n][v].body] :
           ChildVersion(n, v, r) \in Saved(r.name)

\* A version that was applied runs with children that accept the input it was
\* validated with, however the children and the channels change afterwards.
ChildrenAcceptInput ==
    \A n \in Name : \A v \in Saved(n) : \A r \in Refs[defs[n][v].body] :
        defs[n][v].hash # NoHash =>
            <<defs[n][v].body, defs[r.name][ChildVersion(n, v, r)].body>> \in Accepted

\* The same definition with the same children is not saved twice by applies.
AppliedOnce ==
    \A n \in Name : \A v, w \in Saved(n) :
        defs[n][v].hash = defs[n][w].hash => v = w \/ defs[n][v].hash = NoHash

\* After an apply the channel has what was submitted, and without the update of
\* parents its entries are pinned to the children on the channel.
ApplyPublishes ==
    \A c \in Client : LET o == op[c] IN
        o.pc = "done" =>
            \A b \in o.batch :
                LET row == defs[NameOf[b]][channel[o.channel][NameOf[b]]] IN
                /\ row.body = b
                /\ \A d \in row.pins :
                      d.asked = 0 /\ ~o.auto => d.version = channel[o.channel][d.name]

\* The channel's parents of what a request updated that are pinned to other versions.
Outdated(o) ==
    {p \in Name : /\ channel[o.channel][p] # 0
                  /\ \E d \in defs[p][channel[o.channel][p]].pins :
                        d.asked = 0 /\ o.versions[d.name] \notin {0, d.version}}

\* Processes on the channel with two children among what the request updated.
Twice(o) ==
    {p \in Name : /\ channel[o.channel][p] # 0
                  /\ \E d, e \in defs[p][channel[o.channel][p]].pins :
                        d.name # e.name /\ o.versions[d.name] # 0 /\ o.versions[e.name] # 0}

\* An apply that updates parents leaves no process on the channel pinned to an old
\* version, at any distance, but for what was submitted and for processes with two
\* updated children: a request updates a process once, so the child that is updated
\* later is not picked up.
CascadeReachesParents ==
    \A c \in Client :
        op[c].pc = "done" /\ op[c].auto =>
            Outdated(op[c]) \subseteq Named(op[c].batch) \cup Twice(op[c])

\* A promotion takes every dependency along that is on the source channel.
PromotionIsClosed ==
    \A c \in Client : LET o == op[c] IN
        o.pc = "promote" /\ o.todo = {} =>
            \A n \in Name : o.versions[n] # 0 =>
                \A r \in Refs[defs[n][o.versions[n]].body] :
                    channel[o.from][r.name] \in {0, channel[o.channel][r.name]}

\* What a request leaves on its channel fits together: after putDefinitions the
\* channel has what was submitted, with the children that are on it, and cascadeUpdate
\* has brought the parents up to date; after promoteChannel the dependencies came along.
ChannelAfterRequest == ApplyPublishes /\ CascadeReachesParents /\ PromotionIsClosed

\* What is saved under a version is never changed.
VersionsAreImmutable ==
    [][\A n \in Name : \A v \in Saved(n) : defs'[n][v] = defs[n][v]]_vars

\* A request ends although every round of the cascade may find new stale parents, on
\* graphs of definitions with cycles too.
RequestsEnd == \A c \in Client : op[c].pc # "idle" ~> op[c].pc = "idle"
==============================================================================
