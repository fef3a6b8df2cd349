------------------------------- MODULE Paging -------------------------------
(***************************************************************************)
(* Keyset pagination, shared by the lists of instances, external tasks,    *)
(* logs, definitions and channels, and a client that walks a list while    *)
(* its rows come, go and move.  A page and its before and after counts are *)
(* two statements, so the table may change between them.                   *)
(*                                                                         *)
(* A row has an immutable sort column, a mutable one and a unique id that  *)
(* breaks ties.  The client lists everything (listAll of genctl, forward   *)
(* to the end) or browses by the cursors it is given, either way.          *)
(***************************************************************************)
EXTENDS Integers, Sequences, FiniteSets, FiniteSetsExt

CONSTANTS
    Id,             \* ids of rows: integers, as the columns are compared
    Time,           \* values of the sort columns
    Tables,         \* the tables a walk may begin with
    Limits,         \* the page sizes requested; 0 asks for the default
    defLimit, maxLimit,
    pageCountCap,   \* how far the counts look
    MaxChanges,     \* bound: changes of the table during the walk
    NULL

\* What is in a table, the values of a key, and the answers to the client.
Row       == [created : Time, updated : Time, match : BOOLEAN]
Sorts     == {"created", "updated"}
Key       == Int \X Int
TokenForm == [k : Sorts, d : BOOLEAN, v : Key]
InfoForm  == [before : Nat, after : Nat, prev : TokenForm \cup {NULL}, next : TokenForm \cup {NULL}]
Spans     == [first : Key, last : Key]

ASSUME NullIsNone == NULL \notin Row /\ NULL \notin TokenForm /\ NULL \notin InfoForm /\ NULL \notin Spans

ASSUME PagingConstants ==
    /\ IsFiniteSet(Id) /\ Tables \subseteq [Id -> Row \cup {NULL}]
    /\ Id \subseteq Int /\ Time \subseteq Int /\ Limits \subseteq Nat
    /\ defLimit \in Nat \ {0} /\ maxLimit \in Nat \ {0}
    /\ pageCountCap \in Nat \ {0} /\ MaxChanges \in Nat

VARIABLES
    table,      \* table[i]: NULL, or the row's sort columns and whether it passes the filter
    req,        \* the request: sort, direction, limit, filter and how the client walks
    page,       \* the rows of the last page, in display order, with the keys it saw
    info,       \* its PageInfo, NULL before the counts are there
    pc,         \* "fetch", "count", "choose" or "done"
    \* history
    seen,       \* seen[i]: how often the client got row i, up to 2
    still,      \* rows there since the walk began, unmoved and passing the filter
    span,       \* the first and last key of all pages so far, or NULL
    changes

vars == <<table, req, page, info, pc, seen, still, span, changes>>

------------------------------------------------------------------------------
(* The query builder. *)

\* The key columns of a row, the last of which is unique.
KeyOf(i, row, sort) == <<IF sort = "created" THEN row.created ELSE row.updated, i>>

\* ORDER BY: the database's order of the keys, in the direction cmp scans.
Precedes(a, b, cmp) ==
    LET n == IF a[1] # b[1] THEN 1 ELSE 2
    IN  IF cmp = ">" THEN a[n] < b[n] ELSE a[n] > b[n]

\* Fault: the row of the cursor is included.
keysetInclusive(key, cmp, vals) ==
    \/ key = vals
    \/ \E n \in DOMAIN vals :
        /\ \A m \in 1 .. n - 1 : key[m] = vals[m]
        /\ IF cmp = ">" THEN key[n] > vals[n] ELSE key[n] < vals[n]

\* keysetPredicate: the key is strictly beyond vals in the direction of cmp.
keysetPredicate(key, cmp, vals) ==
    \E n \in DOMAIN vals :
        /\ \A m \in 1 .. n - 1 : key[m] = vals[m]
        /\ IF cmp = ">" THEN key[n] > vals[n] ELSE key[n] < vals[n]

\* The rows that pass baseWhere and the filters, with their keys.
Matching(sort, filter) ==
    {[id |-> i, key |-> KeyOf(i, table[i], sort)] :
        i \in {i \in Id : table[i] # NULL /\ (filter => table[i].match)}}

effectiveLimit(limit) ==
    LET l == IF limit <= 0 THEN defLimit ELSE limit IN IF l > maxLimit THEN maxLimit ELSE l

\* Keys are distinct, so the n-th row is the one with n - 1 rows before it.
Sorted(rows, cmp) ==
    [n \in 1 .. Cardinality(rows) |->
        CHOOSE r \in rows : Cardinality({q \in rows : Precedes(q.key, r.key, cmp)}) = n - 1]

\* Fault: a page before the cursor is scanned forward from the start.
scanForward(desc, backward) == IF desc THEN "<" ELSE ">"

\* The comparison the scan makes: forward in display order, backward against it.
scanCmp(desc, backward) == IF desc = backward THEN ">" ELSE "<"

Reversed(s) == [n \in DOMAIN s |-> s[Len(s) + 1 - n]]

\* Fault: the page skips rows that tie with the cursor in the sort column.
PageBeyondTies(tok, backward) ==
    LET cmp   == scanCmp(req.desc, backward)
        rows  == {r \in Matching(req.sort, req.filter) :
                    tok = NULL \/ (r.key[1] # tok.v[1] /\ keysetPredicate(r.key, cmp, tok.v))}
        limit == effectiveLimit(req.limit)
        all   == Sorted(rows, cmp)
        some  == SubSeq(all, 1, IF Len(all) < limit THEN Len(all) ELSE limit)
    IN  IF backward THEN Reversed(some) ELSE some

\* buildSource, the page query and orient.  tok is a cursor or NULL.
Page(tok, backward) ==
    LET cmp   == scanCmp(req.desc, backward)
        rows  == {r \in Matching(req.sort, req.filter) :
                    tok = NULL \/ keysetPredicate(r.key, cmp, tok.v)}
        limit == effectiveLimit(req.limit)
        all   == Sorted(rows, cmp)
        some  == SubSeq(all, 1, IF Len(all) < limit THEN Len(all) ELSE limit)
    IN  IF backward THEN Reversed(some) ELSE some

\* One side of countQuery: the rows beyond a boundary key, none of an empty page.
Side(cmp, boundary) ==
    LET n == Cardinality({r \in Matching(req.sort, req.filter) :
                            keysetPredicate(r.key, cmp, boundary)})
    IN  IF n > pageCountCap THEN pageCountCap + 1 ELSE n

\* encodeCursor: a cursor names the sort and the direction it was made under.
Cursor(key) == [k |-> req.sort, d |-> req.desc, v |-> key]

\* Fault: the rows after the page are counted before it and the other way round.
pageInfoCrossed ==
    IF page = <<>> THEN [before |-> 0, after |-> 0, prev |-> NULL, next |-> NULL]
    ELSE LET first  == page[1].key
             last   == page[Len(page)].key
             before == Side(scanCmp(req.desc, FALSE), first)
             after  == Side(scanCmp(req.desc, TRUE), last)
         IN  [before |-> before, after |-> after,
              prev |-> IF before > 0 THEN Cursor(first) ELSE NULL,
              next |-> IF after > 0 THEN Cursor(last) ELSE NULL]

\* pageInfo: the counts, and a cursor for each direction that has rows.
pageInfo ==
    IF page = <<>> THEN [before |-> 0, after |-> 0, prev |-> NULL, next |-> NULL]
    ELSE LET first  == page[1].key
             last   == page[Len(page)].key
             before == Side(scanCmp(req.desc, TRUE), first)
             after  == Side(scanCmp(req.desc, FALSE), last)
         IN  [before |-> before, after |-> after,
              prev |-> IF before > 0 THEN Cursor(first) ELSE NULL,
              next |-> IF after > 0 THEN Cursor(last) ELSE NULL]

\* decodeCursor refuses a cursor of another sort or direction.
Accepts(tok) == tok.k = req.sort /\ tok.d = req.desc

------------------------------------------------------------------------------
(* The client. *)

\* The direction the client sees: ascending or descending as it asked.
DisplayCmp == IF req.desc THEN "<" ELSE ">"

\* The client has the rows of p.
Receive(p) ==
    /\ page' = p
    /\ seen' = [i \in Id |->
                  IF \E n \in DOMAIN p : p[n].id = i THEN IF seen[i] < 2 THEN seen[i] + 1 ELSE 2
                  ELSE seen[i]]
    /\ LET First(k) == IF span # NULL /\ Precedes(span.first, k, DisplayCmp) THEN span.first ELSE k
           Last(k)  == IF span # NULL /\ Precedes(k, span.last, DisplayCmp) THEN span.last ELSE k
       IN  span' = IF p = <<>> THEN span
                   ELSE [first |-> First(p[1].key), last |-> Last(p[Len(p)].key)]
    /\ info' = NULL /\ pc' = "count"

\* The first request has no cursor.
FetchFirst ==
    /\ pc = "fetch"
    /\ Receive(Page(NULL, FALSE))
    /\ UNCHANGED <<table, req, still, changes>>

\* The second statement of the request.
Count ==
    /\ pc = "count"
    /\ info' = pageInfo
    /\ pc' = "choose"
    /\ UNCHANGED <<table, req, page, seen, still, span, changes>>

Forward ==
    /\ pc = "choose" /\ info.next # NULL /\ Accepts(info.next)
    /\ Receive(Page(info.next, FALSE))
    /\ UNCHANGED <<table, req, still, changes>>

Backward ==
    /\ pc = "choose" /\ req.walk = "browse" /\ info.prev # NULL /\ Accepts(info.prev)
    /\ Receive(Page(info.prev, TRUE))
    /\ UNCHANGED <<table, req, still, changes>>

\* Fault: only an empty page is the end.
FinishOnEmpty ==
    /\ pc = "choose" /\ (req.walk = "all" => page = <<>>)
    /\ pc' = "done"
    /\ UNCHANGED <<table, req, page, info, seen, still, span, changes>>

\* listAll returns when there is no cursor; who browses may stop at any page.
Finish ==
    /\ pc = "choose" /\ (req.walk = "all" => info.next = NULL)
    /\ pc' = "done"
    /\ UNCHANGED <<table, req, page, info, seen, still, span, changes>>

------------------------------------------------------------------------------
(* Everyone else. *)

Changing == pc # "done" /\ changes < MaxChanges /\ changes' = changes + 1
Client   == <<req, page, info, pc, seen, span>>

\* A new row.  Its key may lie anywhere: children are created ahead of the clock, log
\* rows are written after their time, definitions sort by name.
Insert(i, t) ==
    /\ Changing /\ table[i] = NULL
    /\ table' = [table EXCEPT ![i] = [created |-> t, updated |-> t, match |-> TRUE]]
    /\ UNCHANGED <<Client, still>>

\* PruneLogs, DeleteChannel
Delete(i) ==
    /\ Changing /\ table[i] # NULL
    /\ table' = [table EXCEPT ![i] = NULL]
    /\ still' = still \ {i}
    /\ UNCHANGED Client

\* An update of the row moves it in the order of updates and may change whether it
\* passes the filter (its status, its wait_state).
Touch(i, t, match) ==
    /\ Changing /\ table[i] # NULL /\ t >= table[i].updated
    /\ table' = [table EXCEPT ![i].updated = t, ![i].match = match]
    /\ still' = IF (req.sort = "updated" /\ t # table[i].updated) \/ (req.filter /\ ~match)
                THEN still \ {i} ELSE still
    /\ UNCHANGED Client

------------------------------------------------------------------------------
Request == [sort : Sorts, desc : BOOLEAN, limit : Limits, filter : BOOLEAN,
            walk : {"all", "browse"}]

Init ==
    /\ table \in Tables /\ req \in Request
    /\ page = <<>> /\ info = NULL /\ pc = "fetch"
    /\ seen = [i \in Id |-> 0] /\ span = NULL /\ changes = 0
    /\ still = {i \in Id : table[i] # NULL /\ (req.filter => table[i].match)}

Walk == FetchFirst \/ Count \/ Forward \/ Backward \/ Finish

Change ==
    \E i \in Id : \/ \E t \in Time : Insert(i, t)
                  \/ Delete(i)
                  \/ \E t \in Time, match \in BOOLEAN : Touch(i, t, match)

Next == Walk \/ Change

Spec == Init /\ [][Next]_vars

\* The client that lists everything keeps asking.
FairSpec == Spec /\ WF_vars(req.walk = "all" /\ Walk)
------------------------------------------------------------------------------
(* Properties. *)

\* Variables have their types; a page is no longer than the limit and is in display
\* order, whichever way it was scanned.
TypeOK ==
    /\ table \in [Id -> Row \cup {NULL}]
    /\ req \in Request /\ pc \in {"fetch", "count", "choose", "done"}
    /\ Len(page) <= effectiveLimit(req.limit)
    /\ \A m, n \in DOMAIN page :
         m < n => Precedes(page[m].key, page[n].key, DisplayCmp)
    /\ (info = NULL) = (pc \in {"fetch", "count"})
    /\ seen \in [Id -> 0 .. 2] /\ still \in SUBSET Id /\ changes \in 0 .. MaxChanges

Within(key) ==
    /\ ~Precedes(key, span.first, DisplayCmp)
    /\ ~Precedes(span.last, key, DisplayCmp)

\* Nothing is skipped: a row that was there all along, unmoved, has been returned if it
\* lies between the first and the last row of the pages so far, and where a page with
\* rows has no cursor in a direction (the page and its counts are two statements) none
\* lies beyond it, however the client went back and forth and whatever came, went and
\* moved meanwhile.
NothingSkipped ==
    \A i \in still :
        LET key == KeyOf(i, table[i], req.sort) IN
        /\ span # NULL /\ Within(key) => seen[i] > 0
        /\ pc = "choose" /\ page # <<>> =>
             /\ info.next = NULL => ~Precedes(page[Len(page)].key, key, DisplayCmp)
             /\ info.prev = NULL => ~Precedes(key, page[1].key, DisplayCmp)

\* The list of everything is complete when it ends, and has no row that stayed where
\* it was twice.
ListsEachOnce ==
    req.walk = "all" =>
        /\ pc = "done" => \A i \in still : seen[i] > 0
        /\ \A i \in still : seen[i] < 2

\* Walking a list by its cursors shows every row that stays where it is, and listing
\* everything shows it once, while others change the table between two statements.
WalkIsExact == NothingSkipped /\ ListsEachOnce

\* The list of everything ends, once the table is left alone.
WalkEnds == req.walk = "all" ~> pc = "done"
==============================================================================
