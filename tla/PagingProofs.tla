---------------------------- MODULE PagingProofs ----------------------------
(***************************************************************************)
(* A walk over a list by its cursors is exact: proofs of Paging for tables *)
(* of any size, any limits and any changes during the walk.                *)
(*                                                                         *)
(* Keys are ordered strictly and totally (Order), so ranks are unique and  *)
(* a page is an initial segment of the rows beyond its cursor (IsPage).    *)
(* WalkInv says what the client has seen between the ends of its walk and  *)
(* what the cursors in its hands refer to.                                 *)
(***************************************************************************)
EXTENDS Paging, FiniteSetTheorems, FunctionTheorems, SequenceTheorems, TLAPS

------------------------------------------------------------------------------
(* Keys and ranks. *)

Cmp == {"<", ">"}

\* Precedes orders the keys strictly and totally, and the other comparison is its converse.
LEMMA Order ==
    ASSUME NEW cmp \in Cmp
    PROVE  /\ \A a \in Key : ~Precedes(a, a, cmp)
           /\ \A a, b, c \in Key : Precedes(a, b, cmp) /\ Precedes(b, c, cmp) => Precedes(a, c, cmp)
           /\ \A a, b \in Key : a = b \/ Precedes(a, b, cmp) \/ Precedes(b, a, cmp)
<1>1. \A a \in Key : a[1] \in Int /\ a[2] \in Int
  BY DEF Key
<1>2. \A a, b \in Key : a[1] = b[1] /\ a[2] = b[2] => a = b
  BY DEF Key
<1> QED
  BY <1>1, <1>2 DEF Precedes, Cmp

\* The converse.
LEMMA Converse ==
    \A a, b \in Key : Precedes(a, b, ">") <=> Precedes(b, a, "<")
BY DEF Precedes, Key

\* The predicate of the WHERE clause is the order of the ORDER BY clause.
LEMMA Predicate ==
    \A a, b \in Key, cmp \in Cmp : keysetPredicate(a, cmp, b) <=> Precedes(b, a, cmp)
<1> SUFFICES ASSUME NEW a \in Key, NEW b \in Key, NEW cmp \in Cmp
             PROVE  keysetPredicate(a, cmp, b) <=> Precedes(b, a, cmp)
  OBVIOUS
<1>1. DOMAIN b = 1 .. 2 /\ a[1] \in Int /\ a[2] \in Int /\ b[1] \in Int /\ b[2] \in Int
  BY DEF Key
<1>2. 1 .. 2 = {1, 2} /\ 1 .. 1 - 1 = {} /\ 1 .. 2 - 1 = {1}
  OBVIOUS
<1>3. keysetPredicate(a, cmp, b) <=>
        \/ IF cmp = ">" THEN a[1] > b[1] ELSE a[1] < b[1]
        \/ a[1] = b[1] /\ IF cmp = ">" THEN a[2] > b[2] ELSE a[2] < b[2]
  BY <1>1, <1>2 DEF keysetPredicate
<1> QED
  BY <1>1, <1>3 DEF Precedes, Cmp

\* Finitely many rows with keys of their own.
Keyed(rows) ==
    /\ IsFiniteSet(rows)
    /\ \A r \in rows : r.key \in Key
    /\ \A r, s \in rows : r.key = s.key => r = s

Before(rows, r, cmp) == {q \in rows : Precedes(q.key, r.key, cmp)}
Rank(rows, r, cmp)   == Cardinality(Before(rows, r, cmp))

\* Ranks are below the number of rows and grow with the keys.
LEMMA RanksGrow ==
    ASSUME NEW rows, Keyed(rows), NEW cmp \in Cmp
    PROVE  /\ Cardinality(rows) \in Nat
           /\ \A r \in rows : Rank(rows, r, cmp) \in 0 .. Cardinality(rows) - 1
           /\ \A r, s \in rows : Precedes(r.key, s.key, cmp) => Rank(rows, r, cmp) < Rank(rows, s, cmp)
<1>1. IsFiniteSet(rows) /\ Cardinality(rows) \in Nat
  BY FS_CardinalityType DEF Keyed
<1>2. \A r \in rows : /\ IsFiniteSet(Before(rows, r, cmp))
                      /\ Rank(rows, r, cmp) \in Nat /\ Rank(rows, r, cmp) <= Cardinality(rows)
                      /\ Rank(rows, r, cmp) # Cardinality(rows)
  <2> SUFFICES ASSUME NEW r \in rows
               PROVE  /\ IsFiniteSet(Before(rows, r, cmp))
                      /\ Rank(rows, r, cmp) \in Nat /\ Rank(rows, r, cmp) <= Cardinality(rows)
                      /\ Rank(rows, r, cmp) # Cardinality(rows)
    OBVIOUS
  <2>1. Before(rows, r, cmp) \in SUBSET rows
    BY DEF Before
  <2>2. r \notin Before(rows, r, cmp)
    BY Order DEF Before, Keyed
  <2>3. Before(rows, r, cmp) # rows
    BY <2>2
  <2> QED  BY <1>1, <2>1, <2>3, FS_Subset, FS_CardinalityType DEF Rank
<1>3. ASSUME NEW r \in rows, NEW s \in rows, Precedes(r.key, s.key, cmp)
      PROVE  Rank(rows, r, cmp) < Rank(rows, s, cmp)
  <2>1. Before(rows, r, cmp) \in SUBSET Before(rows, s, cmp)
    BY <1>3, Order DEF Before, Keyed
  <2>2. r \in Before(rows, s, cmp) /\ r \notin Before(rows, r, cmp)
    BY <1>3, Order DEF Before, Keyed
  <2>3. /\ Cardinality(Before(rows, r, cmp)) <= Cardinality(Before(rows, s, cmp))
        /\ Cardinality(Before(rows, r, cmp)) # Cardinality(Before(rows, s, cmp))
    BY <1>2, <2>1, <2>2, FS_Subset
  <2> QED  BY <1>2, <2>3 DEF Rank
<1> QED
  BY <1>1, <1>2, <1>3

\* Every position has a row.
LEMMA RanksMeet ==
    ASSUME NEW rows, Keyed(rows), NEW cmp \in Cmp, NEW n \in 1 .. Cardinality(rows)
    PROVE  \E r \in rows : Rank(rows, r, cmp) = n - 1
<1> DEFINE size == Cardinality(rows)
           T == 0 .. size - 1
           f == [r \in rows |-> Rank(rows, r, cmp)]
<1>1. /\ size \in Nat
      /\ \A r \in rows : Rank(rows, r, cmp) \in T
      /\ \A r, s \in rows : Precedes(r.key, s.key, cmp) => Rank(rows, r, cmp) < Rank(rows, s, cmp)
  BY RanksGrow
<1>2. IsFiniteSet(T) /\ Cardinality(T) = size
  <2> HIDE DEF size
  <2>1. 0 \in Int /\ size - 1 \in Int
    BY <1>1
  <2>2. /\ IsFiniteSet(0 .. size - 1)
        /\ Cardinality(0 .. size - 1) = IF 0 > size - 1 THEN 0 ELSE size - 1 - 0 + 1
    BY <2>1, FS_Interval
  <2> QED  BY <1>1, <2>2
<1>3. f \in [rows -> T]
  BY <1>1
<1>4. \A r, s \in rows : f[r] = f[s] => r = s
  <2> SUFFICES ASSUME NEW r \in rows, NEW s \in rows, Rank(rows, r, cmp) = Rank(rows, s, cmp) PROVE r = s
    OBVIOUS
  <2>1. ~Precedes(r.key, s.key, cmp) /\ ~Precedes(s.key, r.key, cmp)
    BY <1>1
  <2>2. r.key \in Key /\ s.key \in Key /\ (r.key = s.key => r = s)
    BY DEF Keyed
  <2> QED  BY <2>1, <2>2, Order
<1> HIDE DEF f, T
<1>5. f \in Injection(rows, T)
  BY <1>3, <1>4, Fun_IsInj
<1>6. f \in Surjection(rows, T)
  BY <1>2, <1>5, FS_Injection DEF size
<1>7. n - 1 \in T
  BY <1>1 DEF T
<1>8. PICK r \in rows : f[r] = n - 1
  BY <1>6, <1>7 DEF Surjection
<1> QED
  BY <1>8 DEF f

\* Sorted has the rows, all of them and in order.
LEMMA SortedRows ==
    ASSUME NEW rows, Keyed(rows), NEW cmp \in Cmp
    PROVE  /\ Cardinality(rows) \in Nat
           /\ Sorted(rows, cmp) \in [1 .. Cardinality(rows) -> rows]
           /\ \A m, n \in 1 .. Cardinality(rows) :
                m < n => Precedes(Sorted(rows, cmp)[m].key, Sorted(rows, cmp)[n].key, cmp)
           /\ \A r \in rows : \E n \in 1 .. Cardinality(rows) : Sorted(rows, cmp)[n] = r
<1> DEFINE size == Cardinality(rows)
           s == Sorted(rows, cmp)
<1>1. /\ size \in Nat
      /\ \A r \in rows : Rank(rows, r, cmp) \in 0 .. size - 1
      /\ \A r, q \in rows : Precedes(r.key, q.key, cmp) => Rank(rows, r, cmp) < Rank(rows, q, cmp)
  BY RanksGrow
<1>2. s = [n \in 1 .. size |-> CHOOSE r \in rows : Rank(rows, r, cmp) = n - 1]
  BY DEF Sorted, Rank, Before
<1>3. ASSUME NEW n \in 1 .. size PROVE s[n] \in rows /\ Rank(rows, s[n], cmp) = n - 1
  <2>1. \E r \in rows : Rank(rows, r, cmp) = n - 1
    BY RanksMeet
  <2>2. s[n] = CHOOSE r \in rows : Rank(rows, r, cmp) = n - 1
    BY <1>2
  <2> QED  BY <2>1, <2>2
<1> HIDE DEF s, size
<1>4. s \in [1 .. size -> rows]
  BY <1>2, <1>3
<1>5. ASSUME NEW r \in rows, NEW q \in rows, Rank(rows, r, cmp) = Rank(rows, q, cmp) PROVE r = q
  <2>1. ~Precedes(r.key, q.key, cmp) /\ ~Precedes(q.key, r.key, cmp)
    BY <1>1, <1>5
  <2>2. r.key \in Key /\ q.key \in Key /\ (r.key = q.key => r = q)
    BY DEF Keyed
  <2> QED  BY <2>1, <2>2, Order
<1>6. ASSUME NEW m \in 1 .. size, NEW n \in 1 .. size, m < n
      PROVE  Precedes(s[m].key, s[n].key, cmp)
  <2>1. /\ s[m] \in rows /\ s[n] \in rows
        /\ Rank(rows, s[m], cmp) = m - 1 /\ Rank(rows, s[n], cmp) = n - 1
    BY <1>3
  <2>2. ~Precedes(s[n].key, s[m].key, cmp) /\ s[n] # s[m]
    BY <1>1, <1>6, <2>1
  <2>3. s[n].key \in Key /\ s[m].key \in Key /\ s[n].key # s[m].key
    BY <2>1, <2>2 DEF Keyed
  <2> QED  BY <2>2, <2>3, Order
<1>7. ASSUME NEW r \in rows PROVE \E n \in 1 .. size : s[n] = r
  <2>1. Rank(rows, r, cmp) + 1 \in 1 .. size
    BY <1>1
  <2>2. Rank(rows, s[Rank(rows, r, cmp) + 1], cmp) = Rank(rows, r, cmp)
        /\ s[Rank(rows, r, cmp) + 1] \in rows
    BY <1>1, <1>3, <2>1
  <2> QED  BY <1>5, <2>1, <2>2
<1> QED
  BY <1>1, <1>4, <1>6, <1>7 DEF s, size

------------------------------------------------------------------------------
(* Pages. *)

TableInv == table \in [Id -> Row \cup {NULL}] /\ req \in Request

Rows == Matching(req.sort, req.filter)
Beyond(tok, cmp) == {r \in Rows : tok = NULL \/ keysetPredicate(r.key, cmp, tok.v)}

KeyAt(i) == KeyOf(i, table[i], req.sort)

\* The rows of the query: one per id, with the keys they have.
LEMMA RowsOf ==
    ASSUME TableInv
    PROVE  /\ \A r \in Rows : /\ r.id \in Id /\ r.key \in Key /\ r.key = KeyAt(r.id)
                              /\ r = [id |-> r.id, key |-> r.key]
           /\ \A i \in Id : table[i] # NULL /\ (req.filter => table[i].match) =>
                /\ [id |-> i, key |-> KeyAt(i)] \in Rows
                /\ KeyAt(i) \in Key
<1> DEFINE there == {i \in Id : table[i] # NULL /\ (req.filter => table[i].match)}
<1>1. Rows = {[id |-> i, key |-> KeyAt(i)] : i \in there}
  BY DEF Rows, Matching, KeyAt
<1>2. \A i \in there : KeyAt(i) \in Key
  <2> SUFFICES ASSUME NEW i \in there PROVE KeyAt(i) \in Key
    OBVIOUS
  <2>1. table[i] \in Row /\ i \in Int
    BY PagingConstants DEF TableInv
  <2>2. table[i].created \in Int /\ table[i].updated \in Int
    BY <2>1, PagingConstants DEF Row
  <2> QED  BY <2>1, <2>2 DEF KeyAt, KeyOf, Key
<1> HIDE DEF there
<1>3. \A r \in Rows : /\ r.id \in there /\ r.key \in Key /\ r.key = KeyAt(r.id)
                      /\ r = [id |-> r.id, key |-> r.key]
  BY <1>1, <1>2
<1>4. \A i \in there : [id |-> i, key |-> KeyAt(i)] \in Rows
  BY <1>1
<1> QED
  BY <1>2, <1>3, <1>4 DEF there

\* Any part of them is keyed.
LEMMA RowsKeyed ==
    ASSUME TableInv, NEW rows \in SUBSET Rows
    PROVE  Keyed(rows)
<1> DEFINE ids == {r.id : r \in rows}
           f == [i \in ids |-> [id |-> i, key |-> KeyAt(i)]]
<1>1. \A r \in rows : /\ r.id \in Id /\ r.key \in Key /\ r.key = KeyAt(r.id)
                      /\ r = [id |-> r.id, key |-> r.key]
  BY RowsOf
<1>2. ids \in SUBSET Id
  BY <1>1
<1>3. IsFiniteSet(ids)
  BY <1>2, PagingConstants, FS_Subset
<1>4. \A r \in rows : f[r.id] = r
  BY <1>1
<1>5. \A i \in ids : f[i] \in rows
  BY <1>1
<1>6. f \in Surjection(ids, rows)
  <2>1. f \in [ids -> rows]
    BY <1>5
  <2>2. \A r \in rows : \E i \in ids : f[i] = r
    BY <1>4
  <2> QED  BY <2>1, <2>2 DEF Surjection
<1>7. IsFiniteSet(rows)
  BY <1>3, <1>6, FS_Surjection
<1>8. \A r, q \in rows : r.key = q.key => r = q
  <2> SUFFICES ASSUME NEW r \in rows, NEW q \in rows, r.key = q.key PROVE r = q
    OBVIOUS
  <2>1. r.key[2] = r.id /\ q.key[2] = q.id
    BY <1>1 DEF KeyAt, KeyOf
  <2> QED  BY <1>1, <2>1
<1> QED
  BY <1>1, <1>7, <1>8 DEF Keyed

\* A page is an initial segment, in display order, of what lies beyond the cursor.
IsPage(p, rows, edge) ==
    /\ p \in Seq(rows)
    /\ Len(p) <= effectiveLimit(req.limit)
    /\ \A m, n \in 1 .. Len(p) : m < n => Precedes(p[m].key, p[n].key, DisplayCmp)
    /\ p = <<>> => rows = {}
    /\ p # <<>> => \A r \in rows :
                      \/ \E n \in 1 .. Len(p) : p[n] = r
                      \/ edge = "last" /\ Precedes(p[Len(p)].key, r.key, DisplayCmp)
                      \/ edge = "first" /\ Precedes(r.key, p[1].key, DisplayCmp)

\* A page has room.
LEMMA LimitType == ASSUME TableInv PROVE effectiveLimit(req.limit) \in Nat \ {0}
<1>1. req.limit \in Nat
  BY PagingConstants DEF TableInv, Request
<1> QED
  BY <1>1, PagingConstants DEF effectiveLimit

\* The first rows of a sorted set.
LEMMA FirstRows ==
    ASSUME TableInv, NEW rows \in SUBSET Rows, NEW cmp \in Cmp
    PROVE  LET all  == Sorted(rows, cmp)
               k    == IF Len(all) < effectiveLimit(req.limit) THEN Len(all) ELSE effectiveLimit(req.limit)
               some == SubSeq(all, 1, k)
           IN  /\ some \in Seq(rows) /\ Len(some) = k /\ k <= effectiveLimit(req.limit)
               /\ \A m, n \in 1 .. k : m < n => Precedes(some[m].key, some[n].key, cmp)
               /\ k = 0 => rows = {}
               /\ k # 0 => \A r \in rows : \/ \E n \in 1 .. k : some[n] = r
                                           \/ Precedes(some[k].key, r.key, cmp)
<1> DEFINE all  == Sorted(rows, cmp)
           size == Cardinality(rows)
           lim  == effectiveLimit(req.limit)
           k    == IF Len(all) < lim THEN Len(all) ELSE lim
           some == SubSeq(all, 1, k)
<1>1. lim \in Nat \ {0}
  BY LimitType
<1>2. /\ size \in Nat /\ all \in [1 .. size -> rows]
      /\ \A m, n \in 1 .. size : m < n => Precedes(all[m].key, all[n].key, cmp)
      /\ \A r \in rows : \E n \in 1 .. size : all[n] = r
  BY RowsKeyed, SortedRows
<1> HIDE DEF all, size, lim
<1>3. Len(all) = size
  BY <1>2
<1>4. k \in 0 .. size /\ k <= lim /\ (k < size => k = lim /\ k # 0)
  BY <1>1, <1>2, <1>3
<1> HIDE DEF k
<1>5. /\ some \in Seq(rows) /\ Len(some) = k /\ \A n \in 1 .. k : some[n] = all[n]
  <2>1. \A n \in 1 .. k : all[n] \in rows
    BY <1>2, <1>4
  <2>2. /\ SubSeq(all, 1, k) \in Seq(rows)
        /\ Len(SubSeq(all, 1, k)) = IF 1 <= k THEN k - 1 + 1 ELSE 0
        /\ \A n \in 1 .. k - 1 + 1 : SubSeq(all, 1, k)[n] = all[1 + n - 1]
    BY <1>4, <2>1, SubSeqProperties
  <2> QED  BY <1>4, <2>2
<1> HIDE DEF some
<1>6. \A m, n \in 1 .. k : m < n => Precedes(some[m].key, some[n].key, cmp)
  BY <1>2, <1>4, <1>5
<1>7. k = 0 => rows = {}
  BY <1>2, <1>4
<1>8. ASSUME k # 0, NEW r \in rows
      PROVE  (\E n \in 1 .. k : some[n] = r) \/ Precedes(some[k].key, r.key, cmp)
  <2>1. PICK n \in 1 .. size : all[n] = r
    BY <1>2
  <2>2. CASE n <= k
    BY <1>5, <2>1, <2>2
  <2>3. CASE n > k
    BY <1>2, <1>4, <1>5, <1>8, <2>1, <2>3
  <2> QED  BY <1>2, <1>4, <2>2, <2>3
<1> QED
  BY <1>4, <1>5, <1>6, <1>7, <1>8 DEF some, k, all, lim

\* Forward, the page ends at its last row.
LEMMA ForwardPage ==
    ASSUME TableInv, NEW tok
    PROVE  IsPage(Page(tok, FALSE), Beyond(tok, DisplayCmp), "last")
<1> DEFINE rows == Beyond(tok, DisplayCmp)
<1>1. scanCmp(req.desc, FALSE) = DisplayCmp /\ DisplayCmp \in Cmp
  BY DEF scanCmp, DisplayCmp, Cmp, TableInv, Request
<1>2. rows \in SUBSET Rows
  BY DEF Beyond
<1> DEFINE all  == Sorted(rows, DisplayCmp)
           k    == IF Len(all) < effectiveLimit(req.limit) THEN Len(all) ELSE effectiveLimit(req.limit)
           some == SubSeq(all, 1, k)
<1>3. Page(tok, FALSE) = some
  BY <1>1 DEF Page, Beyond, Rows
<1>4. /\ some \in Seq(rows) /\ Len(some) = k /\ k <= effectiveLimit(req.limit)
      /\ \A m, n \in 1 .. k : m < n => Precedes(some[m].key, some[n].key, DisplayCmp)
      /\ k = 0 => rows = {}
      /\ k # 0 => \A r \in rows : \/ \E n \in 1 .. k : some[n] = r
                                  \/ Precedes(some[k].key, r.key, DisplayCmp)
  BY <1>1, <1>2, FirstRows
<1> HIDE DEF some, k, rows
<1>5. some = <<>> <=> k = 0
  BY <1>4
<1> QED
  BY <1>3, <1>4, <1>5 DEF IsPage, rows

\* Against the display order.
LEMMA Against ==
    ASSUME TableInv
    PROVE  /\ scanCmp(req.desc, TRUE) \in Cmp
           /\ \A a, b \in Key : Precedes(a, b, scanCmp(req.desc, TRUE)) <=> Precedes(b, a, DisplayCmp)
BY Converse DEF scanCmp, DisplayCmp, Cmp, TableInv, Request

\* Backward, it is scanned against the display order and begins at its first row.
LEMMA BackwardPage ==
    ASSUME TableInv, NEW tok
    PROVE  IsPage(Page(tok, TRUE), Beyond(tok, scanCmp(req.desc, TRUE)), "first")
<1> DEFINE cmp == scanCmp(req.desc, TRUE)
           rows == Beyond(tok, cmp)
<1>1. cmp \in Cmp /\ \A a, b \in Key : Precedes(a, b, cmp) <=> Precedes(b, a, DisplayCmp)
  BY Against
<1>2. rows \in SUBSET Rows
  BY DEF Beyond
<1>3. \A r \in rows : r.key \in Key
  BY <1>2, RowsOf
<1> DEFINE all  == Sorted(rows, cmp)
           k    == IF Len(all) < effectiveLimit(req.limit) THEN Len(all) ELSE effectiveLimit(req.limit)
           some == SubSeq(all, 1, k)
           p    == [n \in DOMAIN some |-> some[Len(some) + 1 - n]]
<1>4. Page(tok, TRUE) = p
  BY DEF Page, Beyond, Rows, Reversed
<1> HIDE DEF cmp, rows
<1>5. /\ some \in Seq(rows) /\ Len(some) = k /\ k <= effectiveLimit(req.limit)
      /\ \A m, n \in 1 .. k : m < n => Precedes(some[m].key, some[n].key, cmp)
      /\ k = 0 => rows = {}
      /\ k # 0 => \A r \in rows : \/ \E n \in 1 .. k : some[n] = r
                                  \/ Precedes(some[k].key, r.key, cmp)
  BY <1>1, <1>2, FirstRows
<1> HIDE DEF some, k
<1>6. k \in Nat /\ DOMAIN some = 1 .. k /\ \A n \in 1 .. k : some[n] \in rows /\ some[n].key \in Key
  BY <1>3, <1>5
<1>7. /\ p \in Seq(rows) /\ Len(p) = k /\ \A n \in 1 .. k : p[n] = some[k + 1 - n]
  <2>1. \A n \in 1 .. k : k + 1 - n \in 1 .. k
    BY <1>6
  <2>2. p = [n \in 1 .. k |-> some[k + 1 - n]]
    BY <1>5, <1>6
  <2>3. p \in [1 .. k -> rows]
    BY <1>6, <2>1, <2>2
  <2> HIDE DEF p
  <2> QED  BY <1>6, <2>2, <2>3
<1> HIDE DEF p
<1>8. ASSUME NEW m \in 1 .. k, NEW n \in 1 .. k, m < n
      PROVE  Precedes(p[m].key, p[n].key, DisplayCmp)
  <2>1. k + 1 - n \in 1 .. k /\ k + 1 - m \in 1 .. k /\ k + 1 - n < k + 1 - m
    BY <1>6, <1>8
  <2>2. Precedes(some[k + 1 - n].key, some[k + 1 - m].key, cmp)
    BY <1>5, <2>1
  <2>3. some[k + 1 - n].key \in Key /\ some[k + 1 - m].key \in Key
    BY <1>6, <2>1
  <2> QED  BY <1>1, <1>7, <2>2, <2>3
<1>9. ASSUME k # 0, NEW r \in rows
      PROVE  (\E n \in 1 .. k : p[n] = r) \/ Precedes(r.key, p[1].key, DisplayCmp)
  <2>1. CASE \E n \in 1 .. k : some[n] = r
    <3>1. PICK n \in 1 .. k : some[n] = r
      BY <2>1
    <3>2. k + 1 - n \in 1 .. k /\ k + 1 - (k + 1 - n) = n
      BY <1>6
    <3> QED  BY <1>7, <3>1, <3>2
  <2>2. CASE Precedes(some[k].key, r.key, cmp)
    <3>1. 1 \in 1 .. k /\ k \in 1 .. k /\ k + 1 - 1 = k
      BY <1>6, <1>9
    <3>2. p[1] = some[k] /\ some[k].key \in Key /\ r.key \in Key
      BY <1>3, <1>6, <1>7, <3>1
    <3> QED  BY <1>1, <2>2, <3>2
  <2> QED  BY <1>5, <1>9, <2>1, <2>2
<1>10. p = <<>> <=> k = 0
  BY <1>7
<1> QED
  BY <1>4, <1>5, <1>7, <1>8, <1>9, <1>10 DEF IsPage, rows, cmp

------------------------------------------------------------------------------
(* The walk. *)

First == page[1].key
Last  == page[Len(page)].key

Entry == [id : Id, key : Key]
PageTyped == page \in Seq(Entry)

\* Cursors are made of the ends of the page.
InfoFits ==
    info # NULL => /\ info.next # NULL => page # <<>> /\ info.next = Cursor(Last)
                   /\ info.prev # NULL => page # <<>> /\ info.prev = Cursor(First)

\* Rows that stay pass the filter.
StillThere == \A i \in still : i \in Id /\ table[i] # NULL /\ (req.filter => table[i].match)

\* The page lies in the span.
SpanFits ==
    /\ span # NULL => span \in Spans
    /\ page # <<>> => /\ span # NULL /\ ~Precedes(First, span.first, DisplayCmp)
                      /\ ~Precedes(span.last, Last, DisplayCmp)

AtFetch == pc = "fetch" => page = <<>> /\ span = NULL /\ \A i \in Id : seen[i] = 0

\* What lies in the span has been seen.
SpanSeen == span # NULL => \A i \in still : Within(KeyAt(i)) => seen[i] > 0

\* Beyond an end without a cursor is nothing that stays.
EdgesSeen ==
    info # NULL /\ page # <<>> =>
        \A i \in still : /\ info.next = NULL => ~Precedes(Last, KeyAt(i), DisplayCmp)
                         /\ info.prev = NULL => ~Precedes(KeyAt(i), First, DisplayCmp)

\* Who lists everything has got, once, what is not beyond the page.
Ahead(i) == page # <<>> /\ Precedes(Last, KeyAt(i), DisplayCmp)
Listed ==
    req.walk = "all" /\ pc # "fetch" =>
        \A i \in still : /\ Ahead(i) => seen[i] = 0
                         /\ ~Ahead(i) => seen[i] = 1
                         /\ pc = "done" => ~Ahead(i)

WalkInv ==
    /\ PageTyped /\ InfoFits /\ StillThere /\ SpanFits /\ AtFetch
    /\ SpanSeen /\ EdgesSeen /\ Listed

\* The display order is an order.
LEMMA Displayed ==
    ASSUME TableInv
    PROVE  /\ DisplayCmp \in Cmp
           /\ \A a \in Key : ~Precedes(a, a, DisplayCmp)
           /\ \A a, b, c \in Key :
                Precedes(a, b, DisplayCmp) /\ Precedes(b, c, DisplayCmp) => Precedes(a, c, DisplayCmp)
           /\ \A a, b \in Key : a = b \/ Precedes(a, b, DisplayCmp) \/ Precedes(b, a, DisplayCmp)
<1>1. DisplayCmp \in Cmp
  BY DEF DisplayCmp, Cmp
<1> QED
  BY <1>1, Order

\* The keys that the invariant speaks of.
LEMMA Keys ==
    ASSUME TypeOK, WalkInv
    PROVE  /\ TableInv
           /\ page # <<>> => /\ Len(page) \in Nat /\ Len(page) # 0
                             /\ First \in Key /\ Last \in Key /\ ~Precedes(Last, First, DisplayCmp)
           /\ span # NULL => span.first \in Key /\ span.last \in Key
           /\ \A i \in still : /\ i \in Id /\ KeyAt(i) \in Key
                               /\ [id |-> i, key |-> KeyAt(i)] \in Rows
<1>1. TableInv
  BY DEF TypeOK, TableInv
<1>2. span # NULL => span.first \in Key /\ span.last \in Key
  BY DEF WalkInv, SpanFits, Spans
<1>3. \A i \in still : /\ i \in Id /\ KeyAt(i) \in Key /\ [id |-> i, key |-> KeyAt(i)] \in Rows
  BY <1>1, RowsOf DEF WalkInv, StillThere
<1>4. ASSUME page # <<>>
      PROVE  /\ Len(page) \in Nat /\ Len(page) # 0
             /\ First \in Key /\ Last \in Key /\ ~Precedes(Last, First, DisplayCmp)
  <2>1. page \in Seq(Entry)
    BY DEF WalkInv, PageTyped
  <2>2. Len(page) \in Nat /\ Len(page) # 0 /\ DOMAIN page = 1 .. Len(page)
    BY <1>4, <2>1
  <2>3. 1 \in 1 .. Len(page) /\ Len(page) \in 1 .. Len(page)
    BY <2>2
  <2>4. page[1] \in Entry /\ page[Len(page)] \in Entry
    BY <2>1, <2>2, <2>3
  <2>5. First \in Key /\ Last \in Key
    BY <2>4 DEF First, Last, Entry
  <2>6. ~Precedes(Last, First, DisplayCmp)
    <3>1. CASE Len(page) = 1
      BY <1>1, <2>5, <3>1, Displayed DEF First, Last
    <3>2. CASE Len(page) # 1
      <4>1. 1 < Len(page)
        BY <2>2, <3>2
      <4>2. Precedes(First, Last, DisplayCmp)
        BY <2>2, <2>3, <4>1 DEF TypeOK, First, Last
      <4> QED  BY <1>1, <2>5, <4>2, Displayed
    <3> QED  BY <3>1, <3>2
  <2> QED  BY <2>2, <2>5, <2>6
<1> QED
  BY <1>1, <1>2, <1>3, <1>4

\* The page has rows of the query; the client has counted them.
HasRows(p, rows) ==
    \A n \in 1 .. Len(p) : /\ p[n] \in rows /\ p[n].id \in Id /\ p[n].key \in Key
                           /\ p[n].key = KeyAt(p[n].id)
Counted(p) ==
    \A i \in Id : \/ seen'[i] = seen[i] /\ \A n \in 1 .. Len(p) : p[n].id # i
                  \/ /\ \E n \in 1 .. Len(p) : p[n].id = i
                     /\ seen'[i] > 0 /\ (seen[i] = 0 => seen'[i] = 1)

\* What the receipt of a page does to the history.
LEMMA Received ==
    ASSUME TypeOK, WalkInv, NEW rows \in SUBSET Rows, NEW p, NEW edge, IsPage(p, rows, edge), Receive(p)
    PROVE  /\ page' = p /\ info' = NULL /\ pc' = "count"
           /\ Len(p) \in Nat /\ DOMAIN p = 1 .. Len(p) /\ (p = <<>> <=> Len(p) = 0)
           /\ HasRows(p, rows) /\ Counted(p)
           /\ seen' \in [Id -> 0 .. 2]
           /\ p = <<>> => span' = span
           /\ p # <<>> =>
                /\ span' \in Spans
                /\ span'.first = IF span # NULL /\ Precedes(span.first, p[1].key, DisplayCmp)
                                 THEN span.first ELSE p[1].key
                /\ span'.last = IF span # NULL /\ Precedes(p[Len(p)].key, span.last, DisplayCmp)
                                THEN span.last ELSE p[Len(p)].key
<1>1. TableInv /\ seen \in [Id -> 0 .. 2] /\ (span # NULL => span.first \in Key /\ span.last \in Key)
  BY Keys DEF TypeOK
<1>2. p \in Seq(rows)
  BY DEF IsPage
<1>3. Len(p) \in Nat /\ DOMAIN p = 1 .. Len(p) /\ (p = <<>> <=> Len(p) = 0)
      /\ \A n \in 1 .. Len(p) : p[n] \in rows
  BY <1>2
<1>4. \A n \in 1 .. Len(p) : p[n].id \in Id /\ p[n].key \in Key /\ p[n].key = KeyAt(p[n].id)
  BY <1>1, <1>3, RowsOf
<1>5. seen' = [i \in Id |-> IF \E n \in 1 .. Len(p) : p[n].id = i
                            THEN IF seen[i] < 2 THEN seen[i] + 1 ELSE 2 ELSE seen[i]]
  BY <1>3 DEF Receive
<1>6. /\ seen' \in [Id -> 0 .. 2]
      /\ \A i \in Id : \/ seen'[i] = seen[i] /\ \A n \in 1 .. Len(p) : p[n].id # i
                       \/ /\ \E n \in 1 .. Len(p) : p[n].id = i
                          /\ seen'[i] > 0 /\ (seen[i] = 0 => seen'[i] = 1)
  <2>1. \A i \in Id : seen[i] \in 0 .. 2
    BY <1>1
  <2>2. ASSUME NEW i \in Id
        PROVE  /\ seen'[i] \in 0 .. 2
               /\ \/ seen'[i] = seen[i] /\ \A n \in 1 .. Len(p) : p[n].id # i
                  \/ /\ \E n \in 1 .. Len(p) : p[n].id = i
                     /\ seen'[i] > 0 /\ (seen[i] = 0 => seen'[i] = 1)
    BY <1>5, <2>1, <2>2
  <2> QED  BY <1>5, <2>2
<1>7. HasRows(p, rows) /\ Counted(p)
  BY <1>3, <1>4, <1>6 DEF HasRows, Counted
<1>8. p = <<>> => span' = span
  BY DEF Receive
<1>9. p # <<>> =>
        /\ span' \in Spans
        /\ span'.first = IF span # NULL /\ Precedes(span.first, p[1].key, DisplayCmp)
                         THEN span.first ELSE p[1].key
        /\ span'.last = IF span # NULL /\ Precedes(p[Len(p)].key, span.last, DisplayCmp)
                        THEN span.last ELSE p[Len(p)].key
  <2> SUFFICES ASSUME p # <<>>
               PROVE  /\ span' \in Spans
                      /\ span'.first = IF span # NULL /\ Precedes(span.first, p[1].key, DisplayCmp)
                                       THEN span.first ELSE p[1].key
                      /\ span'.last = IF span # NULL /\ Precedes(p[Len(p)].key, span.last, DisplayCmp)
                                      THEN span.last ELSE p[Len(p)].key
    OBVIOUS
  <2>1. 1 \in 1 .. Len(p) /\ Len(p) \in 1 .. Len(p)
    BY <1>3
  <2>2. p[1].key \in Key /\ p[Len(p)].key \in Key
    BY <1>4, <2>1
  <2>3. span' = [first |-> IF span # NULL /\ Precedes(span.first, p[1].key, DisplayCmp)
                           THEN span.first ELSE p[1].key,
                 last |-> IF span # NULL /\ Precedes(p[Len(p)].key, span.last, DisplayCmp)
                          THEN span.last ELSE p[Len(p)].key]
    BY DEF Receive
  <2> QED  BY <1>1, <2>2, <2>3 DEF Spans
<1>10. page' = p /\ info' = NULL /\ pc' = "count"
  BY DEF Receive
<1> QED
  BY <1>3, <1>6, <1>7, <1>8, <1>9, <1>10

\* What every receipt keeps.
LEMMA ReceiptKeeps ==
    ASSUME TypeOK, WalkInv, NEW rows \in SUBSET Rows, NEW p, NEW edge, IsPage(p, rows, edge), Receive(p),
           UNCHANGED <<table, req, still, changes>>
    PROVE  /\ TypeOK' /\ PageTyped' /\ InfoFits' /\ StillThere' /\ SpanFits' /\ AtFetch' /\ EdgesSeen'
           /\ p # <<>> => \A n \in 1 .. Len(p) : /\ ~Precedes(p[n].key, p[1].key, DisplayCmp)
                                                 /\ ~Precedes(p[Len(p)].key, p[n].key, DisplayCmp)
<1>1. page' = p /\ info' = NULL /\ pc' = "count" /\ seen' \in [Id -> 0 .. 2]
  BY Received
<1>10. Len(p) \in Nat /\ DOMAIN p = 1 .. Len(p) /\ (p = <<>> <=> Len(p) = 0)
  BY Received
<1>11. \A n \in 1 .. Len(p) : p[n].key \in Key
  BY Received DEF HasRows
<1>12. /\ p = <<>> => span' = span
       /\ p # <<>> =>
            /\ span' \in Spans
            /\ span'.first = IF span # NULL /\ Precedes(span.first, p[1].key, DisplayCmp)
                             THEN span.first ELSE p[1].key
            /\ span'.last = IF span # NULL /\ Precedes(p[Len(p)].key, span.last, DisplayCmp)
                            THEN span.last ELSE p[Len(p)].key
  BY Received
<1>2. TableInv /\ (span # NULL => span.first \in Key /\ span.last \in Key)
  BY Keys
<1>3. DisplayCmp' = DisplayCmp
  BY DEF DisplayCmp
<1>4. TypeOK'
  <2>1. /\ Len(p) <= effectiveLimit(req.limit)
        /\ \A m, n \in 1 .. Len(p) : m < n => Precedes(p[m].key, p[n].key, DisplayCmp)
    BY DEF IsPage
  <2> QED  BY <1>1, <1>3, <1>10, <2>1 DEF TypeOK, effectiveLimit
<1>5. PageTyped'
  <2>1. p \in Seq(rows)
    BY DEF IsPage
  <2>2. \A r \in rows : r \in Entry
    BY <1>2, RowsOf DEF Entry
  <2>3. p \in Seq(Entry)
    BY <2>1, <2>2
  <2> QED  BY <1>1, <2>3 DEF PageTyped
<1>6. InfoFits' /\ AtFetch' /\ EdgesSeen'
  BY <1>1 DEF InfoFits, AtFetch, EdgesSeen
<1>7. StillThere'
  BY DEF WalkInv, StillThere
<1>8. SpanFits'
  <2>1. CASE p = <<>>
    BY <1>1, <1>3, <1>12, <2>1 DEF SpanFits, WalkInv
  <2>2. CASE p # <<>>
    <3>1. 1 \in 1 .. Len(p) /\ Len(p) \in 1 .. Len(p)
      BY <1>10, <2>2
    <3>2. p[1].key \in Key /\ p[Len(p)].key \in Key
      BY <1>11, <3>1
    <3>3. ~Precedes(p[1].key, span'.first, DisplayCmp) /\ ~Precedes(span'.last, p[Len(p)].key, DisplayCmp)
      BY <1>2, <1>12, <2>2, <3>2, Displayed
    <3>4. span' # NULL
      BY <1>12, <2>2, NullIsNone
    <3> QED  BY <1>1, <1>3, <1>12, <2>2, <3>3, <3>4 DEF SpanFits, First, Last
  <2> QED  BY <2>1, <2>2
<1>9. ASSUME p # <<>>, NEW n \in 1 .. Len(p)
      PROVE  ~Precedes(p[n].key, p[1].key, DisplayCmp) /\ ~Precedes(p[Len(p)].key, p[n].key, DisplayCmp)
  <2>1. 1 \in 1 .. Len(p) /\ Len(p) \in 1 .. Len(p) /\ (n = 1 \/ 1 < n) /\ (n = Len(p) \/ n < Len(p))
    <3>1. Len(p) \in Nat /\ Len(p) # 0
      BY <1>9, <1>10
    <3>2. \A k \in Nat : k # 0 => 1 \in 1 .. k /\ k \in 1 .. k
      OBVIOUS
    <3>3. \A k \in Nat : \A m \in 1 .. k : (m = 1 \/ 1 < m) /\ (m = k \/ m < k)
      OBVIOUS
    <3> QED  BY <3>1, <3>2, <3>3
  <2>2. \A k, m \in 1 .. Len(p) : k < m => Precedes(p[k].key, p[m].key, DisplayCmp)
    BY DEF IsPage
  <2>3. p[1].key \in Key /\ p[Len(p)].key \in Key /\ p[n].key \in Key
    BY <1>11, <2>1
  <2> QED  BY <1>2, <2>1, <2>2, <2>3, Displayed
<1> QED
  BY <1>4, <1>5, <1>6, <1>7, <1>8, <1>9

\* What lies in the span after a receipt lies in it before or in the page, if the page
\* goes on where the one before it ended.
LEMMA SpanSeenStep ==
    ASSUME TypeOK, WalkInv, NEW rows \in SUBSET Rows, NEW p, NEW edge, IsPage(p, rows, edge), Receive(p),
           UNCHANGED <<table, req, still, changes>>, p # <<>>,
           \A i \in still : \/ [id |-> i, key |-> KeyAt(i)] \in rows
                            \/ /\ page # <<>> /\ edge = "last" /\ ~Precedes(Last, KeyAt(i), DisplayCmp)
                               /\ Precedes(Last, p[1].key, DisplayCmp)
                            \/ /\ page # <<>> /\ edge = "first" /\ ~Precedes(KeyAt(i), First, DisplayCmp)
                               /\ Precedes(p[Len(p)].key, First, DisplayCmp),
           \/ page = <<>> /\ span = NULL
           \/ page # <<>> /\ edge = "last" /\ Precedes(Last, p[1].key, DisplayCmp)
           \/ page # <<>> /\ edge = "first" /\ Precedes(p[Len(p)].key, First, DisplayCmp)
    PROVE  SpanSeen'
<1> DEFINE pf == p[1].key
           pl == p[Len(p)].key
           sf == span.first
           sl == span.last
<1>1. /\ TableInv
      /\ page # <<>> => First \in Key /\ Last \in Key /\ ~Precedes(Last, First, DisplayCmp)
      /\ span # NULL => sf \in Key /\ sl \in Key
      /\ \A i \in still : i \in Id /\ KeyAt(i) \in Key
  BY Keys
<1>2. /\ span'.first = IF span # NULL /\ Precedes(sf, pf, DisplayCmp) THEN sf ELSE pf
      /\ span'.last = IF span # NULL /\ Precedes(pl, sl, DisplayCmp) THEN sl ELSE pl
  BY Received
<1>3. \A i \in Id : \/ seen'[i] = seen[i] /\ \A n \in 1 .. Len(p) : p[n].id # i
                    \/ seen'[i] > 0
  <2>1. Counted(p)
    BY Received
  <2> QED  BY <2>1 DEF Counted
<1>4. Len(p) \in Nat /\ Len(p) # 0
  BY Received
<1>5. 1 \in 1 .. Len(p) /\ Len(p) \in 1 .. Len(p)
  BY <1>4
<1>6. pf \in Key /\ pl \in Key
  <2>1. \A n \in 1 .. Len(p) : p[n].key \in Key
    BY Received DEF HasRows
  <2> QED  BY <1>5, <2>1
<1>7. ~Precedes(pl, pf, DisplayCmp)
  BY <1>5, ReceiptKeeps
<1>8. page # <<>> => span # NULL /\ ~Precedes(First, sf, DisplayCmp) /\ ~Precedes(sl, Last, DisplayCmp)
  BY DEF WalkInv, SpanFits
<1>9. DisplayCmp' = DisplayCmp
  BY DEF DisplayCmp
<1> SUFFICES ASSUME NEW i \in still, ~Precedes(KeyAt(i), span'.first, DisplayCmp),
                    ~Precedes(span'.last, KeyAt(i), DisplayCmp)
             PROVE  seen'[i] > 0
  BY <1>9 DEF SpanSeen, Within, KeyAt
<1> DEFINE x == KeyAt(i)
<1>10. x \in Key /\ i \in Id
  BY <1>1
<1>11. CASE \E n \in 1 .. Len(p) : p[n] = [id |-> i, key |-> x]
  BY <1>3, <1>10, <1>11
<1>12. CASE span # NULL /\ ~Precedes(x, sf, DisplayCmp) /\ ~Precedes(sl, x, DisplayCmp)
  <2>1. seen[i] > 0
    BY <1>12 DEF WalkInv, SpanSeen, Within
  <2> QED  BY <1>3, <1>10, <2>1
<1>13. \/ [id |-> i, key |-> x] \in rows
       \/ /\ page # <<>> /\ edge = "last" /\ ~Precedes(Last, x, DisplayCmp)
          /\ Precedes(Last, pf, DisplayCmp)
       \/ /\ page # <<>> /\ edge = "first" /\ ~Precedes(x, First, DisplayCmp)
          /\ Precedes(pl, First, DisplayCmp)
  OBVIOUS
<1>14. [id |-> i, key |-> x] \in rows =>
         \/ \E n \in 1 .. Len(p) : p[n] = [id |-> i, key |-> x]
         \/ edge = "last" /\ Precedes(pl, x, DisplayCmp)
         \/ edge = "first" /\ Precedes(x, pf, DisplayCmp)
  <2> SUFFICES ASSUME [id |-> i, key |-> x] \in rows
               PROVE  \/ \E n \in 1 .. Len(p) : p[n] = [id |-> i, key |-> x]
                      \/ edge = "last" /\ Precedes(pl, x, DisplayCmp)
                      \/ edge = "first" /\ Precedes(x, pf, DisplayCmp)
    OBVIOUS
  <2>1. \A q \in rows : \/ \E n \in 1 .. Len(p) : p[n] = q
                        \/ edge = "last" /\ Precedes(pl, q.key, DisplayCmp)
                        \/ edge = "first" /\ Precedes(q.key, pf, DisplayCmp)
    BY DEF IsPage
  <2>2. [id |-> i, key |-> x].key = x
    OBVIOUS
  <2> QED  BY <2>1, <2>2
<1> HIDE DEF pf, pl, sf, sl, x
<1>15. /\ DisplayCmp \in Cmp
       /\ \A a \in Key : ~Precedes(a, a, DisplayCmp)
       /\ \A a, b, c \in Key :
            Precedes(a, b, DisplayCmp) /\ Precedes(b, c, DisplayCmp) => Precedes(a, c, DisplayCmp)
       /\ \A a, b \in Key : a = b \/ Precedes(a, b, DisplayCmp) \/ Precedes(b, a, DisplayCmp)
  BY <1>1, Displayed
<1>16. ~Precedes(x, span'.first, DisplayCmp) /\ ~Precedes(span'.last, x, DisplayCmp)
  BY DEF x
<1>17. CASE page = <<>> /\ span = NULL
  <2>1. ~Precedes(x, pf, DisplayCmp) /\ ~Precedes(pl, x, DisplayCmp)
    BY <1>2, <1>16, <1>17
  <2> QED  BY <1>11, <1>13, <1>14, <1>17, <2>1
<1>18. CASE page # <<>> /\ edge = "last" /\ Precedes(Last, pf, DisplayCmp)
  <2>1. span # NULL /\ sf \in Key /\ sl \in Key /\ First \in Key /\ Last \in Key
    BY <1>1, <1>8, <1>18
  <2>2. Precedes(sf, pf, DisplayCmp)
    BY <1>1, <1>6, <1>8, <1>15, <1>18, <2>1
  <2>3. ~Precedes(x, sf, DisplayCmp)
    BY <1>2, <1>16, <2>1, <2>2
  <2>4. \/ ~Precedes(sl, x, DisplayCmp)
        \/ Precedes(sl, x, DisplayCmp) /\ ~Precedes(pl, x, DisplayCmp)
    BY <1>2, <1>6, <1>10, <1>15, <1>16, <2>1
  <2>5. CASE ~Precedes(sl, x, DisplayCmp)
    BY <1>12, <2>1, <2>3, <2>5
  <2>6. CASE Precedes(sl, x, DisplayCmp) /\ ~Precedes(pl, x, DisplayCmp)
    <3>1. Precedes(Last, x, DisplayCmp)
      BY <1>8, <1>10, <1>15, <1>18, <2>1, <2>6
    <3>2. [id |-> i, key |-> x] \in rows
      BY <1>13, <1>18, <3>1
    <3> QED  BY <1>11, <1>14, <1>18, <2>6, <3>2
  <2> QED  BY <2>4, <2>5, <2>6
<1>19. CASE page # <<>> /\ edge = "first" /\ Precedes(pl, First, DisplayCmp)
  <2>1. span # NULL /\ sf \in Key /\ sl \in Key /\ First \in Key /\ Last \in Key
    BY <1>1, <1>8, <1>19
  <2>2. Precedes(pl, sl, DisplayCmp)
    BY <1>1, <1>6, <1>8, <1>15, <1>19, <2>1
  <2>3. ~Precedes(sl, x, DisplayCmp)
    BY <1>2, <1>16, <2>1, <2>2
  <2>4. \/ ~Precedes(x, sf, DisplayCmp)
        \/ Precedes(x, sf, DisplayCmp) /\ ~Precedes(x, pf, DisplayCmp)
    BY <1>2, <1>6, <1>10, <1>15, <1>16, <2>1
  <2>5. CASE ~Precedes(x, sf, DisplayCmp)
    BY <1>12, <2>1, <2>3, <2>5
  <2>6. CASE Precedes(x, sf, DisplayCmp) /\ ~Precedes(x, pf, DisplayCmp)
    <3>1. Precedes(x, First, DisplayCmp)
      BY <1>8, <1>10, <1>15, <1>19, <2>1, <2>6
    <3>2. [id |-> i, key |-> x] \in rows
      BY <1>13, <1>19, <3>1
    <3> QED  BY <1>11, <1>14, <1>19, <2>6, <3>2
  <2> QED  BY <2>4, <2>5, <2>6
<1> QED
  BY <1>17, <1>18, <1>19 DEF pf, pl

\* Row i is in the rows the page is taken from and new, or known and not after the page.
Owed(rows, p, i) ==
    \/ [id |-> i, key |-> KeyAt(i)] \in rows /\ seen[i] = 0
    \/ /\ [id |-> i, key |-> KeyAt(i)] \notin rows /\ seen[i] = 1
       /\ p # <<>> => ~Precedes(p[Len(p)].key, KeyAt(i), DisplayCmp)

\* Who lists everything gets the rows beyond the last page, and gets them once.
LEMMA ListedStep ==
    ASSUME TypeOK, WalkInv, NEW rows \in SUBSET Rows, NEW p, NEW edge, edge = "last",
           IsPage(p, rows, edge), Receive(p),
           UNCHANGED <<table, req, still, changes>>,
           req.walk = "all" => \A i \in still : Owed(rows, p, i)
    PROVE  Listed'
<1>1. page' = p /\ pc' = "count"
  BY Received
<1>2. Len(p) \in Nat /\ DOMAIN p = 1 .. Len(p) /\ (p = <<>> <=> Len(p) = 0)
  BY Received
<1>3. \A n \in 1 .. Len(p) : p[n] \in rows /\ p[n].id \in Id /\ p[n].key \in Key
                             /\ p[n].key = KeyAt(p[n].id)
  <2>1. HasRows(p, rows)
    BY Received
  <2> QED  BY <2>1 DEF HasRows
<1>4. \A i \in Id : \/ seen'[i] = seen[i] /\ \A n \in 1 .. Len(p) : p[n].id # i
                   \/ /\ \E n \in 1 .. Len(p) : p[n].id = i
                      /\ seen'[i] > 0 /\ (seen[i] = 0 => seen'[i] = 1)
  <2>1. Counted(p)
    BY Received
  <2> QED  BY <2>1 DEF Counted
<1>5. TableInv /\ DisplayCmp' = DisplayCmp /\ \A i \in still : i \in Id
  BY Keys DEF DisplayCmp
<1>6. \A n \in 1 .. Len(p) : p[n] = [id |-> p[n].id, key |-> KeyAt(p[n].id)]
  BY <1>3, <1>5, RowsOf
<1>7. \A r \in rows : p # <<>> /\ (\/ \E n \in 1 .. Len(p) : p[n] = r
                                   \/ Precedes(p[Len(p)].key, r.key, DisplayCmp))
  BY DEF IsPage
<1>8. p # <<>> => \A n \in 1 .. Len(p) : ~Precedes(p[Len(p)].key, p[n].key, DisplayCmp)
  BY ReceiptKeeps
<1> SUFFICES ASSUME req.walk = "all", NEW i \in still
             PROVE  /\ p # <<>> /\ Precedes(p[Len(p)].key, KeyAt(i), DisplayCmp) => seen'[i] = 0
                    /\ ~(p # <<>> /\ Precedes(p[Len(p)].key, KeyAt(i), DisplayCmp)) => seen'[i] = 1
  BY <1>1, <1>5 DEF Listed, Ahead, Last, KeyAt
<1> DEFINE row == [id |-> i, key |-> KeyAt(i)]
<1>9. row.id = i /\ row.key = KeyAt(i) /\ i \in Id
  BY <1>5
<1>10. \A n \in 1 .. Len(p) : p[n].id = i => p[n] = row
  BY <1>6
<1> HIDE DEF row
<1>11. \/ row \in rows /\ seen[i] = 0
       \/ /\ row \notin rows /\ seen[i] = 1
          /\ p # <<>> => ~Precedes(p[Len(p)].key, KeyAt(i), DisplayCmp)
  BY DEF row, Owed
<1>12. CASE row \in rows /\ seen[i] = 0
  <2>1. p # <<>> /\ (\/ \E n \in 1 .. Len(p) : p[n] = row
                     \/ Precedes(p[Len(p)].key, KeyAt(i), DisplayCmp))
    BY <1>7, <1>9, <1>12
  <2>2. CASE Precedes(p[Len(p)].key, KeyAt(i), DisplayCmp)
    <3>1. \A n \in 1 .. Len(p) : p[n].id # i
      BY <1>8, <1>9, <1>10, <2>1, <2>2
    <3> QED  BY <1>4, <1>9, <1>12, <2>1, <2>2, <3>1
  <2>3. CASE ~Precedes(p[Len(p)].key, KeyAt(i), DisplayCmp)
    <3>1. PICK n \in 1 .. Len(p) : p[n] = row
      BY <2>1, <2>3
    <3> QED  BY <1>4, <1>9, <1>12, <2>3, <3>1
  <2> QED  BY <2>2, <2>3
<1>13. CASE /\ row \notin rows /\ seen[i] = 1
            /\ p # <<>> => ~Precedes(p[Len(p)].key, KeyAt(i), DisplayCmp)
  <2>1. \A n \in 1 .. Len(p) : p[n].id # i
    BY <1>3, <1>10, <1>13
  <2> QED  BY <1>4, <1>9, <1>13, <2>1
<1> QED
  BY <1>11, <1>12, <1>13

\* The first page.
LEMMA FetchFirstKeeps ==
    ASSUME TypeOK, WalkInv, FetchFirst
    PROVE  TypeOK' /\ WalkInv'
<1> DEFINE p == Page(NULL, FALSE)
<1>1. /\ TableInv
      /\ \A i \in still : i \in Id /\ [id |-> i, key |-> KeyAt(i)] \in Rows
  BY Keys
<1>2. Beyond(NULL, DisplayCmp) = Rows
  BY DEF Beyond
<1>3. IsPage(p, Rows, "last")
  BY <1>1, <1>2, ForwardPage
<1>4. Receive(p) /\ UNCHANGED <<table, req, still, changes>>
  BY DEF FetchFirst
<1>5. page = <<>> /\ span = NULL /\ \A i \in Id : seen[i] = 0
  BY DEF FetchFirst, WalkInv, AtFetch
<1> HIDE DEF p
<1>6. /\ TypeOK' /\ PageTyped' /\ InfoFits' /\ StillThere' /\ SpanFits' /\ AtFetch' /\ EdgesSeen'
  BY <1>3, <1>4, ReceiptKeeps
<1>7. SpanSeen'
  <2>1. CASE p # <<>>
    BY <1>1, <1>3, <1>4, <1>5, <2>1, SpanSeenStep
  <2>2. CASE p = <<>>
    <3>1. span' = span
      BY <1>3, <1>4, <2>2, Received
    <3> QED  BY <1>5, <3>1 DEF SpanSeen
  <2> QED  BY <2>1, <2>2
<1>8. Listed'
  <2>1. \A i \in still : [id |-> i, key |-> KeyAt(i)] \in Rows /\ seen[i] = 0
    BY <1>1, <1>5
  <2> QED  BY <1>3, <1>4, <2>1, ListedStep DEF Owed
<1> QED
  BY <1>6, <1>7, <1>8 DEF WalkInv

\* An empty page leaves the span and what is known of it.
LEMMA EmptyPage ==
    ASSUME TypeOK, WalkInv, NEW rows \in SUBSET Rows, NEW p, NEW edge, IsPage(p, rows, edge), Receive(p),
           UNCHANGED <<table, req, still, changes>>, p = <<>>
    PROVE  SpanSeen'
<1>1. span' = span /\ Len(p) = 0
  BY Received
<1>2. Counted(p)
  BY Received
<1>3. \A i \in Id : seen'[i] = seen[i]
  BY <1>1, <1>2 DEF Counted
<1>4. DisplayCmp' = DisplayCmp /\ \A i \in still : i \in Id
  BY Keys DEF DisplayCmp
<1>5. SpanSeen
  BY DEF WalkInv
<1> QED
  BY <1>1, <1>3, <1>4, <1>5 DEF SpanSeen, Within, KeyAt

\* The next page is what follows the last row.
LEMMA ForwardKeeps ==
    ASSUME TypeOK, WalkInv, Forward
    PROVE  TypeOK' /\ WalkInv'
<1> DEFINE tok == info.next
           p == Page(tok, FALSE)
           rows == Beyond(tok, DisplayCmp)
<1>1. /\ TableInv /\ \A i \in still : /\ i \in Id /\ KeyAt(i) \in Key
                                      /\ [id |-> i, key |-> KeyAt(i)] \in Rows
  BY Keys
<1>2. info # NULL /\ pc = "choose" /\ tok # NULL
  BY DEF Forward, TypeOK
<1>3. page # <<>> /\ tok = Cursor(Last)
  BY <1>2 DEF WalkInv, InfoFits
<1>4. Last \in Key /\ tok.v = Last
  BY <1>3, Keys DEF Cursor
<1>5. IsPage(p, rows, "last")
  BY <1>1, ForwardPage
<1>6. Receive(p) /\ UNCHANGED <<table, req, still, changes>>
  BY DEF Forward
<1> HIDE DEF p
<1>7. rows \in SUBSET Rows
  BY DEF Beyond
<1>8. \A r \in Rows : r \in rows <=> Precedes(Last, r.key, DisplayCmp)
  <2> SUFFICES ASSUME NEW r \in Rows PROVE r \in rows <=> Precedes(Last, r.key, DisplayCmp)
    OBVIOUS
  <2>1. r.key \in Key /\ DisplayCmp \in Cmp
    BY <1>1, RowsOf, Displayed
  <2>2. keysetPredicate(r.key, DisplayCmp, Last) <=> Precedes(Last, r.key, DisplayCmp)
    BY <1>4, <2>1, Predicate
  <2> QED  BY <1>2, <1>4, <2>2 DEF Beyond
<1> HIDE DEF tok, rows
<1>9. /\ TypeOK' /\ PageTyped' /\ InfoFits' /\ StillThere' /\ SpanFits' /\ AtFetch' /\ EdgesSeen'
  BY <1>5, <1>6, <1>7, ReceiptKeeps
<1>10. \A i \in still : [id |-> i, key |-> KeyAt(i)] \in rows <=> Precedes(Last, KeyAt(i), DisplayCmp)
  BY <1>1, <1>8
<1>11. p # <<>> => /\ p[1].key \in Key /\ p[Len(p)].key \in Key
                   /\ Precedes(Last, p[1].key, DisplayCmp) /\ Precedes(Last, p[Len(p)].key, DisplayCmp)
  <2> SUFFICES ASSUME p # <<>>
               PROVE  /\ p[1].key \in Key /\ p[Len(p)].key \in Key
                      /\ Precedes(Last, p[1].key, DisplayCmp) /\ Precedes(Last, p[Len(p)].key, DisplayCmp)
    OBVIOUS
  <2>1. HasRows(p, rows) /\ Len(p) \in Nat /\ (p = <<>> <=> Len(p) = 0)
    BY <1>5, <1>6, <1>7, Received
  <2>2. 1 \in 1 .. Len(p) /\ Len(p) \in 1 .. Len(p)
    BY <2>1
  <2>3. p[1] \in rows /\ p[1].key \in Key /\ p[Len(p)] \in rows /\ p[Len(p)].key \in Key
    BY <2>1, <2>2 DEF HasRows
  <2> QED  BY <1>7, <1>8, <2>3
<1>12. SpanSeen'
  <2>1. CASE p # <<>>
    BY <1>3, <1>5, <1>6, <1>7, <1>10, <1>11, <2>1, SpanSeenStep
  <2>2. CASE p = <<>>
    BY <1>5, <1>6, <1>7, <2>2, EmptyPage
  <2> QED  BY <2>1, <2>2
<1>13. Listed'
  <2>1. ASSUME req.walk = "all", NEW i \in still PROVE Owed(rows, p, i)
    <3>1. \/ Precedes(Last, KeyAt(i), DisplayCmp) /\ seen[i] = 0
          \/ ~Precedes(Last, KeyAt(i), DisplayCmp) /\ seen[i] = 1
      BY <1>2, <1>3, <2>1 DEF WalkInv, Listed, Ahead
    <3>2. CASE Precedes(Last, KeyAt(i), DisplayCmp) /\ seen[i] = 0
      BY <1>10, <3>2 DEF Owed
    <3>3. CASE ~Precedes(Last, KeyAt(i), DisplayCmp) /\ seen[i] = 1
      <4>1. p # <<>> => ~Precedes(p[Len(p)].key, KeyAt(i), DisplayCmp)
        BY <1>1, <1>4, <1>11, <3>3, Displayed
      <4> QED  BY <1>10, <3>3, <4>1 DEF Owed
    <3> QED  BY <3>1, <3>2, <3>3
  <2> QED  BY <1>5, <1>6, <1>7, <2>1, ListedStep
<1> QED
  BY <1>9, <1>12, <1>13 DEF WalkInv

\* The page before it is what precedes the first row.
LEMMA BackwardKeeps ==
    ASSUME TypeOK, WalkInv, Backward
    PROVE  TypeOK' /\ WalkInv'
<1> DEFINE tok == info.prev
           p == Page(tok, TRUE)
           cmp == scanCmp(req.desc, TRUE)
           rows == Beyond(tok, cmp)
<1>1. /\ TableInv /\ \A i \in still : /\ i \in Id /\ KeyAt(i) \in Key
                                      /\ [id |-> i, key |-> KeyAt(i)] \in Rows
  BY Keys
<1>2. info # NULL /\ pc = "choose" /\ tok # NULL
  BY DEF Backward, TypeOK
<1>3. page # <<>> /\ tok = Cursor(First)
  BY <1>2 DEF WalkInv, InfoFits
<1>4. First \in Key /\ tok.v = First
  BY <1>3, Keys DEF Cursor
<1>5. IsPage(p, rows, "first")
  BY <1>1, BackwardPage
<1>6. Receive(p) /\ UNCHANGED <<table, req, still, changes>>
  BY DEF Backward
<1> HIDE DEF p
<1>7. rows \in SUBSET Rows
  BY DEF Beyond
<1>8. \A r \in Rows : r \in rows <=> Precedes(r.key, First, DisplayCmp)
  <2> SUFFICES ASSUME NEW r \in Rows PROVE r \in rows <=> Precedes(r.key, First, DisplayCmp)
    OBVIOUS
  <2>1. cmp \in Cmp /\ \A a, b \in Key : Precedes(a, b, cmp) <=> Precedes(b, a, DisplayCmp)
    BY <1>1, Against
  <2>2. r.key \in Key
    BY <1>1, RowsOf
  <2> HIDE DEF cmp
  <2>3. keysetPredicate(r.key, cmp, First) <=> Precedes(First, r.key, cmp)
    BY <1>4, <2>1, <2>2, Predicate
  <2> QED  BY <1>2, <1>4, <2>1, <2>2, <2>3 DEF Beyond
<1> HIDE DEF tok, rows, cmp
<1>9. /\ TypeOK' /\ PageTyped' /\ InfoFits' /\ StillThere' /\ SpanFits' /\ AtFetch' /\ EdgesSeen'
  BY <1>5, <1>6, <1>7, ReceiptKeeps
<1>10. \A i \in still : [id |-> i, key |-> KeyAt(i)] \in rows <=> Precedes(KeyAt(i), First, DisplayCmp)
  BY <1>1, <1>8
<1>11. p # <<>> => Precedes(p[Len(p)].key, First, DisplayCmp)
  <2> SUFFICES ASSUME p # <<>> PROVE Precedes(p[Len(p)].key, First, DisplayCmp)
    OBVIOUS
  <2>1. HasRows(p, rows)
    BY <1>5, <1>6, <1>7, Received
  <2>4. Len(p) \in Nat /\ (p = <<>> <=> Len(p) = 0)
    BY <1>5, <1>6, <1>7, Received
  <2>2. Len(p) \in 1 .. Len(p)
    BY <2>4
  <2>3. p[Len(p)] \in rows
    BY <2>1, <2>2 DEF HasRows
  <2> QED  BY <1>7, <1>8, <2>3
<1>12. SpanSeen'
  <2>1. CASE p # <<>>
    BY <1>3, <1>5, <1>6, <1>7, <1>10, <1>11, <2>1, SpanSeenStep
  <2>2. CASE p = <<>>
    BY <1>5, <1>6, <1>7, <2>2, EmptyPage
  <2> QED  BY <2>1, <2>2
<1>13. Listed'
  BY DEF Backward, Listed
<1> QED
  BY <1>9, <1>12, <1>13 DEF WalkInv

\* A count is zero where there is nothing.
LEMMA SideCounts ==
    ASSUME TableInv, NEW cmp \in Cmp, NEW b \in Key
    PROVE  /\ Side(cmp, b) \in Nat
           /\ Side(cmp, b) = 0 <=> \A r \in Rows : ~Precedes(b, r.key, cmp)
<1> DEFINE rows == {r \in Rows : keysetPredicate(r.key, cmp, b)}
           n == Cardinality(rows)
<1>1. rows \in SUBSET Rows
  OBVIOUS
<1>2. \A r \in Rows : r \in rows <=> Precedes(b, r.key, cmp)
  BY RowsOf, Predicate
<1>3. Side(cmp, b) = IF n > pageCountCap THEN pageCountCap + 1 ELSE n
  BY DEF Side, Rows
<1> HIDE DEF rows
<1>4. IsFiniteSet(rows)
  BY <1>1, RowsKeyed DEF Keyed
<1>5. n \in Nat /\ (n = 0 <=> rows = {})
  BY <1>4, FS_CardinalityType, FS_EmptySet
<1>6. rows = {} <=> \A r \in Rows : ~Precedes(b, r.key, cmp)
  BY <1>1, <1>2
<1> HIDE DEF n
<1>7. pageCountCap \in Nat
  BY PagingConstants
<1>8. Side(cmp, b) \in Nat /\ (Side(cmp, b) = 0 <=> n = 0)
  BY <1>3, <1>5, <1>7
<1> QED
  BY <1>5, <1>6, <1>8

\* The counts give a cursor to each side that has rows.
LEMMA CountedEnds ==
    ASSUME TypeOK, WalkInv, pc = "count"
    PROVE  /\ pageInfo \in InfoForm
           /\ pageInfo.next # NULL => page # <<>> /\ pageInfo.next = Cursor(Last)
           /\ pageInfo.prev # NULL => page # <<>> /\ pageInfo.prev = Cursor(First)
           /\ page # <<>> =>
                /\ pageInfo.next = NULL => \A r \in Rows : ~Precedes(Last, r.key, DisplayCmp)
                /\ pageInfo.prev = NULL => \A r \in Rows : ~Precedes(r.key, First, DisplayCmp)
<1>1. TableInv /\ \A r \in Rows : r.key \in Key
  BY Keys, RowsOf
<1>2. CASE page = <<>>
  BY <1>2 DEF pageInfo, InfoForm
<1>3. CASE page # <<>>
  <2> DEFINE before == Side(scanCmp(req.desc, TRUE), First)
             after  == Side(scanCmp(req.desc, FALSE), Last)
  <2>1. First \in Key /\ Last \in Key
    BY <1>3, Keys
  <2>2. Cursor(First) \in TokenForm /\ Cursor(Last) \in TokenForm
    BY <1>1, <2>1 DEF Cursor, TokenForm, TableInv, Request
  <2>3. pageInfo = [before |-> before, after |-> after,
                    prev |-> IF before > 0 THEN Cursor(First) ELSE NULL,
                    next |-> IF after > 0 THEN Cursor(Last) ELSE NULL]
    BY <1>3 DEF pageInfo, First, Last
  <2>4. before \in Nat /\ (before = 0 <=> \A r \in Rows : ~Precedes(r.key, First, DisplayCmp))
    <3> DEFINE cmp == scanCmp(req.desc, TRUE)
    <3>1. cmp \in Cmp /\ \A a, b \in Key : Precedes(a, b, cmp) <=> Precedes(b, a, DisplayCmp)
      BY <1>1, Against
    <3> HIDE DEF cmp
    <3>2. Side(cmp, First) \in Nat /\ (Side(cmp, First) = 0 <=> \A r \in Rows : ~Precedes(First, r.key, cmp))
      BY <1>1, <2>1, <3>1, SideCounts
    <3>3. \A r \in Rows : Precedes(First, r.key, cmp) <=> Precedes(r.key, First, DisplayCmp)
      BY <1>1, <2>1, <3>1
    <3>4. Side(cmp, First) = before
      BY DEF cmp
    <3> QED  BY <3>2, <3>3, <3>4
  <2>5. after \in Nat /\ (after = 0 <=> \A r \in Rows : ~Precedes(Last, r.key, DisplayCmp))
    <3>1. scanCmp(req.desc, FALSE) = DisplayCmp /\ DisplayCmp \in Cmp
      BY <1>1 DEF scanCmp, DisplayCmp, Cmp, TableInv, Request
    <3>2. Side(DisplayCmp, Last) \in Nat
          /\ (Side(DisplayCmp, Last) = 0 <=> \A r \in Rows : ~Precedes(Last, r.key, DisplayCmp))
      BY <1>1, <2>1, <3>1, SideCounts
    <3> QED  BY <3>1, <3>2
  <2> HIDE DEF before, after
  <2>6. pageInfo \in InfoForm
    BY <2>2, <2>3, <2>4, <2>5 DEF InfoForm
  <2>7. Cursor(First) # NULL /\ Cursor(Last) # NULL
    BY <2>2, NullIsNone
  <2> QED  BY <1>3, <2>3, <2>4, <2>5, <2>6, <2>7
<1> QED
  BY <1>2, <1>3

\* The counts.
LEMMA CountKeeps ==
    ASSUME TypeOK, WalkInv, Count
    PROVE  TypeOK' /\ WalkInv'
<1>1. /\ pc = "count" /\ pc' = "choose" /\ info' = pageInfo
      /\ UNCHANGED <<table, req, page, seen, still, span, changes>>
  BY DEF Count
<1>2. /\ pageInfo \in InfoForm
      /\ pageInfo.next # NULL => page # <<>> /\ pageInfo.next = Cursor(Last)
      /\ pageInfo.prev # NULL => page # <<>> /\ pageInfo.prev = Cursor(First)
      /\ page # <<>> =>
           /\ pageInfo.next = NULL => \A r \in Rows : ~Precedes(Last, r.key, DisplayCmp)
           /\ pageInfo.prev = NULL => \A r \in Rows : ~Precedes(r.key, First, DisplayCmp)
  BY <1>1, CountedEnds
<1>3. info' # NULL
  BY <1>1, <1>2, NullIsNone
<1>4. DisplayCmp' = DisplayCmp
  BY <1>1 DEF DisplayCmp
<1>5. TypeOK'
  BY <1>1, <1>3, <1>4 DEF TypeOK, effectiveLimit
<1>6. InfoFits'
  BY <1>1, <1>2 DEF InfoFits, Cursor, First, Last
<1>7. EdgesSeen'
  <2>1. \A i \in still : [id |-> i, key |-> KeyAt(i)] \in Rows
    BY Keys
  <2>2. \A r \in Rows : page # <<>> => /\ info'.next = NULL => ~Precedes(Last, r.key, DisplayCmp)
                                       /\ info'.prev = NULL => ~Precedes(r.key, First, DisplayCmp)
    BY <1>1, <1>2
  <2>3. \A i \in still : page # <<>> => /\ info'.next = NULL => ~Precedes(Last, KeyAt(i), DisplayCmp)
                                        /\ info'.prev = NULL => ~Precedes(KeyAt(i), First, DisplayCmp)
    BY <2>1, <2>2
  <2>4. \A i \in still' : i \in still /\ KeyAt(i)' = KeyAt(i)
    BY <1>1 DEF KeyAt
  <2>5. page' = page
    BY <1>1
  <2> QED  BY <1>4, <2>3, <2>4, <2>5 DEF EdgesSeen, First, Last
<1>8. PageTyped' /\ StillThere' /\ SpanFits' /\ AtFetch' /\ SpanSeen' /\ Listed'
  BY <1>1, <1>4 DEF WalkInv, PageTyped, StillThere, SpanFits, AtFetch, SpanSeen, Listed,
                    Within, Ahead, First, Last, KeyAt
<1> QED
  BY <1>5, <1>6, <1>7, <1>8 DEF WalkInv

\* The end of a walk.
LEMMA FinishKeeps ==
    ASSUME TypeOK, WalkInv, Finish
    PROVE  TypeOK' /\ WalkInv'
<1>1. /\ pc = "choose" /\ (req.walk = "all" => info.next = NULL) /\ pc' = "done"
      /\ UNCHANGED <<table, req, page, info, seen, still, span, changes>>
  BY DEF Finish
<1>2. DisplayCmp' = DisplayCmp /\ info # NULL
  BY <1>1 DEF DisplayCmp, TypeOK
<1>3. TypeOK'
  BY <1>1, <1>2 DEF TypeOK, effectiveLimit
<1>4. Listed'
  <2>1. req.walk = "all" => \A i \in still : ~Ahead(i)
    BY <1>1, <1>2 DEF WalkInv, EdgesSeen, Ahead
  <2> QED  BY <1>1, <1>2, <2>1 DEF WalkInv, Listed, Ahead, Last, KeyAt
<1>5. PageTyped' /\ InfoFits' /\ StillThere' /\ SpanFits' /\ AtFetch' /\ SpanSeen' /\ EdgesSeen'
  BY <1>1, <1>2 DEF WalkInv, PageTyped, InfoFits, StillThere, SpanFits, AtFetch, SpanSeen, EdgesSeen,
                    Within, Cursor, First, Last, KeyAt
<1> QED
  BY <1>3, <1>4, <1>5 DEF WalkInv

\* A change of the table shortens the list of the rows that stay and leaves their keys.
LEMMA ChangeKeeps ==
    ASSUME TypeOK, WalkInv, UNCHANGED Client, changes' \in 0 .. MaxChanges,
           table' \in [Id -> Row \cup {NULL}], still' \subseteq still,
           \A i \in still' : /\ table'[i] # NULL /\ (req.filter => table'[i].match)
                             /\ KeyOf(i, table'[i], req.sort) = KeyAt(i)
    PROVE  TypeOK' /\ WalkInv'
<1>1. UNCHANGED <<req, page, info, pc, seen, span>> /\ DisplayCmp' = DisplayCmp
  BY DEF Client, DisplayCmp
<1>2. TypeOK'
  BY <1>1 DEF TypeOK, effectiveLimit
<1>3. \A i \in still' : /\ i \in still /\ i \in Id /\ table'[i] # NULL /\ (req.filter => table'[i].match)
                        /\ KeyAt(i)' = KeyAt(i)
  BY <1>1 DEF KeyAt, TypeOK
<1>4. StillThere'
  BY <1>1, <1>3 DEF StillThere
<1>5. PageTyped' /\ InfoFits' /\ SpanFits' /\ AtFetch'
  BY <1>1 DEF WalkInv, PageTyped, InfoFits, SpanFits, AtFetch, Cursor, First, Last
<1>6. SpanSeen'
  BY <1>1, <1>3 DEF WalkInv, SpanSeen, Within
<1>7. EdgesSeen'
  BY <1>1, <1>3 DEF WalkInv, EdgesSeen, First, Last
<1>8. Listed'
  <2>1. \A i \in still' : Ahead(i)' = Ahead(i)
    BY <1>1, <1>3 DEF Ahead, Last
  <2> QED  BY <1>1, <1>3, <2>1 DEF WalkInv, Listed
<1> QED
  BY <1>2, <1>4, <1>5, <1>6, <1>7, <1>8 DEF WalkInv

\* A row that comes is not one that stayed.
LEMMA InsertKeeps ==
    ASSUME TypeOK, WalkInv, NEW i \in Id, NEW t \in Time, Insert(i, t)
    PROVE  TypeOK' /\ WalkInv'
<1> DEFINE row == [created |-> t, updated |-> t, match |-> TRUE]
<1>1. /\ UNCHANGED Client /\ still' = still /\ table[i] = NULL
      /\ table' = [table EXCEPT ![i] = row] /\ changes' \in 0 .. MaxChanges
  BY PagingConstants DEF Insert, Changing, TypeOK
<1>2. row \in Row
  BY DEF Row
<1> HIDE DEF row
<1>3. table' \in [Id -> Row \cup {NULL}]
  BY <1>1, <1>2 DEF TypeOK
<1>4. \A j \in still' : j \in Id /\ j # i /\ table'[j] = table[j]
  BY <1>1 DEF WalkInv, StillThere, TypeOK
<1>5. \A j \in still' : /\ table'[j] # NULL /\ (req.filter => table'[j].match)
                        /\ KeyOf(j, table'[j], req.sort) = KeyAt(j)
  BY <1>1, <1>4 DEF WalkInv, StillThere, KeyAt
<1> QED
  BY <1>1, <1>3, <1>5, ChangeKeeps

\* A row that goes no longer stays.
LEMMA DeleteKeeps ==
    ASSUME TypeOK, WalkInv, NEW i \in Id, Delete(i)
    PROVE  TypeOK' /\ WalkInv'
<1>1. /\ UNCHANGED Client /\ still' = still \ {i}
      /\ table' = [table EXCEPT ![i] = NULL] /\ changes' \in 0 .. MaxChanges
  BY PagingConstants DEF Delete, Changing, TypeOK
<1>2. table' \in [Id -> Row \cup {NULL}]
  BY <1>1 DEF TypeOK
<1>3. \A j \in still' : j \in still /\ j \in Id /\ j # i /\ table'[j] = table[j]
  BY <1>1 DEF WalkInv, StillThere, TypeOK
<1>4. \A j \in still' : /\ table'[j] # NULL /\ (req.filter => table'[j].match)
                        /\ KeyOf(j, table'[j], req.sort) = KeyAt(j)
  BY <1>1, <1>3 DEF WalkInv, StillThere, KeyAt
<1> QED
  BY <1>1, <1>2, <1>4, ChangeKeeps

\* A row that stays after an update has its key and passes the filter.
LEMMA TouchKeeps ==
    ASSUME TypeOK, WalkInv, NEW i \in Id, NEW t \in Time, NEW match \in BOOLEAN, Touch(i, t, match)
    PROVE  TypeOK' /\ WalkInv'
<1> DEFINE moved == (req.sort = "updated" /\ t # table[i].updated) \/ (req.filter /\ ~match)
           row == [[table[i] EXCEPT !.updated = t] EXCEPT !.match = match]
<1>1. /\ UNCHANGED Client /\ table[i] # NULL /\ changes' \in 0 .. MaxChanges
      /\ table' = [table EXCEPT ![i].updated = t, ![i].match = match]
      /\ still' = IF moved THEN still \ {i} ELSE still
  BY PagingConstants DEF Touch, Changing, TypeOK
<1>2. table[i] \in Row /\ table \in [Id -> Row \cup {NULL}]
  BY <1>1 DEF TypeOK
<1>3. table' = [table EXCEPT ![i] = row]
  BY <1>1, <1>2
<1>4. row \in Row /\ row.created = table[i].created /\ row.updated = t /\ row.match = match
  BY <1>2 DEF Row
<1> HIDE DEF row
<1>5. table' \in [Id -> Row \cup {NULL}]
  BY <1>2, <1>3, <1>4
<1>6. still' \subseteq still /\ (i \in still' => ~moved) /\ \A j \in still' : j \in Id
  BY <1>1 DEF TypeOK
<1>7. req.sort \in Sorts
  BY DEF TypeOK, Request
<1>8. ASSUME NEW j \in still'
      PROVE  /\ table'[j] # NULL /\ (req.filter => table'[j].match)
             /\ KeyOf(j, table'[j], req.sort) = KeyAt(j)
  <2>1. CASE j = i
    <3>1. table'[j] = row /\ row # NULL
      BY <1>2, <1>3, <1>4, <2>1, NullIsNone
    <3>2. (req.sort = "updated" => t = table[i].updated) /\ (req.filter => match)
      BY <1>6, <2>1
    <3>3. (req.filter => table'[j].match) /\ table'[j] # NULL
      BY <1>4, <3>1, <3>2
    <3>4. KeyOf(i, row, req.sort) = KeyOf(i, table[i], req.sort)
      BY <1>4, <1>7, <3>2 DEF KeyOf, Sorts
    <3> QED  BY <2>1, <3>1, <3>3, <3>4 DEF KeyAt
  <2>2. CASE j # i
    <3>1. j \in still /\ table'[j] = table[j]
      BY <1>2, <1>3, <1>6, <2>2
    <3> QED  BY <3>1 DEF WalkInv, StillThere, KeyAt
  <2> QED  BY <2>1, <2>2
<1> QED
  BY <1>1, <1>5, <1>6, <1>8, ChangeKeeps

------------------------------------------------------------------------------
(* The theorems. *)

\* The walk begins with nothing seen.
LEMMA Begins == Init => TypeOK /\ WalkInv
<1> SUFFICES ASSUME Init PROVE TypeOK /\ WalkInv
  OBVIOUS
<1>1. table \in [Id -> Row \cup {NULL}] /\ req \in Request /\ TableInv
  BY PagingConstants DEF Init, TableInv
<1>2. /\ page = <<>> /\ info = NULL /\ pc = "fetch" /\ seen = [i \in Id |-> 0] /\ span = NULL
      /\ changes = 0 /\ still = {i \in Id : table[i] # NULL /\ (req.filter => table[i].match)}
  BY DEF Init
<1>3. effectiveLimit(req.limit) \in Nat
  BY <1>1, LimitType
<1>4. Len(page) = 0 /\ DOMAIN page = {} /\ page \in Seq(Entry)
  BY <1>2
<1>5. TypeOK
  BY <1>1, <1>2, <1>3, <1>4, PagingConstants DEF TypeOK
<1>6. WalkInv
  BY <1>2, <1>4 DEF WalkInv, PageTyped, InfoFits, StillThere, SpanFits, AtFetch, SpanSeen, EdgesSeen, Listed
<1> QED
  BY <1>5, <1>6

\* Every step keeps the invariant.
LEMMA Steps == TypeOK /\ WalkInv /\ [Next]_vars => TypeOK' /\ WalkInv'
<1> SUFFICES ASSUME TypeOK, WalkInv, [Next]_vars PROVE TypeOK' /\ WalkInv'
  OBVIOUS
<1>1. CASE FetchFirst
  BY <1>1, FetchFirstKeeps
<1>2. CASE Count
  BY <1>2, CountKeeps
<1>3. CASE Forward
  BY <1>3, ForwardKeeps
<1>4. CASE Backward
  BY <1>4, BackwardKeeps
<1>5. CASE Finish
  BY <1>5, FinishKeeps
<1>6. ASSUME NEW i \in Id, NEW t \in Time, Insert(i, t) PROVE TypeOK' /\ WalkInv'
  BY <1>6, InsertKeeps
<1>7. ASSUME NEW i \in Id, Delete(i) PROVE TypeOK' /\ WalkInv'
  BY <1>7, DeleteKeeps
<1>8. ASSUME NEW i \in Id, NEW t \in Time, NEW match \in BOOLEAN, Touch(i, t, match) PROVE TypeOK' /\ WalkInv'
  BY <1>8, TouchKeeps
<1>9. CASE UNCHANGED vars
  <2>1. UNCHANGED Client /\ table' = table /\ still' = still /\ changes' = changes
    BY <1>9 DEF vars, Client
  <2>2. \A i \in still' : /\ table'[i] # NULL /\ (req.filter => table'[i].match)
                          /\ KeyOf(i, table'[i], req.sort) = KeyAt(i)
    BY <2>1 DEF WalkInv, StillThere, KeyAt
  <2>3. changes' \in 0 .. MaxChanges /\ table' \in [Id -> Row \cup {NULL}] /\ still' \subseteq still
    BY <2>1 DEF TypeOK
  <2> QED  BY <2>1, <2>2, <2>3, ChangeKeeps
<1> QED
  BY <1>1, <1>2, <1>3, <1>4, <1>5, <1>6, <1>7, <1>8, <1>9 DEF Next, Walk, Change

\* So it always holds.
LEMMA WalkInvHolds == Spec => [](TypeOK /\ WalkInv)
BY Begins, Steps, PTL DEF Spec

\* Pages hold no more rows than the limit and are in display order, whichever way they
\* were scanned (Page, effectiveLimit), for any table and any requests.
THEOREM TypeCorrect == Spec => []TypeOK
BY WalkInvHolds, PTL

\* Walking by cursors skips no row that stays where it is, and listing everything gives
\* each once (keysetPredicate, pageInfo, listAll), whatever else happens to the table.
THEOREM WalksAreExact == Spec => []WalkIsExact
<1>1. TypeOK /\ WalkInv => WalkIsExact
  <2> SUFFICES ASSUME TypeOK, WalkInv PROVE WalkIsExact
    OBVIOUS
  <2>1. NothingSkipped
    <3>1. pc = "choose" => info # NULL
      BY DEF TypeOK
    <3>2. \A i \in still : span # NULL /\ Within(KeyAt(i)) => seen[i] > 0
      BY DEF WalkInv, SpanSeen
    <3>3. pc = "choose" /\ page # <<>> =>
            \A i \in still : /\ info.next = NULL => ~Precedes(Last, KeyAt(i), DisplayCmp)
                             /\ info.prev = NULL => ~Precedes(KeyAt(i), First, DisplayCmp)
      BY <3>1 DEF WalkInv, EdgesSeen
    <3> QED  BY <3>2, <3>3 DEF NothingSkipped, KeyAt, First, Last
  <2>2. ListsEachOnce
    <3>1. \A i \in still : i \in Id
      BY DEF WalkInv, StillThere
    <3>2. pc = "fetch" => \A i \in still : seen[i] = 0
      BY <3>1 DEF WalkInv, AtFetch
    <3>3. req.walk = "all" /\ pc # "fetch" =>
            \A i \in still : (seen[i] = 0 \/ seen[i] = 1) /\ (pc = "done" => seen[i] = 1)
      BY DEF WalkInv, Listed
    <3> QED  BY <3>2, <3>3 DEF ListsEachOnce
  <2> QED  BY <2>1, <2>2 DEF WalkIsExact
<1> QED
  BY <1>1, WalkInvHolds, PTL

=============================================================================
