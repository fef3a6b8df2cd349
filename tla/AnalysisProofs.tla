--------------------------- MODULE AnalysisProofs ---------------------------
(***************************************************************************)
(* The analysis of a definition is right about every run of it: a proof of *)
(* ContextIsForeseen for all definitions with distinct ids.                *)
(*                                                                         *)
(* First, the rounds of the analysis reach fixpoints (Saturates).  From    *)
(* the fixpoints follows what the sets say along each edge that the engine *)
(* can take (AlongSwitch, AlongError) and at the ends.  The invariant      *)
(* ForeseenInv then follows the context of an instance along the edges.    *)
(***************************************************************************)
EXTENDS FlowProofs

------------------------------------------------------------------------------
(* Rounds. *)

\* The function that is start at 0 and R of what it was before at every k up to n.
Iteration(f, n, start, R) == f = [k \in 0 .. n |-> IF k = 0 THEN start ELSE R[f[k - 1]]]

\* A recursive function over the first naturals exists: there is no first argument up to
\* which it does not.
LEMMA IterationExists ==
    ASSUME NEW V, NEW R \in [V -> V], NEW start \in V, NEW n \in Nat
    PROVE  \E f \in [0 .. n -> V] : Iteration(f, n, start, R)
<1> DEFINE Upto(m) == \E f \in [0 .. m -> V] : f[0] = start /\ \A k \in 1 .. m : f[k] = R[f[k - 1]]
           without == {m \in 0 .. n : ~Upto(m)}
<1>1. Upto(n)
  <2> SUFFICES ASSUME ~Upto(n) PROVE FALSE
    OBVIOUS
  <2>1. without \in SUBSET Nat /\ without # {}
    <3>1. n \in 0 .. n
      OBVIOUS
    <3> HIDE DEF Upto
    <3> QED  BY <3>1
  <2>2. Min(without) \in without /\ \A m \in without : Min(without) <= m
    <3> HIDE DEF without
    <3> QED  BY <2>1, MinIsLeast
  <2>3. PICK m \in 0 .. n : ~Upto(m) /\ \A j \in 0 .. n : ~Upto(j) => m <= j
    <3> HIDE DEF Upto
    <3> QED  BY <2>2
  <2>4. m # 0
    <3>1. Upto(0)
      <4> DEFINE f == [k \in 0 .. 0 |-> start]
      <4>1. f \in [0 .. 0 -> V] /\ f[0] = start /\ \A k \in 1 .. 0 : f[k] = R[f[k - 1]]
        OBVIOUS
      <4> QED  BY <4>1
    <3> HIDE DEF Upto
    <3> QED  BY <2>3, <3>1
  <2>5. m \in 1 .. n /\ m - 1 \in 0 .. n /\ ~(m <= m - 1)
    BY <2>4
  <2>6. Upto(m - 1)
    <3> HIDE DEF Upto
    <3> QED  BY <2>3, <2>5
  <2>7. PICK f \in [0 .. m - 1 -> V] : f[0] = start /\ \A k \in 1 .. m - 1 : f[k] = R[f[k - 1]]
    BY <2>6
  <2> DEFINE g == [k \in 0 .. m |-> IF k = m THEN R[f[m - 1]] ELSE f[k]]
  <2>8. g \in [0 .. m -> V]
    <3>1. R[f[m - 1]] \in V
      BY <2>5
    <3>2. \A k \in 0 .. m : k # m => f[k] \in V
      BY <2>5
    <3> QED  BY <3>1, <3>2
  <2>9. g[0] = start
    BY <2>5, <2>7
  <2>10. ASSUME NEW k \in 1 .. m PROVE g[k] = R[g[k - 1]]
    <3>1. g[k - 1] = f[k - 1]
      BY <2>5
    <3>2. CASE k = m
      BY <2>5, <3>1, <3>2
    <3>3. CASE k # m
      <4>1. k \in 1 .. m - 1
        BY <2>5, <3>3
      <4>2. g[k] = f[k]
        BY <2>5, <3>3
      <4> QED  BY <2>7, <3>1, <4>1, <4>2
    <3> QED  BY <3>2, <3>3
  <2>11. Upto(m)
    <3> HIDE DEF g
    <3> QED  BY <2>8, <2>9, <2>10
  <2> QED
    <3> HIDE DEF Upto
    <3> QED  BY <2>3, <2>11
<1>2. PICK f \in [0 .. n -> V] : f[0] = start /\ \A k \in 1 .. n : f[k] = R[f[k - 1]]
  BY <1>1
<1>3. f = [k \in 0 .. n |-> f[k]]
  OBVIOUS
<1>4. \A k \in 0 .. n : f[k] = IF k = 0 THEN start ELSE R[f[k - 1]]
  <2>1. ASSUME NEW k \in 0 .. n, k # 0 PROVE f[k] = R[f[k - 1]]
    <3>1. k \in 1 .. n
      BY <2>1
    <3> QED  BY <1>2, <3>1
  <2> QED  BY <1>2, <2>1
<1>5. f = [k \in 0 .. n |-> IF k = 0 THEN start ELSE R[f[k - 1]]]
  BY <1>3, <1>4
<1> QED
  BY <1>5 DEF Iteration

\* A map of subsets that keeps their order.
MonotoneOn(D, F) ==
    F \in [SUBSET D -> SUBSET D] /\ \A A, B \in SUBSET D : A \subseteq B => F[A] \subseteq F[B]

\* The values of n + 1 rounds of a map R of V.
FirstRounds(n, V, start, R, f) ==
    f \in [0 .. n + 1 -> V] /\ f[0] = start /\ \A k \in 0 .. n : f[k + 1] = R[f[k]]

\* Rounds of a monotone map from the empty set over at most n elements are through
\* after n: each round before adds an element.
LEMMA Saturates ==
    ASSUME NEW D, IsFiniteSet(D), NEW n \in Nat, Cardinality(D) <= n,
           NEW F, MonotoneOn(D, F), NEW f, FirstRounds(n, SUBSET D, {}, F, f)
    PROVE  f[n + 1] = f[n]
<1> USE DEF MonotoneOn, FirstRounds
<1> DEFINE Grown(k) == f[k] \subseteq f[k + 1] /\ Cardinality(f[k]) >= k
           failing == {k \in 0 .. n : ~Grown(k)}
<1> SUFFICES ASSUME f[n + 1] # f[n] PROVE FALSE
  OBVIOUS
<1>1. ASSUME NEW k \in 0 .. n, f[k] = f[k + 1] PROVE FALSE
  \* equal once, equal for ever
  <2> DEFINE later == {j \in k .. n : f[j] # f[j + 1]}
  <2>1. later \in SUBSET Nat /\ later # {}
    <3>1. n \in k .. n /\ f[n] # f[n + 1] /\ k .. n \subseteq Nat
      BY <1>1
    <3> QED  BY <3>1
  <2>2. Min(later) \in later /\ \A j \in later : Min(later) <= j
    <3> HIDE DEF later
    <3> QED  BY <2>1, MinIsLeast
  <2>3. PICK j \in k .. n : f[j] # f[j + 1] /\ \A i \in k .. n : f[i] # f[i + 1] => j <= i
    BY <2>2
  <2>4. j # k
    BY <1>1, <2>3
  <2>5. j - 1 \in k .. n /\ j - 1 \in 0 .. n /\ j \in 0 .. n /\ ~(j <= j - 1) /\ j - 1 + 1 = j
    BY <2>4
  <2>6. f[j - 1] = f[j - 1 + 1]
    BY <2>3, <2>5
  <2>7. f[j] = F[f[j - 1]] /\ f[j + 1] = F[f[j]]
    BY <2>5
  <2> QED  BY <2>3, <2>5, <2>6, <2>7
<1>2. \A k \in 0 .. n + 1 : f[k] \in SUBSET D /\ IsFiniteSet(f[k]) /\ Cardinality(f[k]) \in Nat
  BY FS_Subset, FS_CardinalityType
<1>3. \A k \in 0 .. n : Grown(k)
  <2> SUFFICES ASSUME NEW h \in 0 .. n, ~Grown(h) PROVE FALSE
    OBVIOUS
  <2>1. failing \in SUBSET Nat /\ failing # {}
    <3> HIDE DEF Grown
    <3> QED  OBVIOUS
  <2>2. Min(failing) \in failing /\ \A k \in failing : Min(failing) <= k
    <3> HIDE DEF failing
    <3> QED  BY <2>1, MinIsLeast
  <2>3. PICK k \in 0 .. n : ~Grown(k) /\ \A i \in 0 .. n : ~Grown(i) => k <= i
    <3> HIDE DEF Grown
    <3> QED  BY <2>2
  <2>4. CASE k = 0
    <3>1. f[0] \subseteq f[1] /\ Cardinality(f[0]) = 0
      BY FS_EmptySet
    <3> QED  BY <2>3, <2>4, <3>1
  <2>5. CASE k # 0
    <3>1. k - 1 \in 0 .. n /\ ~(k <= k - 1) /\ k - 1 + 1 = k /\ k \in 0 .. n + 1 /\ k - 1 \in 0 .. n + 1
          /\ k + 1 \in 0 .. n + 1
      BY <2>5
    <3>2. Grown(k - 1)
      <4> HIDE DEF Grown
      <4> QED  BY <2>3, <3>1
    <3>3. f[k - 1] \subseteq f[k] /\ Cardinality(f[k - 1]) >= k - 1
      BY <3>1, <3>2
    <3>4. f[k] = F[f[k - 1]] /\ f[k + 1] = F[f[k]]
      BY <3>1
    <3>5. f[k] \subseteq f[k + 1]
      <4>1. f[k - 1] \in SUBSET D /\ f[k] \in SUBSET D
        BY <1>2, <3>1
      <4> QED  BY <3>3, <3>4, <4>1
    <3>6. f[k - 1] # f[k]
      BY <1>1, <3>1
    <3>7. Cardinality(f[k - 1]) <= Cardinality(f[k]) /\ Cardinality(f[k - 1]) # Cardinality(f[k])
      BY <1>2, <3>1, <3>3, <3>6, FS_Subset
    <3>8. Cardinality(f[k]) >= k
      <4>1. ASSUME NEW a \in Nat, NEW b \in Nat, NEW c \in Nat, a >= c - 1, a <= b, a # b PROVE b >= c
        BY <4>1
      <4>2. Cardinality(f[k - 1]) \in Nat /\ Cardinality(f[k]) \in Nat /\ k \in Nat
        BY <1>2, <3>1
      <4> HIDE DEF Grown
      <4> QED  BY <3>3, <3>7, <4>1, <4>2
    <3> QED  BY <2>3, <3>5, <3>8
  <2> QED  BY <2>4, <2>5
<1>4. f[n] \subseteq f[n + 1] /\ Cardinality(f[n]) >= n
  BY <1>3
<1>5. n \in 0 .. n + 1 /\ n + 1 \in 0 .. n + 1
  OBVIOUS
<1>6. Cardinality(f[n]) <= Cardinality(f[n + 1]) /\ Cardinality(f[n]) # Cardinality(f[n + 1])
  BY <1>2, <1>4, <1>5, FS_Subset
<1>7. Cardinality(f[n + 1]) <= Cardinality(D) /\ Cardinality(D) \in Nat
  BY <1>2, <1>5, FS_Subset, FS_CardinalityType
<1> QED
  BY <1>2, <1>4, <1>5, <1>6, <1>7

\* V holds vectors with a part B[v][j] for every j in D, and R maps each part on its own,
\* by G[j].
Partwise(D, V, B, G, R) ==
    /\ B \in [V -> [D -> SUBSET D]] /\ R \in [V -> V]
    /\ \A v, w \in V : B[v] = B[w] => v = w
    /\ \A j \in D : MonotoneOn(D, G[j])
    /\ \A v \in V : \A j \in D : B[R[v]][j] = G[j][B[v][j]]

\* The same for vectors: as many rounds are enough as for one part.
LEMMA PartsSaturate ==
    ASSUME NEW D, IsFiniteSet(D), NEW n \in Nat, Cardinality(D) <= n,
           NEW V, NEW B, NEW G, NEW R, Partwise(D, V, B, G, R),
           NEW start, \A j \in D : B[start][j] = {}, NEW f, FirstRounds(n, V, start, R, f)
    PROVE  R[f[n + 1]] = f[n + 1]
<1> USE DEF Partwise
<1>a. f \in [0 .. n + 1 -> V] /\ f[0] = start /\ \A k \in 0 .. n : f[k + 1] = R[f[k]]
  BY DEF FirstRounds
<1>1. \A k \in 0 .. n : k \in 0 .. n + 1 /\ k + 1 \in 0 .. n + 1
  OBVIOUS
<1>2. 0 \in 0 .. n + 1 /\ n \in 0 .. n /\ n \in 0 .. n + 1 /\ n + 1 \in 0 .. n + 1
  OBVIOUS
<1>3. ASSUME NEW j \in D PROVE B[f[n + 1]][j] = B[f[n]][j]
  <2> DEFINE F == G[j]
             h == [k \in 0 .. n + 1 |-> B[f[k]][j]]
  <2>1. MonotoneOn(D, F)
    OBVIOUS
  <2>2. h \in [0 .. n + 1 -> SUBSET D] /\ h[0] = {}
    BY <1>2, <1>a
  <2>3. \A k \in 0 .. n : h[k + 1] = F[h[k]]
    <3> TAKE k \in 0 .. n
    <3>1. h[k + 1] = B[f[k + 1]][j] /\ h[k] = B[f[k]][j] /\ f[k] \in V /\ f[k + 1] = R[f[k]]
      BY <1>1, <1>a
    <3> QED  BY <3>1
  <2>4. h[n + 1] = h[n]
    <3>1. FirstRounds(n, SUBSET D, {}, F, h)
      <4> HIDE DEF h, F
      <4> QED  BY <2>2, <2>3 DEF FirstRounds
    <3> HIDE DEF h, F
    <3> QED  BY <2>1, <3>1, Saturates
  <2> QED  BY <1>2, <2>4
<1>4. f[n] \in V /\ f[n + 1] \in V
  BY <1>2, <1>a
<1>5. B[f[n + 1]] = B[f[n]]
  BY <1>3, <1>4
<1>6. f[n + 1] = f[n]
  BY <1>4, <1>5
<1> QED
  BY <1>2, <1>6, <1>a

------------------------------------------------------------------------------
(* Fixpoints. *)

\* The positions of a definition are finitely many.
LEMMA Positions ==
    ASSUME NEW d \in Definitions
    PROVE  /\ Len(d) \in Nat /\ DOMAIN d = 1 .. Len(d)
           /\ IsFiniteSet(DOMAIN d) /\ Cardinality(DOMAIN d) <= Len(d)
<1> DEFINE n == Len(d)
<1>1. n \in Nat /\ DOMAIN d = 1 .. n
  BY Forms
<1> HIDE DEF n
<1>2. IsFiniteSet(1 .. n) /\ Cardinality(1 .. n) = IF 1 > n THEN 0 ELSE n - 1 + 1
  BY <1>1, FS_Interval
<1>3. Cardinality(1 .. n) <= n
  BY <1>1, <1>2
<1> QED
  BY <1>1, <1>2, <1>3 DEF n

\* What is repeated: a sequence of values from the start on by rounds.
LEMMA RepeatRounds ==
    ASSUME NEW d \in Definitions, NEW V, NEW start \in V, NEW R \in [V -> V]
    PROVE  \E f : FirstRounds(Len(d), V, start, R, f) /\ Repeat(d, start, R) = f[Len(d) + 1]
<1> DEFINE n == Len(d)
           it == CHOOSE it : it = [k \in 0 .. n + 1 |-> IF k = 0 THEN start ELSE R[it[k - 1]]]
<1>1. n \in Nat /\ n + 1 \in Nat
  BY Positions
<1>2. Repeat(d, start, R) = it[n + 1]
  BY DEF Repeat
<1>3. \E f \in [0 .. n + 1 -> V] : Iteration(f, n + 1, start, R)
  <2> HIDE DEF n
  <2> QED  BY <1>1, IterationExists
<1>4. it = [k \in 0 .. n + 1 |-> IF k = 0 THEN start ELSE R[it[k - 1]]]
  BY <1>3 DEF Iteration
<1> HIDE DEF it, n
<1>5. it[0] = start /\ \A k \in 0 .. n + 1 : k # 0 => it[k] = R[it[k - 1]]
  BY <1>1, <1>4
<1>6. \A k \in 0 .. n : it[k + 1] = R[it[k]]
  <2> TAKE k \in 0 .. n
  <2>1. k + 1 \in 0 .. n + 1 /\ k + 1 # 0 /\ k + 1 - 1 = k
    BY <1>1
  <2> QED  BY <1>5, <2>1
<1>7. \A k \in 0 .. n + 1 : it[k] \in V
  <2> SUFFICES ASSUME NEW h \in 0 .. n + 1, it[h] \notin V PROVE FALSE
    OBVIOUS
  <2> DEFINE outside == {k \in 0 .. n + 1 : it[k] \notin V}
  <2>1. outside \in SUBSET Nat /\ outside # {}
    OBVIOUS
  <2>2. Min(outside) \in outside /\ \A k \in outside : Min(outside) <= k
    <3> HIDE DEF outside
    <3> QED  BY <2>1, MinIsLeast
  <2>3. PICK k \in 0 .. n + 1 : it[k] \notin V /\ \A j \in 0 .. n + 1 : it[j] \notin V => k <= j
    BY <2>2
  <2>4. k # 0 /\ k - 1 \in 0 .. n + 1 /\ ~(k <= k - 1)
    BY <1>1, <1>5, <2>3
  <2>5. it[k - 1] \in V
    BY <2>3, <2>4
  <2>6. it[k] = R[it[k - 1]]
    BY <1>5, <2>4
  <2> QED  BY <2>3, <2>5, <2>6
<1>8. it \in [0 .. n + 1 -> V]
  BY <1>4, <1>7
<1> QED
  BY <1>2, <1>5, <1>6, <1>8 DEF n, FirstRounds

\* A monotone round on the tasks, repeated from none of them, settles.
LEMMA TasksSettle ==
    ASSUME NEW d \in Definitions, NEW R, MonotoneOn(DOMAIN d, R)
    PROVE  Repeat(d, {}, R) \in Tasks(d) /\ R[Repeat(d, {}, R)] = Repeat(d, {}, R)
<1> DEFINE D == DOMAIN d
           n == Len(d)
<1>1. n \in Nat /\ IsFiniteSet(D) /\ Cardinality(D) <= n
  BY Positions
<1>2. R \in [SUBSET D -> SUBSET D] /\ {} \in SUBSET D
  BY DEF MonotoneOn
<1> HIDE DEF D, n
<1>3. PICK f : FirstRounds(n, SUBSET D, {}, R, f) /\ Repeat(d, {}, R) = f[n + 1]
  BY <1>2, RepeatRounds DEF n
<1>4. MonotoneOn(D, R)
  BY DEF D
<1>5. f[n + 1] = f[n]
  BY <1>1, <1>3, <1>4, Saturates
<1>6. n \in 0 .. n /\ n + 1 \in 0 .. n + 1
  BY <1>1
<1>7. f[n + 1] = R[f[n]] /\ f[n + 1] \in SUBSET D
  BY <1>3, <1>6 DEF FirstRounds
<1> QED
  BY <1>3, <1>5, <1>7 DEF Tasks, D

\* A round on vectors that maps every part monotonically, repeated from no part, settles.
LEMMA VectorsSettle ==
    ASSUME NEW d \in Definitions, NEW start \in Vectors(d), NEW R, NEW B, NEW G,
           Partwise(DOMAIN d, Vectors(d), B, G, R), \A j \in DOMAIN d : B[start][j] = {}
    PROVE  Repeat(d, start, R) \in Vectors(d) /\ R[Repeat(d, start, R)] = Repeat(d, start, R)
<1> DEFINE D == DOMAIN d
           n == Len(d)
           V == Vectors(d)
<1>1. n \in Nat /\ IsFiniteSet(D) /\ Cardinality(D) <= n
  BY Positions
<1>2. R \in [V -> V]
  BY DEF Partwise
<1> HIDE DEF D, n, V
<1>3. PICK f : FirstRounds(n, V, start, R, f) /\ Repeat(d, start, R) = f[n + 1]
  BY <1>2, RepeatRounds DEF n, V
<1>4. Partwise(D, V, B, G, R) /\ \A j \in D : B[start][j] = {}
  BY DEF D, V
<1>5. R[f[n + 1]] = f[n + 1]
  BY <1>1, <1>3, <1>4, PartsSaturate
<1>6. n + 1 \in 0 .. n + 1
  BY <1>1
<1>7. f[n + 1] \in V
  BY <1>3, <1>6 DEF FirstRounds
<1> QED
  BY <1>3, <1>5, <1>7 DEF V

\* A task surely begins with an error if every edge into it brings one.
LEMMA MustErrFixed ==
    ASSUME NEW d \in Definitions, NEW preds
    PROVE  /\ mustErr(d, preds) \subseteq DOMAIN d
           /\ \A i \in mustErr(d, preds) : \A e \in Into(preds, i) :
                  e.from # 0 /\ (e.err \/ e.from \in mustErr(d, preds))
<1> DEFINE R == [S \in Tasks(d) |->
                   {i \in DOMAIN d : /\ Into(preds, i) # {}
                                     /\ \A e \in Into(preds, i) :
                                            e.from # 0 /\ (e.err \/ e.from \in S)}]
<1>1. MonotoneOn(DOMAIN d, R)
  BY DEF MonotoneOn, Tasks
<1>2. mustErr(d, preds) = Repeat(d, {}, R)
  BY DEF mustErr
<1>3. mustErr(d, preds) \in Tasks(d) /\ R[mustErr(d, preds)] = mustErr(d, preds)
  <2> HIDE DEF R
  <2> QED  BY <1>1, <1>2, TasksSettle
<1> QED
  BY <1>3 DEF Tasks

\* A task may begin with an error if some edge into it may bring one.
LEMMA MayErrFixed ==
    ASSUME NEW d \in Definitions, NEW preds
    PROVE  /\ mayErr(d, preds) \subseteq DOMAIN d
           /\ \A i \in DOMAIN d : \A e \in Into(preds, i) :
                  e.from # 0 /\ (e.err \/ e.from \in mayErr(d, preds)) => i \in mayErr(d, preds)
<1> DEFINE R == [S \in Tasks(d) |->
                   {k \in DOMAIN d : \E a \in Into(preds, k) : a.from # 0 /\ (a.err \/ a.from \in S)}]
<1>1. MonotoneOn(DOMAIN d, R)
  BY DEF MonotoneOn, Tasks
<1>2. mayErr(d, preds) = Repeat(d, {}, R)
  BY DEF mayErr
<1>3. mayErr(d, preds) \in Tasks(d) /\ R[mayErr(d, preds)] = mayErr(d, preds)
  <2> HIDE DEF R
  <2> QED  BY <1>1, <1>2, TasksSettle
<1> QED
  BY <1>3 DEF Tasks

\* Edges come from the start or from a task.
EdgesOf(d, preds) == \A e \in preds : e.from # 0 => e.from \in DOMAIN d

\* The outputs that are surely there at the end of a task are its own and those that are
\* surely there when it begins.
LEMMA MustOutFixed ==
    ASSUME NEW d \in Definitions, NEW preds, EdgesOf(d, preds)
    PROVE  /\ mustOut(d, preds) \in Vectors(d)
           /\ \A i \in DOMAIN d :
                mustOut(d, preds)[i] = mustIn(d, preds, mustOut(d, preds), i) \cup Own(d, i)
<1> DEFINE D == DOMAIN d
           start == [i \in D |-> D]
           R == [out \in Vectors(d) |-> [i \in D |-> mustIn(d, preds, out, i) \cup Own(d, i)]]
           \* the tasks at whose end output j may be missing
           B == [out \in Vectors(d) |-> [j \in D |-> {i \in D : j \notin out[i]}]]
           Misses(j, M, e) == e.from = 0 \/ e.from \in M \/ (e.err /\ d[e.from].output /\ e.from = j)
           G == [j \in D |-> [M \in SUBSET D |->
                   {i \in D : /\ j \notin Own(d, i)
                              /\ \/ Into(preds, i) = {}
                                 \/ \E e \in Into(preds, i) : Misses(j, M, e)}]]
<1>1. \A i \in D : Own(d, i) \in SUBSET D
  BY DEF Own
<1>2. \A out, i : mustIn(d, preds, out, i) \in SUBSET D
  BY DEF mustIn
<1>3. R \in [Vectors(d) -> Vectors(d)]
  BY <1>1, <1>2 DEF Vectors, Tasks
<1>4. start \in Vectors(d) /\ \A j \in D : B[start][j] = {}
  BY DEF Vectors, Tasks
<1>5. B \in [Vectors(d) -> [D -> SUBSET D]]
  OBVIOUS
<1>6. ASSUME NEW v \in Vectors(d), NEW w \in Vectors(d), B[v] = B[w] PROVE v = w
  <2>1. \A i, j \in D : j \in v[i] <=> j \in w[i]
    <3> TAKE i, j \in D
    <3>1. B[v][j] = {k \in D : j \notin v[k]} /\ B[w][j] = {k \in D : j \notin w[k]}
      OBVIOUS
    <3> QED  BY <1>6, <3>1
  <2>2. \A i \in D : v[i] = w[i]
    BY <2>1 DEF Vectors, Tasks
  <2> QED  BY <2>2 DEF Vectors
<1>7. \A j \in D : MonotoneOn(D, G[j])
  BY DEF MonotoneOn
<1>8. ASSUME NEW v \in Vectors(d), NEW j \in D PROVE B[R[v]][j] = G[j][B[v][j]]
  <2>1. R[v] \in Vectors(d) /\ \A i \in D : R[v][i] = mustIn(d, preds, v, i) \cup Own(d, i)
    BY <1>3
  <2>2. B[R[v]][j] = {i \in D : j \notin mustIn(d, preds, v, i) \cup Own(d, i)}
    BY <2>1
  <2>3. \A i \in D : j \notin mustIn(d, preds, v, i) <=>
            Into(preds, i) = {} \/ \E e \in Into(preds, i) : Misses(j, {k \in D : j \notin v[k]}, e)
    <3> TAKE i \in D
    <3>1. ASSUME NEW e \in Into(preds, i), e.from # 0
          PROVE  j \notin Carried(d, v, e) <=> Misses(j, {k \in D : j \notin v[k]}, e)
      <4>1. e.from \in D
        BY <3>1 DEF Into, EdgesOf
      <4> QED  BY <3>1, <4>1 DEF Carried
    <3>2. \A e \in Into(preds, i) : e.from = 0 => Misses(j, {k \in D : j \notin v[k]}, e)
      OBVIOUS
    <3> HIDE DEF Misses
    <3> QED  BY <3>1, <3>2 DEF mustIn
  <2>4. G[j][B[v][j]] = {i \in D : /\ j \notin Own(d, i)
                                  /\ \/ Into(preds, i) = {}
                                     \/ \E e \in Into(preds, i) : Misses(j, {k \in D : j \notin v[k]}, e)}
    <3>1. B[v][j] = {k \in D : j \notin v[k]}
      OBVIOUS
    <3> HIDE DEF B, Misses
    <3> QED  BY <3>1
  <2> HIDE DEF B, G, R, Misses
  <2> QED  BY <2>2, <2>3, <2>4
<1>9. Partwise(D, Vectors(d), B, G, R)
  <2> HIDE DEF B, G, R
  <2> QED  BY <1>3, <1>5, <1>6, <1>7, <1>8 DEF Partwise
<1>10. mustOut(d, preds) = Repeat(d, start, R)
  BY DEF mustOut
<1>11. mustOut(d, preds) \in Vectors(d) /\ R[mustOut(d, preds)] = mustOut(d, preds)
  <2> HIDE DEF B, G, R, start
  <2> QED  BY <1>4, <1>9, <1>10, VectorsSettle
<1> QED
  BY <1>11

\* The outputs that may be there at the end of a task are its own and those that may be
\* there when it begins.
LEMMA MayOutFixed ==
    ASSUME NEW d \in Definitions, NEW preds, EdgesOf(d, preds)
    PROVE  /\ mayOut(d, preds) \in Vectors(d)
           /\ \A i \in DOMAIN d :
                mayOut(d, preds)[i] = mayIn(d, preds, mayOut(d, preds), i) \cup Own(d, i)
<1> DEFINE D == DOMAIN d
           start == [i \in D |-> {}]
           R == [out \in Vectors(d) |-> [i \in D |-> mayIn(d, preds, out, i) \cup Own(d, i)]]
           \* the tasks at whose end output j may be there
           B == [out \in Vectors(d) |-> [j \in D |-> {i \in D : j \in out[i]}]]
           Brings(j, M, e) == e.from # 0 /\ e.from \in M /\ ~(e.err /\ d[e.from].output /\ e.from = j)
           G == [j \in D |-> [M \in SUBSET D |->
                   {i \in D : j \in Own(d, i) \/ \E e \in Into(preds, i) : Brings(j, M, e)}]]
<1>1. \A i \in D : Own(d, i) \in SUBSET D
  BY DEF Own
<1>2. \A out, i : mayIn(d, preds, out, i) \in SUBSET D
  BY DEF mayIn
<1>3. R \in [Vectors(d) -> Vectors(d)]
  BY <1>1, <1>2 DEF Vectors, Tasks
<1>4. start \in Vectors(d) /\ \A j \in D : B[start][j] = {}
  BY DEF Vectors, Tasks
<1>5. B \in [Vectors(d) -> [D -> SUBSET D]]
  OBVIOUS
<1>6. ASSUME NEW v \in Vectors(d), NEW w \in Vectors(d), B[v] = B[w] PROVE v = w
  <2>1. \A i, j \in D : j \in v[i] <=> j \in w[i]
    <3> TAKE i, j \in D
    <3>1. B[v][j] = {k \in D : j \in v[k]} /\ B[w][j] = {k \in D : j \in w[k]}
      OBVIOUS
    <3> QED  BY <1>6, <3>1
  <2>2. \A i \in D : v[i] = w[i]
    BY <2>1 DEF Vectors, Tasks
  <2> QED  BY <2>2 DEF Vectors
<1>7. \A j \in D : MonotoneOn(D, G[j])
  BY DEF MonotoneOn
<1>8. ASSUME NEW v \in Vectors(d), NEW j \in D PROVE B[R[v]][j] = G[j][B[v][j]]
  <2>1. R[v] \in Vectors(d) /\ \A i \in D : R[v][i] = mayIn(d, preds, v, i) \cup Own(d, i)
    BY <1>3
  <2>2. B[R[v]][j] = {i \in D : j \in mayIn(d, preds, v, i) \cup Own(d, i)}
    BY <2>1
  <2>3. \A i \in D : j \in mayIn(d, preds, v, i) <=>
            \E e \in Into(preds, i) : Brings(j, {k \in D : j \in v[k]}, e)
    <3> TAKE i \in D
    <3>1. ASSUME NEW e \in Into(preds, i)
          PROVE  e.from # 0 /\ j \in Carried(d, v, e) <=> Brings(j, {k \in D : j \in v[k]}, e)
      <4>1. e.from # 0 => e.from \in D
        BY <3>1 DEF Into, EdgesOf
      <4> QED  BY <3>1, <4>1 DEF Carried
    <3> HIDE DEF Brings
    <3> QED  BY <3>1 DEF mayIn
  <2>4. G[j][B[v][j]] = {i \in D : \/ j \in Own(d, i)
                                  \/ \E e \in Into(preds, i) : Brings(j, {k \in D : j \in v[k]}, e)}
    <3>1. B[v][j] = {k \in D : j \in v[k]}
      OBVIOUS
    <3> HIDE DEF B, Brings
    <3> QED  BY <3>1
  <2> HIDE DEF B, G, R, Brings
  <2> QED  BY <2>2, <2>3, <2>4
<1>9. Partwise(D, Vectors(d), B, G, R)
  <2> HIDE DEF B, G, R
  <2> QED  BY <1>3, <1>5, <1>6, <1>7, <1>8 DEF Partwise
<1>10. mayOut(d, preds) = Repeat(d, start, R)
  BY DEF mayOut
<1>11. mayOut(d, preds) \in Vectors(d) /\ R[mayOut(d, preds)] = mayOut(d, preds)
  <2> HIDE DEF B, G, R, start
  <2> QED  BY <1>4, <1>9, <1>10, VectorsSettle
<1> QED
  BY <1>11

------------------------------------------------------------------------------
(* Along the edges. *)

\* The tasks whose output is surely, or possibly, there when task i begins.
Required(d, i) == mustIn(d, buildPreds(d), mustOut(d, buildPreds(d)), i)
Possible(d, i) == mayIn(d, buildPreds(d), mayOut(d, buildPreds(d)), i)
MustFail(d)    == mustErr(d, buildPreds(d))
MayFail(d)     == mayErr(d, buildPreds(d))

\* With distinct ids, the analysis and the engine take a route to lead to the same task.
LEMMA LastIsFirst ==
    ASSUME NEW d \in Definitions, Distinct(d), NEW id \in Ids(d)
    PROVE  lastIndex(d, id) = taskIndex(d, id)
<1> DEFINE t == taskIndex(d, id)
<1>1. t \in DOMAIN d /\ d[t].id = id /\ DOMAIN d \subseteq Nat
  BY IndexType, Forms
<1>2. \A i \in DOMAIN d : d[i].id = id => i = t
  BY IndexOfId
<1> HIDE DEF t
<1>3. {i \in DOMAIN d : d[i].id = id} = {t}
  BY <1>1, <1>2
<1>4. Max({t}) = t
  BY <1>1 DEF Max
<1> QED
  BY <1>3, <1>4 DEF lastIndex, t

\* The edges come from the start or from tasks.
LEMMA EdgesType ==
    ASSUME NEW d \in Definitions PROVE EdgesOf(d, buildPreds(d))
<1> SUFFICES ASSUME NEW e \in buildPreds(d), e.from # 0 PROVE e.from \in DOMAIN d
  BY DEF EdgesOf
<1>1. CASE e = [from |-> 0, to |-> 1, err |-> FALSE]
  BY <1>1
<1>2. ASSUME NEW i \in DOMAIN d, NEW t, NEW b, e = [from |-> i, to |-> t, err |-> b]
      PROVE  e.from \in DOMAIN d
  BY <1>2
<1> QED
  BY <1>1, <1>2 DEF buildPreds

\* The first task begins with nothing.
LEMMA AtStart ==
    ASSUME NEW d \in Definitions
    PROVE  Required(d, 1) = {} /\ 1 \notin MustFail(d)
<1>1. [from |-> 0, to |-> 1, err |-> FALSE] \in Into(buildPreds(d), 1)
  BY DEF Into, buildPreds
<1>2. Required(d, 1) = {}
  BY <1>1 DEF Required, mustIn
<1> QED
  BY <1>1, <1>2, MustErrFixed DEF MustFail

\* An edge of a switch keeps what there is and adds the task's own output.
LEMMA AlongSwitch ==
    ASSUME NEW d \in Definitions, NEW i \in DOMAIN d, NEW t \in DOMAIN d,
           [from |-> i, to |-> t, err |-> FALSE] \in buildPreds(d)
    PROVE  /\ Required(d, t) \subseteq Required(d, i) \cup Own(d, i)
           /\ Possible(d, i) \cup Own(d, i) \subseteq Possible(d, t)
           /\ t \in MustFail(d) => i \in MustFail(d)
           /\ i \in MayFail(d) => t \in MayFail(d)
<1> DEFINE preds == buildPreds(d)
           e == [from |-> i, to |-> t, err |-> FALSE]
           must == mustOut(d, preds)
           may == mayOut(d, preds)
<1>1. e \in Into(preds, t) /\ e.from = i /\ e.err = FALSE /\ i # 0
  BY Forms DEF Into
<1>2. Carried(d, must, e) = must[i] /\ Carried(d, may, e) = may[i]
  BY <1>1 DEF Carried
<1>3. /\ must[i] = Required(d, i) \cup Own(d, i)
      /\ may \in Vectors(d) /\ may[i] = Possible(d, i) \cup Own(d, i)
  BY EdgesType, MustOutFixed, MayOutFixed DEF Required, Possible
<1> HIDE DEF preds, e, must, may
<1>4. Required(d, t) = mustIn(d, preds, must, t) /\ Possible(d, t) = mayIn(d, preds, may, t)
  BY DEF Required, Possible, preds, must, may
<1>5. Required(d, t) \subseteq must[i]
  BY <1>1, <1>2, <1>4 DEF mustIn
<1>6. may[i] \subseteq Possible(d, t)
  BY <1>1, <1>2, <1>3, <1>4 DEF mayIn, Vectors, Tasks
<1>7. t \in MustFail(d) => i \in MustFail(d)
  BY <1>1, MustErrFixed DEF MustFail, preds
<1>8. i \in MayFail(d) => t \in MayFail(d)
  BY <1>1, MayErrFixed DEF MayFail, preds
<1> QED
  BY <1>3, <1>5, <1>6, <1>7, <1>8

\* An error edge keeps what there is but for the task's own output, and brings an error.
LEMMA AlongError ==
    ASSUME NEW d \in Definitions, NEW i \in DOMAIN d, NEW t \in DOMAIN d,
           [from |-> i, to |-> t, err |-> TRUE] \in buildPreds(d)
    PROVE  /\ Required(d, t) \subseteq Required(d, i)
           /\ Possible(d, i) \ {i} \subseteq Possible(d, t)
           /\ t \in MayFail(d)
<1> DEFINE preds == buildPreds(d)
           e == [from |-> i, to |-> t, err |-> TRUE]
           must == mustOut(d, preds)
           may == mayOut(d, preds)
<1>1. e \in Into(preds, t) /\ e.from = i /\ e.err = TRUE /\ i # 0
  BY Forms DEF Into
<1>2. /\ Carried(d, must, e) = IF d[i].output THEN must[i] \ {i} ELSE must[i]
      /\ Carried(d, may, e) = IF d[i].output THEN may[i] \ {i} ELSE may[i]
  BY <1>1 DEF Carried
<1>3. /\ must[i] = Required(d, i) \cup Own(d, i)
      /\ may \in Vectors(d) /\ may[i] = Possible(d, i) \cup Own(d, i)
  BY EdgesType, MustOutFixed, MayOutFixed DEF Required, Possible
<1> HIDE DEF preds, e, must, may
<1>4. Required(d, t) = mustIn(d, preds, must, t) /\ Possible(d, t) = mayIn(d, preds, may, t)
  BY DEF Required, Possible, preds, must, may
<1>5. Required(d, t) \subseteq Carried(d, must, e)
  BY <1>1, <1>4 DEF mustIn
<1>6. Carried(d, must, e) \subseteq Required(d, i)
  BY <1>2, <1>3 DEF Own
<1>7. Carried(d, may, e) \subseteq Possible(d, t)
  BY <1>1, <1>2, <1>3, <1>4 DEF mayIn, Vectors, Tasks
<1>8. Possible(d, i) \ {i} \subseteq Carried(d, may, e)
  BY <1>2, <1>3
<1>9. t \in MayFail(d)
  BY <1>1, MayErrFixed DEF MayFail, preds
<1> QED
  BY <1>5, <1>6, <1>7, <1>8, <1>9

\* The engine's routes are edges of the analysis.
LEMMA SwitchEdge ==
    ASSUME NEW d \in Definitions, Validate(d), Distinct(d),
           NEW i \in DOMAIN d, NEW g \in d[i].switch, g # End
    PROVE  [from |-> i, to |-> IF g = Next_ THEN i + 1 ELSE taskIndex(d, g), err |-> FALSE]
               \in buildPreds(d)
<1>1. g # Next_ => lastIndex(d, g) = taskIndex(d, g)
  BY LastIsFirst DEF Validate, validSwitch
<1>2. g \in d[i].switch \ {End}
  OBVIOUS
<1> DEFINE Switched(j) == {[from |-> j, to |-> IF h = Next_ THEN j + 1 ELSE lastIndex(d, h), err |-> FALSE]
                             : h \in d[j].switch \ {End}}
<1>3. [from |-> i, to |-> IF g = Next_ THEN i + 1 ELSE lastIndex(d, g), err |-> FALSE] \in Switched(i)
  BY <1>2
<1>4. (UNION {Switched(j) : j \in DOMAIN d}) \subseteq buildPreds(d)
  BY DEF buildPreds
<1>5. Switched(i) \subseteq buildPreds(d)
  <2> HIDE DEF Switched
  <2> QED  BY <1>4
<1> HIDE DEF Switched
<1> QED
  BY <1>1, <1>3, <1>5

LEMMA ErrorEdge ==
    ASSUME NEW d \in Definitions, Validate(d), Distinct(d), NEW i \in DOMAIN d, NEW code,
           matchOnError(d[i], code).goto \notin {"", End}
    PROVE  [from |-> i, to |-> taskIndex(d, matchOnError(d[i], code).goto), err |-> TRUE]
               \in buildPreds(d)
<1>1. PICK k \in DOMAIN d[i].onError : matchOnError(d[i], code) = d[i].onError[k]
  <2>1. NoRule.goto = ""
    BY DEF NoRule
  <2>2. matchOnError(d[i], code) # NoRule
    BY <2>1
  <2> QED  BY <2>2, RuleIsOne
<1>2. d[i].onError[k].goto \in Ids(d)
  BY <1>1, RuleType
<1>3. lastIndex(d, d[i].onError[k].goto) = taskIndex(d, d[i].onError[k].goto)
  BY <1>2, LastIsFirst
<1>4. k \in {k_1 \in DOMAIN d[i].onError : d[i].onError[k_1].goto \notin {"", End}}
  BY <1>1
<1> DEFINE Caught(j) == {[from |-> j, to |-> lastIndex(d, d[j].onError[h].goto), err |-> TRUE]
                           : h \in {h \in DOMAIN d[j].onError : d[j].onError[h].goto \notin {"", End}}}
<1>5. [from |-> i, to |-> lastIndex(d, d[i].onError[k].goto), err |-> TRUE] \in Caught(i)
  BY <1>4
<1>6. (UNION {Caught(j) : j \in DOMAIN d}) \subseteq buildPreds(d)
  BY DEF buildPreds
<1>7. Caught(i) \subseteq buildPreds(d)
  <2> HIDE DEF Caught
  <2> QED  BY <1>6
<1> HIDE DEF Caught
<1> QED
  BY <1>1, <1>3, <1>5, <1>7

------------------------------------------------------------------------------
(* The sets by id. *)

Names(d, S) == {d[j].id : j \in S}

\* With distinct ids, names tell positions apart.
LEMMA NamesApart ==
    ASSUME NEW d \in Definitions, Distinct(d), NEW i \in DOMAIN d, NEW S \in SUBSET DOMAIN d
    PROVE  d[i].id \in Names(d, S) <=> i \in S
BY IndexOfId DEF Names

LEMMA ByIdIsNames ==
    ASSUME NEW d \in Definitions, Distinct(d), NEW i \in DOMAIN d, NEW f
    PROVE  ById(d, f)[d[i].id] = Names(d, f[i])
<1>1. {k \in DOMAIN d : d[k].id = d[i].id} = {i}
  BY IndexOfId
<1>2. d[i].id \in Ids(d)
  BY DEF Ids
<1>3. ById(d, f)[d[i].id] = UNION {{d[j].id : j \in f[k]} : k \in {k \in DOMAIN d : d[k].id = d[i].id}}
  BY <1>2 DEF ById
<1>4. ById(d, f)[d[i].id] = UNION {{d[j].id : j \in f[k]} : k \in {i}}
  BY <1>1, <1>3
<1> QED
  BY <1>4 DEF Names

\* What the analysis found, read at the id of a task.
LEMMA SetsById ==
    ASSUME NEW d \in Definitions, Distinct(d), NEW i \in DOMAIN d
    PROVE  LET sets == computeContextSets(d) IN
           /\ sets.required[d[i].id] = Names(d, Required(d, i))
           /\ sets.optional[d[i].id] = Names(d, Possible(d, i) \ Required(d, i))
           /\ d[i].id \in sets.mustErr <=> i \in MustFail(d)
           /\ d[i].id \in sets.mayErr <=> i \in MayFail(d)
<1> DEFINE req == [k \in DOMAIN d |-> Required(d, k)]
           opt == [k \in DOMAIN d |-> Possible(d, k) \ req[k]]
           sets == computeContextSets(d)
<1>1. sets = [required |-> ById(d, req), optional |-> ById(d, opt),
              mustErr |-> Names(d, MustFail(d)), mayErr |-> Names(d, MayFail(d))]
  BY DEF computeContextSets, Required, Possible, MustFail, MayFail, Names
<1>2. req[i] = Required(d, i) /\ opt[i] = Possible(d, i) \ Required(d, i)
  OBVIOUS
<1> HIDE DEF req, opt, sets
<1>3. sets.required[d[i].id] = Names(d, Required(d, i))
  BY <1>1, <1>2, ByIdIsNames
<1>4. sets.optional[d[i].id] = Names(d, Possible(d, i) \ Required(d, i))
  BY <1>1, <1>2, ByIdIsNames
<1>5. MustFail(d) \in SUBSET DOMAIN d /\ MayFail(d) \in SUBSET DOMAIN d
  BY MustErrFixed, MayErrFixed DEF MustFail, MayFail
<1>6. d[i].id \in sets.mustErr <=> i \in MustFail(d)
  BY <1>1, <1>5, NamesApart
<1>7. d[i].id \in sets.mayErr <=> i \in MayFail(d)
  BY <1>1, <1>5, NamesApart
<1> QED
  BY <1>3, <1>4, <1>6, <1>7 DEF sets

------------------------------------------------------------------------------
(* The ends. *)

\* A context is what the analysis foresaw at the beginning of task i: it has what is
\* required and, but for what is stale, only what is possible.
HasForeseen(d, i, outputs, stale) ==
    /\ outputs \subseteq Names(d, {j \in DOMAIN d : d[j].output})
    /\ Names(d, Required(d, i)) \subseteq outputs
    /\ outputs \ stale \subseteq Names(d, Possible(d, i))
ForeseenBut(d, i, outputs, stale, error) ==
    HasForeseen(d, i, outputs, stale) /\ (i \in MustFail(d) => error)
Foreseen(d, i, outputs, stale, error, revived) ==
    /\ ForeseenBut(d, i, outputs, stale, error)
    /\ error /\ ~revived => i \in MayFail(d)

\* The same of the context at the end of the process.
HasAtEnd(end, outputs, stale) ==
    /\ end.required \subseteq outputs
    /\ outputs \ stale \subseteq end.required \cup end.optional
ForeseenAtEnd(end, outputs, stale, error, revived) ==
    /\ HasAtEnd(end, outputs, stale)
    /\ end.errRequired => error
    /\ error /\ ~revived => end.errRequired \/ end.errOptional

\* A failure is foreseen, at the beginning of a task and at the end of the process.
FailureForeseen(d, i, outputs, stale) ==
    HasForeseen(d, i, outputs, stale) /\ i \in MayFail(d)
FailureAtEnd(end, outputs, stale) ==
    HasAtEnd(end, outputs, stale) /\ (end.errRequired \/ end.errOptional)

\* The end is foreseen if one of the ways to leave is.
LEMMA EndOf ==
    ASSUME NEW d \in Definitions, NEW sets, NEW t \in terminals(d, sets),
           NEW outputs, NEW stale, outputs \subseteq Ids(d),
           t.must \subseteq outputs, outputs \ stale \subseteq t.may
    PROVE  /\ HasAtEnd(outputContextSets(d, sets), outputs, stale)
           /\ outputContextSets(d, sets).errRequired => t.errMin
           /\ t.errMax => \/ outputContextSets(d, sets).errRequired
                          \/ outputContextSets(d, sets).errOptional
<1> DEFINE ends == terminals(d, sets)
           must == {id \in Ids(d) : ends # {} /\ \A u \in ends : id \in u.must}
           may == UNION {u.may : u \in ends}
           end == outputContextSets(d, sets)
<1>1. /\ end.required = must /\ end.optional = may \ must
      /\ end.errRequired = (ends # {} /\ \A u \in ends : u.errMin)
      /\ end.errOptional = ((\E u \in ends : u.errMax) /\ \E u \in ends : ~u.errMin)
  BY DEF outputContextSets
<1> HIDE DEF ends, end
<1>2. t \in ends
  BY DEF ends
<1>3. must \subseteq t.must /\ t.may \subseteq may
  BY <1>2
<1>4. end.required \subseteq outputs
  BY <1>1, <1>3
<1>5. outputs \ stale \subseteq end.required \cup end.optional
  BY <1>1, <1>3
<1>6. end.errRequired => t.errMin
  BY <1>1, <1>2
<1>7. t.errMax => end.errRequired \/ end.errOptional
  BY <1>1, <1>2
<1> QED
  BY <1>4, <1>5, <1>6, <1>7 DEF HasAtEnd, end

\* The outputs of a context after task i has been left by its switch.
With(d, i, outputs) == IF d[i].output THEN outputs \cup {d[i].id} ELSE outputs

\* The switch ends the process.
LEMMA SwitchEnds ==
    ASSUME NEW d \in Definitions, Distinct(d), NEW i \in DOMAIN d, End \in d[i].switch,
           NEW outputs, NEW stale, NEW error \in BOOLEAN, NEW revived \in BOOLEAN,
           Foreseen(d, i, outputs, stale, error, revived)
    PROVE  ForeseenAtEnd(outputContextSets(d, computeContextSets(d)),
                         With(d, i, outputs), stale \ {d[i].id}, error, revived)
<1> DEFINE sets == computeContextSets(d)
           own == IF d[i].output THEN {d[i].id} ELSE {}
           t == [must |-> sets.required[d[i].id] \cup own,
                 may  |-> sets.required[d[i].id] \cup own \cup sets.optional[d[i].id],
                 errMin |-> d[i].id \in sets.mustErr, errMax |-> d[i].id \in sets.mayErr]
<1>1. t \in terminals(d, sets)
  BY DEF terminals
<1>2. /\ sets.required[d[i].id] = Names(d, Required(d, i))
      /\ sets.optional[d[i].id] = Names(d, Possible(d, i) \ Required(d, i))
      /\ d[i].id \in sets.mustErr <=> i \in MustFail(d)
      /\ d[i].id \in sets.mayErr <=> i \in MayFail(d)
  BY SetsById
<1>3. t.must \subseteq With(d, i, outputs)
  BY <1>2 DEF Foreseen, ForeseenBut, HasForeseen, With
<1>4. With(d, i, outputs) \ (stale \ {d[i].id}) \subseteq t.may
  <2>1. ASSUME NEW x \in With(d, i, outputs), x \notin stale \ {d[i].id} PROVE x \in t.may
    <3>1. CASE x = d[i].id
      <4>1. d[i].output
        <5>1. SUFFICES ASSUME ~d[i].output PROVE FALSE
          OBVIOUS
        <5>2. x \in Names(d, {j \in DOMAIN d : d[j].output})
          BY <5>1 DEF With, Foreseen, ForeseenBut, HasForeseen
        <5> QED  BY <3>1, <5>1, <5>2, NamesApart
      <4> QED  BY <3>1, <4>1
    <3>2. CASE x # d[i].id
      <4>1. x \in outputs \ stale
        BY <2>1, <3>2 DEF With
      <4>2. x \in Names(d, Possible(d, i))
        BY <4>1 DEF Foreseen, ForeseenBut, HasForeseen
      <4>3. x \in Names(d, Required(d, i)) \cup Names(d, Possible(d, i) \ Required(d, i))
        BY <4>2 DEF Names
      <4> QED  BY <1>2, <4>3
    <3> QED  BY <3>1, <3>2
  <2> QED  BY <2>1
<1>5. With(d, i, outputs) \subseteq Ids(d)
  BY DEF With, Foreseen, ForeseenBut, HasForeseen, Names, Ids
<1>6. t.errMin => error
  BY <1>2 DEF Foreseen, ForeseenBut, HasForeseen
<1>7. error /\ ~revived => t.errMax
  BY <1>2 DEF Foreseen, ForeseenBut, HasForeseen
<1> QED
  <2> HIDE DEF t, sets
  <2>1. /\ HasAtEnd(outputContextSets(d, sets), With(d, i, outputs), stale \ {d[i].id})
        /\ outputContextSets(d, sets).errRequired => t.errMin
        /\ t.errMax => \/ outputContextSets(d, sets).errRequired
                       \/ outputContextSets(d, sets).errOptional
    BY <1>1, <1>3, <1>4, <1>5, EndOf
  <2> QED  BY <1>6, <1>7, <2>1 DEF ForeseenAtEnd, sets

\* An error route ends the process.
LEMMA ErrorEnds ==
    ASSUME NEW d \in Definitions, Distinct(d), NEW i \in DOMAIN d, NEW k \in DOMAIN d[i].onError,
           d[i].onError[k].goto = End,
           NEW outputs, NEW stale, NEW error \in BOOLEAN, NEW revived \in BOOLEAN,
           Foreseen(d, i, outputs, stale, error, revived)
    PROVE  FailureAtEnd(outputContextSets(d, computeContextSets(d)), outputs, stale \cup {d[i].id})
<1> DEFINE sets == computeContextSets(d)
           t == [must |-> sets.required[d[i].id] \cup {},
                 may  |-> sets.required[d[i].id] \cup {} \cup sets.optional[d[i].id],
                 errMin |-> TRUE, errMax |-> TRUE]
<1>1. t \in terminals(d, sets)
  BY DEF terminals
<1>2. /\ sets.required[d[i].id] = Names(d, Required(d, i))
      /\ sets.optional[d[i].id] = Names(d, Possible(d, i) \ Required(d, i))
  BY SetsById
<1>3. t.must \subseteq outputs
  BY <1>2 DEF Foreseen, ForeseenBut, HasForeseen
<1>4. outputs \ (stale \cup {d[i].id}) \subseteq t.may
  <2>1. Names(d, Possible(d, i)) \subseteq
          Names(d, Required(d, i)) \cup Names(d, Possible(d, i) \ Required(d, i))
    BY DEF Names
  <2> QED  BY <1>2, <2>1 DEF Foreseen, ForeseenBut, HasForeseen
<1>5. outputs \subseteq Ids(d)
  BY DEF Foreseen, ForeseenBut, HasForeseen, Names, Ids
<1>6. t.errMin /\ t.errMax
  OBVIOUS
<1> QED
  <2> HIDE DEF t, sets
  <2>1. /\ HasAtEnd(outputContextSets(d, sets), outputs, stale \cup {d[i].id})
        /\ t.errMax => \/ outputContextSets(d, sets).errRequired
                       \/ outputContextSets(d, sets).errOptional
    BY <1>1, <1>3, <1>4, <1>5, EndOf
  <2> QED  BY <1>6, <2>1 DEF FailureAtEnd, sets

------------------------------------------------------------------------------
(* The context of an instance. *)

\* A context stays foreseen along a route of the switch.
LEMMA SwitchLeads ==
    ASSUME NEW d \in Definitions, Validate(d), Distinct(d), NEW i \in DOMAIN d,
           NEW g \in d[i].switch, g # End,
           NEW outputs, NEW stale, NEW error \in BOOLEAN, NEW revived \in BOOLEAN,
           Foreseen(d, i, outputs, stale, error, revived)
    PROVE  Foreseen(d, IF g = Next_ THEN i + 1 ELSE taskIndex(d, g),
                    With(d, i, outputs), stale \ {d[i].id}, error, revived)
<1> DEFINE t == IF g = Next_ THEN i + 1 ELSE taskIndex(d, g)
<1>1. t \in DOMAIN d /\ [from |-> i, to |-> t, err |-> FALSE] \in buildPreds(d)
  BY TargetType, SwitchEdge
<1> HIDE DEF t
<1>2. /\ Required(d, t) \subseteq Required(d, i) \cup Own(d, i)
      /\ Possible(d, i) \cup Own(d, i) \subseteq Possible(d, t)
      /\ t \in MustFail(d) => i \in MustFail(d)
      /\ i \in MayFail(d) => t \in MayFail(d)
  BY <1>1, AlongSwitch
<1>3. With(d, i, outputs) \subseteq Names(d, {j \in DOMAIN d : d[j].output})
  BY DEF With, Foreseen, ForeseenBut, HasForeseen, Names
<1>4. Names(d, Required(d, t)) \subseteq With(d, i, outputs)
  <2>1. Names(d, Required(d, t)) \subseteq Names(d, Required(d, i)) \cup Names(d, Own(d, i))
    BY <1>2 DEF Names
  <2>2. Names(d, Own(d, i)) \subseteq With(d, i, outputs)
    BY DEF Names, Own, With
  <2>3. outputs \subseteq With(d, i, outputs)
    BY DEF With
  <2> QED  BY <2>1, <2>2, <2>3 DEF Foreseen, ForeseenBut, HasForeseen
<1>5. With(d, i, outputs) \ (stale \ {d[i].id}) \subseteq Names(d, Possible(d, t))
  <2>1. Names(d, Possible(d, i)) \subseteq Names(d, Possible(d, t))
        /\ Names(d, Own(d, i)) \subseteq Names(d, Possible(d, t))
    BY <1>2 DEF Names
  <2>2. ASSUME NEW x \in With(d, i, outputs), x \notin stale \ {d[i].id}
        PROVE  x \in Names(d, Possible(d, t))
    <3>1. CASE x = d[i].id
      <4>1. d[i].output
        <5>1. SUFFICES ASSUME ~d[i].output PROVE FALSE
          OBVIOUS
        <5>2. x \in Names(d, {j \in DOMAIN d : d[j].output})
          BY <1>3
        <5> QED  BY <3>1, <5>1, <5>2, NamesApart
      <4>2. x \in Names(d, Own(d, i))
        BY <3>1, <4>1 DEF Names, Own
      <4> QED  BY <2>1, <4>2
    <3>2. CASE x # d[i].id
      <4>1. x \in outputs \ stale
        BY <2>2, <3>2 DEF With
      <4> QED  BY <2>1, <4>1 DEF Foreseen, ForeseenBut, HasForeseen
    <3> QED  BY <3>1, <3>2
  <2> QED  BY <2>2
<1>6. t \in MustFail(d) => error
  BY <1>2 DEF Foreseen, ForeseenBut, HasForeseen
<1>7. error /\ ~revived => t \in MayFail(d)
  BY <1>2 DEF Foreseen, ForeseenBut, HasForeseen
<1> QED
  BY <1>3, <1>4, <1>5, <1>6, <1>7 DEF Foreseen, ForeseenBut, HasForeseen, t

\* A context stays foreseen along an error route.
LEMMA ErrorLeads ==
    ASSUME NEW d \in Definitions, Validate(d), Distinct(d), NEW i \in DOMAIN d, NEW code,
           matchOnError(d[i], code).goto \notin {"", End},
           NEW outputs, NEW stale, NEW error \in BOOLEAN, NEW revived \in BOOLEAN,
           Foreseen(d, i, outputs, stale, error, revived)
    PROVE  FailureForeseen(d, taskIndex(d, matchOnError(d[i], code).goto),
                           outputs, stale \cup {d[i].id})
<1> DEFINE t == taskIndex(d, matchOnError(d[i], code).goto)
<1>1. t \in DOMAIN d /\ [from |-> i, to |-> t, err |-> TRUE] \in buildPreds(d)
  <2>1. matchOnError(d[i], code).goto \in Ids(d)
    BY RuleType
  <2> QED  BY <2>1, IndexType, ErrorEdge
<1> HIDE DEF t
<1>2. /\ Required(d, t) \subseteq Required(d, i)
      /\ Possible(d, i) \ {i} \subseteq Possible(d, t)
      /\ t \in MayFail(d)
  BY <1>1, AlongError
<1>3. Names(d, Required(d, t)) \subseteq outputs
  BY <1>2 DEF Names, Foreseen, ForeseenBut, HasForeseen
<1>4. outputs \ (stale \cup {d[i].id}) \subseteq Names(d, Possible(d, t))
  BY <1>2 DEF Names, Foreseen, ForeseenBut, HasForeseen
<1>5. outputs \subseteq Names(d, {j \in DOMAIN d : d[j].output})
  BY DEF Foreseen, ForeseenBut, HasForeseen
<1> QED
  BY <1>2, <1>3, <1>4, <1>5 DEF FailureForeseen, HasForeseen, t

\* An instance has ended: its context is the one at the end of the task it names.
Ended == row.status \in {"completed", "failed"}

\* The analysis is that of the definition, and the contexts of the advance, of the row
\* and of the end are foreseen.  A row that has ended has perhaps the output of the task
\* it names, and its error counts again only when an operator has revived it.
Analysed ==
    row # NULL => /\ static.sets = computeContextSets(def)
                  /\ static.end = outputContextSets(def, static.sets)

AdvanceForeseen ==
    adv # NULL => Foreseen(def, adv.idx, adv.outputs, adv.stale, adv.error, row.revived)

RowForeseen ==
    row # NULL =>
        IF Ended THEN ForeseenBut(def, Resume, row.outputs, row.stale \cup {row.task}, row.error)
                 ELSE Foreseen(def, Resume, row.outputs, row.stale, row.error, row.revived)

EndForeseen ==
    row # NULL /\ row.status = "completed" =>
        ForeseenAtEnd(static.end, row.outputs, row.stale, row.error, row.revived)

ForeseenInv == Analysed /\ AdvanceForeseen /\ RowForeseen /\ EndForeseen

\* What the invariant and the types say of a row and of an advance.
LEMMA ContextTyped ==
    ASSUME TypeInv
    PROVE  /\ def \in Definitions
           /\ row # NULL => /\ Validate(def) /\ Resume \in DOMAIN def
                            /\ def[Resume].id = row.task
                            /\ row.error \in BOOLEAN /\ row.revived \in BOOLEAN
           /\ adv # NULL => /\ adv.idx \in DOMAIN def /\ adv.error \in BOOLEAN
                            /\ row # NULL /\ ~Ended
                            /\ Task = def[adv.idx]
<1>1. row # NULL => def[Resume].id = row.task
  BY Typed, IndexType DEF Resume
<1>2. def \in Definitions
  BY DEF TypeInv, FlowTypes
<1>3. row # NULL => row.error \in BOOLEAN /\ row.revived \in BOOLEAN
  BY Typed DEF Rows
<1>4. adv # NULL => adv.error \in BOOLEAN
  BY TypedAdvance DEF Advances
<1>5. adv # NULL => row # NULL /\ ~Ended
  BY DEF TypeInv, FlowTypes, Ended
<1> QED
  BY <1>1, <1>2, <1>3, <1>4, <1>5, Typed, TypedAdvance DEF Task

\* At the task that the row of an ended instance names, its output and its error do not
\* count.
LEMMA StillForeseen ==
    ASSUME NEW d \in Definitions, NEW i \in DOMAIN d,
           NEW outputs, NEW stale, NEW error \in BOOLEAN, NEW revived \in BOOLEAN,
           Foreseen(d, i, outputs, stale, error, revived)
    PROVE  /\ ForeseenBut(d, i, outputs, stale \cup {d[i].id}, error)
           /\ ForeseenBut(d, i, With(d, i, outputs), stale \cup {d[i].id}, error)
<1>1. /\ outputs \subseteq Names(d, {j \in DOMAIN d : d[j].output})
      /\ Names(d, Required(d, i)) \subseteq outputs
      /\ outputs \ stale \subseteq Names(d, Possible(d, i))
      /\ i \in MustFail(d) => error
  BY DEF Foreseen, ForeseenBut, HasForeseen
<1>2. With(d, i, outputs) \subseteq Names(d, {j \in DOMAIN d : d[j].output})
  BY <1>1 DEF With, Names
<1>3. outputs \subseteq With(d, i, outputs) /\ With(d, i, outputs) \subseteq outputs \cup {d[i].id}
  BY DEF With
<1> QED
  BY <1>1, <1>2, <1>3 DEF Foreseen, ForeseenBut, HasForeseen

\* A save keeps the context that it writes.
LEMMA SaveForeseen ==
    ASSUME TypeInv, Distinct(def), ForeseenInv, adv # NULL, NEW a \in Advances,
           a.outputs \subseteq Ids(def), a.stale \subseteq Ids(def), NEW idx \in DOMAIN def,
           NEW s \in {"running", "cancelling", "completed", "failed"},
           row' = Saved(a, idx, s), adv' = NULL, UNCHANGED <<def, static>>,
           s \in {"completed", "failed"} =>
               ForeseenBut(def, idx, a.outputs, a.stale \cup {def[idx].id}, a.error),
           s \notin {"completed", "failed"} =>
               Foreseen(def, idx, a.outputs, a.stale, a.error, row.revived),
           s = "completed" =>
               ForeseenAtEnd(outputContextSets(def, computeContextSets(def)),
                             a.outputs, a.stale, a.error, row.revived)
    PROVE  ForeseenInv'
<1>1. row \in Rows /\ row # NULL
  BY TypedAdvance, Typed
<1>2. /\ row'.outputs = a.outputs /\ row'.stale = a.stale /\ row'.error = a.error
      /\ row'.revived = row.revived
  BY <1>1 DEF Saved, Rows
<1>3. row'.task = def[idx].id /\ row'.status = s
  BY SavedType
<1>4. Resume' = idx
  BY SavedResumes
<1>5. Analysed'
  BY <1>1 DEF ForeseenInv, Analysed
<1>6. AdvanceForeseen'
  BY DEF AdvanceForeseen
<1>7. RowForeseen'
  BY <1>2, <1>3, <1>4 DEF RowForeseen, Ended
<1>8. EndForeseen'
  BY <1>1, <1>2, <1>3 DEF EndForeseen, ForeseenInv, Analysed
<1> QED
  BY <1>5, <1>6, <1>7, <1>8 DEF ForeseenInv

\* A step that writes the row but not its context keeps it foreseen: a retry by an
\* operator revives it with the output of its task stale.
LEMMA WriteForeseen ==
    ASSUME TypeInv, Distinct(def), ForeseenInv, row # NULL, row' # NULL, UNCHANGED <<def, static>>,
           row'.task = row.task, row'.outputs = row.outputs, row'.error = row.error,
           \/ /\ row'.stale = row.stale /\ row'.revived = row.revived
              /\ row'.status # "completed" /\ (Ended => Ended')
           \/ /\ row'.stale = row.stale /\ row'.revived = row.revived /\ row'.status = row.status
           \/ /\ row'.stale = row.stale \cup {row.task} /\ row'.revived = TRUE
              /\ row'.status = "running",
           adv' # NULL => adv # NULL /\ row'.revived = row.revived /\ adv' = adv
    PROVE  ForeseenInv'
<1>1. /\ def \in Definitions /\ Resume \in DOMAIN def /\ def[Resume].id = row.task
      /\ row.error \in BOOLEAN /\ row.revived \in BOOLEAN
  BY ContextTyped
<1>2. Resume' = Resume
  BY DEF Resume
<1>3. Analysed' /\ AdvanceForeseen'
  BY DEF ForeseenInv, Analysed, AdvanceForeseen
<1>4. EndForeseen'
  BY DEF EndForeseen, ForeseenInv, Ended
<1>5. ForeseenBut(def, Resume, row.outputs, row.stale \cup {row.task}, row.error)
  <2>1. CASE Ended
    BY <2>1 DEF ForeseenInv, RowForeseen
  <2>2. CASE ~Ended
    <3>1. Foreseen(def, Resume, row.outputs, row.stale, row.error, row.revived)
      BY <2>2 DEF ForeseenInv, RowForeseen
    <3>2. /\ row.outputs \subseteq Names(def, {j \in DOMAIN def : def[j].output})
          /\ Names(def, Required(def, Resume)) \subseteq row.outputs
          /\ row.outputs \ (row.stale \cup {row.task}) \subseteq Names(def, Possible(def, Resume))
      BY <3>1 DEF Foreseen, ForeseenBut, HasForeseen
    <3>3. Resume \in MustFail(def) => row.error
      BY <3>1 DEF Foreseen, ForeseenBut, HasForeseen
    <3> QED  BY <3>2, <3>3 DEF Foreseen, ForeseenBut, HasForeseen
  <2> QED  BY <2>1, <2>2
<1>6. RowForeseen'
  <2>1. CASE /\ row'.stale = row.stale /\ row'.revived = row.revived
             /\ (Ended => Ended') /\ Ended'
    BY <1>2, <1>5, <2>1 DEF RowForeseen
  <2>2. CASE /\ row'.stale = row.stale /\ row'.revived = row.revived
             /\ (Ended => Ended') /\ ~Ended'
    <3>1. Foreseen(def, Resume, row.outputs, row.stale, row.error, row.revived)
      BY <2>2 DEF RowForeseen, ForeseenInv
    <3> QED  BY <1>2, <2>2, <3>1 DEF RowForeseen
  <2>3. CASE row'.stale = row.stale \cup {row.task} /\ row'.revived = TRUE /\ row'.status = "running"
    <3>1. Foreseen(def, Resume, row.outputs, row'.stale, row.error, row'.revived)
      BY <1>5, <2>3 DEF Foreseen
    <3> QED  BY <1>2, <2>3, <3>1 DEF RowForeseen, Ended
  <2>4. row'.status = row.status => (Ended => Ended')
    BY DEF Ended
  <2> QED  BY <2>1, <2>2, <2>3, <2>4
<1> QED
  BY <1>3, <1>4, <1>6 DEF ForeseenInv

\* What the advance knows.
LEMMA AdvanceContext ==
    ASSUME TypeInv, ForeseenInv, adv # NULL
    PROVE  /\ Foreseen(def, adv.idx, adv.outputs, adv.stale, adv.error, row.revived)
           /\ def \in Definitions /\ Validate(def) /\ adv.idx \in DOMAIN def /\ Task = def[adv.idx]
           /\ adv.error \in BOOLEAN /\ row.revived \in BOOLEAN
           /\ row.status \in {"running", "cancelling"}
BY ContextTyped DEF ForeseenInv, AdvanceForeseen, TypeInv, FlowTypes

\* So it is of the advance.
LEMMA AdvanceStill ==
    ASSUME TypeInv, ForeseenInv, adv # NULL
    PROVE  /\ ForeseenBut(def, adv.idx, adv.outputs, adv.stale \cup {def[adv.idx].id}, adv.error)
           /\ ForeseenBut(def, adv.idx, With(def, adv.idx, adv.outputs),
                          adv.stale \cup {def[adv.idx].id}, adv.error)
BY AdvanceContext, StillForeseen

\* The contexts that the advance saves.
LEMMA SavedContexts ==
    ASSUME TypeInv, adv # NULL
    PROVE  /\ WithOutput.outputs = With(def, adv.idx, adv.outputs)
           /\ WithOutput.stale = adv.stale \ {def[adv.idx].id} /\ WithOutput.error = adv.error
           /\ WithError.outputs = adv.outputs
           /\ WithError.stale = adv.stale \cup {def[adv.idx].id} /\ WithError.error = TRUE
<1>1. adv \in Advances
  BY TypedAdvance
<1> QED
  BY <1>1 DEF WithOutput, WithError, With, Task, Advances

\* The evaluation of an expression fails.
LEMMA FailForeseen ==
    ASSUME TypeInv, Distinct(def), ForeseenInv, NEW done \in BOOLEAN, FailInstance(done)
    PROVE  ForeseenInv'
<1> DEFINE a == [adv EXCEPT !.wake = NULL,
                            !.retry = IF adv.answer = "ok" THEN 0 ELSE @,
                            !.outputs = IF done /\ Task.output THEN @ \cup {Task.id} ELSE @,
                            !.stale = IF done THEN @ \ {Task.id} ELSE @]
<1>1. /\ adv # NULL /\ row' = Saved(a, adv.idx, "failed") /\ adv' = NULL
      /\ UNCHANGED <<def, static>>
  BY DEF FailInstance
<1>2. a \in Advances /\ a.outputs \subseteq Ids(def) /\ a.stale \subseteq Ids(def)
  BY <1>1, SavedForms
<1>3. /\ a.outputs = adv.outputs \/ a.outputs = With(def, adv.idx, adv.outputs)
      /\ a.stale \cup {def[adv.idx].id} = adv.stale \cup {def[adv.idx].id} /\ a.error = adv.error
  <2>1. adv \in Advances
    BY <1>1, TypedAdvance
  <2> QED  BY <2>1 DEF With, Task, Advances
<1> HIDE DEF a
<1>4. ForeseenBut(def, adv.idx, a.outputs, a.stale \cup {def[adv.idx].id}, adv.error)
  <2>1. /\ ForeseenBut(def, adv.idx, adv.outputs, adv.stale \cup {def[adv.idx].id}, adv.error)
        /\ ForeseenBut(def, adv.idx, With(def, adv.idx, adv.outputs), adv.stale \cup {def[adv.idx].id}, adv.error)
    BY <1>1, AdvanceStill
  <2> QED  BY <1>3, <2>1
<1> QED
  BY <1>1, <1>2, <1>3, <1>4, AdvanceContext, SaveForeseen

\* A delay is armed.
LEMMA ArmForeseen ==
    ASSUME TypeInv, Distinct(def), ForeseenInv, ArmDelay
    PROVE  ForeseenInv'
<1> DEFINE a == [adv EXCEPT !.wake = 1]
<1>1. /\ adv # NULL /\ row' = Saved(a, adv.idx, row.status) /\ adv' = NULL
      /\ UNCHANGED <<def, static>>
  BY DEF ArmDelay
<1>2. a \in Advances /\ a.outputs = adv.outputs /\ a.stale = adv.stale /\ a.error = adv.error
  BY <1>1, TypedAdvance DEF Advances
<1>3. a.outputs \subseteq Ids(def) /\ a.stale \subseteq Ids(def)
  BY <1>1, <1>2, TypedAdvance
<1> HIDE DEF a
<1> QED
  BY <1>1, <1>2, <1>3, AdvanceContext, SaveForeseen

\* The switch ends the process.
LEMMA EndStepForeseen ==
    ASSUME TypeInv, Distinct(def), ForeseenInv, GotoEnd
    PROVE  ForeseenInv'
<1>1. /\ adv # NULL /\ End \in Task.switch /\ row' = Saved(WithOutput, adv.idx, "completed")
      /\ adv' = NULL /\ UNCHANGED <<def, static>>
  BY DEF GotoEnd
<1>2. /\ WithOutput \in Advances
      /\ WithOutput.outputs \subseteq Ids(def) /\ WithOutput.stale \subseteq Ids(def)
  BY <1>1, SavedForms
<1>3. WithOutput.stale \cup {def[adv.idx].id} = adv.stale \cup {def[adv.idx].id}
  BY <1>1, SavedContexts
<1>4. ForeseenBut(def, adv.idx, WithOutput.outputs, WithOutput.stale \cup {def[adv.idx].id}, adv.error)
  <2>1. /\ ForeseenBut(def, adv.idx, adv.outputs, adv.stale \cup {def[adv.idx].id}, adv.error)
        /\ ForeseenBut(def, adv.idx, With(def, adv.idx, adv.outputs), adv.stale \cup {def[adv.idx].id}, adv.error)
    BY <1>1, AdvanceStill
  <2> QED  BY <1>1, <1>3, <2>1, SavedContexts
<1>5. ForeseenAtEnd(outputContextSets(def, computeContextSets(def)),
                    WithOutput.outputs, WithOutput.stale, adv.error, row.revived)
  BY <1>1, AdvanceContext, SavedContexts, SwitchEnds
<1> QED
  BY <1>1, <1>2, <1>4, <1>5, AdvanceContext, SavedContexts, SaveForeseen

\* The switch goes on in memory.
LEMMA InlineForeseen ==
    ASSUME TypeInv, Distinct(def), ForeseenInv, adv # NULL, NEW g \in Task.switch, GotoInline(g)
    PROVE  ForeseenInv'
<1>1. /\ g # End /\ adv' = [WithOutput EXCEPT !.idx = Target(g), !.i = @ + 1]
      /\ UNCHANGED <<def, static, row>>
  BY DEF GotoInline
<1>2. WithOutput \in Advances
  BY SavedForms
<1>3. /\ adv'.idx = Target(g) /\ adv'.outputs = WithOutput.outputs
      /\ adv'.stale = WithOutput.stale /\ adv'.error = WithOutput.error
  BY <1>1, <1>2 DEF Advances
<1>4. Foreseen(def, Target(g), With(def, adv.idx, adv.outputs), adv.stale \ {def[adv.idx].id},
               adv.error, row.revived)
  BY <1>1, AdvanceContext, SwitchLeads DEF Target
<1>5. Foreseen(def, adv'.idx, adv'.outputs, adv'.stale, adv'.error, row.revived)
  BY <1>3, <1>4, SavedContexts
<1>6. AdvanceForeseen'
  BY <1>1, <1>5 DEF AdvanceForeseen
<1>7. Analysed' /\ RowForeseen' /\ EndForeseen'
  BY <1>1 DEF ForeseenInv, Analysed, RowForeseen, EndForeseen, Ended, Resume
<1> QED
  BY <1>6, <1>7 DEF ForeseenInv

\* The switch goes on after a checkpoint.
LEMMA CheckpointForeseen ==
    ASSUME TypeInv, Distinct(def), ForeseenInv, adv # NULL, NEW g \in Task.switch, GotoCheckpoint(g)
    PROVE  ForeseenInv'
<1>1. /\ g # End /\ row' = Saved(WithOutput, Target(g), row.status) /\ adv' = NULL
      /\ UNCHANGED <<def, static>>
  BY DEF GotoCheckpoint
<1>2. /\ WithOutput \in Advances
      /\ WithOutput.outputs \subseteq Ids(def) /\ WithOutput.stale \subseteq Ids(def)
  BY SavedForms
<1>3. Target(g) \in DOMAIN def
  BY <1>1, AdvanceContext, TargetType DEF Target
<1>4. Foreseen(def, Target(g), With(def, adv.idx, adv.outputs), adv.stale \ {def[adv.idx].id},
               adv.error, row.revived)
  BY <1>1, AdvanceContext, SwitchLeads DEF Target
<1>5. Foreseen(def, Target(g), WithOutput.outputs, WithOutput.stale, WithOutput.error, row.revived)
  BY <1>4, SavedContexts
<1> QED
  BY <1>1, <1>2, <1>3, <1>5, AdvanceContext, SaveForeseen

\* What a failed call leaves: the error in the context, the output of its task stale.
LEMMA FailedContext ==
    ASSUME TypeInv, adv # NULL, NEW a, a = [WithError EXCEPT !.wake = NULL]
                                       \/ a = [WithError EXCEPT !.wake = NULL, !.retry = 0]
    PROVE  /\ a \in Advances /\ a.outputs \subseteq Ids(def) /\ a.stale \subseteq Ids(def)
           /\ a.outputs = adv.outputs /\ a.stale = adv.stale \cup {def[adv.idx].id}
           /\ a.error \in BOOLEAN /\ a.error
<1>1. /\ WithError \in Advances
      /\ WithError.outputs \subseteq Ids(def) /\ WithError.stale \subseteq Ids(def)
  BY SavedForms
<1>2. /\ a \in Advances /\ a.outputs = WithError.outputs /\ a.stale = WithError.stale
      /\ a.error = WithError.error
  <2>1. CASE a = [WithError EXCEPT !.wake = NULL]
    BY <1>1, <2>1 DEF Advances
  <2>2. CASE a = [WithError EXCEPT !.wake = NULL, !.retry = 0]
    BY <1>1, <2>2 DEF Advances
  <2> QED  BY <2>1, <2>2
<1> QED
  BY <1>1, <1>2, SavedContexts

\* A failed call is retried.
LEMMA RetryForeseen ==
    ASSUME TypeInv, Distinct(def), ForeseenInv, RetryCall
    PROVE  ForeseenInv'
<1> DEFINE a == [adv EXCEPT !.retry = @ + 1, !.wake = RetryDelay(adv.retry + 1)]
<1>1. /\ adv # NULL /\ row' = Saved(a, adv.idx, "running") /\ adv' = NULL
      /\ UNCHANGED <<def, static>>
  BY DEF RetryCall, Failed
<1>2. adv \in Advances
  BY <1>1, TypedAdvance
<1>3. adv.retry + 1 \in Nat
  BY <1>2 DEF Advances
<1>4. RetryDelay(adv.retry + 1) \in Int
  BY <1>3, DelayType
<1>5. a \in Advances /\ a.outputs = adv.outputs /\ a.stale = adv.stale /\ a.error = adv.error
  BY <1>2, <1>3, <1>4 DEF Advances
<1>6. a.outputs \subseteq Ids(def) /\ a.stale \subseteq Ids(def)
  BY <1>1, <1>5, TypedAdvance
<1> HIDE DEF a
<1> QED
  BY <1>1, <1>5, <1>6, AdvanceContext, SaveForeseen

\* A failed call ends the process.
LEMMA ErrorEndForeseen ==
    ASSUME TypeInv, Distinct(def), ForeseenInv, ErrorEnd
    PROVE  ForeseenInv'
<1> DEFINE a == [WithError EXCEPT !.wake = NULL]
<1>1. /\ adv # NULL /\ Rule.goto = End /\ row' = Saved(a, adv.idx, "completed") /\ adv' = NULL
      /\ UNCHANGED <<def, static>>
  BY DEF ErrorEnd, Failed
<1>2. /\ a \in Advances /\ a.outputs \subseteq Ids(def) /\ a.stale \subseteq Ids(def)
      /\ a.outputs = adv.outputs /\ a.stale = adv.stale \cup {def[adv.idx].id}
      /\ a.error \in BOOLEAN /\ a.error
  BY <1>1, FailedContext
<1> HIDE DEF a
<1>3. ForeseenBut(def, adv.idx, a.outputs, a.stale \cup {def[adv.idx].id}, a.error)
  <2>1. a.stale \cup {def[adv.idx].id} = adv.stale \cup {def[adv.idx].id}
    BY <1>2
  <2> QED  BY <1>1, <1>2, <2>1, AdvanceStill DEF ForeseenBut
<1>4. PICK k \in DOMAIN def[adv.idx].onError : def[adv.idx].onError[k].goto = End
  <2>1. matchOnError(def[adv.idx], ErrorCode(adv.answer)).goto = End /\ NoRule.goto # End
    BY <1>1 DEF Rule, Task, NoRule, End
  <2> QED  BY <1>1, <2>1, AdvanceContext, RuleIsOne
<1>5. ForeseenAtEnd(outputContextSets(def, computeContextSets(def)),
                    a.outputs, a.stale, a.error, row.revived)
  <2>1. FailureAtEnd(outputContextSets(def, computeContextSets(def)),
                     adv.outputs, adv.stale \cup {def[adv.idx].id})
    BY <1>1, <1>4, AdvanceContext, ErrorEnds
  <2> QED  BY <1>2, <2>1 DEF FailureAtEnd, ForeseenAtEnd
<1> QED
  BY <1>1, <1>2, <1>3, <1>5, AdvanceContext, SaveForeseen

\* A failed call fails the instance.
LEMMA ErrorFailsForeseen ==
    ASSUME TypeInv, Distinct(def), ForeseenInv, ErrorFails
    PROVE  ForeseenInv'
<1> DEFINE a == [WithError EXCEPT !.wake = NULL]
<1>1. /\ adv # NULL /\ row' = Saved(a, adv.idx, "failed") /\ adv' = NULL
      /\ UNCHANGED <<def, static>>
  BY DEF ErrorFails, Failed
<1>2. /\ a \in Advances /\ a.outputs \subseteq Ids(def) /\ a.stale \subseteq Ids(def)
      /\ a.outputs = adv.outputs /\ a.stale = adv.stale \cup {def[adv.idx].id}
      /\ a.error \in BOOLEAN /\ a.error
  BY <1>1, FailedContext
<1> HIDE DEF a
<1>3. ForeseenBut(def, adv.idx, a.outputs, a.stale \cup {def[adv.idx].id}, a.error)
  <2>1. a.stale \cup {def[adv.idx].id} = adv.stale \cup {def[adv.idx].id}
    BY <1>2
  <2> QED  BY <1>1, <1>2, <2>1, AdvanceStill DEF ForeseenBut
<1> QED
  BY <1>1, <1>2, <1>3, AdvanceContext, SaveForeseen

\* A failed call routes to a task.
LEMMA ErrorRouteForeseen ==
    ASSUME TypeInv, Distinct(def), ForeseenInv, ErrorRoute
    PROVE  ForeseenInv'
<1> DEFINE a == [WithError EXCEPT !.wake = NULL, !.retry = 0]
           t == taskIndex(def, Rule.goto)
<1>1. /\ adv # NULL /\ Rule.goto \notin {"", End} /\ row' = Saved(a, t, "running") /\ adv' = NULL
      /\ UNCHANGED <<def, static>>
  BY DEF ErrorRoute, Failed
<1>2. /\ a \in Advances /\ a.outputs \subseteq Ids(def) /\ a.stale \subseteq Ids(def)
      /\ a.outputs = adv.outputs /\ a.stale = adv.stale \cup {def[adv.idx].id}
      /\ a.error \in BOOLEAN /\ a.error
  BY <1>1, FailedContext
<1> HIDE DEF a
<1>3. Rule = matchOnError(def[adv.idx], ErrorCode(adv.answer))
  BY DEF Rule, Task
<1>4. t \in DOMAIN def
  <2>1. Rule.goto \in Ids(def)
    BY <1>1, <1>3, AdvanceContext, RuleType
  <2> QED  BY <1>1, <2>1, AdvanceContext, IndexType
<1>5. FailureForeseen(def, t, adv.outputs, adv.stale \cup {def[adv.idx].id})
  BY <1>1, <1>3, AdvanceContext, ErrorLeads
<1> HIDE DEF t
<1>6. Foreseen(def, t, a.outputs, a.stale, a.error, row.revived)
  BY <1>2, <1>5 DEF FailureForeseen, Foreseen, ForeseenBut
<1> QED
  BY <1>1, <1>2, <1>4, <1>6, AdvanceContext, SaveForeseen

\* A call is sent.
LEMMA SendForeseen ==
    ASSUME TypeInv, Distinct(def), ForeseenInv, NEW o \in Outcome, SendCall(o)
    PROVE  ForeseenInv'
<1>1. /\ adv # NULL /\ adv' = [adv EXCEPT !.answer = o] /\ UNCHANGED <<def, static, row>>
  BY DEF SendCall
<1>2. adv \in Advances
  BY <1>1, TypedAdvance
<1>3. /\ adv'.idx = adv.idx /\ adv'.outputs = adv.outputs
      /\ adv'.stale = adv.stale /\ adv'.error = adv.error
  BY <1>1, <1>2 DEF Advances
<1>4. AdvanceForeseen'
  BY <1>1, <1>3, AdvanceContext DEF AdvanceForeseen
<1>5. Analysed' /\ RowForeseen' /\ EndForeseen'
  BY <1>1 DEF ForeseenInv, Analysed, RowForeseen, EndForeseen, Ended, Resume
<1> QED
  BY <1>4, <1>5 DEF ForeseenInv

\* A worker claims the instance and takes the context from the row.
LEMMA ClaimForeseen ==
    ASSUME TypeInv, Distinct(def), ForeseenInv, Claim
    PROVE  ForeseenInv'
<1>1. /\ row # NULL /\ row.status = "running" /\ row' = [row EXCEPT !.lease = "held"]
      /\ adv'.idx = Resume /\ adv'.outputs = row.outputs /\ adv'.stale = row.stale
      /\ adv'.error = row.error /\ UNCHANGED <<def, static>>
  BY DEF Claim, Claimable, Resume
<1>2. row \in Rows
  BY <1>1, Typed
<1>3. /\ row'.status = row.status /\ row'.task = row.task /\ row'.outputs = row.outputs
      /\ row'.stale = row.stale /\ row'.error = row.error /\ row'.revived = row.revived
  BY <1>1, <1>2 DEF Rows
<1>4. ~Ended /\ ~Ended'
  BY <1>1, <1>3 DEF Ended
<1>5. Foreseen(def, Resume, row.outputs, row.stale, row.error, row.revived)
  BY <1>1, <1>4 DEF ForeseenInv, RowForeseen
<1>6. Resume' = Resume
  BY <1>1, <1>3 DEF Resume
<1>7. AdvanceForeseen'
  BY <1>1, <1>3, <1>5 DEF AdvanceForeseen
<1>8. RowForeseen'
  BY <1>1, <1>3, <1>4, <1>5, <1>6 DEF RowForeseen
<1>9. Analysed' /\ EndForeseen'
  BY <1>1, <1>3 DEF ForeseenInv, Analysed, EndForeseen
<1> QED
  BY <1>7, <1>8, <1>9 DEF ForeseenInv

\* Claims that are refused, crashes and orders of operators write the row's status, its
\* timer and its lease.
LEMMA OrderForeseen ==
    ASSUME TypeInv, Distinct(def), ForeseenInv,
           CancelInstance \/ FailInterrupted \/ Crash \/ CancelProcess
    PROVE  ForeseenInv'
<1>1. row # NULL
  BY TypedAdvance DEF CancelInstance, FailInterrupted, Crash, CancelProcess, Claimable
<1>2. row \in Rows
  BY <1>1, Typed
<1>3. CASE CancelInstance \/ FailInterrupted
  <2>1. /\ row'.task = row.task /\ row'.outputs = row.outputs /\ row'.error = row.error
        /\ row'.stale = row.stale /\ row'.revived = row.revived /\ adv' = NULL
        /\ UNCHANGED <<def, static>> /\ row'.status \in {"cancelled", "failed"}
    BY <1>2, <1>3 DEF CancelInstance, FailInterrupted, Rows, Claimable
  <2>2. row' \in Rows
    BY <1>2, <1>3 DEF CancelInstance, FailInterrupted, Rows
  <2>3. ~Ended
    BY <1>3 DEF CancelInstance, FailInterrupted, Ended
  <2> QED  BY <1>1, <2>1, <2>2, <2>3, NullIsNone, WriteForeseen
<1>4. CASE Crash
  <2>1. /\ row'.task = row.task /\ row'.outputs = row.outputs /\ row'.error = row.error
        /\ row'.stale = row.stale /\ row'.revived = row.revived /\ adv' = NULL
        /\ UNCHANGED <<def, static>> /\ row'.status = row.status
    BY <1>2, <1>4 DEF Crash, Rows
  <2>2. row' \in Rows
    BY <1>2, <1>4 DEF Crash, Rows
  <2> QED  BY <1>1, <2>1, <2>2, NullIsNone, WriteForeseen
<1>5. CASE CancelProcess
  <2>1. /\ row'.task = row.task /\ row'.outputs = row.outputs /\ row'.error = row.error
        /\ row'.stale = row.stale /\ row'.revived = row.revived /\ adv' = adv
        /\ UNCHANGED <<def, static>> /\ row'.status = "cancelling"
    BY <1>2, <1>5 DEF CancelProcess, Rows
  <2>2. row' \in Rows
    BY <1>2, <1>5 DEF CancelProcess, Rows
  <2>3. ~Ended
    BY <1>5 DEF CancelProcess, Ended
  <2> QED  BY <1>1, <2>1, <2>2, <2>3, NullIsNone, WriteForeseen
<1> QED
  BY <1>3, <1>4, <1>5

\* An operator revives the instance.
LEMMA ReviveForeseen ==
    ASSUME TypeInv, Distinct(def), ForeseenInv, NEW force \in BOOLEAN, RetryProcess(force)
    PROVE  ForeseenInv'
<1>1. /\ row # NULL /\ row.status \in {"failed", "cancelled"} /\ UNCHANGED <<def, static, adv>>
  BY DEF RetryProcess
<1>2. row \in Rows /\ row.task \in STRING /\ adv = NULL
  BY <1>1, Typed, AdvanceContext DEF Rows
<1>3. /\ row'.task = row.task /\ row'.outputs = row.outputs /\ row'.error = row.error
      /\ row'.stale = row.stale \cup {row.task} /\ row'.revived = TRUE
      /\ row'.status = "running"
  BY <1>2 DEF RetryProcess, Rows
<1>4. row' \in Rows
  BY <1>2 DEF RetryProcess, Rows
<1> QED
  BY <1>1, <1>2, <1>3, <1>4, NullIsNone, WriteForeseen

\* An instance starts at the first task with an empty context.
LEMMA RegisterForeseen ==
    ASSUME TypeInv, Distinct(def), ForeseenInv, Register
    PROVE  ForeseenInv'
<1>1. adv' = NULL /\ UNCHANGED <<def, adv>>
  BY TypedAdvance DEF Register
<1>2. CASE row' = NULL
  BY <1>1, <1>2 DEF ForeseenInv, Analysed, AdvanceForeseen, RowForeseen, EndForeseen
<1>3. CASE row' # NULL
  <2>1. /\ static' = [sets |-> computeContextSets(def),
                       end |-> outputContextSets(def, computeContextSets(def))]
        /\ row'.status = "running" /\ row'.task = def[1].id /\ row'.outputs = {}
        /\ row'.stale = {} /\ row'.error = FALSE /\ row'.revived = FALSE
    BY <1>3 DEF Register
  <2>2. def \in Definitions /\ 1 \in DOMAIN def
    BY Forms DEF TypeInv, FlowTypes
  <2>3. taskIndex(def, def[1].id) = 1
    BY <2>2, IndexOfId
  <2>4. Resume' = 1
    BY <1>1, <2>1, <2>3 DEF Resume
  <2>5. Foreseen(def, 1, row'.outputs, row'.stale, row'.error, row'.revived)
    <3>1. Required(def, 1) = {} /\ 1 \notin MustFail(def)
      BY <2>2, AtStart
    <3>2. Names(def, {}) = {}
      BY DEF Names
    <3> QED  BY <2>1, <3>1, <3>2 DEF Foreseen, ForeseenBut, HasForeseen
  <2>6. RowForeseen'
    BY <1>1, <2>1, <2>4, <2>5 DEF RowForeseen, Ended
  <2>7. Analysed'
    BY <1>1, <2>1 DEF Analysed
  <2>8. AdvanceForeseen' /\ EndForeseen'
    BY <1>1, <2>1 DEF AdvanceForeseen, EndForeseen
  <2> QED  BY <2>6, <2>7, <2>8 DEF ForeseenInv
<1> QED
  BY <1>2, <1>3

\* Every step keeps ForeseenInv.
LEMMA StepForeseen ==
    ASSUME TypeInv, Distinct(def), ForeseenInv, [Next]_vars
    PROVE  ForeseenInv'
<1>1. CASE Register
  BY <1>1, RegisterForeseen
<1>2. CASE CancelInstance \/ FailInterrupted \/ Crash \/ CancelProcess
  BY <1>2, OrderForeseen
<1>3. CASE Claim
  BY <1>3, ClaimForeseen
<1>4. CASE \E force \in BOOLEAN : RetryProcess(force)
  BY <1>4, ReviveForeseen
<1>5. CASE Advance
  <2>1. CASE \E done \in BOOLEAN : FailInstance(done)
    BY <2>1, FailForeseen
  <2>2. CASE \E o \in Outcome : SendCall(o)
    BY <2>2, SendForeseen
  <2>3. CASE ArmDelay
    BY <2>3, ArmForeseen
  <2>4. CASE GotoEnd
    BY <2>4, EndStepForeseen
  <2>5. CASE adv # NULL /\ \E g \in Task.switch : GotoInline(g) \/ GotoCheckpoint(g)
    BY <2>5, InlineForeseen, CheckpointForeseen
  <2>6. CASE RetryCall
    BY <2>6, RetryForeseen
  <2>7. CASE ErrorEnd
    BY <2>7, ErrorEndForeseen
  <2>8. CASE ErrorRoute
    BY <2>8, ErrorRouteForeseen
  <2>9. CASE ErrorFails
    BY <2>9, ErrorFailsForeseen
  <2> QED
    BY <1>5, <2>1, <2>2, <2>3, <2>4, <2>5, <2>6, <2>7, <2>8, <2>9 DEF Advance
<1>6. CASE UNCHANGED vars
  BY <1>6 DEF vars, ForeseenInv, Analysed, AdvanceForeseen, RowForeseen, EndForeseen,
              Ended, Resume
<1> QED
  BY <1>1, <1>2, <1>3, <1>4, <1>5, <1>6 DEF Next

------------------------------------------------------------------------------
(* The result. *)

\* What a task finds is what the analysis says of its id.
LEMMA TaskForeseen ==
    ASSUME TypeInv, Distinct(def), ForeseenInv, adv # NULL
    PROVE  /\ Sets.required[Task.id] \subseteq adv.outputs
           /\ adv.outputs \ adv.stale \subseteq Sets.required[Task.id] \cup Sets.optional[Task.id]
           /\ Task.id \in Sets.mustErr => adv.error
           /\ adv.error /\ ~row.revived => Task.id \in Sets.mayErr
<1>1. /\ Foreseen(def, adv.idx, adv.outputs, adv.stale, adv.error, row.revived)
      /\ def \in Definitions /\ adv.idx \in DOMAIN def /\ Task = def[adv.idx]
  BY AdvanceContext
<1>2. Sets = computeContextSets(def)
  BY TypedAdvance DEF ForeseenInv, Analysed, Sets
<1>3. /\ Sets.required[Task.id] = Names(def, Required(def, adv.idx))
      /\ Sets.optional[Task.id] = Names(def, Possible(def, adv.idx) \ Required(def, adv.idx))
      /\ Task.id \in Sets.mustErr <=> adv.idx \in MustFail(def)
      /\ Task.id \in Sets.mayErr <=> adv.idx \in MayFail(def)
  BY <1>1, <1>2, SetsById
<1>4. Names(def, Possible(def, adv.idx)) \subseteq
        Names(def, Required(def, adv.idx)) \cup Names(def, Possible(def, adv.idx) \ Required(def, adv.idx))
  BY DEF Names
<1> QED
  BY <1>1, <1>3, <1>4 DEF Foreseen, ForeseenBut, HasForeseen

\* What computeContextSets and outputContextSets say when a definition is registered is
\* what its instances find, at every task and at the end, for every definition whose ids
\* are distinct and every run of the engine.
THEOREM AnalysisIsRight == Spec => []ContextIsForeseen
<1>1. Init => FlowInv /\ (Distinct(def) => ForeseenInv)
  BY InitType, InitPath
  DEF Init, FlowInv, ForeseenInv, Analysed, AdvanceForeseen, RowForeseen, EndForeseen
<1>2. TypeInv /\ (Distinct(def) => ForeseenInv) /\ [Next]_vars => (Distinct(def) => ForeseenInv)'
  <2> SUFFICES ASSUME TypeInv, Distinct(def) => ForeseenInv, [Next]_vars
               PROVE  Distinct(def)' => ForeseenInv'
    OBVIOUS
  <2>1. def' = def
    BY DEF Next, vars, Register, CancelInstance, FailInterrupted, Claim, Advance, Crash,
           CancelProcess, RetryProcess, FailInstance, SendCall, ArmDelay, GotoEnd, GotoInline,
           GotoCheckpoint, RetryCall, ErrorEnd, ErrorRoute, ErrorFails
  <2>2. Distinct(def)' => Distinct(def)
    BY <2>1
  <2>3. Distinct(def) => ForeseenInv'
    BY StepForeseen
  <2> QED  BY <2>2, <2>3
<1>3. TypeInv /\ (Distinct(def) => ForeseenInv) => ContextIsForeseen
  <2> SUFFICES ASSUME TypeInv, Distinct(def) => ForeseenInv PROVE ContextIsForeseen
    OBVIOUS
  <2>1. RequiredIsPresent /\ PresentIsForeseen /\ ErrorIsForeseen
    BY TaskForeseen DEF RequiredIsPresent, PresentIsForeseen, ErrorIsForeseen
  <2>2. EndIsForeseen
    BY DEF EndIsForeseen, ForeseenInv, EndForeseen, ForeseenAtEnd, HasAtEnd
  <2> QED  BY <2>1, <2>2 DEF ContextIsForeseen
<1>4. FlowInv => TypeInv
  BY DEF FlowInv
<1> QED
  BY <1>1, <1>2, <1>3, <1>4, Invariance, PTL DEF Spec

=============================================================================
