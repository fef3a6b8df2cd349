------------------------------ MODULE MCRegistry ------------------------------
(* Definitions that call each other, for model checking Registry. *)
EXTENDS Registry, TLC

CONSTANTS A, B, C, a0, a1, a2, b1, b2, c1, c2

Entry(n, v) == [name |-> n, version |-> v]

\* c1 calls B and B calls A; c2 calls both, so that an update of A reaches it twice; a1
\* calls itself, a2 closes a cycle, and b2 asks for the first version of A.
Entries == a0 :> {} @@ a1 :> {Entry(A, 0)} @@ a2 :> {Entry(B, 0)} @@
           b1 :> {Entry(A, 0)} @@ b2 :> {Entry(A, 1)} @@ c1 :> {Entry(B, 0)} @@
           c2 :> {Entry(A, 0), Entry(B, 0)}

BodyNames == [b \in Body |-> IF b \in {a0, a1, a2} THEN A
                             ELSE IF b \in {c1, c2} THEN C ELSE B]
Calls == [b \in Body |-> Entries[b]]

\* b2 does not fit a2, and c1 does not fit b2.
Fits == {<<a1, a1>>, <<a2, b1>>, <<a2, b2>>, <<b1, a0>>, <<b1, a1>>, <<b1, a2>>,
         <<b2, a0>>, <<b2, a1>>, <<c1, b1>>, <<c2, a1>>, <<c2, b1>>}
==============================================================================
