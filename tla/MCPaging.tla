------------------------------ MODULE MCPaging ------------------------------
(* Tables for model checking Paging: with equal sort columns, with a row the filter *)
(* hides, and with a free id between two others.                                    *)
EXTENDS Paging, TLC

At(c, u) == [created |-> c, updated |-> u, match |-> TRUE]
Hidden(row) == [row EXCEPT !.match = FALSE]

SomeTables ==
    {(1 :> At(1, 1)) @@ (2 :> At(1, 1)) @@ (3 :> At(1, 2)) @@ (4 :> At(2, 2)),
     (1 :> At(2, 2)) @@ (2 :> NULL) @@ (3 :> Hidden(At(1, 1))) @@ (4 :> At(1, 2))}
==============================================================================
