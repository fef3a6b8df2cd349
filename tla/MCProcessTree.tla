---------------------------- MODULE MCProcessTree ----------------------------
(* Small sets of definitions for model checking ProcessTree. *)
EXTENDS ProcessTree, TLC

Rl(codes, retries, notReached, goto) ==
    [codes |-> codes, retries |-> retries, notReached |-> notReached, goto |-> goto]

\* Three levels and two spawn tasks in a row: the root r1 spawns m1 and b1, m1
\* spawns x1 and y1, then r2 spawns c1.
FullTask  == {"r1", "r2", "m1", "b1", "c1", "x1", "y1", "y2"}
FullEntry == {"r1"}
FullKind  == "r1" :> "child" @@ "r2" :> "child" @@ "m1" :> "child" @@ "b1" :> "delay"
             @@ "c1" :> "route" @@ "x1" :> "rest" @@ "y1" :> "route" @@ "y2" :> "rest"
FullGoto  == "r1" :> {"r2"} @@ "y1" :> {"y2", "end"} @@ [t \in FullTask |-> {"end"}]
FullSpawns == "r1" :> {"m1", "b1"} @@ "r2" :> {"c1"} @@ "m1" :> {"x1", "y1"}
              @@ [t \in FullTask |-> {}]
FullOnlyOnce == [t \in FullTask |-> t = "x1"]
FullOnError ==
    "x1" :> <<Rl({"pre"}, 1, FALSE, "")>>
    @@ "y2" :> <<Rl({"pre"}, 0, FALSE, "y1"), Rl(Code, 0, FALSE, "end")>>
    @@ [t \in FullTask |-> <<>>]

\* One batch of two, for the temporal properties.
PairTask  == {"r1", "a1", "b1"}
PairEntry == {"r1"}
PairKind  == "r1" :> "child" @@ "a1" :> "rest" @@ "b1" :> "delay"
PairGoto  == [t \in PairTask |-> {"end"}]
PairSpawns == "r1" :> {"a1", "b1"} @@ [t \in PairTask |-> {}]
PairOnlyOnce == [t \in PairTask |-> FALSE]
PairOnError == "a1" :> <<Rl({"pre"}, 1, FALSE, "")>> @@ [t \in PairTask |-> <<>>]

Symmetry == Permutations(Kids)

\* What MergesOwnBatch is about.
ASSUME OnceEach == ChildTasksVisitedOnce
==============================================================================
