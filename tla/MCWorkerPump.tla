----------------------------- MODULE MCWorkerPump -----------------------------
(* Small sets of workers for model checking WorkerPump. *)
EXTENDS WorkerPump, TLC

CONSTANTS p1, p2, s1, s2

\* Two hosts.
TwoHosts == p1 :> "a" @@ p2 :> "b"

\* A slot for each process.
OneEach == s1 :> p1 @@ s2 :> p2

\* One process with two slots, which are interchangeable.
OneHost  == p1 :> "a"
TwoSlots == s1 :> p1 @@ s2 :> p1
SlotSymmetry == Permutations({s1, s2})
==============================================================================
