------------------------------ MODULE MCObjects ------------------------------
(* One task slot, two large contents and two workers, for model checking Objects. *)
EXTENDS Objects, TLC

Alike == Permutations(Big) \cup Permutations(Worker)
==============================================================================
