------------------------------ MODULE MCOutbox ------------------------------
(* Small instances of the outbox.                                          *)
EXTENDS Outbox, TLC

(* Workers and contents are told apart by nothing but equality.  (The keys *)
(* are not symmetric: CtxBound and Poison name some of them.)  Only runs   *)
(* without liveness properties use it.                                     *)
Symmetry == Permutations(Workers) \union Permutations(Contents)
=============================================================================
