---------------------------- MODULE MCAccounts ----------------------------
(* Small instances of the accounts.                                        *)
EXTENDS Accounts, TLC

CONSTANT OneCopy

(* All calls run in one copy: two people may use it one after the other    *)
(* while the calls of the first are in flight.                             *)
InOneCopy == [c \in Calls |-> OneCopy]

(* Users and calls are told apart by nothing but equality.                 *)
Symmetry == Permutations(Users) \union Permutations(Calls)
=============================================================================
