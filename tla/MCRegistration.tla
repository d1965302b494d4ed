--------------------------- MODULE MCRegistration ---------------------------
(* Small instances of the registration.                                    *)
EXTENDS Registration, TLC

(* Requests in flight, keys and nomenclature items are told apart by       *)
(* nothing but equality.                                                   *)
Symmetry == Permutations(Clients) \union Permutations(Keys) \union Permutations(Noms)
            \union Permutations(Years)
=============================================================================
