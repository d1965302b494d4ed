--------------------------- MODULE EffectDelivery ---------------------------
(***************************************************************************)
(* What the transactional outbox promises to the code that uses it.        *)
(* A business transaction that commits promises a side effect: a journal   *)
(* entry, an audit entry, a user event or the removal of a file, named by  *)
(* its deduplication key.  A promise is never withdrawn and never changes  *)
(* its content, and the effect of a key is applied at most once, with the  *)
(* promised content, after the promise.                                    *)
(***************************************************************************)
EXTENDS Sequences

CONSTANTS Keys,      \* deduplication keys
          Contents   \* what an event says: its type and its JSON payload

VARIABLES promised,  \* the pairs <<key, content>> committed by producers
          applied    \* per key, the effects found in the consumer's table

effectVars == <<promised, applied>>

EffectInit ==
    /\ promised = {}
    /\ applied = [k \in Keys |-> <<>>]

(* A key belongs to one content for ever: a producer may repeat its own    *)
(* promise, and may not take the key for another one.                      *)
Promise(k, c) ==
    /\ \A d \in Contents : <<k, d>> \in promised => d = c
    /\ promised' = promised \union {<<k, c>>}
    /\ UNCHANGED applied

Apply(k, c) ==
    /\ <<k, c>> \in promised
    /\ applied[k] = <<>>
    /\ applied' = [applied EXCEPT ![k] = <<c>>]
    /\ UNCHANGED promised

EffectNext == \E k \in Keys, c \in Contents : Promise(k, c) \/ Apply(k, c)

EffectSpec == EffectInit /\ [][EffectNext]_effectVars
=============================================================================
