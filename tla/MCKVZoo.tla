------------------------------ MODULE MCKVZoo ------------------------------
(* Two tables, one nested in the other. *)
EXTENDS KVZoo, TLC

CONSTANTS c1, c2, t1, t2, k1, v1, v2

MCUp == t1 :> {t1} @@ t2 :> {t1, t2}
MCUpFlat == t1 :> {t1}
MCSymmetry == Permutations(Client) \cup Permutations(Value)
============================================================================
