------------------------------ MODULE MC_HTab ------------------------------
(* Keys and hashes for TLC: three keys share a slot of every table, two    *)
(* their hash.                                                             *)
EXTENDS HTab

CONSTANTS a, b, c, d, v, w

MCkeyhash == [k \in Keys |-> IF k \in {a, b} THEN 0 ELSE IF k = c THEN 16 ELSE 3]
=============================================================================
