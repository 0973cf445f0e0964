------------------------------ MODULE MCSearch ------------------------------
(* Two or three rows in two parts for TLC. *)
EXTENDS Search, TLC

CONSTANTS k1, k2, k3, old, new

Halves == [k \in Keys |-> IF k = k1 THEN 1 ELSE 2]
=============================================================================
