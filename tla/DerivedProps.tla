---------------------------- MODULE DerivedProps ----------------------------
(***************************************************************************)
(* What readers of versioninfo and vulnsearch may rely on.                 *)
(***************************************************************************)
EXTENDS Derived

(* Types; the buffer is written before it outgrows its length.              *)
TypeOK ==
    /\ {source, table} \subseteq [Keys -> Versions \cup {None}]
    /\ pc \in [Process -> {"idle", "collect", "flush", "prune"}]
    /\ part \in [Process -> 1..Parts]
    /\ \A p \in Process :
           /\ Cardinality(KeysOf(buf[p])) <= BufLen
           /\ pc[p] = "prune" => KeysOf(buf[p]) = {}

(* "rebuild versioninfo map" (versioninfo.py:165): when a rebuild ends,     *)
(* whatever its notes said all the time is what the table says.             *)
Complete ==
    [][\A p \in Process : Prune(p) =>
          \A k \in unchanged[p] : table'[k] = source[k]]_vars

(* "prune gone items" (vulnsearch.py:133): readers never miss a row whose   *)
(* notes were there all the time, in the midst of a rebuild or after one    *)
(* that died.                                                               *)
PrunesGone ==
    [][\A p \in Process : \A k \in Keys :
          Rebuild(p) /\ table[k] # None /\ table'[k] = None =>
              source[k] = None \/ k \notin unchanged[p]]_vars
=============================================================================
