---------------------------- MODULE ElasticProps ----------------------------
(***************************************************************************)
(* What readers find behind an alias while indices come and go.            *)
(***************************************************************************)
EXTENDS ElasticAlias

(* Types; the alias stands for indices that exist, and readers find only    *)
(* what was written.                                                        *)
TypeOK ==
    /\ alias \subseteq {n \in Names : Exists(n)}
    /\ \A n \in Names : searchable[n] \subseteq IF Exists(n) THEN index[n] ELSE {}
    /\ \A p \in Process : listed[p] \subseteq Names \ {name[p]} /\ part[p] \in 1..Parts

(* update_alias puts the alias before it deletes: a row that is in the      *)
(* database all the time and was found is still found after every step of   *)
(* a rebuild, also of one that dies.                                        *)
NoGap ==
    [][\A p \in Process : Rebuild(p) =>
          \A d \in store \cap unchanged[p] : d \in Visible => d \in Visible']_vars

(* "sychronize storage do elastic" (elasticstorage.py:54), "rebuilds        *)
(* vulnsearch elastic index from localdb" (vulnsearch.py:177): a rebuild    *)
(* that comes to its end, also the early one of update_alias without an     *)
(* index, leaves readers with what is in the database.                      *)
Ends(p) == (Finish(p) \/ PutAlias(p)) /\ pc'[p] = "idle"
Synced ==
    [][\A p \in Process : Ends(p) =>
          \A d \in unchanged[p] : d \in Visible <=> d \in store]_vars
=============================================================================
