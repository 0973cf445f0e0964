---------------------------- MODULE ElasticAlias ----------------------------
(***************************************************************************)
(* Rebuild of an Elasticsearch index behind an alias (BulkIndexer, and     *)
(* ElasticStorageManager and VulnsearchManager which drive it): a new      *)
(* index is filled, the alias is put on it, other indices are deleted.     *)
(* Every request to the search server is a step; a rebuild may die or      *)
(* raise between two.                                                      *)
(***************************************************************************)
EXTENDS Naturals, FiniteSets

CONSTANTS
    Process,
    Docs,
    Initialize,          \* vulnsearch creates its index first, storage does not
    Part, Parts,         \* [Docs -> 1..Parts]: the window that reads a row
    MaxRuns,             \* bound: rebuilds
    Absent

Names == 1..MaxRuns      \* an index is named by the time its rebuild began

VARIABLES
    store,       \* rows of the database
    index,       \* [Names -> documents or Absent]
    searchable,  \* [Names -> documents readers find]: those up to a refresh
    alias,       \* indices the alias stands for
    pc, name, part,
    listed,      \* indices of the answer still to be deleted
    unchanged,   \* rows that have not come or gone since the rebuild began
    runs

elastic == <<index, searchable, alias>>
local == <<name, part, listed, unchanged>>
vars == <<store, elastic, pc, local, runs>>

Exists(n) == index[n] # Absent
Visible == UNION {searchable[n] : n \in alias}

Init ==
    /\ store \in SUBSET Docs
    /\ index = [n \in Names |-> Absent]
    /\ searchable = [n \in Names |-> {}]
    /\ alias = {}
    /\ pc = [p \in Process |-> "idle"]
    /\ name = [p \in Process |-> 1]
    /\ part = [p \in Process |-> 1]
    /\ listed = [p \in Process |-> {}]
    /\ unchanged = [p \in Process |-> {}]
    /\ runs = 0

Goto(p, label) == pc' = [pc EXCEPT ![p] = label]
At(p, label) == pc[p] = label /\ UNCHANGED store

Begin(p) ==
    /\ At(p, "idle")
    /\ runs < MaxRuns
    /\ runs' = runs + 1
    /\ name' = [name EXCEPT ![p] = runs + 1]
    /\ part' = [part EXCEPT ![p] = 1]
    /\ listed' = [listed EXCEPT ![p] = {}]
    /\ unchanged' = [unchanged EXCEPT ![p] = Docs]
    /\ Goto(p, IF Initialize THEN "create" ELSE "bulk")
    /\ UNCHANGED elastic

(* initialize *)
Create(p) ==
    /\ At(p, "create")
    /\ index' = [index EXCEPT ![name[p]] = IF Exists(name[p]) THEN @ ELSE {}]
    /\ Goto(p, "bulk")
    /\ UNCHANGED <<searchable, alias, local, runs>>

(* flush of a window: a bulk request creates an index that is not there *)
Bulk(p) ==
    LET n == name[p]
        docs == {d \in store : Part[d] = part[p]} IN
    /\ At(p, "bulk")
    /\ index' = IF docs = {} THEN index
                ELSE [index EXCEPT ![n] = docs \cup IF Exists(n) THEN @ ELSE {}]
    /\ IF part[p] = Parts THEN Goto(p, "alias") /\ UNCHANGED part
       ELSE part' = [part EXCEPT ![p] = @ + 1] /\ UNCHANGED pc
    /\ UNCHANGED <<searchable, alias, name, listed, unchanged, runs>>

(* update_alias: nothing at all without an index *)
PutAliasOnly(p) ==                                \* mutant: alias moved, not added
    /\ At(p, "alias")
    /\ IF Exists(name[p]) THEN alias' = {name[p]} /\ Goto(p, "refresh")
       ELSE UNCHANGED alias /\ Goto(p, "idle")
    /\ UNCHANGED <<index, searchable, local, runs>>
PutAlias(p) ==
    /\ At(p, "alias")
    /\ IF Exists(name[p]) THEN alias' = alias \cup {name[p]} /\ Goto(p, "refresh")
       ELSE UNCHANGED alias /\ Goto(p, "idle")
    /\ UNCHANGED <<index, searchable, local, runs>>

RefreshNot(p) ==                                  \* mutant: left to the server
    /\ At(p, "refresh")
    /\ Goto(p, "list")
    /\ UNCHANGED <<elastic, local, runs>>
Refresh(p) ==
    /\ At(p, "refresh")
    /\ Exists(name[p])
    /\ searchable' = [searchable EXCEPT ![name[p]] = index[name[p]]]
    /\ Goto(p, "list")
    /\ UNCHANGED <<index, alias, local, runs>>

List(p) ==
    /\ At(p, "list")
    /\ listed' = [listed EXCEPT ![p] = {n \in Names \ {name[p]} : Exists(n)}]
    /\ Goto(p, "delete")
    /\ UNCHANGED <<elastic, name, part, unchanged, runs>>

Drop(n) ==
    /\ index' = [index EXCEPT ![n] = Absent]
    /\ searchable' = [searchable EXCEPT ![n] = {}]
    /\ alias' = alias \ {n}

Delete(p) ==
    /\ At(p, "delete")
    /\ \E n \in listed[p] :
           /\ Exists(n)
           /\ Drop(n)
           /\ listed' = [listed EXCEPT ![p] = @ \ {n}]
    /\ UNCHANGED <<pc, name, part, unchanged, runs>>

Finish(p) ==
    /\ At(p, "delete")
    /\ listed[p] = {}
    /\ Goto(p, "idle")
    /\ UNCHANGED <<elastic, local, runs>>

(* killed, refused, or index_not_found *)
Die(p) ==
    /\ pc[p] # "idle" /\ At(p, pc[p])
    /\ Goto(p, "idle")
    /\ UNCHANGED <<elastic, local, runs>>

(* the server refreshes an index by itself at any time *)
RefreshItself ==
    /\ \E n \in Names :
           /\ Exists(n)
           /\ searchable[n] # index[n]
           /\ searchable' = [searchable EXCEPT ![n] = index[n]]
    /\ UNCHANGED <<store, index, alias, pc, local, runs>>

(* the rows change, whoever changes them *)
Change ==
    /\ unchanged' = [p \in Process |-> {d \in unchanged[p] : d \in store <=> d \in store'}]
    /\ UNCHANGED <<elastic, pc, name, part, listed, runs>>

Rebuild(p) ==
    \/ Begin(p) \/ Create(p) \/ Bulk(p) \/ PutAlias(p) \/ Refresh(p)
    \/ List(p) \/ Delete(p) \/ Finish(p) \/ Die(p)
Next ==
    \/ store' \in SUBSET Docs /\ Change
    \/ RefreshItself
    \/ \E p \in Process : Rebuild(p)
Spec == Init /\ [][Next]_vars
=============================================================================
