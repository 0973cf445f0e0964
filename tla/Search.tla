------------------------------- MODULE Search -------------------------------
(***************************************************************************)
(* From notes to what a search finds: rebuilds of the table vulnsearch     *)
(* (Derived) beside rebuilds of the index over that table (ElasticAlias).  *)
(* The two are commands of their own (vulnsearch.py) and share nothing but *)
(* the table, which the second reads window by window while the first      *)
(* writes it.                                                              *)
(***************************************************************************)
EXTENDS DerivedProps

CONSTANTS
    Indexer,         \* processes that rebuild the index
    Initialize,
    MaxIndexRuns,    \* bound: rebuilds of the index
    Absent

ASSUME IndexAssumption == Initialize \in BOOLEAN /\ MaxIndexRuns \in Nat

VARIABLES
    index, searchable, alias,
    ipc, name, window, listed, steady, indexRuns   \* of ElasticAlias

indexVars == <<index, searchable, alias, ipc, name, window, listed, steady, indexRuns>>

(* a row is a document of the index, with what it says *)
Row == Keys \X Versions
ASSUME AbsentAssumption == \A docs \in SUBSET Row : Absent # docs

Rows == {<<k, table[k]>> : k \in KeysOf(table)}
WindowOf == [r \in Row |-> Part[r[1]]]

Elastic == INSTANCE ElasticProps WITH
    Process <- Indexer, Docs <- Row, Part <- WindowOf, MaxRuns <- MaxIndexRuns,
    store <- Rows, pc <- ipc, part <- window, unchanged <- steady, runs <- indexRuns

SearchInit == Init /\ Elastic!Init

Sync == (Edit \/ \E p \in Process : Rebuild(p)) /\ Elastic!Change
Reindex ==
    /\ UNCHANGED vars
    /\ Elastic!RefreshItself \/ \E p \in Indexer : Elastic!Rebuild(p)

SearchNext == Sync \/ Reindex
SearchSpec == SearchInit /\ [][SearchNext]_<<vars, indexVars>>

-----------------------------------------------------------------------------
(* The rebuild of the index keeps its promises over a table that is itself  *)
(* rebuilt (elastic.py:73-86): a row that stays in the table is never lost  *)
(* to readers, and a rebuild that ends leaves them with the table.          *)
NoGap == Elastic!NoGap
Synced == Elastic!Synced
=============================================================================
