---------------------------- MODULE SearchProofs ----------------------------
(***************************************************************************)
(* Theorems about rebuilds: of the tables versioninfo and vulnsearch, of   *)
(* a search index behind its alias, and of both side by side.              *)
(***************************************************************************)
EXTENDS Search, FiniteSetTheorems, TLAPS

-----------------------------------------------------------------------------
(* The table (Derived) *)

Sayings == [Keys -> Versions \cup {None}]

TableTypes ==
    /\ source \in Sayings /\ table \in Sayings
    /\ pc \in [Process -> {"idle", "collect", "flush", "prune"}]
    /\ part \in [Process -> 1..Parts]
    /\ buf \in [Process -> Sayings]
    /\ written \in [Process -> SUBSET Keys]
    /\ unchanged \in [Process -> SUBSET Keys]

LEMMA MergeType ==
    ASSUME NEW f \in Sayings, NEW g \in Sayings
    PROVE  Merge(f, g) \in Sayings
BY DEF Sayings, Merge

LEMMA FoundType ==
    ASSUME TableTypes, NEW which, NEW failed
    PROVE  Found(which, failed) \in Sayings
BY DEF TableTypes, Sayings, Found

LEMMA NothingType == Nothing \in Sayings
BY DEF Nothing, Sayings

(* What a step of a collecting rebuild does: the rows it has found are      *)
(* added to its buffer, which is kept or written (vulnsearch.py:111-129).   *)
LEMMA IndexSteps ==
    ASSUME NEW p \in Process, Collect(p)
    PROVE  \E failed \in IF Outage THEN SUBSET Keys ELSE {{}} :
               LET new == Merge(buf[p], Found(part[p], failed)) IN
               Write(p, new) \/ Keep(p, new)
BY DEF Collect, Index

LEMMA TableTypesStep ==
    ASSUME TableTypes, [Next]_vars
    PROVE  TableTypes'
<1> USE DEF TableTypes
<1>1. ASSUME NEW p \in Process, Begin(p)
      PROVE  TableTypes'
  BY <1>1, NothingType, PartAssumption DEF Begin, Goto
<1>2. ASSUME NEW p \in Process, Collect(p)
      PROVE  TableTypes'
  <2>1. PICK failed : LET new == Merge(buf[p], Found(part[p], failed)) IN
                      Write(p, new) \/ Keep(p, new)
    BY <1>2, IndexSteps
  <2> DEFINE new == Merge(buf[p], Found(part[p], failed))
  <2>2. new \in Sayings
    BY MergeType, FoundType
  <2>3. Merge(table, new) \in Sayings /\ KeysOf(new) \subseteq Keys
    BY <2>2, MergeType DEF KeysOf
  <2>4. /\ table' \in Sayings /\ buf' \in [Process -> Sayings]
        /\ written' \in [Process -> SUBSET Keys]
    <3> HIDE DEF new
    <3> QED
      BY <2>1, <2>2, <2>3, NothingType DEF Write, Keep, new
  <2>5. /\ source' = source /\ unchanged' = unchanged
        /\ pc' \in [Process -> {"idle", "collect", "flush", "prune"}]
        /\ part' \in [Process -> 1..Parts]
    BY <1>2, PartAssumption DEF Collect, Goto
  <2> QED
    BY <2>4, <2>5
<1>3. ASSUME NEW p \in Process, Flush(p)
      PROVE  TableTypes'
  <2>1. Merge(table, buf[p]) \in Sayings /\ KeysOf(buf[p]) \subseteq Keys
    BY MergeType DEF KeysOf
  <2> QED
    BY <1>3, <2>1, NothingType DEF Flush, Write, Goto
<1>4. ASSUME NEW p \in Process, Prune(p)
      PROVE  TableTypes'
  <2>1. table' \in Sayings
    BY <1>4 DEF Prune, Sayings
  <2> QED
    BY <1>4, <2>1 DEF Prune, Goto
<1>5. ASSUME NEW p \in Process, Die(p)
      PROVE  TableTypes'
  BY <1>5 DEF Die, Goto
<1>6. CASE Edit
  BY <1>6 DEF Edit, Sayings
<1>7. CASE UNCHANGED vars
  BY <1>7 DEF vars
<1> QED
  BY <1>1, <1>2, <1>3, <1>4, <1>5, <1>6, <1>7 DEF Next, Rebuild

LEMMA TableTypesInvariant == Spec => []TableTypes
<1>1. Init => TableTypes
  BY NothingType, PartAssumption DEF Init, TableTypes, Sayings
<1> QED
  BY <1>1, TableTypesStep, PTL DEF Spec

(* The rows that a rebuild has read so far; all of them when it writes and  *)
(* prunes.                                                                  *)
Collected(p) ==
    CASE pc[p] = "idle" -> {}
      [] pc[p] = "collect" -> {k \in Keys : Part[k] < part[p]}
      [] OTHER -> Keys

(* A rebuild under way has in its buffer or has written what it has read    *)
(* of notes that stayed, and nothing of notes that stayed away.             *)
Carried(p) ==
    pc[p] # "idle" => \A k \in unchanged[p] :
        /\ source[k] = None => buf[p][k] = None /\ k \notin written[p]
        /\ source[k] # None /\ k \in Collected(p) =>
               buf[p][k] = source[k] \/ k \in written[p]
        /\ buf[p][k] \in {None, source[k]}
        /\ pc[p] = "prune" => buf[p] = Nothing

CarriedInv == \A p \in Process : Carried(p)

LEMMA CarriedStep ==
    ASSUME ~Outage, TableTypes, CarriedInv, [Next]_vars
    PROVE  CarriedInv'
<1> USE DEF TableTypes
<1> SUFFICES ASSUME NEW q \in Process PROVE Carried(q)'
  BY DEF CarriedInv
<1>0. Carried(q)
  BY DEF CarriedInv
<1>1. CASE UNCHANGED vars
  BY <1>0, <1>1 DEF vars, Carried, Collected
<1>2. CASE Edit
  <2>1. PICK k \in Keys, v \in Versions \cup {None} :
            /\ source' = [source EXCEPT ![k] = v]
            /\ unchanged' = [p \in Process |-> unchanged[p] \ {k}]
    BY <1>2 DEF Edit
  <2>2. UNCHANGED <<pc, part, buf, written>>
    BY <1>2 DEF Edit
  <2>3. \A l \in unchanged'[q] : l \in unchanged[q] /\ source'[l] = source[l]
    BY <2>1 DEF Sayings
  <2> QED
    BY <1>0, <2>2, <2>3 DEF Carried, Collected
<1>3. ASSUME NEW p \in Process, Rebuild(p), p # q
      PROVE  Carried(q)'
  <2>1. /\ pc'[q] = pc[q] /\ part'[q] = part[q] /\ unchanged'[q] = unchanged[q]
        /\ source' = source /\ buf'[q] = buf[q] /\ written'[q] = written[q]
    BY <1>3 DEF Rebuild, Begin, Collect, Index, Write, Keep, Flush, Prune, Die, Goto
  <2> QED
    BY <1>0, <2>1 DEF Carried, Collected
<1>4. CASE Begin(q)
  BY <1>4, PartAssumption DEF Begin, Goto, Carried, Collected, Nothing
<1>5. CASE Collect(q)
  <2> DEFINE new == Merge(buf[q], Found(part[q], {}))
  <2>1. Write(q, new) \/ Keep(q, new)
    BY <1>5, IndexSteps
  <2>2. /\ source' = source /\ unchanged' = unchanged
        /\ pc[q] = "collect" /\ pc'[q] \in {"collect", "flush"}
    BY <1>5 DEF Collect, Goto
  <2>3. Collected(q)' \subseteq {k \in Keys : Part[k] <= part[q]}
    <3>1. CASE part[q] = Parts
      BY <1>5, <3>1, PartAssumption DEF Collect, Goto, Collected
    <3>2. CASE part[q] # Parts
      <4>1. pc'[q] = "collect" /\ part'[q] = part[q] + 1
        BY <1>5, <3>2 DEF Collect
      <4>2. \A k \in Keys : Part[k] \in Nat /\ part[q] \in Nat
        BY PartAssumption
      <4> QED
        BY <4>1, <4>2 DEF Collected
    <3> QED
      BY <3>1, <3>2
  <2>4. ASSUME NEW k \in unchanged[q]
        PROVE  /\ source[k] = None => new[k] = None
               /\ source[k] # None /\ k \in Collected(q)' =>
                      new[k] = source[k] \/ k \in written[q]
               /\ new[k] \in {None, source[k]}
    <3>1. k \in Keys /\ Part[k] \in Nat /\ part[q] \in Nat
      BY PartAssumption
    <3>2. new[k] = IF Found(part[q], {})[k] = None THEN buf[q][k]
                   ELSE Found(part[q], {})[k]
      BY <3>1 DEF Merge
    <3>3. Found(part[q], {})[k] = IF Part[k] = part[q] THEN source[k] ELSE None
      BY <3>1 DEF Found
    <3>4. Part[k] # part[q] /\ k \in Collected(q)' => k \in Collected(q)
      BY <2>2, <2>3, <3>1 DEF Collected
    <3> HIDE DEF new
    <3> QED
      BY <1>0, <2>2, <3>2, <3>3, <3>4 DEF Carried
  <2>5. /\ \/ buf'[q] = Nothing /\ written'[q] = written[q] \cup KeysOf(new)
           \/ buf'[q] = new /\ written'[q] = written[q]
    <3> HIDE DEF new
    <3> QED
      BY <2>1 DEF Write, Keep
  <2>6. ASSUME NEW k \in unchanged[q]
        PROVE  /\ Nothing[k] = None
               /\ k \in KeysOf(new) <=> new[k] # None
               /\ source[k] = None => k \notin written[q]
    BY <1>0, <2>2 DEF Nothing, KeysOf, Carried
  <2> HIDE DEF new
  <2> QED
    BY <2>2, <2>4, <2>5, <2>6 DEF Carried
<1>6. CASE Flush(q)
  <2>1. /\ buf'[q] = Nothing /\ written'[q] = written[q] \cup KeysOf(buf[q])
        /\ source' = source /\ unchanged' = unchanged
        /\ pc[q] = "flush" /\ pc'[q] = "prune"
    BY <1>6 DEF Flush, Write, Goto
  <2>2. ASSUME NEW k \in unchanged[q]
        PROVE  /\ Nothing[k] = None
               /\ k \in KeysOf(buf[q]) <=> buf[q][k] # None
               /\ k \in Collected(q)
    BY <2>1 DEF Nothing, KeysOf, Collected
  <2> QED
    BY <1>0, <2>1, <2>2 DEF Carried
<1>7. CASE Prune(q) \/ Die(q)
  BY <1>7 DEF Prune, Die, Goto, Carried
<1> QED
  BY <1>1, <1>2, <1>3, <1>4, <1>5, <1>6, <1>7 DEF Next, Rebuild

LEMMA CarriedInvariant ==
    ASSUME ~Outage
    PROVE  Spec => []CarriedInv
<1>1. Init => CarriedInv
  BY DEF Init, CarriedInv, Carried
<1>2. TableTypes /\ CarriedInv /\ [Next]_vars => CarriedInv'
  BY CarriedStep
<1> QED
  BY <1>1, <1>2, TableTypesInvariant, PTL DEF Spec

(* A row whose notes stay is never pruned, however many rebuilds run side   *)
(* by side, die or raise, if the CVE service answers (versioninfo.py:105,   *)
(* vulnsearch.py:133).                                                      *)
THEOREM PruneSparesStaying ==
    ASSUME ~Outage
    PROVE  Spec => PrunesGone
<1>1. TableTypes /\ CarriedInv /\ [Next]_vars =>
        [\A p \in Process : \A k \in Keys :
            Rebuild(p) /\ table[k] # None /\ table'[k] = None =>
                source[k] = None \/ k \notin unchanged[p]]_vars
  <2> SUFFICES ASSUME TableTypes, CarriedInv, NEW p \in Process, NEW k \in Keys,
                      Rebuild(p), table[k] # None, table'[k] = None,
                      source[k] # None, k \in unchanged[p]
               PROVE  FALSE
    OBVIOUS
  <2>1. ASSUME NEW new, table' = Merge(table, new) \/ table' = table
        PROVE  FALSE
    BY <2>1 DEF Merge
  <2>2. CASE Prune(p)
    <3>1. k \notin written[p] /\ pc[p] = "prune"
      BY <2>2 DEF Prune
    <3>2. k \in Collected(p) /\ buf[p][k] = None
      BY <3>1 DEF Collected, CarriedInv, Carried, Nothing
    <3> QED
      BY <3>1, <3>2 DEF CarriedInv, Carried
  <2>3. ~(Begin(p) \/ Flush(p) \/ Die(p))
    BY <2>1 DEF Begin, Flush, Write, Die
  <2>4. ~Collect(p)
    BY <2>1, IndexSteps DEF Write, Keep
  <2> QED
    BY <2>2, <2>3, <2>4 DEF Rebuild
<1> QED
  BY <1>1, TableTypesInvariant, CarriedInvariant, PTL DEF Spec, PrunesGone

(* Where one process rebuilds, what it has written of notes that stayed is  *)
(* what the table says.                                                     *)
OneRebuilds == \A p, q \in Process : p = q

WrittenInv ==
    \A p \in Process : pc[p] # "idle" =>
        \A k \in unchanged[p] \cap written[p] : table[k] = source[k]

LEMMA WrittenByWrite ==
    ASSUME TableTypes, WrittenInv, NEW p \in Process, pc[p] # "idle",
           NEW new \in Sayings,
           \A k \in unchanged[p] : new[k] \in {None, source[k]},
           Write(p, new) \/ Keep(p, new)
    PROVE  \A k \in unchanged[p] \cap written'[p] : table'[k] = source[k]
<1> USE DEF TableTypes
<1>1. CASE Keep(p, new)
  BY <1>1 DEF Keep, WrittenInv
<1>2. CASE Write(p, new)
  <2> SUFFICES ASSUME NEW k \in unchanged[p], k \in written'[p]
               PROVE  table'[k] = source[k]
    OBVIOUS
  <2>1. k \in Keys /\ table'[k] = IF new[k] = None THEN table[k] ELSE new[k]
    BY <1>2 DEF Write, Merge
  <2>2. k \in written[p] \/ new[k] # None
    BY <1>2 DEF Write, KeysOf
  <2> QED
    BY <2>1, <2>2 DEF WrittenInv
<1> QED
  BY <1>1, <1>2

LEMMA WrittenStep ==
    ASSUME OneRebuilds, TableTypes, CarriedInv, WrittenInv, ~Outage,
           [Next]_vars
    PROVE  WrittenInv'
<1> USE DEF TableTypes
<1>1. CASE UNCHANGED vars
  BY <1>1 DEF vars, WrittenInv
<1>2. CASE Edit
  <2>1. PICK k \in Keys, v \in Versions \cup {None} :
            /\ source' = [source EXCEPT ![k] = v]
            /\ unchanged' = [p \in Process |-> unchanged[p] \ {k}]
    BY <1>2 DEF Edit
  <2>2. UNCHANGED <<pc, table, written>>
    BY <1>2 DEF Edit
  <2>3. \A p \in Process : \A l \in unchanged'[p] :
            l \in unchanged[p] /\ source'[l] = source[l]
    BY <2>1 DEF Sayings
  <2> QED
    BY <2>2, <2>3 DEF WrittenInv
<1>3. ASSUME NEW p \in Process, Rebuild(p)
      PROVE  WrittenInv'
  <2> SUFFICES pc'[p] # "idle" =>
                   \A k \in unchanged'[p] \cap written'[p] : table'[k] = source'[k]
    BY DEF WrittenInv, OneRebuilds
  <2>1. CASE Begin(p)
    BY <2>1 DEF Begin
  <2>2. CASE Collect(p)
    <3>1. PICK failed \in {{}} :
              LET new == Merge(buf[p], Found(part[p], failed)) IN
              Write(p, new) \/ Keep(p, new)
      BY <2>2, IndexSteps
    <3> DEFINE new == Merge(buf[p], Found(part[p], {}))
    <3>2. Write(p, new) \/ Keep(p, new)
      BY <3>1
    <3>3. new \in Sayings
      BY MergeType, FoundType
    <3>4. ASSUME NEW k \in unchanged[p]
          PROVE  new[k] \in {None, source[k]}
      <4>1. buf[p][k] \in {None, source[k]}
        BY <2>2 DEF CarriedInv, Carried, Collect
      <4> QED
        BY <4>1 DEF Merge, Found
    <3>5. source' = source /\ unchanged' = unchanged /\ pc[p] # "idle"
      BY <2>2 DEF Collect
    <3> HIDE DEF new
    <3> QED
      BY <3>2, <3>3, <3>4, <3>5, WrittenByWrite
  <2>3. CASE Flush(p)
    <3>1. Write(p, buf[p]) /\ pc[p] # "idle" /\ source' = source
          /\ unchanged' = unchanged
      BY <2>3 DEF Flush
    <3>2. \A k \in unchanged[p] : buf[p][k] \in {None, source[k]}
      BY <3>1 DEF CarriedInv, Carried
    <3> QED
      BY <3>1, <3>2, WrittenByWrite
  <2>4. CASE Prune(p) \/ Die(p)
    BY <2>4 DEF Prune, Die, Goto
  <2> QED
    BY <1>3, <2>1, <2>2, <2>3, <2>4 DEF Rebuild
<1> QED
  BY <1>1, <1>2, <1>3 DEF Next

(* A rebuild that ends leaves the table as the notes were that stayed, if   *)
(* no other one runs beside it and the CVE service answers                  *)
(* (versioninfo.py:163-174, vulnsearch.py:201-219).                         *)
THEOREM RebuildCompletes ==
    ASSUME OneRebuilds, ~Outage
    PROVE  Spec => Complete
<1>1. Init => WrittenInv
  BY DEF Init, WrittenInv
<1>2. TableTypes /\ CarriedInv /\ WrittenInv /\ [Next]_vars
      => WrittenInv'
  BY WrittenStep
<1>3. TableTypes /\ CarriedInv /\ WrittenInv /\ [Next]_vars =>
        [\A p \in Process : Prune(p) =>
            \A k \in unchanged[p] : table'[k] = source[k]]_vars
  <2> SUFFICES ASSUME TableTypes, CarriedInv, WrittenInv, NEW p \in Process,
                      Prune(p), NEW k \in unchanged[p]
               PROVE  table'[k] = source[k]
    OBVIOUS
  <2>1. k \in Keys /\ table'[k] = IF k \in written[p] THEN table[k] ELSE None
    BY DEF Prune, TableTypes
  <2>2. pc[p] = "prune" /\ k \in Collected(p)
    BY <2>1 DEF Prune, Collected
  <2>3. buf[p][k] = None
    BY <2>1, <2>2 DEF CarriedInv, Carried, Nothing
  <2>4. k \in written[p] => table[k] = source[k]
    BY <2>2 DEF WrittenInv
  <2>5. k \in written[p] <=> source[k] # None
    BY <2>2, <2>3 DEF CarriedInv, Carried
  <2> QED
    BY <2>1, <2>4, <2>5
<1> QED
  BY <1>1, <1>2, <1>3, TableTypesInvariant, CarriedInvariant, PTL
     DEF Spec, Complete

-----------------------------------------------------------------------------
(* The index (ElasticAlias), over any rows that come and go as Change says *)

IndexLabels == {"idle", "create", "bulk", "alias", "refresh", "list", "delete"}

(* An index is named by the run that fills it, and readers find in it what  *)
(* was written.                                                             *)
IndexTypes ==
    /\ Rows \subseteq Row
    /\ index \in [Elastic!Names -> (SUBSET Row) \cup {Absent}]
    /\ searchable \in [Elastic!Names -> SUBSET Row]
    /\ alias \subseteq {n \in Elastic!Names : Elastic!Exists(n)}
    /\ \A n \in Elastic!Names :
           IF Elastic!Exists(n) THEN searchable[n] \subseteq index[n] /\ n <= indexRuns
           ELSE searchable[n] = {}
    /\ ipc \in [Indexer -> IndexLabels]
    /\ name \in [Indexer -> Nat]
    /\ window \in [Indexer -> 1..Parts]
    /\ listed \in [Indexer -> SUBSET Elastic!Names]
    /\ steady \in [Indexer -> SUBSET Row]
    /\ indexRuns \in 0..MaxIndexRuns
    /\ \A p \in Indexer : ipc[p] # "idle" => name[p] \in 1..indexRuns

LEMMA IndexTypesRebuild ==
    ASSUME IndexTypes, UNCHANGED vars,
           NEW p \in Indexer, Elastic!Rebuild(p)
    PROVE  IndexTypes'
<1> USE IndexAssumption, PartAssumption
    DEF IndexTypes, IndexLabels, Elastic!Names, Elastic!Exists,
        Elastic!Goto, Elastic!At, Elastic!elastic, Elastic!local
<1>0. Rows' = Rows
  BY DEF vars, Rows, KeysOf
<1>a. ipc[p] # "idle" =>
        /\ name[p] \in Elastic!Names
        /\ name[p] \in 1..indexRuns
  OBVIOUS
<1>1. CASE Elastic!Begin(p)
  BY <1>0, <1>1 DEF Elastic!Begin
<1>b. {} # Absent
  BY AbsentAssumption
<1>2. CASE Elastic!Create(p)
  BY <1>0, <1>b, <1>2 DEF Elastic!Create
<1>3. CASE Elastic!Bulk(p)
  <2> DEFINE docs == {d \in Rows : WindowOf[d] = window[p]}
             old == IF Elastic!Exists(name[p]) THEN index[name[p]] ELSE {}
  <2>1. /\ docs = {} => index' = index
        /\ docs # {} => index' = [index EXCEPT ![name[p]] = docs \cup old]
        /\ UNCHANGED <<searchable, alias, name, listed, steady, indexRuns>>
    BY <1>3 DEF Elastic!Bulk
  <2>6. /\ ipc[p] = "bulk" /\ ipc' \in [Indexer -> IndexLabels]
        /\ \A q \in Indexer : ipc'[q] # "idle" => ipc[q] # "idle"
    BY <1>3 DEF Elastic!Bulk
  <2>7. window' \in [Indexer -> 1..Parts]
    BY <1>3 DEF Elastic!Bulk
  <2>2. docs \cup old \in SUBSET Row /\ docs \cup old # Absent
    BY <1>a, <2>6, AbsentAssumption
  <2>3. Elastic!Exists(name[p]) => index[name[p]] \subseteq docs \cup old
    OBVIOUS
  <2> HIDE DEF docs, old
  <2>4. index' \in [Elastic!Names -> (SUBSET Row) \cup {Absent}]
    BY <2>1, <2>2
  <2>8. name[p] \in Elastic!Names /\ name[p] \in 1..indexRuns
    BY <1>a, <2>6
  <2>5. ASSUME NEW n \in Elastic!Names
        PROVE  /\ index'[n] # Absent <=> (index[n] # Absent \/ (n = name[p] /\ docs # {}))
               /\ index[n] # Absent => index[n] \subseteq index'[n]
    <3>1. CASE docs = {}
      <4>1. index' = index
        BY <2>1, <3>1
      <4> QED
        BY <3>1, <4>1
    <3>2. CASE docs # {} /\ n = name[p]
      <4>1. index'[n] = docs \cup old
        BY <2>1, <3>2, <2>8
      <4> QED
        BY <4>1, <2>2, <2>3, <3>2
    <3>3. CASE docs # {} /\ n # name[p]
      <4>1. index'[n] = index[n]
        BY <2>1, <3>3
      <4> QED
        BY <4>1, <3>3
    <3> QED
      BY <3>1, <3>2, <3>3
  <2>9. alias' \subseteq {n \in Elastic!Names : Elastic!Exists(n)'}
    BY <2>1, <2>5
  <2>10. \A n \in Elastic!Names :
           IF Elastic!Exists(n)' THEN searchable'[n] \subseteq index'[n] /\ n <= indexRuns
           ELSE searchable'[n] = {}
    <3> SUFFICES ASSUME NEW n \in Elastic!Names
                 PROVE  IF index'[n] # Absent
                        THEN searchable'[n] \subseteq index'[n] /\ n <= indexRuns
                        ELSE searchable'[n] = {}
      OBVIOUS
    <3>1. searchable'[n] = searchable[n]
      BY <2>1
    <3>2. CASE index[n] # Absent
      BY <2>5, <3>1, <3>2
    <3>3. CASE index[n] = Absent
      BY <2>5, <2>8, <3>1, <3>3
    <3> QED
      BY <3>2, <3>3
  <2> QED
    BY <1>0, <2>1, <2>4, <2>6, <2>7, <2>9, <2>10
<1>4. CASE Elastic!PutAlias(p)
  <2>1. /\ \/ alias' = alias
           \/ alias' = alias \cup {name[p]} /\ Elastic!Exists(name[p])
        /\ UNCHANGED <<index, searchable, name, window, listed, steady, indexRuns>>
    <3>1. CASE Elastic!Exists(name[p])
      BY <1>4, <3>1 DEF Elastic!PutAlias
    <3>2. CASE ~Elastic!Exists(name[p])
      BY <1>4, <3>2 DEF Elastic!PutAlias
    <3> QED
      BY <3>1, <3>2
  <2>2. /\ ipc[p] = "alias" /\ ipc' \in [Indexer -> IndexLabels]
        /\ \A q \in Indexer : ipc'[q] # "idle" => ipc[q] # "idle"
    BY <1>4 DEF Elastic!PutAlias
  <2> QED
    BY <1>0, <1>a, <2>1, <2>2
<1>5. CASE Elastic!Refresh(p)
  <2>1. searchable' = [searchable EXCEPT ![name[p]] = index[name[p]]]
        /\ index[name[p]] # Absent /\ name[p] \in Elastic!Names
    BY <1>5, <1>a DEF Elastic!Refresh
  <2>2. index[name[p]] \in SUBSET Row
    BY <2>1
  <2> QED
    BY <1>0, <1>5, <2>1, <2>2 DEF Elastic!Refresh
<1>6. CASE Elastic!List(p)
  BY <1>0, <1>6 DEF Elastic!List
<1>7. CASE Elastic!Delete(p)
  <2>1. PICK n \in listed[p] : Elastic!Drop(n) /\ n \in Elastic!Names
    BY <1>7 DEF Elastic!Delete
  <2>2. index' \in [Elastic!Names -> (SUBSET Row) \cup {Absent}]
        /\ searchable' \in [Elastic!Names -> SUBSET Row]
    BY <2>1 DEF Elastic!Drop
  <2>3. listed' \in [Indexer -> SUBSET Elastic!Names]
        /\ UNCHANGED <<ipc, name, window, steady, indexRuns>>
    BY <1>7 DEF Elastic!Delete
  <2>4. \A m \in Elastic!Names :
            /\ m # n => index'[m] = index[m] /\ searchable'[m] = searchable[m]
            /\ m = n => index'[m] = Absent /\ searchable'[m] = {}
    BY <2>1 DEF Elastic!Drop
  <2>5. alias' = alias \ {n}
    BY <2>1 DEF Elastic!Drop
  <2> QED
    BY <1>0, <2>2, <2>3, <2>4, <2>5
<1>8. CASE Elastic!Finish(p) \/ Elastic!Die(p)
  BY <1>0, <1>8 DEF Elastic!Finish, Elastic!Die
<1> QED
  BY <1>1, <1>2, <1>3, <1>4, <1>5, <1>6, <1>7, <1>8 DEF Elastic!Rebuild

(* The rows of the table may change with any step of a rebuild of it.       *)
LEMMA RowsTypes ==
    ASSUME TableTypes
    PROVE  Rows \subseteq Row
BY DEF TableTypes, Sayings, Rows, Row, KeysOf

LEMMA IndexTypesOthers ==
    ASSUME IndexTypes, Rows' \subseteq Row,
           \/ Elastic!Change
           \/ Elastic!RefreshItself
           \/ UNCHANGED <<vars, indexVars>>
    PROVE  IndexTypes'
<1> USE DEF IndexTypes, Elastic!Exists
<1>1. CASE Elastic!Change
  BY <1>1 DEF Elastic!Change, Elastic!elastic
<1>2. CASE Elastic!RefreshItself
  <2>1. PICK n \in Elastic!Names :
            /\ index[n] # Absent
            /\ searchable' = [searchable EXCEPT ![n] = index[n]]
    BY <1>2 DEF Elastic!RefreshItself
  <2>2. index[n] \in SUBSET Row
    BY <2>1
  <2>3. UNCHANGED <<index, alias, ipc, name, window, listed, steady, indexRuns>>
    BY <1>2 DEF Elastic!RefreshItself, Elastic!local
  <2> QED
    BY <2>1, <2>2, <2>3
<1>3. CASE UNCHANGED <<vars, indexVars>>
  BY <1>3 DEF indexVars
<1> QED
  BY <1>1, <1>2, <1>3

LEMMA IndexTypesInvariant == SearchSpec => [](TableTypes /\ IndexTypes)
<1>1. SearchInit => TableTypes /\ IndexTypes
  <2> SUFFICES ASSUME SearchInit
               PROVE  TableTypes /\ IndexTypes
    OBVIOUS
  <2>1. TableTypes
    BY NothingType, PartAssumption DEF SearchInit, Init, TableTypes, Sayings
  <2>2. Rows \subseteq Row
    BY <2>1, RowsTypes
  <2>3. IndexTypes
    BY <2>2, IndexAssumption, PartAssumption
       DEF SearchInit, Elastic!Init, IndexTypes, IndexLabels, Elastic!Exists
  <2> QED
    BY <2>1, <2>3
<1>2. TableTypes /\ IndexTypes /\ [SearchNext]_<<vars, indexVars>>
      => (TableTypes /\ IndexTypes)'
  <2> SUFFICES ASSUME TableTypes, IndexTypes, [SearchNext]_<<vars, indexVars>>
               PROVE  TableTypes' /\ IndexTypes'
    OBVIOUS
  <2>1. [Next]_vars
    BY DEF SearchNext, Sync, Reindex, Next
  <2>2. TableTypes' /\ Rows' \subseteq Row
    BY <2>1, TableTypesStep, RowsTypes DEF TableTypes, Rows, KeysOf, Sayings, Row
  <2>3. IndexTypes'
    BY <2>2, IndexTypesRebuild, IndexTypesOthers DEF SearchNext, Sync, Reindex
  <2> QED
    BY <2>2, <2>3
<1> QED
  BY <1>1, <1>2, PTL DEF SearchSpec

(* What a rebuild has put into its index; a bulk request may have created   *)
(* it.                                                                      *)
Contents(p) == IF Elastic!Exists(name[p]) THEN index[name[p]] ELSE {}

(* The rows whose window a rebuild has read *)
Indexed(p) ==
    {d \in Row : \/ ipc[p] \notin {"create", "bulk"}
                 \/ ipc[p] = "bulk" /\ WindowOf[d] < window[p]}

(* A rebuild under way has in its index, of the rows that did not come or   *)
(* go, those and only those it has read; from put_alias on readers have     *)
(* this index, after the refresh all of it, and once the others are listed  *)
(* there are no more of them (elastic.py:73-86).                            *)
Filled(p) ==
    /\ \A d \in steady[p] :
          /\ d \in Contents(p) => d \in Rows
          /\ d \in Rows /\ d \in Indexed(p) => d \in Contents(p)
    /\ ipc[p] = "create" => window[p] = 1
    /\ Initialize /\ ipc[p] # "create" => Elastic!Exists(name[p])
    /\ ipc[p] \in {"refresh", "list", "delete"} =>
          Elastic!Exists(name[p]) /\ name[p] \in alias
    /\ ipc[p] \in {"list", "delete"} => searchable[name[p]] = index[name[p]]
    /\ ipc[p] = "delete" =>
          /\ name[p] \notin listed[p]
          /\ \A n \in Elastic!Names : Elastic!Exists(n) => n = name[p] \/ n \in listed[p]

FilledInv == \A p \in Indexer : ipc[p] # "idle" => Filled(p)

OneIndexes == \A p, q \in Indexer : p = q

LEMMA FilledOthers ==
    ASSUME IndexTypes, FilledInv,
           \/ Elastic!Change
           \/ Elastic!RefreshItself
           \/ UNCHANGED <<vars, indexVars>>
    PROVE  FilledInv'
<1> USE DEF FilledInv, Filled, Contents, Indexed, Elastic!Exists
<1> SUFFICES ASSUME NEW p \in Indexer, ipc'[p] # "idle"
             PROVE  Filled(p)'
  OBVIOUS
<1>1. CASE Elastic!Change
  <2>1. UNCHANGED <<index, searchable, alias, ipc, name, window, listed>>
    BY <1>1 DEF Elastic!Change, Elastic!elastic
  <2>2. \A d \in steady'[p] : d \in steady[p] /\ (d \in Rows <=> d \in Rows')
    BY <1>1 DEF Elastic!Change
  <2> QED
    BY <2>1, <2>2
<1>2. CASE Elastic!RefreshItself
  <2>1. PICK n \in Elastic!Names :
            searchable' = [searchable EXCEPT ![n] = index[n]]
    BY <1>2 DEF Elastic!RefreshItself
  <2>2. UNCHANGED <<index, alias, ipc, name, window, listed, steady>> /\ Rows' = Rows
    BY <1>2 DEF Elastic!RefreshItself, Elastic!local
  <2>3. searchable[name[p]] = index[name[p]] /\ name[p] \in Elastic!Names
        => searchable'[name[p]] = index[name[p]]
    BY <2>1 DEF IndexTypes
  <2>4. name[p] \in Elastic!Names
    BY <2>2, IndexAssumption DEF IndexTypes, Elastic!Names
  <2> QED
    BY <2>2, <2>3, <2>4
<1>3. CASE UNCHANGED <<vars, indexVars>>
  BY <1>3 DEF indexVars, vars, Rows, KeysOf
<1> QED
  BY <1>1, <1>2, <1>3

(* The index of another name than p's is not p's concern.                   *)
LEMMA FilledRebuild ==
    ASSUME OneIndexes, IndexTypes, FilledInv, UNCHANGED vars,
           NEW p \in Indexer, Elastic!Rebuild(p)
    PROVE  FilledInv'
<1> USE IndexAssumption, PartAssumption
    DEF IndexTypes, IndexLabels, Elastic!Names, Elastic!Exists, Contents, Indexed,
        Elastic!Goto, Elastic!At, Elastic!elastic, Elastic!local
<1> SUFFICES ASSUME ipc'[p] # "idle"
             PROVE  Filled(p)'
  BY DEF OneIndexes, FilledInv
<1>0. Rows' = Rows
  BY DEF vars, Rows, KeysOf
<1>a. ipc[p] # "idle" => Filled(p) /\ name[p] \in Elastic!Names
  BY DEF FilledInv
<1>1. CASE Elastic!Begin(p)
  <2>1. /\ ipc'[p] \in {"create", "bulk"} /\ (Initialize => ipc'[p] = "create")
        /\ name'[p] = indexRuns + 1 /\ name'[p] \in Elastic!Names
        /\ window'[p] = 1 /\ index' = index
    BY <1>1 DEF Elastic!Begin
  <2>2. index'[name'[p]] = Absent
    BY <2>1
  <2>3. \A d \in Row : ~(WindowOf[d] < 1)
    BY DEF WindowOf, Row
  <2> QED
    BY <2>1, <2>2, <2>3 DEF Filled
<1>2. CASE Elastic!Create(p)
  <2>1. /\ ipc'[p] = "bulk" /\ index'[name[p]] = Contents(p)
        /\ UNCHANGED <<name, steady, window>>
    BY <1>2, <1>a DEF Elastic!Create
  <2>2. Contents(p) # Absent
    BY <2>1, AbsentAssumption
  <2>3. window[p] = 1 /\ \A d \in Row : ~(WindowOf[d] < 1)
    BY <1>2, <1>a DEF Elastic!Create, Filled, WindowOf, Row
  <2>4. \A d \in steady[p] : d \in Contents(p) => d \in Rows
    BY <1>2, <1>a DEF Elastic!Create, Filled
  <2> QED
    BY <1>0, <2>1, <2>2, <2>3, <2>4 DEF Filled
<1>3. CASE Elastic!Bulk(p)
  <2> DEFINE docs == {d \in Rows : WindowOf[d] = window[p]}
  <2>1. /\ ipc[p] = "bulk" /\ ipc'[p] \in {"bulk", "alias"}
        /\ UNCHANGED <<searchable, alias, name, listed, steady>>
    BY <1>3 DEF Elastic!Bulk
  <2>2. Filled(p) /\ name[p] \in Elastic!Names
    BY <1>a, <2>1
  <2>3. /\ Contents(p)' = Contents(p) \cup docs
        /\ Elastic!Exists(name[p]) => Elastic!Exists(name[p])'
    <3>1. CASE docs = {}
      BY <1>3, <2>1, <3>1 DEF Elastic!Bulk
    <3>2. CASE docs # {}
      <4>1. index'[name[p]] = docs \cup Contents(p)
        BY <1>3, <2>2, <3>2 DEF Elastic!Bulk
      <4>2. docs \cup Contents(p) \in SUBSET Row
        BY <2>2
      <4>3. docs \cup Contents(p) # Absent
        BY <4>2, AbsentAssumption
      <4> QED
        BY <2>1, <4>1, <4>3
    <3> QED
      BY <3>1, <3>2
  <2>4. \A d \in Rows : d \in Indexed(p)' => d \in Indexed(p) \/ d \in docs
    <3> SUFFICES ASSUME NEW d \in Rows, d \in Indexed(p)'
                 PROVE  d \in Indexed(p) \/ d \in docs
      OBVIOUS
    <3>1. WindowOf[d] \in 1..Parts /\ window[p] \in 1..Parts /\ d \in Row
      BY DEF WindowOf, Row
    <3>2. CASE window[p] = Parts
      BY <2>1, <3>1, <3>2
    <3>3. CASE window[p] # Parts
      <4>1. window'[p] = window[p] + 1 /\ ipc'[p] = "bulk"
        BY <1>3, <3>3 DEF Elastic!Bulk
      <4>2. WindowOf[d] < window[p] + 1
        BY <4>1
      <4>3. WindowOf[d] < window[p] \/ WindowOf[d] = window[p]
        BY <3>1, <4>2
      <4> QED
        BY <2>1, <3>1, <4>3
    <3> QED
      BY <3>2, <3>3
  <2> HIDE DEF docs
  <2>5. \A d \in docs : d \in Rows
    BY DEF docs
  <2>6. /\ \A d \in steady'[p] :
              /\ d \in Contents(p)' => d \in Rows'
              /\ d \in Rows' /\ d \in Indexed(p)' => d \in Contents(p)'
        /\ Initialize => index'[name'[p]] # Absent
    <3> HIDE DEF Contents, Indexed
    <3> QED
      BY <1>0, <2>1, <2>2, <2>3, <2>4, <2>5 DEF Filled
  <2> QED
    <3> HIDE DEF Contents, Indexed
    <3> QED
      BY <2>1, <2>6 DEF Filled
<1>4. CASE Elastic!PutAlias(p)
  <2>1. Elastic!Exists(name[p]) /\ ipc'[p] = "refresh" /\ ipc[p] = "alias"
    BY <1>4 DEF Elastic!PutAlias
  <2>2. /\ name[p] \in alias'
        /\ UNCHANGED <<index, searchable, name, window, listed, steady>>
    BY <1>4, <2>1 DEF Elastic!PutAlias
  <2> QED
    BY <1>0, <1>a, <2>1, <2>2 DEF Filled
<1>5. CASE Elastic!Refresh(p)
  <2>1. /\ ipc[p] = "refresh" /\ ipc'[p] = "list"
        /\ searchable'[name[p]] = index[name[p]]
        /\ UNCHANGED <<index, alias, name, window, listed, steady>>
    BY <1>5, <1>a DEF Elastic!Refresh
  <2> QED
    BY <1>0, <1>a, <2>1 DEF Filled
<1>6. CASE Elastic!List(p)
  <2>1. /\ ipc[p] = "list" /\ ipc'[p] = "delete"
        /\ listed'[p] = {n \in Elastic!Names \ {name[p]} : Elastic!Exists(n)}
        /\ UNCHANGED <<index, searchable, alias, name, window, steady>>
    BY <1>6 DEF Elastic!List
  <2> QED
    BY <1>0, <1>a, <2>1 DEF Filled
<1>7. CASE Elastic!Delete(p)
  <2>1. PICK n \in listed[p] :
            /\ Elastic!Drop(n)
            /\ listed' = [listed EXCEPT ![p] = @ \ {n}]
    BY <1>7 DEF Elastic!Delete
  <2>2. ipc[p] = "delete" /\ UNCHANGED <<ipc, name, window, steady>>
    BY <1>7 DEF Elastic!Delete
  <2>3. n # name[p] /\ n \in Elastic!Names /\ Filled(p)
    BY <1>a, <2>2 DEF Filled
  <2>4. /\ index'[name[p]] = index[name[p]] /\ index'[n] = Absent
        /\ searchable'[name[p]] = searchable[name[p]]
        /\ alias' = alias \ {n}
        /\ \A m \in Elastic!Names : m # n => index'[m] = index[m]
    BY <1>a, <2>1, <2>2, <2>3 DEF Elastic!Drop
  <2>5. listed'[p] = listed[p] \ {n}
    BY <2>1
  <2> QED
    BY <1>0, <2>2, <2>3, <2>4, <2>5 DEF Filled
<1>8. CASE Elastic!Finish(p) \/ Elastic!Die(p)
  BY <1>8 DEF Elastic!Finish, Elastic!Die
<1> QED
  BY <1>1, <1>2, <1>3, <1>4, <1>5, <1>6, <1>7, <1>8 DEF Elastic!Rebuild

LEMMA FilledInvariant ==
    ASSUME OneIndexes
    PROVE  SearchSpec => []FilledInv
<1>1. SearchInit => FilledInv
  BY DEF SearchInit, Elastic!Init, FilledInv
<1>2. IndexTypes /\ FilledInv /\ [SearchNext]_<<vars, indexVars>> => FilledInv'
  BY FilledOthers, FilledRebuild DEF SearchNext, Sync, Reindex
<1> QED
  BY <1>1, <1>2, IndexTypesInvariant, PTL DEF SearchSpec

(* The alias is put on the new index before the old ones are deleted: where *)
(* one process rebuilds the index, a row that stays and was found is found  *)
(* after every step of it, also if it dies, while the table is rebuilt by   *)
(* any number of processes (elastic.py:54-86, vulnsearch.py:184-199).       *)
THEOREM RebuildsWithoutGap ==
    ASSUME OneIndexes
    PROVE  SearchSpec => NoGap
<1>1. ASSUME IndexTypes, FilledInv, NEW p \in Indexer, Elastic!Rebuild(p),
             NEW d \in Rows \cap steady[p], d \in Elastic!Visible
      PROVE  d \in (Elastic!Visible)'
  <2> USE <1>1 DEF Elastic!At, Elastic!elastic, Elastic!local, Elastic!Exists
  <2>1. PICK n \in alias : d \in searchable[n]
    BY DEF Elastic!Visible
  <2>2. n \in Elastic!Names
    BY DEF IndexTypes
  <2> SUFFICES ASSUME \A m \in alias' : d \notin searchable'[m]
               PROVE  FALSE
    BY DEF Elastic!Visible
  <2>3. ~(n \in alias' /\ d \in searchable'[n])
    OBVIOUS
  <2>4. ~( \/ Elastic!Begin(p) \/ Elastic!Create(p) \/ Elastic!Bulk(p)
           \/ Elastic!List(p) \/ Elastic!Finish(p) \/ Elastic!Die(p))
    BY <2>1, <2>3 DEF Elastic!Begin, Elastic!Create, Elastic!Bulk, Elastic!List,
                      Elastic!Finish, Elastic!Die
  <2>5. ~Elastic!PutAlias(p)
    BY <2>1, <2>3 DEF Elastic!PutAlias
  <2>6. ~Elastic!Refresh(p)
    <3> SUFFICES ASSUME Elastic!Refresh(p) PROVE FALSE
      OBVIOUS
    <3>1. alias' = alias /\ searchable' = [searchable EXCEPT ![name[p]] = index[name[p]]]
      BY DEF Elastic!Refresh
    <3>2. d \in index[n]
      BY <2>1, <2>2 DEF IndexTypes
    <3> QED
      BY <2>1, <2>2, <2>3, <3>1, <3>2 DEF IndexTypes
  <2>7. ~Elastic!Delete(p)
    <3> SUFFICES ASSUME Elastic!Delete(p) PROVE FALSE
      OBVIOUS
    <3>1. PICK m \in listed[p] : Elastic!Drop(m)
      BY DEF Elastic!Delete
    <3>2. ipc[p] = "delete"
      BY DEF Elastic!Delete
    <3>3. Filled(p)
      BY <3>2 DEF FilledInv
    <3>4. name[p] \in alias /\ name[p] # m /\ searchable[name[p]] = index[name[p]]
          /\ name[p] \in Elastic!Names
      BY <3>2, <3>3 DEF Filled, IndexTypes
    <3>5. d \in index[name[p]]
      BY <3>2, <3>3 DEF Filled, Indexed, Contents, IndexTypes
    <3>6. name[p] \in alias' /\ searchable'[name[p]] = searchable[name[p]]
      BY <3>1, <3>4 DEF Elastic!Drop, IndexTypes
    <3> QED
      BY <3>4, <3>5, <3>6
  <2> QED
    BY <2>4, <2>5, <2>6, <2>7 DEF Elastic!Rebuild
<1>2. TableTypes /\ IndexTypes /\ FilledInv /\ [SearchNext]_<<vars, indexVars>> =>
        [\A p \in Indexer : Elastic!Rebuild(p) =>
            \A d \in Rows \cap steady[p] :
                d \in Elastic!Visible => d \in (Elastic!Visible)']_(Elastic!vars)
  BY <1>1
<1> QED
  BY <1>2, IndexTypesInvariant, FilledInvariant, PTL
     DEF SearchSpec, NoGap, Elastic!NoGap

(* A rebuild of the index that ends leaves readers with the rows of the     *)
(* table that did not come or go meanwhile, if the index is created first,  *)
(* as for vulnsearch, and one process rebuilds it (vulnsearch.py:177-199).  *)
THEOREM RebuildsInSync ==
    ASSUME OneIndexes, Initialize
    PROVE  SearchSpec => Synced
<1>1. ASSUME IndexTypes, FilledInv, NEW p \in Indexer, Elastic!Ends(p),
             NEW d \in steady[p]
      PROVE  d \in Elastic!Visible <=> d \in Rows
  <2> USE <1>1 DEF Elastic!At, Elastic!Exists
  <2>1. ipc[p] # "idle"
    BY DEF Elastic!Ends, Elastic!Finish, Elastic!PutAlias
  <2>2. Filled(p)
    BY <2>1 DEF FilledInv
  <2>3. Elastic!Finish(p)
    <3> SUFFICES ASSUME Elastic!PutAlias(p), ipc'[p] = "idle" PROVE FALSE
      BY DEF Elastic!Ends
    <3>1. ipc[p] = "alias"
      BY DEF Elastic!PutAlias
    <3>2. Elastic!Exists(name[p])
      BY <2>2, <3>1 DEF Filled
    <3>3. ipc' = [ipc EXCEPT ![p] = "refresh"]
      BY <3>2 DEF Elastic!PutAlias, Elastic!Goto
    <3> QED
      BY <3>3 DEF IndexTypes
  <2>4. ipc[p] = "delete" /\ listed[p] = {}
    BY <2>3 DEF Elastic!Finish
  <2>5. /\ name[p] \in alias /\ searchable[name[p]] = index[name[p]]
        /\ \A n \in alias : n = name[p]
    BY <2>2, <2>4 DEF Filled, IndexTypes
  <2>6. d \in Elastic!Visible <=> d \in index[name[p]]
    BY <2>5 DEF Elastic!Visible
  <2>7. d \in Row
    BY DEF IndexTypes
  <2> QED
    BY <2>2, <2>4, <2>6, <2>7 DEF Filled, Indexed, Contents, IndexTypes
<1>2. TableTypes /\ IndexTypes /\ FilledInv /\ [SearchNext]_<<vars, indexVars>> =>
        [\A p \in Indexer : Elastic!Ends(p) =>
            \A d \in steady[p] : d \in Elastic!Visible <=> d \in Rows]_(Elastic!vars)
  BY <1>1
<1> QED
  BY <1>2, IndexTypesInvariant, FilledInvariant, PTL
     DEF SearchSpec, Synced, Elastic!Synced

(* Side by side, the rebuilds of the table are those of Derived and the     *)
(* rebuilds of the index those of ElasticAlias over rows that come and go   *)
(* anyhow: each keeps what it promises alone.                               *)
THEOREM SearchIsDerived == SearchSpec => Spec
<1>1. [SearchNext]_<<vars, indexVars>> => [Next]_vars
  BY DEF SearchNext, Sync, Reindex, Next
<1> QED
  BY <1>1, PTL DEF SearchSpec, SearchInit, Spec

THEOREM SearchIsElastic == SearchSpec => Elastic!Spec
<1>1. SearchInit /\ TableTypes => Elastic!Init
  BY DEF SearchInit
<1>2. TableTypes' /\ [SearchNext]_<<vars, indexVars>> => [Elastic!Next]_(Elastic!vars)
  <2> SUFFICES ASSUME TableTypes', [SearchNext]_<<vars, indexVars>>
               PROVE  [Elastic!Next]_(Elastic!vars)
    OBVIOUS
  <2>1. CASE Sync
    <3>1. Rows' \in SUBSET Row
      BY DEF TableTypes, Sayings, Rows, Row, KeysOf
    <3> QED
      BY <2>1, <3>1 DEF Sync, Elastic!Next
  <2>2. CASE Reindex
    BY <2>2 DEF Reindex, Elastic!Next
  <2>3. CASE UNCHANGED <<vars, indexVars>>
    BY <2>3 DEF vars, indexVars, Elastic!vars, Elastic!elastic, Elastic!local, Rows, KeysOf
  <2> QED
    BY <2>1, <2>2, <2>3 DEF SearchNext
<1> QED
  BY <1>1, <1>2, IndexTypesInvariant, PTL DEF SearchSpec, Elastic!Spec

COROLLARY SearchPrunesGone ==
    ASSUME ~Outage
    PROVE  SearchSpec => PrunesGone
BY SearchIsDerived, PruneSparesStaying

COROLLARY SearchCompletes ==
    ASSUME OneRebuilds, ~Outage
    PROVE  SearchSpec => Complete
BY SearchIsDerived, RebuildCompletes
=============================================================================
