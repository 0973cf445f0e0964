---------------------------- MODULE StorageProofs ----------------------------
(***************************************************************************)
(* Theorems about imports and cleanups of the storage, for every number of *)
(* planners, command lines and operators, and any parsed items.            *)
(***************************************************************************)
EXTENDS StorageProps, FiniteSetTheorems, TLAPS

USE OpsAssumption, TypedAssumption, BoundsAssumption

-----------------------------------------------------------------------------
(* Types *)

Name == STRING \cup {"hostnames"}
RowSet == [id : Nat, kind : Kinds, name : Name, host : Nat \cup {NoId},
           service : Nat \cup {NoId}, full : BOOLEAN, manual : BOOLEAN]
Updates == [id : Nat, full : BOOLEAN]

Labels == Kinds \cup Statements \cup {"idle", "failed"}

TableTypes == rows \in SUBSET RowSet /\ IsFiniteSet(rows) /\ nextId \in Nat \ {0}

LocalTypes ==
    /\ pc \in [Process -> Labels]
    /\ batch \in [Process -> SUBSET Item] /\ todo \in [Process -> SUBSET Item]
    /\ ins \in [Process -> SUBSET RowSet] /\ upd \in [Process -> SUBSET Updates]
    /\ sel \in [Process -> SUBSET Nat] /\ bare \in [Process -> SUBSET Nat]
    /\ doomed \in [Process -> SUBSET Nat]
    /\ disturbed \in [Process -> BOOLEAN]

(* An import works through items that its parser returns; only it has       *)
(* pending rows, and only a cleanup has deleted rows.                       *)
Phases == \A p \in Process :
    /\ pc[p] \in Kinds => /\ "import" \in Ops[p] /\ batch[p] \in Parsed[p]
                          /\ todo[p] \subseteq ItemsOf(batch[p], pc[p])
    /\ IsFiniteSet(ins[p]) /\ (pc[p] \notin Kinds => ins[p] = {})
    /\ pc[p] \notin Statements => doomed[p] = {}

Types == TableTypes /\ LocalTypes /\ Phases

LEMMA RowType ==
    ASSUME NEW id \in Nat, NEW kind \in Kinds, NEW n \in Name,
           NEW host \in Nat \cup {NoId}, NEW service \in Nat \cup {NoId},
           NEW full \in BOOLEAN
    PROVE  Row(id, kind, n, host, service, full) \in RowSet
BY DEF Row, RowSet

LEMMA IdsNat ==
    ASSUME TableTypes
    PROVE  /\ Ids(rows) \in SUBSET Nat
           /\ \A kind : Of(kind) \in SUBSET rows
           /\ \A i \in Item : Matches(i) \in SUBSET rows /\ HostsAt(i.addr) \in SUBSET rows
           /\ \A addr, name : ServicesAt(addr, name) \in SUBSET rows
BY DEF TableTypes, RowSet, Ids, Of, Matches, HostsAt, ServicesAt

LEMMA IdOf ==
    ASSUME TableTypes, NEW S \in SUBSET rows, S # {}
    PROVE  /\ (CHOOSE id \in Ids(S) : TRUE) \in Ids(S)
           /\ Ids(S) \subseteq Nat
BY DEF TableTypes, RowSet, Ids

(* one_or_none() has found one (core.py:301) *)
LEMMA OneHost ==
    ASSUME TableTypes, NEW i \in Item, ~CannotResolve(i), i.kind # "host"
    PROVE  \E h \in rows : h.kind = "host" /\ h.name = i.addr /\ HostsAt(i.addr) = {h}
<1>1. Cardinality(HostsAt(i.addr)) = 1
  BY DEF CannotResolve
<1>2. IsFiniteSet(HostsAt(i.addr))
  BY IdsNat, FS_Subset DEF TableTypes
<1>3. PICK h : HostsAt(i.addr) = {h}
  BY <1>1, <1>2, FS_Singleton
<1> QED
  BY <1>3 DEF HostsAt, Of

LEMMA OneService ==
    ASSUME TableTypes, NEW i \in Item, ~CannotResolve(i), i.service # NoService
    PROVE  \E s \in rows : /\ s.kind = "service" /\ s.name = i.service
                           /\ s.host \in Ids(HostsAt(i.addr))
                           /\ ServicesAt(i.addr, i.service) = {s}
<1>1. Cardinality(ServicesAt(i.addr, i.service)) = 1
  BY DEF CannotResolve
<1>2. IsFiniteSet(ServicesAt(i.addr, i.service))
  BY IdsNat, FS_Subset DEF TableTypes
<1>3. PICK s : ServicesAt(i.addr, i.service) = {s}
  BY <1>1, <1>2, FS_Singleton
<1> QED
  BY <1>3 DEF ServicesAt, Of

-----------------------------------------------------------------------------
(* What an item of a batch adds *)

Proper(i) ==
    /\ i \in Item
    /\ i.kind = "host" => i.name = i.addr
    /\ i.kind \in {"host", "service"} => i.service = NoService

LEMMA ProperItems ==
    ASSUME Types, NEW p \in Process, pc[p] \in Kinds, NEW i \in todo[p]
    PROVE  Proper(i) /\ i \in batch[p] /\ i.kind = pc[p]
BY KeyAssumption DEF Types, LocalTypes, Phases, ItemsOf, Proper

(* The id after the rows of an item *)
NextId(i) ==
    nextId + Cardinality(NewRows(i)) + (IF i.kind = "host" THEN 1 ELSE 0)

HostRow(i) == Row(nextId, "host", i.name, NoId, NoId, i.full)
NamesRow(i) == Row(nextId + 1, "note", "hostnames", HostId(i), NoId, TRUE)

LEMMA HostRows ==
    ASSUME TableTypes, NEW i, Proper(i), i.kind = "host"
    PROVE  /\ NewRows(i) = (IF Matches(i) # {} THEN {} ELSE {HostRow(i)})
                           \cup (IF ~i.names \/ Matches(HostnamesOf(i)) # {} THEN {}
                                 ELSE {NamesRow(i)})
           /\ IF Matches(i) = {} THEN HostId(i) = nextId
              ELSE \E h \in Matches(i) : HostId(i) = h.id
           /\ HostRow(i) \in RowSet /\ NamesRow(i) \in RowSet
           /\ \A h \in Matches(i) : h \in rows /\ h.kind = "host" /\ h.name = i.addr
<1>1. NewRows(i) = (IF Matches(i) # {} THEN {} ELSE {HostRow(i)})
                   \cup (IF ~i.names \/ Matches(HostnamesOf(i)) # {} THEN {}
                         ELSE {NamesRow(i)})
  BY DEF NewRows, HostRow, NamesRow
<1>2. IF Matches(i) = {} THEN HostId(i) = nextId
      ELSE \E h \in Matches(i) : HostId(i) = h.id /\ h.id \in Nat
  <2>1. CASE Matches(i) = {}
    BY <2>1 DEF HostId
  <2>2. CASE Matches(i) # {}
    <3>1. HostId(i) \in Ids(Matches(i)) /\ Ids(Matches(i)) \subseteq Nat
      BY <2>2, IdsNat, IdOf DEF HostId, Proper
    <3> QED
      BY <2>2, <3>1 DEF Ids
  <2> QED
    BY <2>1, <2>2
<1>3. HostId(i) \in Nat
  BY <1>2 DEF TableTypes
<1>4. HostRow(i) \in RowSet /\ NamesRow(i) \in RowSet
  <2>1. i.name \in STRING /\ i.full \in BOOLEAN /\ nextId \in Nat
    BY DEF TableTypes, Proper, Item
  <2>2. HostRow(i) \in RowSet
    BY <2>1, RowType DEF HostRow, Kinds, Name
  <2>3. NamesRow(i) \in RowSet
    <3>1. nextId + 1 \in Nat /\ "note" \in Kinds /\ "hostnames" \in Name
      BY <2>1 DEF Kinds, Name
    <3> QED
      BY <1>3, <3>1, RowType DEF NamesRow
  <2> QED
    BY <2>2, <2>3
<1>5. \A h \in Matches(i) : h \in rows /\ h.kind = "host" /\ h.name = i.addr
  BY DEF Matches, Of, Proper
<1> QED
  BY <1>1, <1>2, <1>4, <1>5

(* The row an item of a later phase adds under its host and service         *)
LEMMA OtherRows ==
    ASSUME TableTypes, NEW i, Proper(i), i.kind # "host", ~CannotResolve(i)
    PROVE  \E h \in rows : \E srv \in Nat \cup {NoId} :
               /\ h.kind = "host" /\ h.name = i.addr /\ HostsAt(i.addr) = {h}
               /\ i.service = NoService <=> srv = NoId
               /\ srv # NoId => \E s \in rows :
                      /\ s.id = srv /\ s.kind = "service" /\ s.name = i.service
                      /\ s.host = h.id /\ ServicesAt(i.addr, i.service) = {s}
               /\ NewRows(i) = IF Matches(i) # {} THEN {}
                               ELSE {Row(nextId, i.kind, i.name, h.id, srv, i.full)}
               /\ Row(nextId, i.kind, i.name, h.id, srv, i.full) \in RowSet
<1>1. PICK h \in rows : h.kind = "host" /\ h.name = i.addr /\ HostsAt(i.addr) = {h}
  BY OneHost DEF Proper
<1> DEFINE srv == IF i.service = NoService THEN NoId
                  ELSE CHOOSE s \in Ids(ServicesAt(i.addr, i.service)) : TRUE
<1>2. Ids(HostsAt(i.addr)) = {h.id} /\ h.id \in Nat
  BY <1>1 DEF Ids, TableTypes, RowSet
<1>3. CASE i.service = NoService
  <2>1. srv = NoId
    BY <1>3
  <2>2. NewRows(i) = IF Matches(i) # {} THEN {}
                     ELSE {Row(nextId, i.kind, i.name, h.id, NoId, i.full)}
    BY <1>2, <1>3 DEF NewRows
  <2>3. Row(nextId, i.kind, i.name, h.id, NoId, i.full) \in RowSet
    BY <1>2, RowType DEF TableTypes, Proper, Item, Name
  <2> QED
    BY <1>1, <1>3, <2>2, <2>3
<1>4. CASE i.service # NoService
  <2>1. PICK s \in rows : /\ s.kind = "service" /\ s.name = i.service
                          /\ s.host \in Ids(HostsAt(i.addr))
                          /\ ServicesAt(i.addr, i.service) = {s}
    BY <1>4, OneService DEF Proper
  <2>2. Ids(ServicesAt(i.addr, i.service)) = {s.id} /\ s.id \in Nat
    BY <2>1 DEF Ids, TableTypes, RowSet
  <2>3. srv = s.id
    BY <1>4, <2>2
  <2>4. NewRows(i) = IF Matches(i) # {} THEN {}
                     ELSE {Row(nextId, i.kind, i.name, h.id, s.id, i.full)}
    BY <1>2, <1>4, <2>3 DEF NewRows
  <2>5. Row(nextId, i.kind, i.name, h.id, s.id, i.full) \in RowSet
    BY <1>2, <2>2, RowType DEF TableTypes, Proper, Item, Name
  <2> QED
    BY <1>1, <1>2, <1>4, <2>1, <2>2, <2>4, <2>5
<1> QED
  BY <1>3, <1>4

(* A row stands for an item, under rows that are there *)
Placed(i, r, there) ==
    /\ r.host = NoId <=> r.kind = "host"
    /\ r.kind # "host" => \E h \in there :
           h.id = r.host /\ h.kind = "host" /\ h.name = i.addr
    /\ r.service # NoId => \E s \in there :
           /\ s.id = r.service /\ s.kind = "service" /\ s.host = r.host
           /\ s.name = i.service /\ r.kind \notin {"host", "service"}
    /\ \/ r.kind = i.kind /\ r.name = i.name /\ (i.service = NoService <=> r.service = NoId)
       \/ i.kind = "host" /\ r.kind = "note" /\ r.name = "hostnames" /\ r.service = NoId

LEMMA RowFields ==
    ASSUME NEW id, NEW kind, NEW n, NEW host, NEW service, NEW full
    PROVE  LET r == Row(id, kind, n, host, service, full) IN
           /\ r.id = id /\ r.kind = kind /\ r.name = n
           /\ r.host = host /\ r.service = service /\ r.full = full /\ ~r.manual
BY DEF Row

LEMMA AddedByHost ==
    ASSUME TableTypes, NEW i, Proper(i), i.kind = "host"
    PROVE  /\ NewRows(i) \in SUBSET RowSet /\ IsFiniteSet(NewRows(i))
           /\ NextId(i) \in Nat /\ nextId <= NextId(i)
           /\ \A r \in NewRows(i) : nextId <= r.id /\ r.id < NextId(i)
           /\ \A r, s \in NewRows(i) : r.id = s.id => r = s
           /\ \A r \in NewRows(i) : Placed(i, r, rows \cup NewRows(i))
<1> DEFINE N == NewRows(i)
<1>1. /\ N \subseteq {HostRow(i), NamesRow(i)}
      /\ HostRow(i) \in N <=> Matches(i) = {}
  <2>1. HostRow(i).id = nextId /\ NamesRow(i).id = nextId + 1
    BY DEF HostRow, NamesRow, Row
  <2>2. HostRow(i) # NamesRow(i)
    BY <2>1 DEF TableTypes
  <2> QED
    BY <2>2, HostRows
<1>2. N \in SUBSET RowSet
  BY <1>1, HostRows
<1>3. IsFiniteSet(N)
  <2>1. IsFiniteSet({HostRow(i)}) /\ IsFiniteSet({NamesRow(i)}) /\ IsFiniteSet({})
    BY FS_Singleton, FS_EmptySet
  <2>2. IsFiniteSet({HostRow(i)} \cup {NamesRow(i)})
    BY <2>1, FS_Union
  <2> QED
    BY <1>1, <2>2, FS_Subset
<1>4. Cardinality(N) \in Nat /\ (N # {} => Cardinality(N) # 0)
  BY <1>3, FS_CardinalityType, FS_EmptySet
<1>5. NextId(i) = nextId + Cardinality(N) + 1
  BY DEF NextId
<1>6. /\ HostRow(i).id = nextId /\ HostRow(i).kind = "host" /\ HostRow(i).name = i.name
      /\ HostRow(i).host = NoId /\ HostRow(i).service = NoId
      /\ NamesRow(i).id = nextId + 1 /\ NamesRow(i).kind = "note"
      /\ NamesRow(i).name = "hostnames" /\ NamesRow(i).host = HostId(i)
      /\ NamesRow(i).service = NoId
  BY DEF HostRow, NamesRow, Row
<1> HIDE DEF N
<1>7. NextId(i) \in Nat /\ nextId <= NextId(i)
  BY <1>4, <1>5 DEF TableTypes
<1>8. \A r \in N : nextId <= r.id /\ r.id < NextId(i)
  <2> SUFFICES ASSUME NEW r \in N PROVE nextId <= r.id /\ r.id < NextId(i)
    OBVIOUS
  <2>1. r.id = nextId \/ r.id = nextId + 1
    BY <1>1, <1>6
  <2>2. Cardinality(N) >= 1
    BY <1>4
  <2> QED
    BY <1>4, <1>5, <2>1, <2>2 DEF TableTypes
<1>9. \A r, s \in N : r.id = s.id => r = s
  BY <1>1, <1>6 DEF TableTypes
<1>10. ASSUME NEW r \in N
       PROVE  Placed(i, r, rows \cup N)
  <2>1. CASE r = HostRow(i)
    BY <1>6, <2>1 DEF Placed, Proper
  <2>2. CASE r = NamesRow(i)
    <3>1. \E h \in rows \cup N : h.id = HostId(i) /\ h.kind = "host" /\ h.name = i.addr
      <4>1. CASE Matches(i) = {}
        BY <1>1, <1>6, <4>1, HostRows DEF Proper
      <4>2. CASE Matches(i) # {}
        BY <4>2, HostRows
      <4> QED
        BY <4>1, <4>2
    <3>2. HostId(i) # NoId
      BY <2>2, <1>1, <1>2, <3>1 DEF TableTypes, RowSet
    <3> QED
      BY <1>6, <2>2, <3>1, <3>2 DEF Placed
  <2> QED
    BY <1>1, <2>1, <2>2
<1> QED
  BY <1>2, <1>3, <1>7, <1>8, <1>9, <1>10 DEF N

LEMMA AddedByOther ==
    ASSUME TableTypes, NEW i, Proper(i), i.kind # "host", ~CannotResolve(i)
    PROVE  /\ NewRows(i) \in SUBSET RowSet /\ IsFiniteSet(NewRows(i))
           /\ NextId(i) \in Nat /\ nextId <= NextId(i)
           /\ \A r \in NewRows(i) : nextId <= r.id /\ r.id < NextId(i)
           /\ \A r, s \in NewRows(i) : r.id = s.id => r = s
           /\ \A r \in NewRows(i) : Placed(i, r, rows \cup NewRows(i))
<1>1. PICK h \in rows, srv \in Nat \cup {NoId} :
               /\ h.kind = "host" /\ h.name = i.addr
               /\ i.service = NoService <=> srv = NoId
               /\ srv # NoId => \E s \in rows :
                      /\ s.id = srv /\ s.kind = "service" /\ s.name = i.service
                      /\ s.host = h.id
               /\ NewRows(i) = IF Matches(i) # {} THEN {}
                               ELSE {Row(nextId, i.kind, i.name, h.id, srv, i.full)}
               /\ Row(nextId, i.kind, i.name, h.id, srv, i.full) \in RowSet
  BY OtherRows
<1> DEFINE new == Row(nextId, i.kind, i.name, h.id, srv, i.full)
<1>2. /\ new.id = nextId /\ new.kind = i.kind /\ new.name = i.name
      /\ new.host = h.id /\ new.service = srv
  BY RowFields
<1>3. new \in RowSet /\ NewRows(i) \subseteq {new}
  BY <1>1
<1> HIDE DEF new
<1>4. Placed(i, new, rows \cup NewRows(i))
  <2>1. h.id # NoId
    BY DEF TableTypes, RowSet
  <2>2. srv # NoId => i.kind \notin {"host", "service"}
    BY <1>1 DEF Proper
  <2> QED
    BY <1>1, <1>2, <2>1, <2>2 DEF Placed
<1>5. IsFiniteSet(NewRows(i))
  BY <1>3, FS_Singleton, FS_Subset
<1>6. Cardinality(NewRows(i)) \in Nat /\ (NewRows(i) # {} => Cardinality(NewRows(i)) # 0)
  BY <1>5, FS_CardinalityType, FS_EmptySet
<1>7. NextId(i) = nextId + Cardinality(NewRows(i))
  BY <1>6 DEF NextId, TableTypes
<1> QED
  BY <1>2, <1>3, <1>4, <1>5, <1>6, <1>7 DEF TableTypes

LEMMA Added ==
    ASSUME TableTypes, NEW i, Proper(i), ~CannotResolve(i)
    PROVE  /\ NewRows(i) \in SUBSET RowSet /\ IsFiniteSet(NewRows(i))
           /\ NextId(i) \in Nat /\ nextId <= NextId(i)
           /\ \A r \in NewRows(i) : nextId <= r.id /\ r.id < NextId(i)
           /\ \A r, s \in NewRows(i) : r.id = s.id => r = s
           /\ \A r \in NewRows(i) : Placed(i, r, rows \cup NewRows(i))
BY AddedByHost, AddedByOther

-----------------------------------------------------------------------------
(* Types are kept *)

LEMMA UpdatedRow ==
    ASSUME NEW p \in Process, NEW r \in RowSet
    PROVE  /\ Updated(r, p) \in RowSet
           /\ Updated(r, p).id = r.id /\ Updated(r, p).kind = r.kind
           /\ Updated(r, p).name = r.name /\ Updated(r, p).host = r.host
           /\ Updated(r, p).service = r.service /\ Updated(r, p).manual = r.manual
<1>1. PICK full \in BOOLEAN : Updated(r, p) = r \/ Updated(r, p) = [r EXCEPT !.full = full]
  BY DEF Updated
<1> QED
  BY <1>1 DEF RowSet

LEMMA CascadeType ==
    ASSUME TableTypes, NEW X \in SUBSET Nat
    PROVE  Cascade(X) \in SUBSET Nat
BY DEF Cascade, TableTypes, RowSet

LEMMA TypesLook ==
    ASSUME Types, NEW p \in Process, Look(p)
    PROVE  Types'
<1> USE DEF Types, LocalTypes
<1>1. PICK i \in todo[p] :
          /\ pc[p] \in Kinds /\ ~CannotResolve(i)
          /\ ins' = [ins EXCEPT ![p] = @ \cup NewRows(i)]
          /\ upd' = [upd EXCEPT ![p] = @ \cup {[id |-> r.id, full |-> i.full] : r \in Matches(i)}]
          /\ nextId' = NextId(i)
          /\ todo' = [todo EXCEPT ![p] = @ \ {i}]
          /\ UNCHANGED <<rows, pc, batch, sel, bare, doomed, runs, edits, disturbed>>
  BY DEF Look, NextId
<1>2. Proper(i)
  BY <1>1, ProperItems
<1>3. /\ NewRows(i) \in SUBSET RowSet /\ IsFiniteSet(NewRows(i))
      /\ NextId(i) \in Nat /\ nextId <= NextId(i)
  BY <1>1, <1>2, Added
<1>4. TableTypes'
  BY <1>1, <1>3 DEF TableTypes
<1>5. {[id |-> r.id, full |-> i.full] : r \in Matches(i)} \in SUBSET Updates
  BY <1>2, IdsNat DEF Proper, Item, TableTypes, RowSet, Updates
<1>6. LocalTypes'
  BY <1>1, <1>3, <1>5
<1>7. IsFiniteSet(ins[p] \cup NewRows(i))
  BY <1>3, FS_Union DEF Phases
<1>8. Phases'
  <2> SUFFICES ASSUME NEW q \in Process
               PROVE  /\ pc[q] \in Kinds => todo'[q] \subseteq ItemsOf(batch[q], pc[q])
                      /\ IsFiniteSet(ins'[q])
                      /\ pc[q] \notin Kinds => ins'[q] = {}
    BY <1>1 DEF Phases, ItemsOf
  <2>1. todo'[q] \subseteq todo[q] /\ (q # p => ins'[q] = ins[q])
    BY <1>1
  <2>2. q = p => ins'[q] = ins[p] \cup NewRows(i)
    BY <1>1
  <2> QED
    BY <1>1, <1>7, <2>1, <2>2 DEF Phases
<1> QED
  BY <1>4, <1>6, <1>8

LEMMA TypesCommit ==
    ASSUME Types, NEW p \in Process, Commit(p)
    PROVE  Types'
<1> USE DEF Types, LocalTypes
<1>1. pc[p] \in Kinds /\ rows' = {Updated(r, p) : r \in rows} \cup ins[p]
  BY DEF Commit, CanCommit
<1>2. \A r \in rows : Updated(r, p) \in RowSet
  BY UpdatedRow DEF TableTypes
<1>3. IsFiniteSet({Updated(r, p) : r \in rows})
  <2> DEFINE f == [r \in rows |-> Updated(r, p)]
             T == {Updated(r, p) : r \in rows}
  <2>1. f \in Surjection(rows, T)
    BY DEF Surjection
  <2> HIDE DEF f, T
  <2>2. IsFiniteSet(T)
    BY <2>1, FS_Surjection DEF TableTypes
  <2> QED
    BY <2>2 DEF T
<1>4. IsFiniteSet(rows') /\ nextId' = nextId
  <2>1. IsFiniteSet(ins[p])
    BY DEF Phases
  <2>2. IsFiniteSet({Updated(r, p) : r \in rows} \cup ins[p])
    BY <1>3, <2>1, FS_Union
  <2> QED
    BY <1>1, <2>2 DEF Commit
<1>5. TableTypes'
  BY <1>1, <1>2, <1>4 DEF TableTypes
<1>6. NextPhase(pc[p]) \in Kinds \cup {"idle"} /\ (NextPhase(pc[p]) \in Kinds <=> pc[p] # "note")
  BY <1>1 DEF NextPhase, Kinds
<1> DEFINE items == IF pc[p] = "note" THEN {} ELSE ItemsOf(batch[p], NextPhase(pc[p]))
<1>7. items \subseteq ItemsOf(batch[p], NextPhase(pc[p])) /\ items \in SUBSET Item
  BY DEF ItemsOf
<1>8. /\ pc' = [pc EXCEPT ![p] = NextPhase(pc[p])]
      /\ todo' = [todo EXCEPT ![p] = items]
      /\ ins' = [ins EXCEPT ![p] = {}] /\ upd' = [upd EXCEPT ![p] = {}]
      /\ disturbed' = [q \in Process |-> disturbed[q] \/ q \in InCleanup]
      /\ UNCHANGED <<batch, sel, bare, doomed>>
  BY DEF Commit, Goto, Disturb
<1> HIDE DEF items
<1>9. LocalTypes'
  <2>1. pc' \in [Process -> Labels] /\ disturbed' \in [Process -> BOOLEAN]
    BY <1>6, <1>8 DEF Labels
  <2> QED
    BY <1>7, <1>8, <2>1
<1>10. Phases'
  <2> SUFFICES ASSUME NEW q \in Process
               PROVE  /\ pc'[q] \in Kinds =>
                            /\ "import" \in Ops[q] /\ batch[q] \in Parsed[q]
                            /\ todo'[q] \subseteq ItemsOf(batch[q], pc'[q])
                      /\ IsFiniteSet(ins'[q]) /\ (pc'[q] \notin Kinds => ins'[q] = {})
                      /\ pc'[q] \notin Statements => doomed[q] = {}
    BY <1>8 DEF Phases, ItemsOf
  <2>1. CASE q = p
    <3>1. /\ pc'[q] = NextPhase(pc[p]) /\ todo'[q] = items /\ ins'[q] = {}
          /\ doomed[q] = {} /\ "import" \in Ops[q] /\ batch[q] \in Parsed[q]
      BY <1>1, <1>8, <2>1 DEF Phases, Kinds, Statements
    <3> QED
      BY <1>7, <2>1, <3>1, FS_EmptySet
  <2>2. CASE q # p
    <3>1. pc'[q] = pc[q] /\ todo'[q] = todo[q] /\ ins'[q] = ins[q]
      BY <1>8, <2>2
    <3> QED
      BY <3>1 DEF Phases
  <2> QED
    BY <2>1, <2>2
<1> QED
  BY <1>5, <1>9, <1>10

LEMMA TypesImport ==
    ASSUME Types, NEW p \in Process,
           BeginImport(p) \/ LookFails(p) \/ CommitFails(p) \/ Recover(p)
    PROVE  Types'
<1> USE FS_EmptySet DEF Types, LocalTypes, TableTypes, Phases
<1>1. CASE BeginImport(p)
  <2>1. PICK items \in Parsed[p] :
            /\ batch' = [batch EXCEPT ![p] = items]
            /\ todo' = [todo EXCEPT ![p] = ItemsOf(items, "host")]
    BY <1>1 DEF BeginImport
  <2>2. /\ "import" \in Ops[p] /\ pc' = [pc EXCEPT ![p] = "host"]
        /\ pc[p] = "idle" /\ disturbed' = [disturbed EXCEPT ![p] = FALSE]
        /\ UNCHANGED <<tables, ins, upd, sel, bare, doomed>>
    BY <1>1 DEF BeginImport, Begin, Goto
  <2>3. items \in SUBSET Item /\ ItemsOf(items, "host") \in SUBSET Item
    BY ParsedAssumption DEF ItemsOf
  <2>4. LocalTypes'
    BY <2>1, <2>2, <2>3 DEF Labels, Kinds
  <2>5. Phases'
    <3> SUFFICES ASSUME NEW q \in Process
                 PROVE  /\ pc'[q] \in Kinds =>
                              /\ "import" \in Ops[q] /\ batch'[q] \in Parsed[q]
                              /\ todo'[q] \subseteq ItemsOf(batch'[q], pc'[q])
                        /\ IsFiniteSet(ins[q]) /\ (pc'[q] \notin Kinds => ins[q] = {})
                        /\ pc'[q] \notin Statements => doomed[q] = {}
      BY <2>2 DEF ItemsOf
    <3>1. CASE q = p
      BY <2>1, <2>2, <3>1 DEF Kinds, Statements
    <3>2. CASE q # p
      BY <2>1, <2>2, <3>2
    <3> QED
      BY <3>1, <3>2
  <2> QED
    BY <2>2, <2>4, <2>5 DEF tables
<1>2. CASE Raise(p)
  <2>1. /\ pc' = [pc EXCEPT ![p] = "failed"]
        /\ batch' = [batch EXCEPT ![p] = {}] /\ todo' = [todo EXCEPT ![p] = {}]
        /\ ins' = [ins EXCEPT ![p] = {}] /\ upd' = [upd EXCEPT ![p] = {}]
        /\ sel' = [sel EXCEPT ![p] = {}] /\ bare' = [bare EXCEPT ![p] = {}]
        /\ doomed' = [doomed EXCEPT ![p] = {}] /\ disturbed' = disturbed
        /\ rows' = rows /\ nextId' = nextId
    BY <1>2 DEF Raise, Goto, Clear, tables
  <2>2. LocalTypes'
    BY <2>1 DEF Labels
  <2>3. Phases'
    BY <2>1 DEF Kinds, ItemsOf
  <2> QED
    BY <2>1, <2>2, <2>3
<1>3. CASE Recover(p)
  <2>1. /\ pc[p] = "failed" /\ pc' = [pc EXCEPT ![p] = "idle"]
        /\ UNCHANGED <<tables, batch, todo, ins, upd, sel, bare, doomed, disturbed>>
    BY <1>3 DEF Recover, Goto
  <2>2. LocalTypes'
    BY <2>1 DEF Labels
  <2>3. Phases'
    BY <2>1 DEF Kinds, Statements, ItemsOf
  <2> QED
    BY <2>1, <2>2, <2>3 DEF tables
<1> QED
  BY <1>1, <1>2, <1>3 DEF LookFails, CommitFails

(* A statement of a cleanup moves on, and only deletes rows by their ids.   *)
LEMMA CleanupSteps ==
    ASSUME TableTypes, LocalTypes, NEW p \in Process, Cleanup(p), ~CommitCleanup(p)
    PROVE  /\ pc' = [pc EXCEPT ![p] = pc'[p]] /\ pc'[p] \in Statements
           /\ pc[p] \in Statements \/ pc[p] = "idle"
           /\ sel' = [sel EXCEPT ![p] = sel'[p]] /\ sel'[p] \in SUBSET Nat
           /\ bare' = [bare EXCEPT ![p] = bare'[p]] /\ bare'[p] \in SUBSET Nat
           /\ \/ doomed' = doomed
              \/ /\ doomed' = [doomed EXCEPT ![p] = @ \cup Cascade(sel[p] \cap Ids(rows))]
                 /\ DeleteServices(p) \/ DeleteBare(p) \/ DeleteNamed(p)
           /\ disturbed' \in [Process -> BOOLEAN]
           /\ \A q \in Process \ {p} : disturbed'[q] = disturbed[q]
           /\ UNCHANGED <<rows, nextId, batch, todo, ins, upd>>
<1> USE DEF LocalTypes, Goto, Statements, Delete, Select, tables
<1>1. Ids(rows) \in SUBSET Nat /\ HostIds(p) \in SUBSET Nat
      /\ Ids({r \in Of("service") : ~r.full}) \in SUBSET Nat
  BY DEF TableTypes, RowSet, Ids, HostIds, View, Of
<1>2. CASE BeginCleanup(p)
  BY <1>1, <1>2 DEF BeginCleanup, Begin
<1>3. CASE DeleteServices(p) \/ DeleteBare(p) \/ DeleteNamed(p)
  <2> PICK here \in Statements, there \in Statements : Delete(p, here, there)
    BY <1>3 DEF DeleteServices, DeleteBare, DeleteNamed
  <2>1. /\ pc[p] = here /\ pc' = [pc EXCEPT ![p] = there]
        /\ sel' = [sel EXCEPT ![p] = {}] /\ bare' = bare
        /\ doomed' = [doomed EXCEPT ![p] = @ \cup Cascade(sel[p] \cap Ids(rows))]
        /\ UNCHANGED <<rows, nextId, batch, todo, ins, upd, disturbed>>
    OBVIOUS
  <2> QED
    BY <1>3, <2>1
<1>4. CASE NoInfo(p) \/ NoServices(p) \/ NoNotes(p) \/ OneNote(p) \/ Hostnames(p)
  <2> PICK here \in Statements, there \in Statements, ids \in SUBSET Nat :
           Select(p, here, there, ids)
    <3> HIDE DEF Select
    <3>1. CASE NoInfo(p)
      BY <3>1, <1>1 DEF NoInfo
    <3>2. CASE NoServices(p)
      BY <3>2, <1>1 DEF NoServices
    <3>3. CASE NoNotes(p)
      BY <3>3, <1>1 DEF NoNotes
    <3>4. CASE OneNote(p)
      BY <3>4, <1>1 DEF OneNote
    <3>5. CASE Hostnames(p)
      BY <3>5, <1>1 DEF Hostnames
    <3> QED
      BY <1>4, <3>1, <3>2, <3>3, <3>4, <3>5
  <2> QED
    OBVIOUS
<1>5. CASE NoVulns(p)
  BY <1>1, <1>5 DEF NoVulns
<1> QED
  BY <1>2, <1>3, <1>4, <1>5 DEF Cleanup

LEMMA TypesCleanup ==
    ASSUME Types, NEW p \in Process, Cleanup(p)
    PROVE  Types'
<1> USE FS_EmptySet DEF Types, LocalTypes, Phases
<1>1. CASE CommitCleanup(p)
  <2>1. /\ pc[p] = "commit" /\ pc' = [pc EXCEPT ![p] = "idle"]
        /\ batch' = [batch EXCEPT ![p] = {}] /\ todo' = [todo EXCEPT ![p] = {}]
        /\ ins' = [ins EXCEPT ![p] = {}] /\ upd' = [upd EXCEPT ![p] = {}]
        /\ sel' = [sel EXCEPT ![p] = {}] /\ bare' = [bare EXCEPT ![p] = {}]
        /\ doomed' = [doomed EXCEPT ![p] = {}]
        /\ disturbed' \in [Process -> BOOLEAN]
        /\ rows' = View(p) /\ nextId' = nextId
    BY <1>1 DEF CommitCleanup, Goto, Clear, Disturb
  <2>2. LocalTypes'
    BY <2>1 DEF Labels
  <2>3. Phases'
    BY <2>1 DEF Kinds, ItemsOf
  <2>4. View(p) \in SUBSET rows
    BY DEF View
  <2>5. TableTypes'
    BY <2>1, <2>4, FS_Subset DEF TableTypes
  <2> QED
    BY <2>2, <2>3, <2>5
<1>2. CASE ~CommitCleanup(p)
  <2>1. Cascade(sel[p] \cap Ids(rows)) \in SUBSET Nat
    BY CascadeType
  <2>2. LocalTypes'
    BY <1>2, <2>1, CleanupSteps DEF Labels
  <2>3. TableTypes'
    BY <1>2, CleanupSteps DEF TableTypes
  <2>4. pc[p] \notin Kinds /\ pc'[p] \notin Kinds /\ pc'[p] \in Statements
    BY <1>2, CleanupSteps DEF Kinds, Statements
  <2>5. \A q \in Process : q # p => pc'[q] = pc[q] /\ doomed'[q] = doomed[q]
    <3>1. /\ pc' = [pc EXCEPT ![p] = pc'[p]]
          /\ \/ doomed' = doomed
             \/ doomed' = [doomed EXCEPT ![p] = @ \cup Cascade(sel[p] \cap Ids(rows))]
      BY <1>2, CleanupSteps
    <3> QED
      BY <3>1
  <2>6. UNCHANGED <<batch, todo, ins>>
    BY <1>2, CleanupSteps
  <2>7. Phases'
    BY <2>4, <2>5, <2>6 DEF ItemsOf
  <2> QED
    BY <2>2, <2>3, <2>7
<1> QED
  BY <1>1, <1>2

(* The row an operator adds, under rows that are there and not deleted      *)
Form(t, h, s) == [Row(nextId, t.kind, t.name, h, s, t.full) EXCEPT !.manual = TRUE]

LEMMA AddedRow ==
    ASSUME TableTypes, AddItem
    PROVE  \E new \in RowSet :
               /\ rows' = rows \cup {new} /\ nextId' = nextId + 1
               /\ new.id = nextId /\ new.manual
               /\ new.host = NoId <=> new.kind = "host"
               /\ new.kind # "host" => \E h \in rows : h.id = new.host /\ h.kind = "host"
               /\ new.service # NoId => \E s \in rows :
                      /\ s.id = new.service /\ s.kind = "service" /\ s.host = new.host
                      /\ new.kind \notin {"host", "service"}
               /\ {new.host, new.service} \cap Locked = {}
               /\ UNCHANGED local /\ InCleanup \subseteq {q \in Process : disturbed'[q]}
               /\ disturbed' = [q \in Process |-> disturbed[q] \/ q \in InCleanup]
<1>1. PICK t \in Typed, h \in {NoId} \cup Ids(rows), s \in {NoId} \cup Ids(rows) :
          /\ t.kind = "host" <=> h = NoId
          /\ h # NoId => h \in Ids(Of("host"))
          /\ s # NoId => /\ t.kind \in {"vuln", "note"}
                         /\ \E r \in Of("service") : r.id = s /\ r.host = h
          /\ {h, s} \cap Locked = {}
          /\ rows' = rows \cup {Form(t, h, s)}
  BY DEF AddItem, Form
<1> DEFINE new == Form(t, h, s)
<1>2. t.kind \in Kinds /\ t.name \in Name /\ t.full \in BOOLEAN /\ nextId \in Nat
  BY DEF TableTypes, Name
<1>3. h \in Nat \cup {NoId} /\ s \in Nat \cup {NoId}
  BY IdsNat
<1>4. /\ new.id = nextId /\ new.kind = t.kind /\ new.host = h /\ new.service = s
      /\ new.manual
  BY DEF Form, Row
<1>5. new \in RowSet
  BY <1>2, <1>3 DEF Form, Row, RowSet
<1>6. h # NoId => \E x \in rows : x.id = h /\ x.kind = "host"
  BY <1>1 DEF Ids, Of
<1>7. s # NoId => \E x \in rows : x.id = s /\ x.kind = "service" /\ x.host = h
  BY <1>1 DEF Of
<1>8. /\ nextId' = nextId + 1 /\ UNCHANGED local
      /\ disturbed' = [q \in Process |-> disturbed[q] \/ q \in InCleanup]
  BY DEF AddItem, Edit, Disturb
<1>9. InCleanup \subseteq {q \in Process : disturbed'[q]}
  BY <1>8 DEF InCleanup
<1> HIDE DEF new
<1> QED
  BY <1>1, <1>4, <1>5, <1>6, <1>7, <1>8, <1>9 DEF new

(* The row an operator changes keeps its id and what it stands under.       *)
LEMMA EditedRow ==
    ASSUME TableTypes, EditItem
    PROVE  \E r \in rows, new \in RowSet :
               /\ rows' = (rows \ {r}) \cup {new} /\ nextId' = nextId
               /\ new.id = r.id /\ new.kind = r.kind /\ new.host = r.host
               /\ new.service = r.service /\ new.manual
               /\ UNCHANGED local
               /\ disturbed' = [q \in Process |->
                                    disturbed[q] \/ q \in InImport \cup InCleanup]
<1>1. PICK t \in Typed : \E r \in Of(t.kind) :
          rows' = (rows \ {r}) \cup {[r EXCEPT !.name = t.name, !.full = t.full,
                                            !.manual = TRUE]}
  BY DEF EditItem
<1>2. PICK r \in Of(t.kind) :
          rows' = (rows \ {r}) \cup {[r EXCEPT !.name = t.name, !.full = t.full,
                                            !.manual = TRUE]}
  BY <1>1
<1> DEFINE new == [r EXCEPT !.name = t.name, !.full = t.full, !.manual = TRUE]
<1>3. r \in rows /\ r \in RowSet
  BY DEF Of, TableTypes
<1>4. t.name \in Name /\ t.full \in BOOLEAN
  BY DEF Name
<1>5. /\ new \in RowSet /\ new.id = r.id /\ new.kind = r.kind /\ new.host = r.host
      /\ new.service = r.service /\ new.manual
  BY <1>3, <1>4 DEF RowSet
<1>6. /\ nextId' = nextId /\ UNCHANGED local
      /\ disturbed' = [q \in Process |-> disturbed[q] \/ q \in InImport \cup InCleanup]
  BY DEF EditItem, Edit, Disturb
<1> HIDE DEF new
<1> QED
  BY <1>2, <1>3, <1>5, <1>6 DEF new

LEMMA TypesEdit ==
    ASSUME Types, AddItem \/ EditItem \/ DeleteRow
    PROVE  Types'
<1> USE DEF Types, local
<1>1. CASE AddItem
  <2>1. PICK new \in RowSet : /\ rows' = rows \cup {new} /\ nextId' = nextId + 1
                              /\ UNCHANGED local
                              /\ disturbed' = [q \in Process |-> disturbed[q] \/ q \in InCleanup]
    BY <1>1, AddedRow
  <2>2. IsFiniteSet(rows')
    BY <2>1, FS_AddElement DEF TableTypes
  <2>3. TableTypes'
    BY <2>1, <2>2 DEF TableTypes
  <2>4. disturbed' \in [Process -> BOOLEAN]
    BY <2>1 DEF LocalTypes
  <2> QED
    BY <2>1, <2>3, <2>4 DEF LocalTypes, Phases, ItemsOf
<1>2. CASE EditItem
  <2>1. PICK r \in rows, new \in RowSet :
            /\ rows' = (rows \ {r}) \cup {new} /\ nextId' = nextId /\ UNCHANGED local
            /\ disturbed' = [q \in Process |-> disturbed[q] \/ q \in InImport \cup InCleanup]
    BY <1>2, EditedRow
  <2>2. IsFiniteSet(rows \ {r})
    BY FS_Subset DEF TableTypes
  <2>3. IsFiniteSet(rows')
    BY <2>1, <2>2, FS_AddElement
  <2>4. TableTypes'
    BY <2>1, <2>3 DEF TableTypes
  <2>5. disturbed' \in [Process -> BOOLEAN]
    BY <2>1 DEF LocalTypes
  <2> QED
    BY <2>1, <2>4, <2>5 DEF LocalTypes, Phases, ItemsOf
<1>3. CASE DeleteRow
  <2>1. rows' \in SUBSET rows /\ nextId' = nextId
    BY <1>3 DEF DeleteRow
  <2>2. TableTypes'
    BY <2>1, FS_Subset DEF TableTypes
  <2>3. disturbed' \in [Process -> BOOLEAN]
    BY <1>3 DEF DeleteRow, Disturb, LocalTypes
  <2>4. UNCHANGED <<pc, batch, todo, ins, upd, sel, bare, doomed>>
    BY <1>3 DEF DeleteRow, Edit
  <2> QED
    BY <2>2, <2>3, <2>4 DEF LocalTypes, Phases, ItemsOf
<1> QED
  BY <1>1, <1>2, <1>3

LEMMA TypesInvariant == Spec => []Types
<1>1. Init => Types
  BY FS_EmptySet DEF Init, Types, TableTypes, LocalTypes, Phases, Labels, Kinds
<1>2. Types /\ [Next]_vars => Types'
  <2> SUFFICES ASSUME Types, [Next]_vars PROVE Types'
    OBVIOUS
  <2>1. CASE UNCHANGED vars
    BY <2>1 DEF vars, tables, local, Types, TableTypes, LocalTypes, Phases, ItemsOf
  <2> QED
    BY <2>1, TypesLook, TypesCommit, TypesImport, TypesCleanup, TypesEdit
       DEF Next, Import
<1> QED
  BY <1>1, <1>2, PTL DEF Spec

-----------------------------------------------------------------------------
(* Rows and what they stand under *)

All == rows \cup UNION {ins[p] : p \in Process}

Shaped == \A r \in All :
    /\ r.id < nextId
    /\ r.host = NoId <=> r.kind = "host"
    /\ r.host # NoId => r.host < nextId
    /\ r.service # NoId => r.kind \notin {"host", "service"} /\ r.service < nextId

(* An id stands for one row, stored or pending, which only one import has.  *)
IdsDiffer == \A r, s \in All : r.id = s.id => r = s
Apart == \A p \in Process :
    /\ ins[p] \cap rows = {}
    /\ \A q \in Process : q # p => ins[p] \cap ins[q] = {}

Refers == \A r, s \in All :
    /\ s.id = r.host => s.kind = "host"
    /\ s.id = r.service => s.kind = "service" /\ s.host = r.host

RowsInv == Shaped /\ IdsDiffer /\ Apart /\ Refers

(* Most steps add no rows.                                                  *)
Shrinks ==
    /\ rows' \subseteq rows /\ nextId' = nextId
    /\ \A p \in Process : ins'[p] \subseteq ins[p]

LEMMA StepKinds ==
    ASSUME Types, [Next]_vars
    PROVE  Shrinks \/ AddItem \/ EditItem \/ \E p \in Process : Look(p) \/ Commit(p)
<1> USE DEF Types, LocalTypes, Shrinks, tables
<1>1. ASSUME NEW p \in Process, BeginImport(p) \/ LookFails(p) \/ CommitFails(p) \/ Recover(p)
      PROVE  Shrinks
  BY <1>1 DEF BeginImport, LookFails, CommitFails, Recover, Raise, Clear
<1>2. ASSUME NEW p \in Process, Cleanup(p)
      PROVE  Shrinks
  <2>1. CASE CommitCleanup(p)
    BY <2>1 DEF CommitCleanup, View, Clear
  <2>2. CASE ~CommitCleanup(p)
    BY <1>2, <2>2, CleanupSteps
  <2> QED
    BY <2>1, <2>2
<1>3. CASE DeleteRow
  BY <1>3 DEF DeleteRow, Edit, local
<1>4. CASE UNCHANGED vars
  BY <1>4 DEF vars, local
<1> QED
  BY <1>1, <1>2, <1>3, <1>4 DEF Next, Import

LEMMA AllRows ==
    ASSUME Types
    PROVE  All \in SUBSET RowSet
BY DEF Types, TableTypes, LocalTypes, All

(* A row under others that are there *)
Under(r, there) ==
    /\ r.host = NoId <=> r.kind = "host"
    /\ r.kind # "host" => \E h \in there : h.id = r.host /\ h.kind = "host"
    /\ r.service # NoId => \E s \in there :
           /\ s.id = r.service /\ s.kind = "service" /\ s.host = r.host
           /\ r.kind \notin {"host", "service"}

LEMMA RowsGrow ==
    ASSUME Types, RowsInv, NEW N \in SUBSET RowSet, All' = All \cup N,
           nextId' \in Nat, nextId <= nextId',
           \A r \in N : nextId <= r.id /\ r.id < nextId',
           \A r, s \in N : r.id = s.id => r = s,
           \A r \in N : Under(r, All \cup N)
    PROVE  Shaped' /\ IdsDiffer' /\ Refers' /\ N \cap All = {}
<1> USE DEF RowsInv
<1>1. All \in SUBSET RowSet /\ nextId \in Nat
  BY AllRows DEF Types, TableTypes
<1>2. \A r \in All : \A s \in N : r.id < s.id /\ r.id # s.id /\ r.id < nextId
  BY <1>1 DEF Shaped, RowSet
<1>3. IdsDiffer'
  BY <1>2 DEF IdsDiffer
<1>4. \A r \in All \cup N : r.id < nextId' /\ r.id \in Nat
  BY <1>1 DEF Shaped, RowSet
<1>5. Shaped'
  <2> SUFFICES ASSUME NEW r \in All \cup N
               PROVE  /\ r.host = NoId <=> r.kind = "host"
                      /\ r.host # NoId => r.host < nextId'
                      /\ r.service # NoId =>
                             r.kind \notin {"host", "service"} /\ r.service < nextId'
    BY <1>4 DEF Shaped
  <2>1. CASE r \in All
    BY <1>1, <2>1 DEF Shaped, RowSet
  <2>2. CASE r \in N
    BY <1>4, <2>2 DEF Under
  <2> QED
    BY <2>1, <2>2
<1>6. ASSUME NEW r \in All \cup N, NEW s \in All \cup N
      PROVE  /\ s.id = r.host => s.kind = "host"
             /\ s.id = r.service => s.kind = "service" /\ s.host = r.host
  <2>1. CASE r \in All /\ s \in All
    BY <2>1 DEF Refers
  <2>2. CASE r \in All /\ s \in N
    <3>1. r.host # s.id
      BY <1>1, <2>2 DEF Shaped, RowSet
    <3>2. r.service # s.id
      BY <1>1, <2>2 DEF Shaped, RowSet
    <3> QED
      BY <3>1, <3>2
  <2>3. CASE r \in N
    <3>1. s.id # NoId
      BY <1>4
    <3>2. \A x, y \in All \cup N : x.id = y.id => x = y
      BY <1>3 DEF IdsDiffer
    <3>3. s.id = r.host => s.kind = "host"
      BY <2>3, <3>1, <3>2 DEF Under
    <3>4. s.id = r.service => s.kind = "service" /\ s.host = r.host
      BY <2>3, <3>1, <3>2 DEF Under
    <3> QED
      BY <3>3, <3>4
  <2> QED
    BY <2>1, <2>2, <2>3
<1>7. Refers'
  BY <1>6 DEF Refers
<1>8. N \cap All = {}
  BY <1>2
<1> QED
  BY <1>3, <1>5, <1>7, <1>8

LEMMA RowsLook ==
    ASSUME Types, RowsInv, NEW p \in Process, NEW i \in todo[p],
           pc[p] \in Kinds, ~CannotResolve(i),
           ins' = [ins EXCEPT ![p] = @ \cup NewRows(i)],
           rows' = rows, nextId' = NextId(i)
    PROVE  RowsInv' /\ All' = All \cup NewRows(i) /\ NewRows(i) \cap All = {}
<1> DEFINE N == NewRows(i)
<1>1. Proper(i)
  BY ProperItems
<1>2. /\ N \in SUBSET RowSet
      /\ NextId(i) \in Nat /\ nextId <= NextId(i)
      /\ \A r \in N : nextId <= r.id /\ r.id < NextId(i)
      /\ \A r, s \in N : r.id = s.id => r = s
      /\ \A r \in N : Placed(i, r, rows \cup N)
  BY <1>1, Added DEF Types
<1> HIDE DEF N
<1>3. /\ ins'[p] = ins[p] \cup N
      /\ \A q \in Process : q # p => ins'[q] = ins[q]
  BY DEF Types, LocalTypes, N
<1>4. All' = All \cup N
  BY <1>3 DEF All
<1>5. \A r \in N : Under(r, All \cup N)
  <2> SUFFICES ASSUME NEW r \in N PROVE Under(r, All \cup N)
    OBVIOUS
  <2>1. Placed(i, r, rows \cup N) /\ rows \cup N \subseteq All \cup N
    BY <1>2 DEF All
  <2> QED
    BY <2>1 DEF Placed, Under
<1>6. Shaped' /\ IdsDiffer' /\ Refers' /\ N \cap All = {}
  BY <1>2, <1>4, <1>5, RowsGrow
<1>7. Apart'
  BY <1>3, <1>6 DEF RowsInv, Apart, All
<1> QED
  BY <1>4, <1>6, <1>7 DEF RowsInv, N

LEMMA RowsAdd ==
    ASSUME Types, RowsInv, AddItem
    PROVE  RowsInv'
<1>1. PICK new \in RowSet :
          /\ rows' = rows \cup {new} /\ nextId' = nextId + 1 /\ new.id = nextId
          /\ new.host = NoId <=> new.kind = "host"
          /\ new.kind # "host" => \E h \in rows : h.id = new.host /\ h.kind = "host"
          /\ new.service # NoId => \E s \in rows :
                 /\ s.id = new.service /\ s.kind = "service" /\ s.host = new.host
                 /\ new.kind \notin {"host", "service"}
          /\ UNCHANGED local
  BY AddedRow DEF Types
<1>2. nextId \in Nat /\ ins' = ins
  BY <1>1 DEF local, Types, TableTypes
<1>3. All' = All \cup {new} /\ rows \subseteq All
  BY <1>1, <1>2 DEF All
<1>4. Under(new, All \cup {new})
  BY <1>1, <1>3 DEF Under
<1>7. Shaped' /\ IdsDiffer' /\ Refers' /\ {new} \cap All = {}
  <2>1. /\ {new} \in SUBSET RowSet /\ nextId' \in Nat /\ nextId <= nextId'
        /\ \A r \in {new} : nextId <= r.id /\ r.id < nextId'
        /\ \A r, s \in {new} : r.id = s.id => r = s
        /\ \A r \in {new} : Under(r, All \cup {new})
    BY <1>1, <1>2, <1>4
  <2> QED
    BY <1>3, <2>1, RowsGrow
<1>8. Apart'
  BY <1>1, <1>2, <1>7 DEF RowsInv, Apart, All
<1> QED
  BY <1>7, <1>8 DEF RowsInv

LEMMA RowsEdit ==
    ASSUME Types, RowsInv, EditItem
    PROVE  RowsInv'
<1> USE DEF RowsInv
<1>1. PICK r \in rows, new \in RowSet :
          /\ rows' = (rows \ {r}) \cup {new} /\ nextId' = nextId
          /\ new.id = r.id /\ new.kind = r.kind /\ new.host = r.host
          /\ new.service = r.service /\ UNCHANGED local
  BY EditedRow DEF Types
<1>2. ins' = ins /\ r \in All
  BY <1>1 DEF local, All
<1>3. \A x \in All' : \E y \in All :
          /\ x.id = y.id /\ x.kind = y.kind /\ x.host = y.host /\ x.service = y.service
          /\ (x = y /\ x # r) \/ (x = new /\ y = r)
  <2> SUFFICES ASSUME NEW x \in All'
               PROVE  (x \in All /\ x # r) \/ x = new
    BY <1>1, <1>2
  <2>1. \A q \in Process : r \notin ins[q]
    BY DEF Apart
  <2> QED
    BY <1>1, <1>2, <2>1 DEF All
<1>4. Shaped'
  BY <1>1, <1>3 DEF Shaped
<1>5. IdsDiffer'
  BY <1>3 DEF IdsDiffer
<1>6. Refers'
  BY <1>3 DEF Refers
<1>7. Apart'
  <2>1. \A q \in Process : new \notin ins[q]
    <3> SUFFICES ASSUME NEW q \in Process, new \in ins[q] PROVE FALSE
      OBVIOUS
    <3>1. new \in All
      BY DEF All
    <3>2. new = r
      BY <1>1, <1>2, <3>1 DEF IdsDiffer
    <3> QED
      BY <3>2 DEF Apart
  <2> QED
    BY <1>1, <1>2, <2>1 DEF Apart
<1> QED
  BY <1>4, <1>5, <1>6, <1>7

(* What a commit leaves of a row *)
After(r, p) == IF r \in rows THEN Updated(r, p) ELSE r

LEMMA CommitRows ==
    ASSUME Types, RowsInv, NEW p \in Process, Commit(p)
    PROVE  /\ rows' = {Updated(r, p) : r \in rows} \cup ins[p]
           /\ nextId' = nextId
           /\ \A q \in Process : ins'[q] = IF q = p THEN {} ELSE ins[q]
           /\ All' = {After(r, p) : r \in All}
           /\ \A r \in All : /\ After(r, p).id = r.id /\ After(r, p).kind = r.kind
                             /\ After(r, p).name = r.name /\ After(r, p).host = r.host
                             /\ After(r, p).service = r.service
                             /\ After(r, p).manual = r.manual
<1>1. /\ rows' = {Updated(r, p) : r \in rows} \cup ins[p] /\ nextId' = nextId
      /\ \A q \in Process : ins'[q] = IF q = p THEN {} ELSE ins[q]
  BY DEF Commit, Types, LocalTypes
<1>2. \A q \in Process : \A r \in ins[q] : After(r, p) = r /\ r \in All
  BY DEF After, RowsInv, Apart, All
<1>3. \A r \in rows : After(r, p) = Updated(r, p) /\ r \in All
  BY DEF After, All
<1>4. All' = {After(r, p) : r \in All}
  <2>1. ASSUME NEW x \in All'
        PROVE  \E r \in All : x = After(r, p)
    <3>1. x \in rows' \/ \E q \in Process : x \in ins'[q]
      BY DEF All
    <3> QED
      BY <1>1, <1>2, <1>3, <3>1
  <2>2. ASSUME NEW r \in All
        PROVE  After(r, p) \in All'
    <3>1. CASE r \in rows
      BY <1>1, <1>3, <3>1 DEF All
    <3>2. CASE r \notin rows
      <4>1. PICK q \in Process : r \in ins[q]
        BY <3>2 DEF All
      <4>2. r \in rows' \/ r \in ins'[q]
        BY <1>1, <4>1
      <4> QED
        BY <1>2, <4>1, <4>2 DEF All
    <3> QED
      BY <3>1, <3>2
  <2> QED
    BY <2>1, <2>2
<1>5. \A r \in rows : r \in RowSet
  BY DEF Types, TableTypes
<1> QED
  BY <1>1, <1>4, <1>5, UpdatedRow DEF After

LEMMA RowsCommit ==
    ASSUME Types, RowsInv, NEW p \in Process, Commit(p)
    PROVE  RowsInv'
<1> USE DEF RowsInv
<1>1. /\ rows' = {Updated(r, p) : r \in rows} \cup ins[p]
      /\ nextId' = nextId
      /\ \A q \in Process : ins'[q] = IF q = p THEN {} ELSE ins[q]
      /\ All' = {After(r, p) : r \in All}
  BY CommitRows
<1>2. \A x \in All' : \E r \in All :
          /\ x = After(r, p) /\ x.id = r.id /\ x.kind = r.kind
          /\ x.host = r.host /\ x.service = r.service
  BY <1>1, CommitRows
<1>3. Shaped'
  BY <1>1, <1>2 DEF Shaped
<1>4. IdsDiffer'
  BY <1>2 DEF IdsDiffer
<1>5. Refers'
  BY <1>2 DEF Refers
<1>6. Apart'
  <2>1. ASSUME NEW q \in Process, q # p
        PROVE  ins[q] \cap rows' = {}
    <3> SUFFICES ASSUME NEW x \in ins[q], x \in rows' PROVE FALSE
      OBVIOUS
    <3>1. x \notin ins[p] /\ x \in All /\ x \notin rows
      BY <2>1 DEF Apart, All
    <3>2. PICK r \in rows : x = Updated(r, p)
      BY <1>1, <3>1
    <3>3. x.id = r.id /\ r \in All
      BY <3>2, UpdatedRow DEF Types, TableTypes, All
    <3> QED
      BY <3>1, <3>3 DEF IdsDiffer
  <2> QED
    BY <1>1, <2>1 DEF Apart
<1> QED
  BY <1>3, <1>4, <1>5, <1>6

LEMMA RowsStep ==
    ASSUME Types, RowsInv, [Next]_vars
    PROVE  RowsInv'
<1>1. CASE Shrinks
  <2>1. All' \subseteq All
    BY <1>1 DEF Shrinks, All
  <2>2. Shaped' /\ IdsDiffer' /\ Refers'
    BY <1>1, <2>1 DEF RowsInv, Shaped, IdsDiffer, Refers, Shrinks
  <2>3. Apart'
    BY <1>1 DEF RowsInv, Apart, Shrinks
  <2> QED
    BY <2>2, <2>3 DEF RowsInv
<1>2. ASSUME NEW p \in Process, Look(p)
      PROVE  RowsInv'
  BY <1>2, RowsLook DEF Look, NextId
<1> QED
  BY <1>1, <1>2, RowsAdd, RowsEdit, RowsCommit, StepKinds

LEMMA RowsInvariant == Spec => [](Types /\ RowsInv)
<1>1. Init => RowsInv
  BY DEF Init, RowsInv, Shaped, IdsDiffer, Apart, Refers, All
<1>2. Types /\ RowsInv /\ [Next]_vars => RowsInv'
  BY RowsStep
<1> QED
  BY <1>1, <1>2, TypesInvariant, PTL DEF Spec

(* Every row stands under rows that exist; and a cleanup that has deleted   *)
(* one has deleted what is under it: nobody stores anything there before    *)
(* it commits.                                                              *)
Anchored == \A r \in rows : \A id \in {r.host, r.service} \ {NoId} : \E s \in rows : s.id = id
DoomedBelow == \A p \in Process : \A r \in rows :
    r.host \in doomed[p] \/ r.service \in doomed[p] => r.id \in doomed[p]

Stands == Anchored /\ DoomedBelow

LEMMA CascadeBelow ==
    ASSUME Types, RowsInv, NEW X \in SUBSET Nat, NEW r \in rows,
           r.host \in Cascade(X) \/ r.service \in Cascade(X)
    PROVE  r.id \in Cascade(X)
<1> USE DEF RowsInv
<1>1. r \in All /\ \A s \in rows : s \in All
  BY DEF All
<1>2. \A id \in Cascade(X) : id \in X \/ \E s \in rows : s.id = id /\ (s.host \in X \/ s.service \in X)
  BY DEF Cascade
<1>3. NoId \notin X
  OBVIOUS
<1>4. r.host \in X \/ r.service \in X => r.id \in Cascade(X)
  BY DEF Cascade
<1>5. ASSUME NEW s \in rows, s.id = r.host, s.host \in X \/ s.service \in X
      PROVE  FALSE
  <2>1. s.kind = "host"
    BY <1>1, <1>5 DEF Refers
  <2> QED
    BY <1>1, <1>3, <1>5, <2>1 DEF Shaped
<1>6. ASSUME NEW s \in rows, s.id = r.service, s.host \in X \/ s.service \in X
      PROVE  r.host \in X
  <2>1. s.kind = "service" /\ s.host = r.host
    BY <1>1, <1>6 DEF Refers
  <2> QED
    BY <1>1, <1>3, <1>6, <2>1 DEF Shaped
<1> QED
  BY <1>2, <1>4, <1>5, <1>6

LEMMA ParentsOf ==
    ASSUME NEW p \in Process, NEW r \in ins[p], NEW id \in {r.host, r.service}, id # NoId
    PROVE  id \in Parents(p)
<1>1. {r.host, r.service} \in {{s.host, s.service} : s \in ins[p]}
  OBVIOUS
<1>2. id \in UNION {{s.host, s.service} : s \in ins[p]}
  BY <1>1
<1> QED
  BY <1>2 DEF Parents

LEMMA StandsCommit ==
    ASSUME Types, RowsInv, Stands, NEW p \in Process, Commit(p)
    PROVE  Stands'
<1> USE DEF Stands
<1>1. /\ rows' = {Updated(r, p) : r \in rows} \cup ins[p]
      /\ doomed' = doomed
  BY DEF Commit
<1>2. /\ pc[p] \in Kinds /\ Parents(p) \cap LockedFor(p) = {}
      /\ Parents(p) \subseteq Ids(rows \cup ins[p])
  BY DEF Commit, CanCommit
<1>3. \A r \in rows : /\ Updated(r, p) \in rows' /\ Updated(r, p).id = r.id
                      /\ Updated(r, p).host = r.host /\ Updated(r, p).service = r.service
  BY <1>1, UpdatedRow DEF Types, TableTypes
<1>4. ASSUME NEW id \in Ids(rows \cup ins[p])
      PROVE  \E s \in rows' : s.id = id
  BY <1>1, <1>3, <1>4 DEF Ids
<1>5. Anchored'
  <2> SUFFICES ASSUME NEW x \in rows', NEW id \in {x.host, x.service} \ {NoId}
               PROVE  \E s \in rows' : s.id = id
    BY DEF Anchored
  <2>1. CASE x \in ins[p]
    BY <1>2, <1>4, <2>1, ParentsOf
  <2>2. CASE x \notin ins[p]
    <3>1. PICK r \in rows : x = Updated(r, p)
      BY <1>1, <2>2
    <3>2. \E s \in rows : s.id = id
      BY <1>3, <3>1 DEF Anchored
    <3> QED
      BY <1>3, <3>2
  <2> QED
    BY <2>1, <2>2
<1>6. DoomedBelow'
  <2> SUFFICES ASSUME NEW q \in Process, NEW x \in rows',
                      x.host \in doomed[q] \/ x.service \in doomed[q]
               PROVE  x.id \in doomed[q]
    BY <1>1 DEF DoomedBelow
  <2>1. CASE x \in ins[p]
    <3>1. doomed[q] \subseteq Nat
      BY DEF Types, LocalTypes
    <3>2. \E id \in {x.host, x.service} : id # NoId /\ id \in doomed[q]
      BY <3>1
    <3>3. q # p
      BY <1>2, <3>2 DEF Types, Phases, Kinds, Statements
    <3>4. doomed[q] \subseteq LockedFor(p)
      BY <3>3 DEF LockedFor
    <3> QED
      BY <1>2, <2>1, <3>2, <3>4, ParentsOf
  <2>2. CASE x \notin ins[p]
    <3>1. PICK r \in rows : x = Updated(r, p)
      BY <1>1, <2>2
    <3> QED
      BY <1>3, <3>1 DEF DoomedBelow
  <2> QED
    BY <2>1, <2>2
<1> QED
  BY <1>5, <1>6

LEMMA StandsCleanup ==
    ASSUME Types, RowsInv, Stands, NEW p \in Process, Cleanup(p)
    PROVE  Stands'
<1> USE DEF Stands
<1>1. CASE CommitCleanup(p)
  <2>1. rows' = View(p) /\ doomed' = [doomed EXCEPT ![p] = {}]
    BY <1>1 DEF CommitCleanup, Clear
  <2>2. \A r \in rows : r \in rows' <=> r.id \notin doomed[p]
    BY <2>1 DEF View
  <2>3. rows' \subseteq rows
    BY <2>1 DEF View
  <2>4. Anchored'
    BY <2>2, <2>3 DEF Anchored, DoomedBelow
  <2>5. DoomedBelow'
    BY <2>1, <2>3 DEF DoomedBelow, Types, LocalTypes
  <2> QED
    BY <2>4, <2>5
<1>2. CASE ~CommitCleanup(p)
  <2> DEFINE X == sel[p] \cap Ids(rows)
  <2>1. rows' = rows /\ (doomed' = doomed \/ doomed' = [doomed EXCEPT ![p] = @ \cup Cascade(X)])
    BY <1>2, CleanupSteps DEF Types
  <2>2. X \in SUBSET Nat
    BY DEF Types, LocalTypes
  <2> HIDE DEF X
  <2>3. \A r \in rows : r.host \in Cascade(X) \/ r.service \in Cascade(X) => r.id \in Cascade(X)
    BY <2>2, CascadeBelow
  <2>4. Anchored'
    BY <2>1 DEF Anchored
  <2>5. DoomedBelow'
    BY <2>1, <2>3 DEF DoomedBelow, Types, LocalTypes
  <2> QED
    BY <2>4, <2>5
<1> QED
  BY <1>1, <1>2

LEMMA StandsEdit ==
    ASSUME Types, RowsInv, Stands, AddItem \/ EditItem \/ DeleteRow
    PROVE  Stands'
<1> USE DEF Stands
<1>0. doomed' = doomed
  BY DEF AddItem, EditItem, DeleteRow, Edit, local
<1>1. CASE AddItem
  <2>1. PICK new \in RowSet :
            /\ rows' = rows \cup {new}
            /\ new.host = NoId <=> new.kind = "host"
            /\ new.kind # "host" => \E h \in rows : h.id = new.host /\ h.kind = "host"
            /\ new.service # NoId => \E s \in rows : s.id = new.service
            /\ {new.host, new.service} \cap Locked = {}
    BY <1>1, AddedRow DEF Types
  <2>2. \A id \in {new.host, new.service} \ {NoId} : \E s \in rows : s.id = id
    BY <2>1
  <2>3. Anchored'
    BY <2>1, <2>2 DEF Anchored
  <2>4. \A p \in Process : doomed[p] \subseteq Locked
    BY DEF Locked
  <2>5. \A p \in Process : new.host \notin doomed[p] /\ new.service \notin doomed[p]
    BY <2>1, <2>4
  <2>6. DoomedBelow'
    BY <1>0, <2>1, <2>5 DEF DoomedBelow
  <2> QED
    BY <2>3, <2>6
<1>3. CASE EditItem
  <2>1. PICK r \in rows, new \in RowSet :
            /\ rows' = (rows \ {r}) \cup {new}
            /\ new.id = r.id /\ new.host = r.host /\ new.service = r.service
    BY <1>3, EditedRow DEF Types
  <2>2. \A x \in rows' : \E y \in rows :
            x.id = y.id /\ x.host = y.host /\ x.service = y.service
    BY <2>1
  <2>3. \A y \in rows : \E x \in rows' : x.id = y.id
    BY <2>1
  <2>4. Anchored'
    <3> SUFFICES ASSUME NEW x \in rows', NEW id \in {x.host, x.service} \ {NoId}
                 PROVE  \E s \in rows' : s.id = id
      BY DEF Anchored
    <3>1. PICK y \in rows : x.host = y.host /\ x.service = y.service
      BY <2>2
    <3>2. \E s \in rows : s.id = id
      BY <3>1 DEF Anchored
    <3> QED
      BY <2>3, <3>2
  <2>5. DoomedBelow'
    <3> SUFFICES ASSUME NEW q \in Process, NEW x \in rows',
                        x.host \in doomed[q] \/ x.service \in doomed[q]
                 PROVE  x.id \in doomed[q]
      BY <1>0 DEF DoomedBelow
    <3>1. PICK y \in rows : x.id = y.id /\ x.host = y.host /\ x.service = y.service
      BY <2>2
    <3> QED
      BY <3>1 DEF DoomedBelow
  <2> QED
    BY <2>4, <2>5
<1>2. CASE DeleteRow
  <2>1. PICK x \in rows : rows' = {s \in rows : s.id \notin Cascade({x.id})}
    BY <1>2 DEF DeleteRow
  <2>2. {x.id} \in SUBSET Nat
    BY DEF Types, TableTypes, RowSet
  <2>3. \A r \in rows : r.host \in Cascade({x.id}) \/ r.service \in Cascade({x.id})
                        => r.id \in Cascade({x.id})
    BY <2>2, CascadeBelow
  <2> QED
    BY <1>0, <2>1, <2>3 DEF Anchored, DoomedBelow
<1> QED
  BY <1>1, <1>2, <1>3

LEMMA StandsInvariant == Spec => [](Types /\ RowsInv /\ Stands)
<1>1. Init => Stands
  BY DEF Init, Stands, Anchored, DoomedBelow
<1>2. Types /\ RowsInv /\ Stands /\ [Next]_vars => Stands'
  <2> SUFFICES ASSUME Types, RowsInv, Stands, [Next]_vars PROVE Stands'
    OBVIOUS
  <2>1. ASSUME NEW p \in Process,
               BeginImport(p) \/ Look(p) \/ LookFails(p) \/ CommitFails(p) \/ Recover(p)
        PROVE  Stands'
    <3>1. rows' = rows /\ \A q \in Process : doomed'[q] \subseteq doomed[q]
      BY <2>1 DEF BeginImport, Look, LookFails, CommitFails, Recover, Raise, Clear, tables,
                  Types, LocalTypes
    <3>2. \A q \in Process : doomed'[q] = doomed[q] \/ doomed'[q] = {}
      BY <2>1 DEF BeginImport, Look, LookFails, CommitFails, Recover, Raise, Clear,
                  Types, LocalTypes
    <3> QED
      BY <3>1, <3>2 DEF Stands, Anchored, DoomedBelow
  <2>2. CASE UNCHANGED vars
    BY <2>2 DEF vars, tables, local, Stands, Anchored, DoomedBelow
  <2> QED
    BY <2>1, <2>2, StandsCommit, StandsCleanup, StandsEdit DEF Next, Import
<1> QED
  BY <1>1, <1>2, RowsInvariant, PTL DEF Spec

-----------------------------------------------------------------------------
(* Imports keep what they have stored *)

(* The phases an import has behind it *)
Behind(phase) ==
    CASE phase = "host" -> {}
      [] phase = "service" -> {"host"}
      [] phase = "vuln" -> {"host", "service"}
      [] OTHER -> {"host", "service", "vuln"}

(* What an undisturbed import has looked up is stored, or will be when it   *)
(* commits.                                                                 *)
Kept(p) ==
    \A i \in batch[p] :
        /\ i.kind \in Behind(pc[p]) => Stored(i, rows)
        /\ i.kind = pc[p] => i \in todo[p] \/ Stored(i, rows \cup ins[p])

KeptInv == \A p \in InImport : disturbed[p] \/ Kept(p)

LEMMA StoredMore ==
    ASSUME NEW i, NEW S, NEW T, S \subseteq T, Stored(i, S)
    PROVE  Stored(i, T)
BY DEF Stored

(* A commit keeps names and ids. *)
LEMMA StoredAfter ==
    ASSUME Types, NEW p \in Process, Commit(p), NEW i, NEW E,
           Stored(i, rows \cup E)
    PROVE  Stored(i, rows' \cup E)
<1>1. rows' = {Updated(r, p) : r \in rows} \cup ins[p]
  BY DEF Commit
<1>2. ASSUME NEW r \in rows \cup E
      PROVE  \E x \in rows' \cup E :
                 x.kind = r.kind /\ x.name = r.name /\ x.host = r.host /\ x.id = r.id
  <2>1. CASE r \in rows
    BY <1>1, <2>1, UpdatedRow DEF Types, TableTypes
  <2>2. CASE r \in E
    BY <2>2
  <2> QED
    BY <2>1, <2>2
<1>3. PICK h \in rows \cup E :
        /\ h.kind = "host" /\ h.name = i.addr
        /\ \/ i.kind = "host"
           \/ \E r \in rows \cup E : r.kind = i.kind /\ r.name = i.name /\ r.host = h.id
  BY DEF Stored
<1>4. PICK x \in rows' \cup E : x.kind = "host" /\ x.name = i.addr /\ x.id = h.id
  BY <1>2, <1>3
<1>5. ASSUME i.kind # "host"
      PROVE  \E y \in rows' \cup E : y.kind = i.kind /\ y.name = i.name /\ y.host = x.id
  BY <1>2, <1>3, <1>4, <1>5
<1> QED
  BY <1>4, <1>5 DEF Stored

(* A look finds the row of its item or adds it. *)
LEMMA StoredByLook ==
    ASSUME Types, NEW p \in Process, pc[p] \in Kinds, NEW i \in todo[p], ~CannotResolve(i)
    PROVE  Stored(i, rows \cup NewRows(i))
<1>0. Proper(i) /\ TableTypes
  BY ProperItems DEF Types
<1>1. CASE i.kind = "host"
  <2>1. CASE Matches(i) = {}
    <3>1. HostRow(i) \in NewRows(i) /\ HostRow(i).kind = "host" /\ HostRow(i).name = i.addr
      BY <1>0, <1>1, <2>1, HostRows DEF HostRow, Row, Proper
    <3> QED
      BY <1>1, <3>1 DEF Stored
  <2>2. CASE Matches(i) # {}
    BY <1>0, <1>1, <2>2, HostRows DEF Stored
  <2> QED
    BY <2>1, <2>2
<1>2. CASE i.kind # "host"
  <2>1. PICK h \in rows, srv \in Nat \cup {NoId} :
               /\ h.kind = "host" /\ h.name = i.addr /\ HostsAt(i.addr) = {h}
               /\ NewRows(i) = IF Matches(i) # {} THEN {}
                               ELSE {Row(nextId, i.kind, i.name, h.id, srv, i.full)}
    BY <1>0, <1>2, OtherRows
  <2>2. CASE Matches(i) = {}
    <3> DEFINE new == Row(nextId, i.kind, i.name, h.id, srv, i.full)
    <3>1. new.kind = i.kind /\ new.name = i.name /\ new.host = h.id /\ new \in NewRows(i)
      BY <2>1, <2>2 DEF Row
    <3> QED
      BY <2>1, <3>1 DEF Stored
  <2>3. CASE Matches(i) # {}
    <3>1. PICK r \in Matches(i) : TRUE
      BY <2>3
    <3>2. /\ r \in rows /\ r.kind = i.kind /\ r.name = i.name
          /\ r.host \in Ids(HostsAt(i.addr))
      BY <1>2, <3>1 DEF Matches, Of
    <3>3. r.host = h.id
      BY <2>1, <3>2 DEF Ids
    <3> QED
      BY <2>1, <3>2, <3>3 DEF Stored
  <2> QED
    BY <2>2, <2>3
<1> QED
  BY <1>1, <1>2

(* What others do while a process is in its import: they leave its own      *)
(* state alone, and disturb it if they remove anything.                     *)
LEMMA OthersImport ==
    ASSUME Types, NEW q \in InImport, ~disturbed'[q],
           \/ \E p \in Process \ {q} : Import(p) \/ Cleanup(p)
           \/ AddItem \/ EditItem \/ DeleteRow \/ UNCHANGED vars
    PROVE  /\ pc'[q] = pc[q] /\ batch'[q] = batch[q] /\ todo'[q] = todo[q]
           /\ ins'[q] = ins[q] /\ ~disturbed[q]
           /\ rows \subseteq rows' \/ \E p \in Process : Commit(p)
<1> USE DEF Types, LocalTypes, InImport, Disturb, tables, local
<1>1. ASSUME NEW p \in Process \ {q},
             BeginImport(p) \/ Look(p) \/ LookFails(p) \/ CommitFails(p) \/ Recover(p)
      PROVE  /\ pc'[q] = pc[q] /\ batch'[q] = batch[q] /\ todo'[q] = todo[q]
             /\ ins'[q] = ins[q] /\ ~disturbed[q] /\ rows' = rows
  BY <1>1 DEF BeginImport, Begin, Goto, Look, LookFails, CommitFails, Recover, Raise, Clear
<1>2. ASSUME NEW p \in Process \ {q}, Commit(p)
      PROVE  /\ pc'[q] = pc[q] /\ batch'[q] = batch[q] /\ todo'[q] = todo[q]
             /\ ins'[q] = ins[q] /\ ~disturbed[q]
  BY <1>2 DEF Commit, Goto
<1>3. ASSUME NEW p \in Process \ {q}, CommitCleanup(p)
      PROVE  /\ pc'[q] = pc[q] /\ batch'[q] = batch[q] /\ todo'[q] = todo[q]
             /\ ins'[q] = ins[q] /\ ~disturbed[q] /\ rows' = rows
  <2>1. /\ pc'[q] = pc[q] /\ batch'[q] = batch[q] /\ todo'[q] = todo[q]
        /\ ins'[q] = ins[q] /\ rows' = View(p)
    BY <1>3 DEF CommitCleanup, Clear, Goto
  <2>2. View(p) = rows /\ disturbed' = disturbed
    BY <1>3 DEF CommitCleanup
  <2> QED
    BY <2>1, <2>2
<1>4. ASSUME NEW p \in Process \ {q}, Cleanup(p), ~CommitCleanup(p)
      PROVE  /\ pc'[q] = pc[q] /\ batch'[q] = batch[q] /\ todo'[q] = todo[q]
             /\ ins'[q] = ins[q] /\ ~disturbed[q] /\ rows' = rows
  <2>1. /\ pc' = [pc EXCEPT ![p] = pc'[p]]
        /\ disturbed'[q] = disturbed[q]
        /\ UNCHANGED <<rows, nextId, batch, todo, ins, upd>>
    BY <1>4, CleanupSteps
  <2> QED
    BY <2>1
<1>5. CASE AddItem
  BY <1>5 DEF AddItem, Edit
<1>8. ~EditItem
  BY DEF EditItem
<1>6. CASE DeleteRow
  BY <1>6 DEF DeleteRow, Edit
<1>7. CASE UNCHANGED vars
  BY <1>7 DEF vars
<1> QED
  BY <1>1, <1>2, <1>3, <1>4, <1>5, <1>6, <1>7, <1>8 DEF Import

LEMMA KeptOthers ==
    ASSUME Types, NEW q \in InImport, ~disturbed'[q], disturbed[q] \/ Kept(q),
           \/ \E p \in Process \ {q} : Import(p) \/ Cleanup(p)
           \/ AddItem \/ EditItem \/ DeleteRow \/ UNCHANGED vars
    PROVE  Kept(q)'
<1>1. /\ pc'[q] = pc[q] /\ batch'[q] = batch[q] /\ todo'[q] = todo[q]
      /\ ins'[q] = ins[q] /\ Kept(q)
      /\ rows \subseteq rows' \/ \E p \in Process : Commit(p)
  BY OthersImport
<1>2. ASSUME NEW i, NEW E, Stored(i, rows \cup E)
      PROVE  Stored(i, rows' \cup E)
  <2>1. CASE rows \subseteq rows'
    BY <1>2, <2>1, StoredMore
  <2>2. CASE \E p \in Process : Commit(p)
    BY <1>2, <2>2, StoredAfter
  <2> QED
    BY <1>1, <2>1, <2>2
<1>3. ASSUME NEW i, Stored(i, rows)
      PROVE  Stored(i, rows')
  <2>1. Stored(i, rows \cup {})
    BY <1>3
  <2>2. Stored(i, rows' \cup {})
    BY <1>2, <2>1
  <2>3. rows' \cup {} = rows'
    OBVIOUS
  <2> QED
    BY <2>2, <2>3
<1> QED
  BY <1>1, <1>2, <1>3 DEF Kept

LEMMA KeptOwn ==
    ASSUME Types, NEW q \in Process, pc'[q] \in Kinds, ~disturbed'[q],
           KeptInv, Import(q) \/ Cleanup(q)
    PROVE  Kept(q)'
<1> USE DEF Types, LocalTypes
<1>1. CASE BeginImport(q)
  <2>1. pc'[q] = "host" /\ todo'[q] = ItemsOf(batch'[q], "host")
    BY <1>1 DEF BeginImport, Begin, Goto
  <2> QED
    BY <2>1 DEF Kept, Behind, ItemsOf
<1>2. CASE Look(q)
  <2>1. PICK i \in todo[q] :
          /\ pc[q] \in Kinds /\ ~CannotResolve(i)
          /\ ins' = [ins EXCEPT ![q] = @ \cup NewRows(i)]
          /\ todo' = [todo EXCEPT ![q] = @ \ {i}]
          /\ UNCHANGED <<rows, pc, batch, disturbed>>
    BY <1>2 DEF Look
  <2>2. Kept(q)
    BY <2>1 DEF KeptInv, InImport
  <2>3. Stored(i, rows \cup NewRows(i))
    BY <2>1, StoredByLook
  <2>4. /\ ins'[q] = ins[q] \cup NewRows(i) /\ todo'[q] = todo[q] \ {i}
        /\ rows' = rows /\ pc' = pc /\ batch' = batch
    BY <2>1
  <2>5. /\ rows \cup NewRows(i) \subseteq rows' \cup ins'[q]
        /\ rows \cup ins[q] \subseteq rows' \cup ins'[q]
    BY <2>4
  <2>6. ASSUME NEW j \in batch[q], j.kind = pc[q]
        PROVE  j \in todo'[q] \/ Stored(j, rows' \cup ins'[q])
    <3>1. CASE j = i
      BY <2>3, <2>5, <3>1, StoredMore
    <3>2. CASE Stored(j, rows \cup ins[q])
      BY <2>5, <3>2, StoredMore
    <3>3. CASE j # i /\ j \in todo[q]
      BY <2>4, <3>3
    <3> QED
      BY <2>2, <2>6, <3>1, <3>2, <3>3 DEF Kept
  <2> QED
    BY <2>2, <2>4, <2>6 DEF Kept
<1>3. CASE Commit(q)
  <2>1. /\ pc[q] \in Kinds /\ todo[q] = {} /\ pc'[q] = NextPhase(pc[q])
        /\ batch' = batch /\ ~disturbed[q]
    BY <1>3 DEF Commit, CanCommit, Goto, Disturb
  <2>2. /\ pc[q] \in {"host", "service", "vuln"}
        /\ Behind(pc'[q]) = Behind(pc[q]) \cup {pc[q]}
    BY <2>1 DEF NextPhase, Behind, Kinds
  <2>3. todo'[q] = ItemsOf(batch[q], pc'[q])
    BY <1>3, <2>1, <2>2 DEF Commit
  <2>4. Kept(q)
    BY <2>1 DEF KeptInv, InImport
  <2>5. rows' \cup ins[q] = rows' /\ rows \subseteq rows \cup ins[q]
    BY <1>3 DEF Commit
  <2>6. ASSUME NEW i \in batch[q], i.kind \in Behind(pc'[q])
        PROVE  Stored(i, rows')
    <3>1. Stored(i, rows \cup ins[q])
      BY <2>1, <2>2, <2>4, <2>5, <2>6, StoredMore DEF Kept
    <3>2. Stored(i, rows' \cup ins[q])
      BY <1>3, <3>1, StoredAfter
    <3> QED
      BY <2>5, <3>2
  <2> QED
    BY <2>1, <2>3, <2>6 DEF Kept, ItemsOf
<1>4. ~(LookFails(q) \/ CommitFails(q) \/ Recover(q))
  BY DEF LookFails, CommitFails, Recover, Raise, Goto, Kinds
<1>5. ~CommitCleanup(q)
  BY DEF CommitCleanup, Goto, Kinds
<1>6. ~(Cleanup(q) /\ ~CommitCleanup(q))
  BY CleanupSteps DEF Kinds, Statements
<1> QED
  BY <1>1, <1>2, <1>3, <1>4, <1>5, <1>6 DEF Import

LEMMA OthersMove ==
    ASSUME Types, NEW q \in Process,
           \/ \E p \in Process \ {q} : Import(p) \/ Cleanup(p)
           \/ AddItem \/ EditItem \/ DeleteRow \/ UNCHANGED vars
    PROVE  pc'[q] = pc[q]
<1> USE DEF Types, LocalTypes, Goto
<1>1. ASSUME NEW p \in Process \ {q}, Import(p)
      PROVE  pc'[q] = pc[q]
  BY <1>1 DEF Import, BeginImport, Begin, Look, LookFails, Commit, CommitFails,
              Recover, Raise
<1>2. ASSUME NEW p \in Process \ {q}, Cleanup(p)
      PROVE  pc'[q] = pc[q]
  <2>1. CASE CommitCleanup(p)
    BY <2>1 DEF CommitCleanup
  <2>2. CASE ~CommitCleanup(p)
    <3>1. pc' = [pc EXCEPT ![p] = pc'[p]]
      BY <1>2, <2>2, CleanupSteps
    <3> QED
      BY <3>1
  <2> QED
    BY <2>1, <2>2
<1> QED
  BY <1>1, <1>2 DEF AddItem, EditItem, DeleteRow, Edit, local, vars

LEMMA KeptInvariant == Spec => []KeptInv
<1>1. Init => KeptInv
  BY DEF Init, KeptInv, InImport, Kinds
<1>2. Types /\ KeptInv /\ [Next]_vars => KeptInv'
  <2> SUFFICES ASSUME Types, KeptInv, [Next]_vars, NEW q \in Process,
                      pc'[q] \in Kinds, ~disturbed'[q]
               PROVE  Kept(q)'
    BY DEF KeptInv, InImport
  <2>1. CASE Import(q) \/ Cleanup(q)
    BY <2>1, KeptOwn
  <2>2. CASE \/ \E p \in Process \ {q} : Import(p) \/ Cleanup(p)
             \/ AddItem \/ EditItem \/ DeleteRow \/ UNCHANGED vars
    <3>1. pc'[q] = pc[q]
      BY <2>2, OthersMove
    <3>2. q \in InImport
      BY <3>1 DEF InImport
    <3> QED
      BY <2>2, <3>2, KeptOthers DEF KeptInv
  <2> QED
    BY <2>1, <2>2 DEF Next
<1> QED
  BY <1>1, <1>2, TypesInvariant, PTL DEF Spec

(* An import during which nobody removed or renamed anything leaves all its *)
(* items in storage when it ends, whatever is imported, added and looked at *)
(* beside it (import_parsed, core.py:369-476).                              *)
THEOREM ImportsComplete == Spec => ImportComplete
<1>1. Types /\ KeptInv /\ [Next]_vars =>
        [\A p \in Process :
            pc[p] = "note" /\ pc'[p] = "idle" /\ ~disturbed[p] =>
                \A i \in batch[p] : Stored(i, rows')]_vars
  <2> SUFFICES ASSUME Types, KeptInv, [Next]_vars, NEW p \in Process,
                      pc[p] = "note", pc'[p] = "idle", ~disturbed[p], NEW i \in batch[p]
               PROVE  Stored(i, rows')
    OBVIOUS
  <2> USE DEF Types, LocalTypes
  <2>1. Commit(p)
    <3>1. ASSUME NEW q \in Process, Import(q), q # p \/ ~Commit(p)
          PROVE  pc'[p] # "idle"
      <4>1. CASE q # p
        BY <3>1, <4>1 DEF Import, BeginImport, Begin, Look, LookFails, Commit,
                          CommitFails, Recover, Raise, Goto
      <4>2. CASE q = p
        BY <3>1, <4>2 DEF Import, BeginImport, Begin, Look, LookFails,
                          CommitFails, Recover, Raise, Goto
      <4> QED
        BY <4>1, <4>2
    <3>2. ASSUME NEW q \in Process, Cleanup(q)
          PROVE  pc'[p] # "idle"
      <4>1. CASE CommitCleanup(q)
        BY <4>1 DEF CommitCleanup, Goto
      <4>2. CASE ~CommitCleanup(q)
        <5>1. /\ pc' = [pc EXCEPT ![q] = pc'[q]] /\ pc'[q] \in Statements
          BY <3>2, <4>2, CleanupSteps
        <5> QED
          BY <5>1 DEF Statements
      <4> QED
        BY <4>1, <4>2
    <3> QED
      BY <3>1, <3>2 DEF Next, AddItem, EditItem, DeleteRow, Edit, local, vars
  <2>2. Kept(p) /\ todo[p] = {} /\ ins[p] \subseteq rows'
    BY <2>1 DEF KeptInv, InImport, Commit, CanCommit, Kinds
  <2>3. i.kind \in Kinds
    BY DEF Item
  <2>4. Stored(i, rows \cup ins[p])
    BY <2>2, <2>3, StoredMore DEF Kept, Behind, Kinds
  <2>5. Stored(i, rows' \cup ins[p]) /\ rows' \cup ins[p] = rows'
    BY <2>1, <2>2, <2>4, StoredAfter
  <2> QED
    BY <2>5
<1> QED
  BY <1>1, TypesInvariant, KeptInvariant, PTL DEF Spec, ImportComplete

-----------------------------------------------------------------------------
(* Cleanups delete garbage only *)

(* A host without info and without rows of some kinds that are not deleted *)
BareHost(p, id, kinds) == \A r \in rows :
    /\ r.id = id => r.kind = "host" /\ ~r.full
    /\ r.host = id /\ r.id \notin doomed[p] => r.kind \notin kinds

AfterVulns == {"no notes", "delete bare", "one note", "hostnames", "delete named"}

(* What the statements of an undisturbed cleanup have read still holds when *)
(* it deletes by it.                                                        *)
ChosenRows(p) == \A r \in rows : r.id \in doomed[p] => Garbage(r)
ChosenServices(p) ==
    pc[p] = "delete services" =>
        \A r \in rows : r.id \in sel[p] => r.kind = "service" /\ ~r.full
ChosenHosts(p) ==
    /\ pc[p] = "no services" => \A id \in sel[p] : BareHost(p, id, {})
    /\ pc[p] = "no vulns" => \A id \in sel[p] : BareHost(p, id, {"service"})
    /\ pc[p] \in AfterVulns => \A id \in bare[p] : BareHost(p, id, {"service", "vuln"})
    /\ pc[p] \in {"delete bare", "delete named"} => sel[p] \subseteq bare[p]
ChosenNotes(p) ==
    /\ pc[p] = "delete bare" => \A id \in sel[p] : Children(p, "note", id) = {}
    /\ pc[p] = "hostnames" => \A id \in sel[p] : \A r, s \in Children(p, "note", id) : r = s
    /\ pc[p] = "delete named" =>
           \A id \in sel[p] : \A r \in Children(p, "note", id) : r.name = "hostnames"

Chosen(p) == ChosenRows(p) /\ ChosenServices(p) /\ ChosenHosts(p) /\ ChosenNotes(p)
ChosenInv == \A p \in InCleanup : disturbed[p] \/ Chosen(p)

LEMMA OneRow ==
    ASSUME RowsInv, NEW r \in rows, NEW s \in rows, r.id = s.id
    PROVE  r = s
BY DEF RowsInv, IdsDiffer, All

LEMMA OthersCleanup ==
    ASSUME Types, NEW q \in InCleanup, ~disturbed'[q],
           \/ \E p \in Process \ {q} : Import(p) \/ Cleanup(p)
           \/ AddItem \/ EditItem \/ DeleteRow \/ UNCHANGED vars
    PROVE  /\ pc'[q] = pc[q] /\ sel'[q] = sel[q] /\ bare'[q] = bare[q]
           /\ doomed'[q] = doomed[q] /\ ~disturbed[q] /\ rows' \subseteq rows
<1> USE DEF Types, LocalTypes, InCleanup, Disturb, tables, local
<1>1. ASSUME NEW p \in Process \ {q},
             BeginImport(p) \/ Look(p) \/ LookFails(p) \/ CommitFails(p) \/ Recover(p)
      PROVE  /\ pc'[q] = pc[q] /\ sel'[q] = sel[q] /\ bare'[q] = bare[q]
             /\ doomed'[q] = doomed[q] /\ ~disturbed[q] /\ rows' = rows
  BY <1>1 DEF BeginImport, Begin, Goto, Look, LookFails, CommitFails, Recover, Raise, Clear
<1>2. ASSUME NEW p \in Process \ {q}
      PROVE  ~Commit(p)
  BY DEF Commit
<1>3. ASSUME NEW p \in Process \ {q}, CommitCleanup(p)
      PROVE  /\ pc'[q] = pc[q] /\ sel'[q] = sel[q] /\ bare'[q] = bare[q]
             /\ doomed'[q] = doomed[q] /\ ~disturbed[q] /\ rows' \subseteq rows
  BY <1>3 DEF CommitCleanup, Clear, Goto, View
<1>4. ASSUME NEW p \in Process \ {q}, Cleanup(p), ~CommitCleanup(p)
      PROVE  /\ pc'[q] = pc[q] /\ sel'[q] = sel[q] /\ bare'[q] = bare[q]
             /\ doomed'[q] = doomed[q] /\ ~disturbed[q] /\ rows' \subseteq rows
  <2>1. /\ pc' = [pc EXCEPT ![p] = pc'[p]] /\ sel' = [sel EXCEPT ![p] = sel'[p]]
        /\ bare' = [bare EXCEPT ![p] = bare'[p]]
        /\ \/ doomed' = doomed
           \/ doomed' = [doomed EXCEPT ![p] = @ \cup Cascade(sel[p] \cap Ids(rows))]
        /\ disturbed'[q] = disturbed[q] /\ rows' = rows
    BY <1>4, CleanupSteps
  <2> QED
    BY <2>1
<1>5. ~AddItem /\ ~EditItem
  BY DEF AddItem, EditItem
<1>6. CASE DeleteRow
  BY <1>6 DEF DeleteRow, Edit
<1>7. CASE UNCHANGED vars
  BY <1>7 DEF vars
<1> QED
  BY <1>1, <1>2, <1>3, <1>4, <1>5, <1>6, <1>7 DEF Import

(* What is garbage stays garbage while rows go. *)
LEMMA GarbageStays ==
    ASSUME Types, RowsInv, Stands', rows' \subseteq rows, NEW r \in rows', Garbage(r)
    PROVE  Garbage(r)'
<1>1. CASE r.kind \in {"service", "host"}
  BY <1>1 DEF Garbage
<1>2. CASE r.kind \notin {"service", "host"} /\ r.name = "hostnames"
  BY <1>2 DEF Garbage
<1>3. CASE r.kind \notin {"service", "host"} /\ r.name # "hostnames"
  <2>1. PICK s \in Of("service") : s.id = r.service /\ ~s.full
    BY <1>3 DEF Garbage
  <2>2. r.service # NoId => \E x \in rows' : x.id = r.service
    BY DEF Stands, Anchored
  <2>3. s \in rows /\ s.kind = "service"
    BY <2>1 DEF Of
  <2>4. CASE \E x \in rows' : x.id = r.service
    <3>1. PICK x \in rows' : x.id = r.service
      BY <2>4
    <3>2. x = s
      BY <2>1, <2>3, <3>1, OneRow
    <3>3. s \in Of("service")'
      BY <2>3, <3>1, <3>2 DEF Of
    <3> QED
      BY <1>3, <2>1, <3>3 DEF Garbage
  <2>5. CASE r.service = NoId
    BY <2>1, <2>3, <2>5 DEF Types, TableTypes, RowSet
  <2> QED
    BY <2>2, <2>4, <2>5
<1> QED
  BY <1>1, <1>2, <1>3

LEMMA ChosenOthers ==
    ASSUME Types, RowsInv, Stands', NEW q \in InCleanup, ~disturbed'[q],
           disturbed[q] \/ Chosen(q),
           \/ \E p \in Process \ {q} : Import(p) \/ Cleanup(p)
           \/ AddItem \/ EditItem \/ DeleteRow \/ UNCHANGED vars
    PROVE  Chosen(q)'
<1>1. /\ pc'[q] = pc[q] /\ sel'[q] = sel[q] /\ bare'[q] = bare[q]
      /\ doomed'[q] = doomed[q] /\ Chosen(q) /\ rows' \subseteq rows
  BY OthersCleanup
<1>2. ChosenRows(q)'
  BY <1>1, GarbageStays DEF Chosen, ChosenRows
<1>3. ASSUME NEW id, NEW kinds, BareHost(q, id, kinds)
      PROVE  BareHost(q, id, kinds)'
  BY <1>1, <1>3 DEF BareHost
<1>4. \A id : Children(q, "note", id)' \subseteq Children(q, "note", id)
  BY <1>1 DEF Children, View
<1>5. ChosenServices(q)'
  BY <1>1 DEF Chosen, ChosenServices
<1>7. ChosenHosts(q)'
  BY <1>1, <1>3 DEF Chosen, ChosenHosts
<1>6. ChosenNotes(q)'
  BY <1>1, <1>4 DEF Chosen, ChosenNotes
<1> QED
  BY <1>2, <1>5, <1>6, <1>7 DEF Chosen

LEMMA HostIdOf ==
    ASSUME RowsInv, NEW q \in Process, NEW id \in HostIds(q), NEW r \in rows, r.id = id
    PROVE  r.kind = "host"
<1>1. PICK s \in rows : s.kind = "host" /\ s.id = id
  BY DEF HostIds, View
<1> QED
  BY <1>1, OneRow

(* Deleting hosts without info, services and vulns, and with no note but    *)
(* their hostnames                                                          *)
LEMMA CascadeGarbage ==
    ASSUME Types, RowsInv, NEW q \in Process, NEW X \in SUBSET Nat,
           ChosenRows(q), X \subseteq Ids(rows),
           \A id \in X : BareHost(q, id, {"service", "vuln"}),
           \A id \in X : \A r \in Children(q, "note", id) : r.name = "hostnames",
           NEW r \in rows, r.id \in Cascade(X)
    PROVE  Garbage(r)
<1>1. \A x \in rows : x.id \in X => x.kind = "host" /\ ~x.full
  BY DEF BareHost
<1>2. CASE r.id \in X
  BY <1>1, <1>2 DEF Garbage
<1>3. CASE r.id \notin X
  <2>1. PICK s \in rows : s.id = r.id /\ (s.host \in X \/ s.service \in X)
    BY <1>3 DEF Cascade
  <2>2. s = r
    BY <2>1, OneRow
  <2>3. CASE r.service \in X
    <3>1. PICK x \in rows : x.id = r.service
      BY <2>3 DEF Ids
    <3>2. x.kind = "service"
      BY <3>1 DEF RowsInv, Refers, All
    <3> QED
      BY <1>1, <2>3, <3>1, <3>2
  <2>4. CASE r.host \in X /\ r.id \in doomed[q]
    BY <2>4 DEF ChosenRows
  <2>5. CASE r.host \in X /\ r.id \notin doomed[q]
    <3>1. r.kind \notin {"service", "vuln"}
      BY <2>5 DEF BareHost
    <3>2. r.kind # "host"
      BY <2>5 DEF RowsInv, Shaped, All
    <3>3. r.kind = "note"
      BY <3>1, <3>2 DEF Types, TableTypes, RowSet, Kinds
    <3>4. r \in Children(q, "note", r.host)
      BY <2>5, <3>3 DEF Children, View
    <3> QED
      BY <2>5, <3>3, <3>4 DEF Garbage
  <2> QED
    BY <2>1, <2>2, <2>3, <2>4, <2>5
<1> QED
  BY <1>2, <1>3

(* DELETE of services that are not open *)
LEMMA CascadeServices ==
    ASSUME Types, RowsInv, NEW q \in Process, NEW X \in SUBSET Nat,
           X \subseteq Ids(rows),
           \A r \in rows : r.id \in X => r.kind = "service" /\ ~r.full,
           NEW r \in rows, r.id \in Cascade(X)
    PROVE  Garbage(r)
<1>1. CASE r.id \in X
  BY <1>1 DEF Garbage
<1>2. CASE r.id \notin X
  <2>1. PICK s \in rows : s.id = r.id /\ (s.host \in X \/ s.service \in X)
    BY <1>2 DEF Cascade
  <2>2. s = r
    BY <2>1, OneRow
  <2>3. CASE r.host \in X
    <3>1. PICK x \in rows : x.id = r.host
      BY <2>3 DEF Ids
    <3>2. x.kind = "host"
      BY <3>1 DEF RowsInv, Refers, All
    <3> QED
      BY <2>3, <3>1, <3>2
  <2>4. CASE r.service \in X
    <3>1. PICK x \in rows : x.id = r.service
      BY <2>4 DEF Ids
    <3>2. x \in Of("service") /\ ~x.full
      BY <2>4, <3>1 DEF Of
    <3>3. r.kind \notin {"host", "service"}
      <4>1. r.service # NoId
        BY <2>4
      <4> QED
        BY <4>1 DEF RowsInv, Shaped, All
    <3> QED
      BY <3>1, <3>2, <3>3 DEF Garbage
  <2> QED
    BY <2>1, <2>2, <2>3, <2>4
<1> QED
  BY <1>1, <1>2

LEMMA ChosenDelete ==
    ASSUME Types, RowsInv, NEW q \in Process, Chosen(q),
           DeleteServices(q) \/ DeleteBare(q) \/ DeleteNamed(q)
    PROVE  Chosen(q)'
<1> USE DEF Types, LocalTypes
<1> DEFINE X == sel[q] \cap Ids(rows)
<1>1. PICK here, there : /\ Delete(q, here, there)
                         /\ \/ here = "delete services" /\ there = "no info"
                            \/ here = "delete bare" /\ there = "one note"
                            \/ here = "delete named" /\ there = "commit"
  BY DEF DeleteServices, DeleteBare, DeleteNamed
<1>2. /\ pc[q] = here /\ pc'[q] = there /\ rows' = rows
      /\ doomed'[q] = doomed[q] \cup Cascade(X)
      /\ sel'[q] = {} /\ bare' = bare
  BY <1>1 DEF Delete, Goto, tables
<1>3. X \in SUBSET Nat /\ X \subseteq Ids(rows) /\ X \subseteq sel[q]
  OBVIOUS
<1> HIDE DEF X
<1>4. ASSUME NEW r \in rows, r.id \in Cascade(X)
      PROVE  Garbage(r)
  <2>1. CASE here = "delete services"
    <3>1. \A x \in rows : x.id \in X => x.kind = "service" /\ ~x.full
      BY <1>2, <1>3, <2>1 DEF Chosen, ChosenServices
    <3> QED
      BY <1>3, <1>4, <3>1, CascadeServices
  <2>2. CASE here \in {"delete bare", "delete named"}
    <3>1. \A id \in X : BareHost(q, id, {"service", "vuln"})
      BY <1>2, <1>3, <2>2 DEF Chosen, ChosenHosts, AfterVulns
    <3>2. \A id \in X : \A x \in Children(q, "note", id) : x.name = "hostnames"
      BY <1>2, <1>3, <2>2 DEF Chosen, ChosenNotes
    <3> QED
      BY <1>3, <1>4, <3>1, <3>2, CascadeGarbage DEF Chosen
  <2> QED
    BY <1>1, <2>1, <2>2
<1>5. \A r : Garbage(r)' <=> Garbage(r)
  BY <1>2 DEF Garbage, Of
<1>6. ChosenRows(q)'
  BY <1>2, <1>4, <1>5 DEF Chosen, ChosenRows
<1>7. ASSUME NEW id, NEW kinds, BareHost(q, id, kinds)
      PROVE  BareHost(q, id, kinds)'
  BY <1>2, <1>7 DEF BareHost
<1>8. ChosenHosts(q)'
  BY <1>1, <1>2, <1>7 DEF Chosen, ChosenHosts, AfterVulns
<1>9. ChosenServices(q)' /\ ChosenNotes(q)'
  BY <1>1, <1>2 DEF ChosenServices, ChosenNotes
<1> QED
  BY <1>6, <1>8, <1>9 DEF Chosen

LEMMA ChosenSelect ==
    ASSUME Types, RowsInv, NEW q \in Process, Chosen(q),
           \/ NoInfo(q) \/ NoServices(q) \/ NoVulns(q) \/ NoNotes(q)
           \/ OneNote(q) \/ Hostnames(q)
    PROVE  Chosen(q)'
<1> USE DEF Types, LocalTypes, Select, Goto, tables
<1>1. rows' = rows /\ doomed' = doomed
  BY DEF NoInfo, NoServices, NoVulns, NoNotes, OneNote, Hostnames
<1>2. /\ \A r : Garbage(r)' <=> Garbage(r)
      /\ \A id : Children(q, "note", id)' = Children(q, "note", id)
      /\ View(q)' = View(q) /\ HostIds(q)' = HostIds(q)
  BY <1>1 DEF Garbage, Of, Children, View, HostIds
<1>3. ChosenRows(q)'
  BY <1>1, <1>2 DEF Chosen, ChosenRows
<1>4. ASSUME NEW id, NEW kinds, BareHost(q, id, kinds)
      PROVE  BareHost(q, id, kinds)'
  BY <1>1, <1>4 DEF BareHost
<1>5. ASSUME NEW id \in HostIds(q), NEW kinds, NEW kind,
             BareHost(q, id, kinds), Children(q, kind, id) = {}
      PROVE  BareHost(q, id, kinds \cup {kind})
  BY <1>5 DEF BareHost, Children, View
<1>6. CASE NoInfo(q)
  <2>1. pc'[q] = "no services"
        /\ sel'[q] = {id \in HostIds(q) : \E r \in View(q) : r.id = id /\ ~r.full}
    BY <1>6 DEF NoInfo
  <2>2. ASSUME NEW id \in sel'[q]
        PROVE  BareHost(q, id, {})
    <3>1. PICK r \in rows : r.id = id /\ ~r.full
      BY <2>1 DEF View
    <3>2. \A x \in rows : x.id = id => x.kind = "host" /\ ~x.full
      BY <2>1, <3>1, HostIdOf, OneRow
    <3> QED
      BY <3>2 DEF BareHost
  <2>3. ChosenHosts(q)'
    BY <1>4, <2>1, <2>2 DEF ChosenHosts, AfterVulns
  <2> QED
    BY <1>3, <2>1, <2>3 DEF Chosen, ChosenServices, ChosenNotes
<1>7. CASE NoServices(q)
  <2>1. pc[q] = "no services" /\ pc'[q] = "no vulns"
        /\ sel'[q] = {id \in sel[q] : id \in HostIds(q) /\ Children(q, "service", id) = {}}
    BY <1>7 DEF NoServices
  <2>2. ASSUME NEW id \in sel'[q]
        PROVE  BareHost(q, id, {"service"})
    <3>1. BareHost(q, id, {} \cup {"service"})
      BY <1>5, <2>1 DEF Chosen, ChosenHosts
    <3> QED
      BY <3>1 DEF BareHost
  <2>3. ChosenHosts(q)'
    BY <1>4, <2>1, <2>2 DEF ChosenHosts, AfterVulns
  <2> QED
    BY <1>3, <2>1, <2>3 DEF Chosen, ChosenServices, ChosenNotes
<1>8. CASE NoVulns(q)
  <2>1. pc[q] = "no vulns" /\ pc'[q] = "no notes" /\ sel'[q] = {}
        /\ bare'[q] = {id \in sel[q] : id \in HostIds(q) /\ Children(q, "vuln", id) = {}}
    BY <1>8 DEF NoVulns
  <2>2. ASSUME NEW id \in bare'[q]
        PROVE  BareHost(q, id, {"service", "vuln"})
    <3>1. BareHost(q, id, {"service"} \cup {"vuln"})
      BY <1>5, <2>1 DEF Chosen, ChosenHosts
    <3> QED
      BY <3>1 DEF BareHost
  <2>3. ChosenHosts(q)'
    BY <1>4, <2>1, <2>2 DEF ChosenHosts, AfterVulns
  <2> QED
    BY <1>3, <2>1, <2>3 DEF Chosen, ChosenServices, ChosenNotes
<1>9. CASE NoNotes(q) \/ OneNote(q) \/ Hostnames(q)
  <2>1. pc[q] \in AfterVulns /\ pc'[q] \in AfterVulns /\ bare' = bare
        /\ (pc'[q] \in {"delete bare", "delete named"} => sel'[q] \subseteq bare[q])
    <3>1. CASE NoNotes(q)
      BY <3>1 DEF NoNotes, AfterVulns
    <3>2. CASE OneNote(q)
      BY <3>2 DEF OneNote, AfterVulns
    <3>3. CASE Hostnames(q)
      <4>1. /\ pc[q] = "hostnames" /\ pc'[q] = "delete named" /\ bare' = bare
            /\ sel'[q] = {id \in sel[q] \cap bare[q] :
                              \E r \in Children(q, "note", id) : r.name = "hostnames"}
        BY <3>3 DEF Hostnames
      <4> QED
        BY <4>1 DEF AfterVulns
    <3> QED
      BY <1>9, <3>1, <3>2, <3>3
  <2>2. ChosenHosts(q)'
    BY <1>4, <2>1 DEF Chosen, ChosenHosts, AfterVulns
  <2>3. ChosenNotes(q)'
    <3>1. CASE NoNotes(q)
      BY <1>2, <3>1 DEF NoNotes, ChosenNotes
    <3>2. CASE OneNote(q)
      <4>1. pc'[q] = "hostnames"
            /\ sel'[q] = {id \in HostIds(q) : Cardinality(Children(q, "note", id)) = 1}
        BY <3>2 DEF OneNote
      <4>2. ASSUME NEW id \in sel'[q]
            PROVE  \A r, s \in Children(q, "note", id) : r = s
        <5>1. Children(q, "note", id) \in SUBSET rows
          BY DEF Children, View
        <5>2. IsFiniteSet(Children(q, "note", id))
          BY <5>1, FS_Subset DEF TableTypes
        <5> QED
          BY <4>1, <5>2, FS_Singleton
      <4> QED
        BY <1>2, <4>1, <4>2 DEF ChosenNotes
    <3>3. CASE Hostnames(q)
      <4>1. pc[q] = "hostnames" /\ pc'[q] = "delete named"
            /\ sel'[q] = {id \in sel[q] \cap bare[q] :
                              \E r \in Children(q, "note", id) : r.name = "hostnames"}
        BY <3>3 DEF Hostnames
      <4>2. ASSUME NEW id \in sel'[q], NEW r \in Children(q, "note", id)
            PROVE  r.name = "hostnames"
        <5>1. id \in sel[q] /\ \E s \in Children(q, "note", id) : s.name = "hostnames"
          BY <4>1
        <5>2. \A s, t \in Children(q, "note", id) : s = t
          BY <4>1, <5>1 DEF Chosen, ChosenNotes
        <5> QED
          BY <5>1, <5>2
      <4>3. ASSUME NEW id \in sel'[q]
            PROVE  \A r \in Children(q, "note", id)' : r.name = "hostnames"
        <5>1. Children(q, "note", id)' = Children(q, "note", id)
          BY <1>2
        <5> QED
          BY <4>2, <5>1
      <4> QED
        BY <4>1, <4>3 DEF ChosenNotes
    <3> QED
      BY <1>9, <3>1, <3>2, <3>3
  <2> QED
    BY <1>3, <2>1, <2>2, <2>3 DEF Chosen, ChosenServices, AfterVulns
<1> QED
  BY <1>6, <1>7, <1>8, <1>9

LEMMA ChosenOwn ==
    ASSUME Types, RowsInv, NEW q \in Process, q \in InCleanup', ~disturbed'[q],
           ChosenInv, Import(q) \/ Cleanup(q)
    PROVE  Chosen(q)'
<1> USE DEF Types, LocalTypes
<1>1. pc'[q] \notin Kinds \cup {"idle", "failed"}
  BY DEF InCleanup
<1>2. ~Import(q)
  <2>1. ~BeginImport(q) /\ ~LookFails(q) /\ ~CommitFails(q) /\ ~Recover(q)
    BY <1>1 DEF BeginImport, Begin, LookFails, CommitFails, Recover, Raise, Goto, Kinds
  <2>2. ~Look(q)
    BY <1>1 DEF Look
  <2>3. ~Commit(q)
    BY <1>1 DEF Commit, CanCommit, Goto, NextPhase, Kinds
  <2> QED
    BY <2>1, <2>2, <2>3 DEF Import
<1>3. ~CommitCleanup(q)
  BY <1>1 DEF CommitCleanup, Goto
<1>4. CASE BeginCleanup(q)
  <2>1. /\ pc[q] = "idle" /\ pc'[q] = "delete services" /\ rows' = rows /\ doomed' = doomed
        /\ sel'[q] = Ids({r \in Of("service") : ~r.full})
    BY <1>4 DEF BeginCleanup, Begin, Goto, tables
  <2>2. doomed[q] = {}
    BY <2>1 DEF Phases, Statements
  <2>3. ASSUME NEW r \in rows, r.id \in sel'[q]
        PROVE  r.kind = "service" /\ ~r.full
    <3> DEFINE S == {x \in Of("service") : ~x.full}
    <3>0. r.id \in Ids(S)
      BY <2>1, <2>3
    <3>1. PICK s \in S : r.id = s.id
      <4> HIDE DEF S
      <4> QED
        BY <3>0 DEF Ids
    <3>2. s \in rows /\ s.kind = "service" /\ ~s.full
      BY DEF Of
    <3> QED
      BY <3>1, <3>2, OneRow
  <2> QED
    BY <2>1, <2>2, <2>3
       DEF Chosen, ChosenRows, ChosenServices, ChosenHosts, ChosenNotes, AfterVulns
<1>5. CASE ~BeginCleanup(q)
  <2>1. disturbed' = disturbed /\ pc[q] \in Statements
    BY <1>2, <1>3, <1>5
       DEF Cleanup, DeleteServices, DeleteBare, DeleteNamed, NoInfo, NoServices, NoVulns,
           NoNotes, OneNote, Hostnames, Delete, Select, Statements
  <2>2. Chosen(q)
    BY <2>1 DEF ChosenInv, InCleanup, Statements, Kinds
  <2> QED
    BY <1>2, <1>3, <1>5, <2>2, ChosenDelete, ChosenSelect DEF Cleanup
<1> QED
  BY <1>4, <1>5

LEMMA ChosenInvariant == Spec => []ChosenInv
<1>1. Init => ChosenInv
  BY DEF Init, ChosenInv, InCleanup
<1>2. Types /\ RowsInv /\ Stands' /\ ChosenInv /\ [Next]_vars => ChosenInv'
  <2> SUFFICES ASSUME Types, RowsInv, Stands', ChosenInv, [Next]_vars,
                      NEW q \in Process, q \in InCleanup', ~disturbed'[q]
               PROVE  Chosen(q)'
    BY DEF ChosenInv, InCleanup
  <2>1. CASE Import(q) \/ Cleanup(q)
    BY <2>1, ChosenOwn
  <2>2. CASE \/ \E p \in Process \ {q} : Import(p) \/ Cleanup(p)
             \/ AddItem \/ EditItem \/ DeleteRow \/ UNCHANGED vars
    <3>1. q \in InCleanup
      BY <2>2, OthersMove DEF InCleanup
    <3> QED
      BY <2>2, <3>1, ChosenOthers DEF ChosenInv
  <2> QED
    BY <2>1, <2>2 DEF Next
<1> QED
  BY <1>1, <1>2, StandsInvariant, PTL DEF Spec

(* A cleanup during which nobody stored anything deletes, of what is stored *)
(* when it commits, closed services, hosts without info and what is under   *)
(* such rows as garbage, whatever its statements have read rows by that     *)
(* others delete meanwhile (cleanup_storage, core.py:518-561).              *)
THEOREM CleanupsSpare == Spec => CleanupSpares
<1>1. Types /\ ChosenInv =>
        [\A p \in Process :
            CommitCleanup(p) /\ ~disturbed[p] => \A r \in rows \ rows' : Garbage(r)]_vars
  <2> SUFFICES ASSUME Types, ChosenInv, NEW p \in Process, CommitCleanup(p),
                      ~disturbed[p], NEW r \in rows \ rows'
               PROVE  Garbage(r)
    OBVIOUS
  <2>1. ChosenRows(p)
    BY DEF CommitCleanup, ChosenInv, Chosen, InCleanup, Kinds
  <2>2. r.id \in doomed[p]
    BY DEF CommitCleanup, View
  <2> QED
    BY <2>1, <2>2 DEF ChosenRows
<1> QED
  BY <1>1, TypesInvariant, ChosenInvariant, PTL DEF CleanupSpares

-----------------------------------------------------------------------------
(* No row twice, where one process imports *)

OneImports == \A p, q \in Process : "import" \in Ops[p] /\ "import" \in Ops[q] => p = q

Same(r, s) ==
    r.kind = s.kind /\ r.name = s.name /\ r.host = s.host /\ r.service = s.service

(* What a row stands under is there, and no operator has typed it.          *)
Kin(r, there) ==
    \A id \in {r.host, r.service} \ {NoId} : \E s \in there : s.id = id /\ ~s.manual

(* An item already looked up that a pending row stands for.  The host or    *)
(* service the row was made for may have been deleted or renamed; while it  *)
(* is there as imported, it is that of the item.                            *)
From(i, r) ==
    /\ \/ r.kind = i.kind /\ r.name = i.name /\ (i.service = NoService <=> r.service = NoId)
       \/ i.kind = "host" /\ r.kind = "note" /\ r.name = "hostnames" /\ r.service = NoId
    /\ r.kind # "host" => \A h \in All : h.id = r.host /\ ~h.manual => h.name = i.addr
    /\ r.service # NoId => \A s \in All : s.id = r.service /\ ~s.manual => s.name = i.service

Origins == \A p \in Process : \A r \in ins[p] :
    pc[p] \in Kinds /\ \E i \in ItemsOf(batch[p], pc[p]) \ todo[p] : From(i, r)

(* Nothing is pending twice, nor what is stored already. *)
Fresh == \A p \in Process : \A r \in ins[p] :
    Kin(r, All) => /\ \A s \in ins[p] : Same(r, s) => r = s
                   /\ \A s \in rows : ~s.manual => ~Same(r, s)

NewInv == Unique /\ Origins /\ Fresh

(* A row of an item is not stored yet. *)
LEMMA NewNotStored ==
    ASSUME TableTypes, Shaped, NEW i, Proper(i), ~CannotResolve(i),
           NEW r \in NewRows(i), NEW s \in rows
    PROVE  ~Same(r, s)
<1> SUFFICES ASSUME Same(r, s) PROVE FALSE
  OBVIOUS
<1>1. CASE i.kind = "host" /\ r = HostRow(i) /\ Matches(i) = {}
  <2>1. s.kind = "host" /\ s.name = i.name /\ s.service = NoId
    BY <1>1 DEF Same, HostRow, Row
  <2>2. s \in Matches(i)
    BY <1>1, <2>1 DEF Matches, Of, Proper
  <2> QED
    BY <1>1, <2>2
<1>2. CASE i.kind = "host" /\ r = NamesRow(i) /\ Matches(HostnamesOf(i)) = {}
  <2>1. s.kind = "note" /\ s.name = "hostnames" /\ s.service = NoId /\ s.host = HostId(i)
    BY <1>2 DEF Same, NamesRow, Row
  <2>2. CASE Matches(i) = {}
    <3>1. s.host = nextId
      BY <1>2, <2>1, <2>2, HostRows
    <3>2. s \in All /\ nextId \in Nat
      BY DEF All, TableTypes
    <3> QED
      BY <3>1, <3>2 DEF Shaped
  <2>3. CASE Matches(i) # {}
    <3>1. PICK h \in Matches(i) : s.host = h.id
      BY <1>2, <2>1, <2>3, HostRows
    <3>2. h \in HostsAt(i.addr)
      BY <1>2, HostRows DEF HostsAt, Of
    <3>3. s.host \in Ids(HostsAt(i.addr))
      BY <3>1, <3>2 DEF Ids
    <3>4. /\ HostnamesOf(i).kind = "note" /\ HostnamesOf(i).name = "hostnames"
          /\ HostnamesOf(i).addr = i.addr /\ HostnamesOf(i).service = NoService
      BY <1>2 DEF HostnamesOf, Proper, Item
    <3>5. s \in Matches(HostnamesOf(i))
      BY <2>1, <3>3, <3>4 DEF Matches, Of
    <3> QED
      BY <1>2, <3>5
  <2> QED
    BY <2>2, <2>3
<1>3. CASE i.kind # "host"
  <2>1. PICK h \in rows, srv \in Nat \cup {NoId} :
               /\ h.kind = "host" /\ h.name = i.addr /\ HostsAt(i.addr) = {h}
               /\ i.service = NoService <=> srv = NoId
               /\ srv # NoId => \E x \in rows :
                      /\ x.id = srv /\ x.kind = "service" /\ x.name = i.service
                      /\ x.host = h.id /\ ServicesAt(i.addr, i.service) = {x}
               /\ NewRows(i) = IF Matches(i) # {} THEN {}
                               ELSE {Row(nextId, i.kind, i.name, h.id, srv, i.full)}
    BY <1>3, OtherRows
  <2>2. Matches(i) = {} /\ r = Row(nextId, i.kind, i.name, h.id, srv, i.full)
    BY <2>1
  <2>3. s.kind = i.kind /\ s.name = i.name /\ s.host = h.id /\ s.service = srv
    BY <2>2 DEF Same, Row
  <2>4. s.host \in Ids(HostsAt(i.addr))
    BY <2>1, <2>3 DEF Ids
  <2>5. i.service # NoService => s.service \in Ids(ServicesAt(i.addr, i.service))
    BY <2>1, <2>3 DEF Ids
  <2>6. s \in Matches(i)
    BY <2>1, <2>3, <2>4, <2>5 DEF Matches, Of
  <2> QED
    BY <2>2, <2>6
<1>4. i.kind = "host" => \/ r = HostRow(i) /\ Matches(i) = {}
                         \/ r = NamesRow(i) /\ Matches(HostnamesOf(i)) = {}
  BY HostRows
<1> QED
  BY <1>1, <1>2, <1>3, <1>4

(* Nor does another item of the phase stand for it. *)
LEMMA NewNotPending ==
    ASSUME Types, RowsInv, NEW p \in Process, pc[p] \in Kinds,
           NEW i \in todo[p], ~CannotResolve(i), NEW r \in NewRows(i),
           NEW j \in ItemsOf(batch[p], pc[p]) \ todo[p],
           NEW s \in ins[p], From(j, s), Kin(r, All \cup NewRows(i))
    PROVE  ~Same(r, s)
<1> SUFFICES ASSUME Same(r, s) PROVE FALSE
  OBVIOUS
<1> DEFINE N == NewRows(i)
<1>1. /\ Proper(i) /\ i \in batch[p] /\ i.kind = pc[p]
      /\ j \in batch[p] /\ j.kind = pc[p] /\ batch[p] \in Parsed[p] /\ i # j
  BY ProperItems DEF ItemsOf, Types, Phases
<1>2. /\ j.kind = "host" => j.name = j.addr
      /\ j.kind = "host" => j.service = NoService
      /\ i.addr = j.addr /\ i.service = j.service => i.name # j.name
  BY <1>1, KeyAssumption
<1>3. /\ \A x \in N : nextId <= x.id /\ x.id \in Nat
      /\ Placed(i, r, rows \cup N)
  BY <1>1, Added DEF Types, RowSet
<1>4. /\ s \in All /\ nextId \in Nat /\ s \in RowSet
      /\ s.host # NoId => s.host < nextId
      /\ s.service # NoId => s.service < nextId
      /\ s.host = NoId <=> s.kind = "host"
  BY DEF RowsInv, Shaped, All, Types, TableTypes, LocalTypes
<1>5. r.kind = s.kind /\ r.name = s.name /\ r.host = s.host /\ r.service = s.service
  BY DEF Same
<1>10. ASSUME NEW id \in {r.host, r.service} \ {NoId}, NEW h \in rows \cup N, h.id = id
       PROVE  h \in All /\ ~h.manual
  <2>1. \A x \in N : x.id # id
    BY <1>3, <1>4, <1>5 DEF RowSet
  <2>2. h \in All
    BY <1>10, <2>1 DEF All
  <2>3. PICK x \in All : x.id = id /\ ~x.manual
    BY <2>1 DEF Kin
  <2>4. x = h
    BY <1>10, <2>2, <2>3 DEF RowsInv, IdsDiffer
  <2> QED
    BY <2>2, <2>3, <2>4
<1>6. ASSUME r.kind # "host"
      PROVE  i.addr = j.addr
  <2>1. PICK h \in rows \cup N : h.id = r.host /\ h.name = i.addr
    BY <1>3, <1>6 DEF Placed
  <2>2. r.host # NoId
    BY <1>4, <1>5, <1>6
  <2>3. h \in All /\ ~h.manual
    BY <1>10, <2>1, <2>2
  <2> QED
    BY <1>5, <1>6, <2>1, <2>3 DEF From
<1>7. ASSUME r.service # NoId
      PROVE  i.service = j.service
  <2>1. PICK h \in rows \cup N : h.id = r.service /\ h.name = i.service
    BY <1>3, <1>7 DEF Placed
  <2>3. h \in All /\ ~h.manual
    BY <1>7, <1>10, <2>1
  <2> QED
    BY <1>5, <1>7, <2>1, <2>3 DEF From
<1>8. CASE i.kind = "host"
  <2>1. i.name = i.addr /\ i.service = NoService
    BY <1>1, <1>8 DEF Proper
  <2>2. CASE r.kind = "host"
    <3>1. r.name = i.name /\ s.name = j.name
      BY <1>3, <1>5, <2>2 DEF Placed, From
    <3> QED
      BY <1>1, <1>2, <1>5, <1>8, <2>1, <3>1
  <2>3. CASE r.kind # "host"
    BY <1>1, <1>2, <1>6, <1>8, <2>1, <2>3
  <2> QED
    BY <2>2, <2>3
<1>9. CASE i.kind # "host"
  <2>1. /\ r.kind = i.kind /\ r.name = i.name /\ (i.service = NoService <=> r.service = NoId)
        /\ s.name = j.name /\ (j.service = NoService <=> s.service = NoId)
    BY <1>1, <1>3, <1>9 DEF Placed, From
  <2>2. i.service = j.service
    BY <1>5, <1>7, <2>1
  <2> QED
    BY <1>2, <1>5, <1>6, <1>9, <2>1, <2>2
<1> QED
  BY <1>8, <1>9

LEMMA NewApart ==
    ASSUME TableTypes, NEW i, Proper(i), ~CannotResolve(i),
           NEW r \in NewRows(i), NEW s \in NewRows(i), Same(r, s)
    PROVE  r = s
<1>1. CASE i.kind = "host"
  <2>1. HostRow(i).kind = "host" /\ NamesRow(i).kind = "note"
    BY DEF HostRow, NamesRow, Row
  <2>2. NewRows(i) \subseteq {HostRow(i), NamesRow(i)}
    BY <1>1, HostRows
  <2> QED
    BY <2>1, <2>2 DEF Same
<1>2. CASE i.kind # "host"
  BY <1>2, OtherRows
<1> QED
  BY <1>1, <1>2

(* While the rows it names keep their names or are an operator's, a pending *)
(* row is from its item.                                                    *)
LEMMA FromStays ==
    ASSUME NEW i, NEW r, From(i, r),
           \A x \in All' : x.id \in {r.host, r.service} /\ ~x.manual =>
               \E y \in All : y.id = x.id /\ y.name = x.name /\ ~y.manual
    PROVE  From(i, r)'
BY DEF From

(* Who has pending rows and looks at no item stays where it is. *)
LEMMA PendingStays ==
    ASSUME Types, [Next]_vars, NEW q \in Process, ins'[q] # {}, ~Look(q)
    PROVE  pc'[q] = pc[q] /\ batch'[q] = batch[q] /\ todo'[q] = todo[q] /\ ins'[q] = ins[q]
<1> USE DEF Types, LocalTypes
<1>1. ASSUME NEW p \in Process, Import(p)
      PROVE  pc'[q] = pc[q] /\ batch'[q] = batch[q] /\ todo'[q] = todo[q] /\ ins'[q] = ins[q]
  <2>1. CASE p = q
    <3>1. ~BeginImport(p)
      BY <2>1 DEF BeginImport, Begin, Phases, Kinds
    <3>2. ~Raise(p) /\ ~Commit(p)
      BY <2>1 DEF Raise, Clear, Commit
    <3>3. ~Recover(p)
      BY <2>1 DEF Recover, Phases, Kinds
    <3> QED
      BY <1>1, <2>1, <3>1, <3>2, <3>3 DEF Import, LookFails, CommitFails
  <2>2. CASE p # q
    BY <1>1, <2>2 DEF Import, BeginImport, Begin, Goto, Look, LookFails, CommitFails,
                      Raise, Clear, Recover, Commit
  <2> QED
    BY <2>1, <2>2
<1>2. ASSUME NEW p \in Process, Cleanup(p)
      PROVE  pc'[q] = pc[q] /\ batch'[q] = batch[q] /\ todo'[q] = todo[q] /\ ins'[q] = ins[q]
  <2>1. CASE CommitCleanup(p)
    BY <2>1 DEF CommitCleanup, Clear, Goto
  <2>2. CASE ~CommitCleanup(p)
    <3>1. /\ pc' = [pc EXCEPT ![p] = pc'[p]] /\ UNCHANGED <<batch, todo, ins>>
          /\ pc[p] \in Statements \/ pc[p] = "idle"
      BY <1>2, <2>2, CleanupSteps
    <3>2. p # q
      BY <3>1 DEF Phases, Statements, Kinds
    <3> QED
      BY <3>1, <3>2
  <2> QED
    BY <2>1, <2>2
<1>3. CASE AddItem \/ EditItem \/ DeleteRow \/ UNCHANGED vars
  BY <1>3 DEF AddItem, EditItem, DeleteRow, Edit, local, vars
<1> QED
  BY <1>1, <1>2, <1>3 DEF Next

LEMMA NewStays ==
    ASSUME Types, NewInv, [Next]_vars, Shrinks, \A p \in Process : ~Look(p)
    PROVE  NewInv'
<1> USE DEF NewInv, Shrinks
<1>1. All' \subseteq All
  BY DEF All
<1>2. Unique'
  BY DEF Unique, Imported
<1>3. Fresh'
  BY <1>1 DEF Fresh, Kin
<1>4. ASSUME NEW p \in Process, NEW r \in ins'[p]
      PROVE  pc'[p] \in Kinds /\ \E i \in ItemsOf(batch'[p], pc'[p]) \ todo'[p] : From(i, r)'
  <2>1. pc'[p] = pc[p] /\ batch'[p] = batch[p] /\ todo'[p] = todo[p] /\ ins'[p] = ins[p]
    BY <1>4, PendingStays
  <2>2. pc[p] \in Kinds /\ \E i \in ItemsOf(batch[p], pc[p]) \ todo[p] : From(i, r)
    BY <1>4, <2>1 DEF Origins
  <2>3. \A i : From(i, r) => From(i, r)'
    BY <1>1, FromStays
  <2> QED
    BY <2>1, <2>2, <2>3 DEF ItemsOf
<1>5. Origins'
  BY <1>4 DEF Origins, ItemsOf
<1> QED
  BY <1>2, <1>3, <1>5

(* Rows that operators type are nobody else's.                              *)
LEMMA NewTyped ==
    ASSUME Types, NewInv, AddItem \/ EditItem
    PROVE  NewInv'
<1> USE DEF NewInv
<1>1. /\ \A x \in rows' : x \in rows \/ x.manual
      /\ UNCHANGED local
  <2>1. CASE AddItem
    BY <2>1, AddedRow DEF Types
  <2>2. CASE EditItem
    BY <2>2, EditedRow DEF Types
  <2> QED
    BY <2>1, <2>2
<1>2. UNCHANGED <<ins, pc, batch, todo>>
  BY <1>1 DEF local
<1>3. \A x \in All' : x \in All \/ x.manual
  BY <1>1, <1>2 DEF All
<1>4. Unique'
  BY <1>1 DEF Unique, Imported
<1>5. \A r : Kin(r, All') => Kin(r, All)
  BY <1>3 DEF Kin
<1>6. Fresh'
  BY <1>1, <1>2, <1>5 DEF Fresh
<1>7. \A i, r : From(i, r) => From(i, r)'
  BY <1>3, FromStays
<1>8. Origins'
  BY <1>2, <1>7 DEF Origins, ItemsOf
<1> QED
  BY <1>4, <1>6, <1>8

LEMMA OthersNothing ==
    ASSUME OneImports, Types, NEW p \in Process, pc[p] \in Kinds,
           NEW q \in Process, q # p
    PROVE  ins[q] = {}
BY DEF OneImports, Types, Phases

LEMMA NewCommit ==
    ASSUME OneImports, Types, RowsInv, Stands, NewInv, NEW p \in Process, Commit(p)
    PROVE  NewInv'
<1> USE DEF NewInv
<1>1. /\ rows' = {Updated(r, p) : r \in rows} \cup ins[p]
      /\ \A q \in Process : ins'[q] = IF q = p THEN {} ELSE ins[q]
      /\ pc[p] \in Kinds
  BY CommitRows DEF Commit, CanCommit
<1>2. \A q \in Process : ins'[q] = {}
  BY <1>1, OthersNothing
<1>3. Origins' /\ Fresh'
  BY <1>2 DEF Origins, Fresh
<1>4. \A r \in rows : /\ Updated(r, p).kind = r.kind /\ Updated(r, p).name = r.name
                      /\ Updated(r, p).host = r.host /\ Updated(r, p).service = r.service
                      /\ Updated(r, p).id = r.id /\ Updated(r, p).manual = r.manual
  BY UpdatedRow DEF Types, TableTypes
<1>5. ASSUME NEW r, Kin(r, rows')
      PROVE  Kin(r, All)
  <2>1. \A x \in rows' : \E y \in All : y.id = x.id /\ y.manual = x.manual
    BY <1>1, <1>4 DEF All
  <2> QED
    BY <1>5, <2>1 DEF Kin
<1>6. ASSUME NEW r \in rows, Kin(r, rows')
      PROVE  Kin(r, rows)
  <2> SUFFICES ASSUME NEW id \in {r.host, r.service} \ {NoId}
               PROVE  \E s \in rows : s.id = id /\ ~s.manual
    BY DEF Kin
  <2>1. PICK z \in rows : z.id = id
    BY DEF Stands, Anchored
  <2>2. PICK y \in All : y.id = id /\ ~y.manual
    BY <1>5, <1>6 DEF Kin
  <2>3. z = y
    BY <2>1, <2>2 DEF RowsInv, IdsDiffer, All
  <2> QED
    BY <2>1, <2>2, <2>3
<1>7. ASSUME NEW r \in rows', NEW s \in rows', Same(r, s),
             ~r.manual, ~s.manual, Kin(r, rows'), Kin(s, rows')
      PROVE  r = s
  <2>1. CASE r \in ins[p] /\ s \in ins[p]
    BY <1>5, <1>7, <2>1 DEF Fresh
  <2>2. CASE r \in ins[p] /\ s \notin ins[p]
    <3>1. PICK x \in rows : s = Updated(x, p)
      BY <1>1, <2>2
    <3>2. Same(r, x) /\ ~x.manual
      BY <1>4, <1>7, <3>1 DEF Same
    <3> QED
      BY <1>5, <1>7, <2>2, <3>2 DEF Fresh
  <2>3. CASE r \notin ins[p] /\ s \in ins[p]
    <3>1. PICK x \in rows : r = Updated(x, p)
      BY <1>1, <2>3
    <3>2. Same(s, x) /\ ~x.manual
      BY <1>4, <1>7, <3>1 DEF Same
    <3> QED
      BY <1>5, <1>7, <2>3, <3>2 DEF Fresh
  <2>4. CASE r \notin ins[p] /\ s \notin ins[p]
    <3>1. PICK x \in rows, y \in rows : r = Updated(x, p) /\ s = Updated(y, p)
      BY <1>1, <2>4
    <3>2. Same(x, y) /\ ~x.manual /\ ~y.manual
      BY <1>4, <1>7, <3>1 DEF Same
    <3>3. Kin(x, rows') /\ Kin(y, rows')
      BY <1>4, <1>7, <3>1 DEF Kin
    <3>4. Kin(x, rows) /\ Kin(y, rows)
      BY <1>6, <3>3
    <3> QED
      BY <3>1, <3>2, <3>4 DEF Unique, Imported, Kin, Same
  <2> QED
    BY <2>1, <2>2, <2>3, <2>4
<1>8. Unique'
  BY <1>7 DEF Unique, Imported, Kin, Same
<1> QED
  BY <1>3, <1>8

LEMMA NewLook ==
    ASSUME OneImports, Types, RowsInv, NewInv, NEW p \in Process, Look(p)
    PROVE  NewInv'
<1> USE DEF NewInv
<1>1. PICK i \in todo[p] :
          /\ pc[p] \in Kinds /\ ~CannotResolve(i)
          /\ ins' = [ins EXCEPT ![p] = @ \cup NewRows(i)]
          /\ nextId' = NextId(i)
          /\ todo' = [todo EXCEPT ![p] = @ \ {i}]
          /\ UNCHANGED <<rows, pc, batch>>
  BY DEF Look, NextId
<1> DEFINE N == NewRows(i)
<1>2. /\ ins'[p] = ins[p] \cup N /\ todo'[p] = todo[p] \ {i}
      /\ \A q \in Process : q # p => ins'[q] = {}
  BY <1>1, OthersNothing DEF Types, LocalTypes
<1>3. /\ Proper(i) /\ i \in ItemsOf(batch[p], pc[p])
      /\ \A r \in N : nextId <= r.id /\ r.id \in Nat
      /\ \A r \in N : Placed(i, r, rows \cup N)
  BY <1>1, ProperItems, Added DEF Types, RowSet, ItemsOf
<1>4. RowsInv' /\ All' = All \cup N
  BY <1>1, RowsLook
<1>5. \A r \in N : \A s \in rows : ~Same(r, s)
  BY <1>1, <1>3, NewNotStored DEF Types, RowsInv
<1>6. \A r \in N : \A s \in ins[p] : Kin(r, All \cup N) => ~Same(r, s)
  <2> SUFFICES ASSUME NEW r \in N, NEW s \in ins[p], Kin(r, All \cup N) PROVE ~Same(r, s)
    OBVIOUS
  <2>1. PICK j \in ItemsOf(batch[p], pc[p]) \ todo[p] : From(j, s)
    BY DEF Origins
  <2> QED
    BY <1>1, <2>1, NewNotPending
<1>7. \A r, s \in N : Same(r, s) => r = s
  BY <1>1, <1>3, NewApart DEF Types
<1> HIDE DEF N
<1>8. ASSUME NEW r \in N
      PROVE  From(i, r)'
  <2>1. rows \cup N \subseteq All'
    BY <1>4 DEF All
  <2>2. \A x, y \in All' : x.id = y.id => x = y
    BY <1>4 DEF RowsInv, IdsDiffer
  <2>3. Placed(i, r, rows \cup N)
    BY <1>3
  <2>4. r.kind # "host" => \A h \in All' : h.id = r.host => h.name = i.addr
    BY <2>1, <2>2, <2>3 DEF Placed
  <2>5. r.service # NoId => \A s \in All' : s.id = r.service => s.name = i.service
    BY <2>1, <2>2, <2>3 DEF Placed
  <2>6. \/ r.kind = i.kind /\ r.name = i.name /\ (i.service = NoService <=> r.service = NoId)
        \/ i.kind = "host" /\ r.kind = "note" /\ r.name = "hostnames" /\ r.service = NoId
    BY <2>3 DEF Placed
  <2> QED
    BY <2>4, <2>5, <2>6 DEF From
<1>9. ASSUME NEW r \in ins[p], NEW j, From(j, r)
      PROVE  From(j, r)'
  <2>1. r \in All /\ All \in SUBSET RowSet /\ nextId \in Nat
    BY AllRows DEF All, Types, TableTypes
  <2>2. \A x \in N : x.id \notin {r.host, r.service}
    BY <1>3, <2>1 DEF RowsInv, Shaped, RowSet
  <2> QED
    BY <1>4, <1>9, <2>2, FromStays
<1>10. ASSUME NEW q \in Process, NEW r \in ins'[q]
       PROVE  pc[q] \in Kinds /\ \E j \in ItemsOf(batch[q], pc[q]) \ todo'[q] : From(j, r)'
  <2>1. q = p
    BY <1>2, <1>10
  <2>2. CASE r \in N
    BY <1>1, <1>2, <1>3, <1>8, <2>1, <2>2
  <2>3. CASE r \in ins[p]
    <3>1. PICK j \in ItemsOf(batch[p], pc[p]) \ todo[p] : From(j, r)
      BY <2>3 DEF Origins
    <3> QED
      BY <1>1, <1>2, <1>9, <2>1, <2>3, <3>1
  <2> QED
    BY <1>2, <1>10, <2>1, <2>2, <2>3
<1>11. Origins'
  BY <1>1, <1>10 DEF Origins, ItemsOf
<1>15. ASSUME NEW r \in ins[p], Kin(r, All \cup N)
       PROVE  Kin(r, All)
  <2>1. r \in All /\ All \in SUBSET RowSet /\ nextId \in Nat
    BY AllRows DEF All, Types, TableTypes
  <2>2. \A x \in N : x.id \notin {r.host, r.service}
    BY <1>3, <2>1 DEF RowsInv, Shaped, RowSet
  <2> QED
    BY <1>15, <2>2 DEF Kin
<1>12. ASSUME NEW q \in Process, NEW r \in ins'[q], Kin(r, All')
       PROVE  /\ \A s \in ins'[q] : Same(r, s) => r = s
              /\ \A s \in rows : ~s.manual => ~Same(r, s)
  <2>1. q = p /\ r \in ins[p] \cup N /\ ins'[q] = ins[p] \cup N /\ Kin(r, All \cup N)
    BY <1>2, <1>4, <1>12
  <2>2. ASSUME NEW s, Same(r, s)
        PROVE  Same(s, r) /\ Kin(s, All \cup N)
    BY <2>1, <2>2 DEF Same, Kin
  <2>3. CASE r \in N
    BY <1>5, <1>6, <1>7, <2>1, <2>3
  <2>4. CASE r \in ins[p]
    BY <1>6, <1>15, <2>1, <2>2, <2>4 DEF Fresh
  <2> QED
    BY <2>1, <2>3, <2>4
<1>13. Fresh'
  BY <1>1, <1>12 DEF Fresh
<1>14. Unique'
  BY <1>1 DEF Unique, Imported
<1> QED
  BY <1>11, <1>13, <1>14

(* Where one process imports, no address, service, vuln or note is stored   *)
(* twice, whatever operators and cleanups delete, add and change beside it, *)
(* but where an operator has typed one of the two, their host or service:   *)
(* what import_parsed and cleanups do alone, its lookups (core.py:297-325)  *)
(* meet once.                                                               *)
THEOREM NoRowTwice ==
    ASSUME OneImports
    PROVE  Spec => []Unique
<1>1. Init => NewInv
  BY DEF Init, NewInv, Unique, Origins, Fresh
<1>2. Types /\ RowsInv /\ Stands /\ NewInv /\ [Next]_vars => NewInv'
  BY StepKinds, NewLook, NewCommit, NewTyped, NewStays
<1>3. NewInv => Unique
  BY DEF NewInv
<1> QED
  BY <1>1, <1>2, <1>3, StandsInvariant, PTL DEF Spec
=============================================================================
