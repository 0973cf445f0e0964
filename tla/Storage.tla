------------------------------- MODULE Storage -------------------------------
(***************************************************************************)
(* Import of parsed items and cleanup of the storage                       *)
(* (sner/server/storage/core.py, models.py) as transactions of several     *)
(* processes, with the web edits of operators beside them.  The database   *)
(* runs at READ COMMITTED: a statement sees what is committed when it      *)
(* starts, and what its own transaction has done.                          *)
(***************************************************************************)
EXTENDS Naturals, FiniteSets

CONSTANTS
    Process,      \* planner and command line runs
    Ops,          \* [Process -> SUBSET {"import", "cleanup"}]
    Parsed,       \* [Process -> sets of sets of items] what it may import
    Edits,        \* what operators do: "add", "edit", "delete"
    Typed,        \* what they type into a form: kind, name, full
    MaxRuns,      \* bound: operations of a process
    MaxEdits,     \* bound: edits
    NoId, NoService

Kinds == {"host", "service", "vuln", "note"}

(* full: a host with an os or comment, a service that is open              *)
(* names: the host item carries hostnames                                  *)
Item == [kind : Kinds, addr : STRING, service : STRING \cup {NoService},
         name : STRING, full : BOOLEAN, names : BOOLEAN]

ASSUME OpsAssumption == Ops \in [Process -> SUBSET {"import", "cleanup"}]
ASSUME ParsedAssumption ==
    \A p \in Process : \A batch \in Parsed[p] : \A i \in batch :
        /\ i \in Item
        /\ \E h \in batch : h.kind = "host" /\ h.addr = i.addr
        /\ i.service # NoService =>
               \E s \in batch :
                   s.kind = "service" /\ s.addr = i.addr /\ s.name = i.service
(* a host goes by its address; hosts and services stand under no service;    *)
(* and a key stands for one item (upsert_host, upsert_service, ...)          *)
ASSUME KeyAssumption ==
    \A p \in Process : \A items \in Parsed[p] : \A i, j \in items :
        /\ i.kind = "host" => i.name = i.addr
        /\ i.kind \in {"host", "service"} => i.service = NoService
        /\ /\ i.kind = j.kind /\ i.addr = j.addr
           /\ i.service = j.service /\ i.name = j.name
           => i = j
ASSUME TypedAssumption == Typed \subseteq [kind : Kinds, name : STRING, full : BOOLEAN]
ASSUME BoundsAssumption == MaxRuns \in Nat /\ MaxEdits \in Nat /\ NoId \notin Nat

VARIABLES
    rows,      \* tables host, service, vuln, note: committed rows
    nextId,    \* sequence of row ids
    pc,        \* idle, an import phase, a statement of cleanup, or failed
    batch,     \* items of the import
    todo,      \* items of the phase still to be looked up
    ins, upd,  \* rows the open transaction inserts and updates
    sel,       \* ids read by the statements of cleanup so far
    bare,      \* of these: without info, services and vulns
    doomed,    \* ids the open cleanup has deleted
    runs,      \* operations a process may still start
    edits,     \* edits so far
    disturbed  \* others removed or renamed something during the process's
               \* import, or stored something during its cleanup

tables == <<rows, nextId>>
local == <<pc, batch, todo, ins, upd, sel, bare, doomed, runs>>
vars == <<tables, local, edits, disturbed>>

-----------------------------------------------------------------------------
Of(kind) == {r \in rows : r.kind = kind}
Ids(set) == {r.id : r \in set}
HostsAt(addr) == {r \in Of("host") : r.name = addr}
ServicesAt(addr, name) ==
    {r \in Of("service") : r.name = name /\ r.host \in Ids(HostsAt(addr))}

(* the row an item updates: db_host, db_service, db_vuln, db_note *)
MatchesAnyHost(i) ==                              \* mutant: address not compared
    {r \in Of(i.kind) :
        r.name = i.name /\ (i.service = NoService <=> r.service = NoId)}
MatchesOpen(i) ==                                 \* mutant: closed services not seen
    {r \in Of(i.kind) :
        /\ r.name = i.name /\ (i.kind = "service" => r.full)
        /\ i.kind # "host" => r.host \in Ids(HostsAt(i.addr))
        /\ IF i.service = NoService THEN r.service = NoId
           ELSE r.service \in Ids(ServicesAt(i.addr, i.service))}
Matches(i) ==
    {r \in Of(i.kind) :
        /\ r.name = i.name
        /\ i.kind # "host" => r.host \in Ids(HostsAt(i.addr))
        /\ IF i.service = NoService THEN r.service = NoId
           ELSE r.service \in Ids(ServicesAt(i.addr, i.service))}

(* ON DELETE CASCADE *)
Cascade(ids) == ids \cup {r.id : r \in {s \in rows : s.host \in ids \/ s.service \in ids}}

(* manual: added or changed in a form *)
Row(id, kind, name, host, service, full) ==
    [id |-> id, kind |-> kind, name |-> name, host |-> host,
     service |-> service, full |-> full, manual |-> FALSE]

(* rows somebody's open transaction has deleted: writers wait for it *)
LockedFor(p) == UNION {doomed[q] : q \in Process \ {p}}

Goto(p, label) == pc' = [pc EXCEPT ![p] = label]
ItemsOf(items, phase) == {i \in items : i.kind = phase}
Clear(p) ==
    /\ batch' = [batch EXCEPT ![p] = {}]
    /\ todo' = [todo EXCEPT ![p] = {}]
    /\ ins' = [ins EXCEPT ![p] = {}]
    /\ upd' = [upd EXCEPT ![p] = {}]
    /\ sel' = [sel EXCEPT ![p] = {}]
    /\ bare' = [bare EXCEPT ![p] = {}]
    /\ doomed' = [doomed EXCEPT ![p] = {}]

Init ==
    /\ rows = {}
    /\ nextId = 1
    /\ pc = [p \in Process |-> "idle"]
    /\ batch = [p \in Process |-> {}]
    /\ todo = [p \in Process |-> {}]
    /\ ins = [p \in Process |-> {}]
    /\ upd = [p \in Process |-> {}]
    /\ sel = [p \in Process |-> {}]
    /\ bare = [p \in Process |-> {}]
    /\ doomed = [p \in Process |-> {}]
    /\ runs = [p \in Process |-> MaxRuns]
    /\ edits = 0
    /\ disturbed = [p \in Process |-> FALSE]

Begin(p, op, label) ==
    /\ pc[p] = "idle"
    /\ op \in Ops[p]
    /\ runs[p] > 0
    /\ runs' = [runs EXCEPT ![p] = @ - 1]
    /\ Goto(p, label)

InImport == {p \in Process : pc[p] \in Kinds}
InCleanup == {p \in Process : pc[p] \notin Kinds \cup {"idle", "failed"}}
Disturb(set) == disturbed' = [p \in Process |-> disturbed[p] \/ p \in set]

-----------------------------------------------------------------------------
(* import_parsed: four phases, each a transaction *)

BeginImport(p) ==
    /\ Begin(p, "import", "host")
    /\ \E items \in Parsed[p] :
           /\ batch' = [batch EXCEPT ![p] = items]
           /\ todo' = [todo EXCEPT ![p] = ItemsOf(items, "host")]
    /\ disturbed' = [disturbed EXCEPT ![p] = FALSE]
    /\ UNCHANGED <<tables, ins, upd, sel, bare, doomed, edits>>

(* one_or_none() met several rows, or one() not exactly one *)
CannotResolve(i) ==
    \/ Cardinality(Matches(i)) > 1
    \/ i.kind # "host" /\ Cardinality(HostsAt(i.addr)) # 1
    \/ i.service # NoService /\ Cardinality(ServicesAt(i.addr, i.service)) # 1

HostnamesOf(i) == [i EXCEPT !.kind = "note", !.name = "hostnames"]

(* the id an item of the host phase works on, new or not *)
HostId(i) == IF Matches(i) = {} THEN nextId ELSE CHOOSE id \in Ids(Matches(i)) : TRUE

(* rows to be inserted for an item *)
NewRows(i) ==
    IF i.kind = "host"
    THEN (IF Matches(i) # {} THEN {}
          ELSE {Row(nextId, "host", i.name, NoId, NoId, i.full)})
         \cup (IF ~i.names \/ Matches(HostnamesOf(i)) # {} THEN {}
               ELSE {Row(nextId + 1, "note", "hostnames", HostId(i), NoId, TRUE)})
    ELSE {Row(nextId, i.kind, i.name, h,
              IF i.service = NoService THEN NoId
              ELSE CHOOSE s \in Ids(ServicesAt(i.addr, i.service)) : TRUE, i.full) :
          h \in IF Matches(i) # {} THEN {} ELSE Ids(HostsAt(i.addr))}

Look(p) ==
    \E i \in todo[p] :
        /\ pc[p] \in Kinds
        /\ ~CannotResolve(i)
        /\ ins' = [ins EXCEPT ![p] = @ \cup NewRows(i)]
        /\ upd' = [upd EXCEPT ![p] = @ \cup {[id |-> r.id, full |-> i.full] : r \in Matches(i)}]
        /\ nextId' = nextId + Cardinality(NewRows(i)) + (IF i.kind = "host" THEN 1 ELSE 0)
        /\ todo' = [todo EXCEPT ![p] = @ \ {i}]
        /\ UNCHANGED <<rows, pc, batch, sel, bare, doomed, runs, edits, disturbed>>

Raise(p) ==
    /\ Goto(p, "failed")
    /\ Clear(p)
    /\ UNCHANGED <<tables, runs, edits, disturbed>>

LookFails(p) ==
    /\ pc[p] \in Kinds
    /\ \E i \in todo[p] : CannotResolve(i)
    /\ Raise(p)

(* a host keeps its os, a service takes the new state *)
Updated(r, p) ==
    LET u == {v \in upd[p] : v.id = r.id} IN
    IF u = {} THEN r
    ELSE [r EXCEPT !.full = (\E v \in u : v.full) \/ (r.kind # "service" /\ r.full)]

NextPhase(phase) ==
    CASE phase = "host" -> "service"
      [] phase = "service" -> "vuln"
      [] phase = "vuln" -> "note"
      [] OTHER -> "idle"

Parents(p) == (UNION {{r.host, r.service} : r \in ins[p]}) \ {NoId}

CanCommit(p) ==
    /\ pc[p] \in Kinds
    /\ todo[p] = {}
    /\ (Parents(p) \cup Ids(upd[p])) \cap LockedFor(p) = {}

Commit(p) ==
    /\ CanCommit(p)
    /\ Parents(p) \subseteq Ids(rows \cup ins[p])
    /\ rows' = {Updated(r, p) : r \in rows} \cup ins[p]
    /\ Goto(p, NextPhase(pc[p]))
    /\ todo' = [todo EXCEPT ![p] = IF pc[p] = "note" THEN {} ELSE ItemsOf(batch[p], NextPhase(pc[p]))]
    /\ ins' = [ins EXCEPT ![p] = {}]
    /\ upd' = [upd EXCEPT ![p] = {}]
    /\ Disturb(InCleanup)
    /\ UNCHANGED <<nextId, batch, sel, bare, doomed, runs, edits>>

(* foreign key of an insert, or an update of a row that is gone *)
CommitFails(p) ==
    /\ CanCommit(p)
    /\ \/ ~(Parents(p) \subseteq Ids(rows \cup ins[p]))
       \/ ~(Ids(upd[p]) \subseteq Ids(rows))
    /\ Raise(p)

(* the stage or the command ends; the planner goes on with its loop *)
Recover(p) ==
    /\ pc[p] = "failed"
    /\ Goto(p, "idle")
    /\ UNCHANGED <<tables, batch, todo, ins, upd, sel, bare, doomed, runs, edits, disturbed>>

-----------------------------------------------------------------------------
(* cleanup_storage: one transaction, one action per statement *)

(* what its statements see: committed rows without those it has deleted *)
View(p) == {r \in rows : r.id \notin doomed[p]}
Children(p, kind, id) == {r \in View(p) : r.kind = kind /\ r.host = id}
HostIds(p) == {r.id : r \in {s \in View(p) : s.kind = "host"}}

BeginCleanup(p) ==
    /\ Begin(p, "cleanup", "delete services")
    /\ sel' = [sel EXCEPT ![p] = Ids({r \in Of("service") : ~r.full})]
    /\ disturbed' = [disturbed EXCEPT ![p] = FALSE]
    /\ UNCHANGED <<tables, batch, todo, ins, upd, bare, doomed, edits>>

(* DELETE ... WHERE id IN, which waits for other transactions *)
Delete(p, here, there) ==
    /\ pc[p] = here
    /\ sel[p] \cap LockedFor(p) = {}
    /\ doomed' = [doomed EXCEPT ![p] = @ \cup Cascade(sel[p] \cap Ids(rows))]
    /\ sel' = [sel EXCEPT ![p] = {}]
    /\ Goto(p, there)
    /\ UNCHANGED <<tables, batch, todo, ins, upd, bare, runs, edits, disturbed>>

Select(p, here, there, ids) ==
    /\ pc[p] = here
    /\ sel' = [sel EXCEPT ![p] = ids]
    /\ Goto(p, there)
    /\ UNCHANGED <<tables, batch, todo, ins, upd, bare, doomed, runs, edits, disturbed>>

DeleteServices(p) == Delete(p, "delete services", "no info")
NoInfo(p) ==
    Select(p, "no info", "no services",
           {id \in HostIds(p) : \E r \in View(p) : r.id = id /\ ~r.full})
NoServices(p) ==
    Select(p, "no services", "no vulns",
           {id \in sel[p] : id \in HostIds(p) /\ Children(p, "service", id) = {}})
NoVulns(p) ==
    /\ pc[p] = "no vulns"
    /\ bare' = [bare EXCEPT ![p] =
                   {id \in sel[p] : id \in HostIds(p) /\ Children(p, "vuln", id) = {}}]
    /\ sel' = [sel EXCEPT ![p] = {}]
    /\ Goto(p, "no notes")
    /\ UNCHANGED <<tables, batch, todo, ins, upd, doomed, runs, edits, disturbed>>
NoNotesUnread(p) ==                               \* mutant: notes not looked at
    Select(p, "no notes", "delete bare", bare[p])
NoNotes(p) ==
    Select(p, "no notes", "delete bare",
           {id \in bare[p] : id \in HostIds(p) /\ Children(p, "note", id) = {}})
DeleteBare(p) == Delete(p, "delete bare", "one note")
OneNote(p) ==
    Select(p, "one note", "hostnames",
           {id \in HostIds(p) : Cardinality(Children(p, "note", id)) = 1})
Hostnames(p) ==
    Select(p, "hostnames", "delete named",
           {id \in sel[p] \cap bare[p] :
               \E r \in Children(p, "note", id) : r.name = "hostnames"})
DeleteNamed(p) == Delete(p, "delete named", "commit")

CommitCleanup(p) ==
    /\ pc[p] = "commit"
    /\ rows' = View(p)
    /\ IF View(p) = rows THEN UNCHANGED disturbed ELSE Disturb(InImport)
    /\ Goto(p, "idle")
    /\ Clear(p)
    /\ UNCHANGED <<nextId, runs, edits>>

Cleanup(p) ==
    \/ BeginCleanup(p) \/ DeleteServices(p)
    \/ NoInfo(p) \/ NoServices(p) \/ NoVulns(p) \/ NoNotes(p) \/ DeleteBare(p)
    \/ OneNote(p) \/ Hostnames(p) \/ DeleteNamed(p) \/ CommitCleanup(p)

-----------------------------------------------------------------------------
(* Operators: each request is a transaction *)

Locked == UNION {doomed[q] : q \in Process}
Edit(kind) ==
    /\ kind \in Edits
    /\ edits < MaxEdits
    /\ edits' = edits + 1
    /\ UNCHANGED local

(* host_add, service_add, vuln_add, note_add: nothing looks for a row of    *)
(* the same address, port or name                                           *)
AddItem ==
    /\ Edit("add")
    /\ \E t \in Typed, h, s \in {NoId} \cup Ids(rows) :
           /\ t.kind = "host" <=> h = NoId
           /\ h # NoId => h \in Ids(Of("host"))
           /\ s # NoId => /\ t.kind \in {"vuln", "note"}
                          /\ \E r \in Of("service") : r.id = s /\ r.host = h
           /\ {h, s} \cap Locked = {}
           /\ rows' = rows \cup {[Row(nextId, t.kind, t.name, h, s, t.full)
                                  EXCEPT !.manual = TRUE]}
    /\ nextId' = nextId + 1
    /\ Disturb(InCleanup)

(* host_edit and the other edit routes: populate_obj overwrites the row *)
EditItem ==
    /\ Edit("edit")
    /\ \E t \in Typed : \E r \in Of(t.kind) :
           /\ r.id \notin Locked
           /\ rows' = (rows \ {r}) \cup {[r EXCEPT !.name = t.name, !.full = t.full,
                                               !.manual = TRUE]}
    /\ Disturb(InImport \cup InCleanup)
    /\ UNCHANGED nextId

(* host_delete and the other delete routes, one row or several *)
DeleteRow ==
    /\ Edit("delete")
    /\ \E r \in rows :
           /\ r.id \notin Locked
           /\ rows' = {s \in rows : s.id \notin Cascade({r.id})}
    /\ Disturb(InImport)
    /\ UNCHANGED nextId

-----------------------------------------------------------------------------
Import(p) ==
    \/ BeginImport(p) \/ Look(p) \/ LookFails(p)
    \/ Commit(p) \/ CommitFails(p) \/ Recover(p)

Next ==
    \/ \E p \in Process : Import(p) \/ Cleanup(p)
    \/ AddItem
    \/ EditItem
    \/ DeleteRow

Spec == Init /\ [][Next]_vars
=============================================================================
