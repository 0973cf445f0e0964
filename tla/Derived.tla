------------------------------- MODULE Derived -------------------------------
(***************************************************************************)
(* Rebuild of the tables versioninfo and vulnsearch from notes: rows are   *)
(* collected by several statements, upserted, and the rest is pruned       *)
(* (VMap, LocaldbWriter and their managers).  Notes change meanwhile, and  *)
(* a rebuild may die or raise anywhere.                                    *)
(***************************************************************************)
EXTENDS Naturals, FiniteSets

CONSTANTS
    Process,        \* planner and command line runs
    Keys,           \* rows the notes may stand for
    Versions,       \* what a row may say
    Part,           \* [Keys -> 1..Parts]: the query or window that reads it
    Parts,
    BufLen,         \* rebuild_buflen; versioninfo keeps all until the end
    Outage,         \* the CVE service may answer with an error
    MaxEdits, MaxRuns,   \* bounds: changes of notes, rebuilds
    None

ASSUME PartAssumption == Parts \in Nat \ {0} /\ Part \in [Keys -> 1..Parts]
ASSUME BoundsAssumption == BufLen \in Nat /\ MaxEdits \in Nat /\ MaxRuns \in Nat
ASSUME OutageAssumption == Outage \in BOOLEAN

VARIABLES
    source,     \* what the notes say
    table,      \* versioninfo or vulnsearch
    pc,         \* of a rebuild: idle, collect, flush, prune
    part,       \* the part to be read
    buf,        \* collected and not yet written
    written,    \* prune_list, or keys of the map
    unchanged,  \* keys whose notes have not changed since it began
    edits, runs

vars == <<source, table, pc, part, buf, written, unchanged, edits, runs>>

Nothing == [k \in Keys |-> None]
KeysOf(f) == {k \in Keys : f[k] # None}
Merge(f, g) == [k \in Keys |-> IF g[k] = None THEN f[k] ELSE g[k]]

Init ==
    /\ source \in [Keys -> Versions \cup {None}]
    /\ table = Nothing
    /\ pc = [p \in Process |-> "idle"]
    /\ part = [p \in Process |-> 1]
    /\ buf = [p \in Process |-> Nothing]
    /\ written = [p \in Process |-> {}]
    /\ unchanged = [p \in Process |-> {}]
    /\ edits = 0
    /\ runs = 0

Goto(p, label) == pc' = [pc EXCEPT ![p] = label]

Begin(p) ==
    /\ pc[p] = "idle"
    /\ runs < MaxRuns
    /\ runs' = runs + 1
    /\ Goto(p, "collect")
    /\ part' = [part EXCEPT ![p] = 1]
    /\ buf' = [buf EXCEPT ![p] = Nothing]
    /\ written' = [written EXCEPT ![p] = {}]
    /\ unchanged' = [unchanged EXCEPT ![p] = Keys]
    /\ UNCHANGED <<source, table, edits>>

(* what a statement finds; cvefor answers an error with no CVE at all *)
Found(which, failed) ==
    [k \in Keys |-> IF Part[k] = which /\ k \notin failed THEN source[k] ELSE None]

(* a buffer that has grown too long, or the last one, is upserted *)
WriteNew(p, new) ==                               \* mutant: ON CONFLICT DO NOTHING
    /\ table' = Merge(new, table)
    /\ written' = [written EXCEPT ![p] = @ \cup KeysOf(new)]
    /\ buf' = [buf EXCEPT ![p] = Nothing]
Write(p, new) ==
    /\ table' = Merge(table, new)
    /\ written' = [written EXCEPT ![p] = @ \cup KeysOf(new)]
    /\ buf' = [buf EXCEPT ![p] = Nothing]
Keep(p, new) ==
    /\ buf' = [buf EXCEPT ![p] = new]
    /\ UNCHANGED <<table, written>>

Index(p, new) ==
    IF Cardinality(KeysOf(new)) > BufLen THEN Write(p, new) ELSE Keep(p, new)

Collect(p) ==
    /\ pc[p] = "collect"
    /\ \E failed \in IF Outage THEN SUBSET Keys ELSE {{}} :
           Index(p, Merge(buf[p], Found(part[p], failed)))
    /\ IF part[p] = Parts THEN Goto(p, "flush") /\ UNCHANGED part
       ELSE part' = [part EXCEPT ![p] = @ + 1] /\ UNCHANGED pc
    /\ UNCHANGED <<source, unchanged, edits, runs>>

Flush(p) ==
    /\ pc[p] = "flush"
    /\ Write(p, buf[p])
    /\ Goto(p, "prune")
    /\ UNCHANGED <<source, part, unchanged, edits, runs>>

PruneLast(p) ==                                   \* mutant: keys of the last part only
    /\ pc[p] = "prune"
    /\ table' = [k \in Keys |-> IF k \in written[p] /\ Part[k] = Parts THEN table[k] ELSE None]
    /\ Goto(p, "idle")
    /\ UNCHANGED <<source, part, buf, written, unchanged, edits, runs>>
Prune(p) ==
    /\ pc[p] = "prune"
    /\ table' = [k \in Keys |-> IF k \in written[p] THEN table[k] ELSE None]
    /\ Goto(p, "idle")
    /\ UNCHANGED <<source, part, buf, written, unchanged, edits, runs>>

(* killed, or an exception: what is committed stays *)
Die(p) ==
    /\ pc[p] # "idle"
    /\ Goto(p, "idle")
    /\ UNCHANGED <<source, table, part, buf, written, unchanged, edits, runs>>

(* imports, cleanups and operators change the notes *)
Edit ==
    /\ edits < MaxEdits
    /\ edits' = edits + 1
    /\ \E k \in Keys, v \in Versions \cup {None} :
           /\ v # source[k]
           /\ source' = [source EXCEPT ![k] = v]
           /\ unchanged' = [p \in Process |-> unchanged[p] \ {k}]
    /\ UNCHANGED <<table, pc, part, buf, written, runs>>

Rebuild(p) == Begin(p) \/ Collect(p) \/ Flush(p) \/ Prune(p) \/ Die(p)
Next == Edit \/ \E p \in Process : Rebuild(p)
Spec == Init /\ [][Next]_vars
=============================================================================
