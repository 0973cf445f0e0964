----------------------------- MODULE ParsedItems -----------------------------
(***************************************************************************)
(* ParsedItemsDb (sner/server/parser.py) from its first upsert to what the *)
(* planner's filters leave: tables whose rows point to rows of others by   *)
(* iid, which is the length of the table they are inserted into.  Vulns    *)
(* and notes are alike, the findings; a row's other data is one value.     *)
(***************************************************************************)
EXTENDS Naturals, FiniteSets

CONSTANTS
    Address, Port, Name,  \* name: what else tells vulns or notes apart
    Value, Open,        \* data of rows; states that start with "open:"
    Threshold,            \* of filter_tarpits
    MaxRows,              \* bound: rows of all tables
    None

ASSUME ThresholdAssumption == Threshold \in Nat /\ MaxRows \in Nat
ASSUME ValueAssumption == Open \subseteq Value
ASSUME NoneAssumption == None \notin Port \cup Value \cup Nat

VARIABLES
    hosts,      \* [addresses -> [iid, val]]: rows by what where() compares
    services,   \* by <<host_iid, port>>
    findings,   \* by <<host_iid, service_iid, name>>
    stage       \* parse, kept (no tarpits), open, or failed

vars == <<hosts, services, findings, stage>>

Data == Value \cup {None}

Init ==
    /\ hosts = <<>> /\ services = <<>> /\ findings = <<>>
    /\ stage = "parse"

len(t) == Cardinality(DOMAIN t)

(* a row that is found is updated with what is not None, or one is inserted *)
UpdatePlain(row, v) == [row EXCEPT !.val = v]     \* mutant: None overwrites
Update(row, v) == IF v = None THEN row ELSE [row EXCEPT !.val = v]
FreshFirst(t) == 0                                \* mutant: identifiers repeat
Fresh(t) == len(t)
Upsert(t, k, v) ==
    [x \in DOMAIN t \cup {k} |->
        IF x # k THEN t[x] ELSE IF k \in DOMAIN t THEN Update(t[k], v)
        ELSE [iid |-> Fresh(t), val |-> v]]

HostIid(a) == Upsert(hosts, a, None)[a].iid
ServiceIid(a, p) == Upsert(services, <<HostIid(a), p>>, None)[<<HostIid(a), p>>].iid

upsert_host(a, v) ==
    /\ hosts' = Upsert(hosts, a, v)
    /\ UNCHANGED <<services, findings>>

upsert_service(a, p, v) ==
    /\ hosts' = Upsert(hosts, a, None)
    /\ services' = Upsert(services, <<HostIid(a), p>>, v)
    /\ UNCHANGED findings

(* upsert_vuln, upsert_note: without a port the host's own *)
LinkTruthy(a, p) ==                               \* mutant: the first service is none
    IF p = None \/ ServiceIid(a, p) = 0 THEN None ELSE ServiceIid(a, p)
Link(a, p) == IF p = None THEN None ELSE ServiceIid(a, p)
upsert_finding(a, p, n, v) ==
    /\ hosts' = Upsert(hosts, a, None)
    /\ services' = IF p = None THEN services
                   ELSE Upsert(services, <<HostIid(a), p>>, None)
    /\ findings' = Upsert(findings, <<HostIid(a), Link(a, p), n>>, v)

Parse ==
    /\ stage = "parse"
    /\ len(hosts) + len(services) + len(findings) < MaxRows
    /\ \/ \E a \in Address, v \in Data : upsert_host(a, v)
       \/ \E a \in Address, p \in Port, v \in Data : upsert_service(a, p, v)
       \/ \E a \in Address, p \in Port \cup {None}, n \in Name, v \in Data :
              upsert_finding(a, p, n, v)
    /\ UNCHANGED stage

(* by.iid[i]: the key of the row, which raises when there is none *)
ByIid(t, i) == CHOOSE k \in DOMAIN t : t[k].iid = i

Remove(t, keys) == [x \in DOMAIN t \ keys |-> t[x]]
OfHost(t, S) == {k \in DOMAIN t : ByIid(hosts, k[1]) \in S}

OverThreshold ==
    {a \in DOMAIN hosts : Cardinality(OfHost(services, {a})) > Threshold}
filter_tarpits_hosts ==                           \* mutant: findings are left
    /\ stage = "parse"
    /\ services' = Remove(services, OfHost(services, OverThreshold))
    /\ hosts' = Remove(hosts, OverThreshold)
    /\ stage' = "kept"
    /\ UNCHANGED findings
filter_tarpits ==
    /\ stage = "parse"
    /\ services' = Remove(services, OfHost(services, OverThreshold))
    /\ findings' = Remove(findings, OfHost(findings, OverThreshold))
    /\ hosts' = Remove(hosts, OverThreshold)
    /\ stage' = "kept"

(* a service that was never given a state has no startswith: it raises and *)
(* nobody reads the tables any more                                        *)
Unstated == \E k \in DOMAIN services : services[k].val = None
filter_service_open ==
    /\ stage = "kept"
    /\ ~Unstated
    /\ services' = Remove(services, {k \in DOMAIN services : services[k].val \notin Open})
    /\ stage' = "open"
    /\ UNCHANGED <<hosts, findings>>
filter_service_open_raises ==
    /\ stage = "kept"
    /\ Unstated
    /\ stage' = "failed"
    /\ UNCHANGED <<hosts, services, findings>>

Next == Parse \/ filter_tarpits \/ filter_service_open \/ filter_service_open_raises
Spec == Init /\ [][Next]_vars

(* what project_hosts, project_services and import_parsed read *)
ServiceKey(h, k) == <<ByIid(h, k[1]), k[2]>>
FindingKey(h, s, k) ==
    <<ByIid(h, k[1]), IF k[2] = None THEN None ELSE ByIid(s, k[2])[2], k[3]>>
=============================================================================
