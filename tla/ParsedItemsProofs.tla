-------------------------- MODULE ParsedItemsProofs --------------------------
(***************************************************************************)
(* Theorems about ParsedItems, for every set of addresses, ports, names    *)
(* and values, and tables of any length.                                   *)
(***************************************************************************)
EXTENDS ParsedItemsProps, FiniteSetTheorems, TLAPS

(* A table that inserts may still come to: its length is above every        *)
(* identifier, so the next one is new.                                      *)
Sound(t) ==
    /\ IsFiniteSet(DOMAIN t)
    /\ \A k \in DOMAIN t : t[k] \in Rows
    /\ Unique(t)
Growing(t) == Sound(t) /\ \A k \in DOMAIN t : t[k].iid < len(t)

Tables ==
    /\ Sound(hosts) /\ Sound(services) /\ Sound(findings)
    /\ stage = "parse" => Growing(hosts) /\ Growing(services) /\ Growing(findings)

ItemsInv == TypeOK /\ Tables /\ Resolves

-----------------------------------------------------------------------------
(* What a table is after an upsert: rows stay, with their identifiers.      *)
UpsertsTo(t, k, v, u) ==
    /\ DOMAIN u = DOMAIN t \cup {k}
    /\ \A x \in DOMAIN t : u[x].iid = t[x].iid
    /\ \A x \in DOMAIN t : x # k => u[x] = t[x]
    /\ u[k].iid = IF k \in DOMAIN t THEN t[k].iid ELSE len(t)
    /\ u[k].iid \in Nat
    /\ u[k].val = IF v = None /\ k \in DOMAIN t THEN t[k].val ELSE v
    /\ Growing(u)

LEMMA UpsertIs ==
    ASSUME NEW t, Growing(t), NEW k, NEW v \in Data
    PROVE  UpsertsTo(t, k, v, Upsert(t, k, v))
<1> DEFINE u == Upsert(t, k, v)
<1> SUFFICES UpsertsTo(t, k, v, u)
  OBVIOUS
<1>1. len(t) \in Nat
  BY FS_CardinalityType DEF Growing, Sound, len
<1>2. DOMAIN u = DOMAIN t \cup {k}
  BY DEF Upsert
<1>3. \A x \in DOMAIN t : x # k => u[x] = t[x]
  BY DEF Upsert
<1>4. CASE k \in DOMAIN t
  <2>1. u[k] = Update(t[k], v)
    BY <1>4 DEF Upsert
  <2>2. t[k] \in Rows
    BY <1>4 DEF Growing, Sound
  <2>3. /\ u[k].iid = t[k].iid
        /\ u[k] \in Rows
        /\ u[k].val = IF v = None THEN t[k].val ELSE v
    BY <2>1, <2>2 DEF Update, Rows
  <2>4. DOMAIN u = DOMAIN t
    BY <1>2, <1>4
  <2>5. \A x \in DOMAIN t : u[x].iid = t[x].iid
    BY <1>3, <2>3
  <2>6. \A x \in DOMAIN t : u[x] \in Rows
    BY <1>3, <2>3 DEF Growing, Sound
  <2>7. Growing(u)
    BY <2>4, <2>5, <2>6 DEF Growing, Sound, Unique, len
  <2> HIDE DEF u
  <2> QED
    BY <1>2, <1>3, <1>4, <2>2, <2>3, <2>5, <2>7 DEF UpsertsTo, Rows
<1>5. CASE k \notin DOMAIN t
  <2>1. u[k] = [iid |-> len(t), val |-> v]
    BY <1>5 DEF Upsert, Fresh
  <2>2. IsFiniteSet(DOMAIN u) /\ len(u) = len(t) + 1
    BY <1>2, <1>5, FS_AddElement DEF Growing, Sound, len
  <2>3. \A x \in DOMAIN t : u[x] = t[x]
    BY <1>3, <1>5
  <2>4. \A x \in DOMAIN u : u[x] \in Rows /\ u[x].iid < len(u)
    BY <1>1, <1>2, <2>1, <2>2, <2>3 DEF Growing, Sound, Rows
  <2>5. \A x \in DOMAIN t : u[x].iid < len(t) /\ u[x].iid \in Nat
    BY <2>3 DEF Growing, Sound, Rows
  <2>6. u[k].iid = len(t) /\ u[k].val = v
    BY <2>1
  <2>7. Unique(u)
    <3> SUFFICES ASSUME NEW x \in DOMAIN u, NEW y \in DOMAIN u, u[x].iid = u[y].iid
                 PROVE  x = y
      BY DEF Unique
    <3>1. CASE x # k /\ y # k
      BY <1>2, <2>3, <3>1 DEF Growing, Sound, Unique
    <3>2. CASE x = k \/ y = k
      <4> HIDE DEF u
      <4> QED
      BY <1>1, <1>2, <2>5, <2>6, <3>2
    <3> QED
      BY <3>1, <3>2
  <2>8. Growing(u)
    BY <2>2, <2>4, <2>7 DEF Growing, Sound
  <2> HIDE DEF u
  <2> QED
    BY <1>1, <1>2, <1>3, <1>5, <2>3, <2>6, <2>8 DEF UpsertsTo
<1> QED
  BY <1>4, <1>5

(* A removal leaves what is left as it is.                                  *)
RemovesTo(t, S, u) ==
    /\ DOMAIN u = DOMAIN t \ S
    /\ \A x \in DOMAIN u : u[x] = t[x]
    /\ Sound(u)

LEMMA RemoveIs ==
    ASSUME NEW t, Sound(t), NEW S
    PROVE  RemovesTo(t, S, Remove(t, S))
<1>1. /\ DOMAIN Remove(t, S) = DOMAIN t \ S
      /\ \A x \in DOMAIN t \ S : Remove(t, S)[x] = t[x]
  BY DEF Remove
<1>2. IsFiniteSet(DOMAIN Remove(t, S))
  BY <1>1, FS_Subset DEF Sound
<1> QED
  BY <1>1, <1>2 DEF RemovesTo, Sound, Unique

(* The row of an identifier is the one that has it.                         *)
LEMMA ByIidFinds ==
    ASSUME NEW t, Unique(t), NEW k \in DOMAIN t
    PROVE  ByIid(t, t[k].iid) = k
BY DEF ByIid, Unique

-----------------------------------------------------------------------------
(* What an upsert of a host and of a service returns.                       *)
LEMMA HostIidIs ==
    ASSUME ItemsInv, stage = "parse", NEW a, NEW v \in Data, NEW u,
           UpsertsTo(hosts, a, v, u)
    PROVE  HostIid(a) \in Nat /\ u[a].iid = HostIid(a)
<1>1. UpsertsTo(hosts, a, None, Upsert(hosts, a, None))
  BY UpsertIs DEF ItemsInv, Tables, Data
<1> QED
  BY <1>1 DEF UpsertsTo, HostIid

LEMMA ServiceIidIs ==
    ASSUME ItemsInv, stage = "parse", NEW a, NEW p, NEW v \in Data, NEW u,
           UpsertsTo(services, <<HostIid(a), p>>, v, u)
    PROVE  ServiceIid(a, p) \in Nat /\ u[<<HostIid(a), p>>].iid = ServiceIid(a, p)
<1> DEFINE k == <<HostIid(a), p>>
<1>1. UpsertsTo(services, k, None, Upsert(services, k, None))
  BY UpsertIs DEF ItemsInv, Tables, Data
<1>2. ServiceIid(a, p) = Upsert(services, k, None)[k].iid
  BY DEF ServiceIid
<1> HIDE DEF k
<1>3. ServiceIid(a, p) \in Nat /\ u[k].iid = ServiceIid(a, p)
  BY <1>1, <1>2 DEF UpsertsTo, k
<1> QED
  BY <1>3 DEF k

(* Tables that only grow keep every reference.                              *)
Grows(t, u) == /\ DOMAIN t \subseteq DOMAIN u
               /\ \A k \in DOMAIN t : u[k].iid = t[k].iid

LEMMA UpsertGrows ==
    ASSUME NEW t, NEW k, NEW v, NEW u, UpsertsTo(t, k, v, u)
    PROVE  Grows(t, u) /\ Growing(u)
BY DEF Grows, UpsertsTo

LEMMA HostKeeps ==
    ASSUME ItemsInv, stage = "parse", UNCHANGED stage,
           NEW a \in Address, NEW v \in Data, upsert_host(a, v)
    PROVE  ItemsInv'
<1>1. UNCHANGED <<services, findings>>
  BY DEF upsert_host
<1>2. UpsertsTo(hosts, a, v, hosts')
  BY UpsertIs DEF ItemsInv, Tables, upsert_host
<1>3. Grows(hosts, hosts') /\ Growing(hosts')
  BY <1>2, UpsertGrows
<1>4. DOMAIN hosts' = DOMAIN hosts \cup {a}
  BY <1>2 DEF UpsertsTo
<1>5. TypeOK'
  BY <1>1, <1>3, <1>4 DEF ItemsInv, TypeOK, Growing, Sound
<1>6. Tables'
  BY <1>1, <1>3 DEF ItemsInv, Tables, Growing
<1>7. Resolves'
  BY <1>1, <1>3 DEF ItemsInv, Resolves, Grows
<1> QED
  BY <1>5, <1>6, <1>7 DEF ItemsInv

(* A service and its host come to be, or were there.                        *)
LEMMA ServiceStep ==
    ASSUME ItemsInv, stage = "parse", UNCHANGED stage,
           NEW a \in Address, NEW p \in Port, NEW v \in Data,
           hosts' = Upsert(hosts, a, None),
           services' = Upsert(services, <<HostIid(a), p>>, v)
    PROVE  /\ UpsertsTo(hosts, a, None, hosts')
           /\ UpsertsTo(services, <<HostIid(a), p>>, v, services')
           /\ HostIid(a) \in Nat
           /\ hosts'[a].iid = HostIid(a)
           /\ services'[<<HostIid(a), p>>].iid = ServiceIid(a, p)
           /\ ServiceIid(a, p) \in Nat
<1>1. UpsertsTo(hosts, a, None, hosts') /\ None \in Data
  BY UpsertIs DEF ItemsInv, Tables, Data
<1>2. UpsertsTo(services, <<HostIid(a), p>>, v, services')
  BY UpsertIs DEF ItemsInv, Tables
<1>3. HostIid(a) \in Nat /\ hosts'[a].iid = HostIid(a)
  BY <1>1, HostIidIs
<1>4. services'[<<HostIid(a), p>>].iid = ServiceIid(a, p) /\ ServiceIid(a, p) \in Nat
  BY <1>2, ServiceIidIs
<1> QED
  BY <1>1, <1>2, <1>3, <1>4

LEMMA ServiceKeeps ==
    ASSUME ItemsInv, stage = "parse", UNCHANGED stage,
           NEW a \in Address, NEW p \in Port, NEW v \in Data, upsert_service(a, p, v)
    PROVE  ItemsInv'
<1> DEFINE h == HostIid(a)
<1>1. /\ UpsertsTo(hosts, a, None, hosts')
      /\ UpsertsTo(services, <<h, p>>, v, services')
      /\ findings' = findings
      /\ h \in Nat /\ hosts'[a].iid = h
  BY ServiceStep DEF upsert_service
<1> HIDE DEF h
<1>2. /\ Grows(hosts, hosts') /\ Growing(hosts')
      /\ Grows(services, services') /\ Growing(services')
  BY <1>1, UpsertGrows
<1>3. /\ DOMAIN hosts' = DOMAIN hosts \cup {a}
      /\ DOMAIN services' = DOMAIN services \cup {<<h, p>>}
  BY <1>1 DEF UpsertsTo
<1>4. TypeOK'
  BY <1>1, <1>2, <1>3 DEF ItemsInv, TypeOK, Growing, Sound
<1>5. Tables'
  BY <1>1, <1>2 DEF ItemsInv, Tables, Growing
<1>6. Resolves'
  <2>1. \A k \in DOMAIN services' : \E b \in DOMAIN hosts' : hosts'[b].iid = k[1]
    BY <1>1, <1>2, <1>3 DEF ItemsInv, Resolves, Grows
  <2>2. \A k \in DOMAIN findings' : \E b \in DOMAIN hosts' : hosts'[b].iid = k[1]
    BY <1>1, <1>2 DEF ItemsInv, Resolves, Grows
  <2>3. \A k \in DOMAIN findings' :
            k[2] = None \/ \E s \in DOMAIN services' : services'[s].iid = k[2] /\ s[1] = k[1]
    BY <1>1, <1>2 DEF ItemsInv, Resolves, Grows
  <2> QED
    BY <2>1, <2>2, <2>3 DEF Resolves
<1> QED
  BY <1>4, <1>5, <1>6 DEF ItemsInv

(* The host's and, with a port, the service's row a finding points to.      *)
LEMMA FindingStep ==
    ASSUME ItemsInv, stage = "parse", UNCHANGED stage,
           NEW a \in Address, NEW p \in Port \cup {None}, NEW n \in Name, NEW v \in Data,
           upsert_finding(a, p, n, v)
    PROVE  /\ UpsertsTo(hosts, a, None, hosts')
           /\ UpsertsTo(findings, <<HostIid(a), Link(a, p), n>>, v, findings')
           /\ HostIid(a) \in Nat
           /\ hosts'[a].iid = HostIid(a)
           /\ p = None => services' = services /\ Link(a, p) = None
           /\ p # None => /\ UpsertsTo(services, <<HostIid(a), p>>, None, services')
                          /\ services'[<<HostIid(a), p>>].iid = Link(a, p)
                          /\ Link(a, p) \in Nat
<1>1. UpsertsTo(findings, <<HostIid(a), Link(a, p), n>>, v, findings') /\ None \in Data
  BY UpsertIs DEF ItemsInv, Tables, upsert_finding, Data
<1>2. UpsertsTo(hosts, a, None, hosts')
  BY <1>1, UpsertIs DEF ItemsInv, Tables, upsert_finding
<1>3. HostIid(a) \in Nat /\ hosts'[a].iid = HostIid(a)
  BY <1>1, <1>2, HostIidIs
<1>4. p = None => services' = services /\ Link(a, p) = None
  BY DEF upsert_finding, Link
<1>5. ASSUME p # None
      PROVE  /\ UpsertsTo(services, <<HostIid(a), p>>, None, services')
             /\ services'[<<HostIid(a), p>>].iid = Link(a, p)
             /\ Link(a, p) \in Nat
  BY <1>1, <1>5, ServiceStep DEF upsert_finding, Link
<1> QED
  BY <1>1, <1>2, <1>3, <1>4, <1>5

LEMMA FindingKeeps ==
    ASSUME ItemsInv, stage = "parse", UNCHANGED stage,
           NEW a \in Address, NEW p \in Port \cup {None}, NEW n \in Name, NEW v \in Data,
           upsert_finding(a, p, n, v)
    PROVE  ItemsInv'
<1> DEFINE h == HostIid(a)
           l == Link(a, p)
<1>1. /\ UpsertsTo(hosts, a, None, hosts')
      /\ UpsertsTo(findings, <<h, l, n>>, v, findings')
      /\ h \in Nat /\ hosts'[a].iid = h
      /\ p = None => services' = services /\ l = None
      /\ p # None => /\ UpsertsTo(services, <<h, p>>, None, services')
                     /\ services'[<<h, p>>].iid = l
                     /\ l \in Nat
  BY FindingStep
<1> HIDE DEF h, l
<1>2. /\ Grows(hosts, hosts') /\ Growing(hosts')
      /\ Grows(findings, findings') /\ Growing(findings')
  BY <1>1, UpsertGrows
<1>3. Grows(services, services') /\ Growing(services')
  <2>1. CASE p = None
    BY <1>1, <2>1 DEF ItemsInv, Tables, Grows
  <2>2. CASE p # None
    BY <1>1, <2>2, UpsertGrows
  <2> QED
    BY <2>1, <2>2
<1>4. /\ DOMAIN hosts' = DOMAIN hosts \cup {a}
      /\ DOMAIN findings' = DOMAIN findings \cup {<<h, l, n>>}
      /\ p # None => DOMAIN services' = DOMAIN services \cup {<<h, p>>}
  BY <1>1 DEF UpsertsTo
<1>5. DOMAIN services' \subseteq Nat \X Port
  BY <1>1, <1>4 DEF ItemsInv, TypeOK
<1>6. TypeOK'
  BY <1>1, <1>2, <1>3, <1>4, <1>5 DEF ItemsInv, TypeOK, Growing, Sound
<1>7. Tables'
  BY <1>2, <1>3 DEF ItemsInv, Tables, Growing
<1>8. Resolves'
  <2>1. \A k \in DOMAIN services' : \E b \in DOMAIN hosts' : hosts'[b].iid = k[1]
    BY <1>1, <1>2, <1>4 DEF ItemsInv, Resolves, Grows
  <2>2. \A k \in DOMAIN findings' : \E b \in DOMAIN hosts' : hosts'[b].iid = k[1]
    BY <1>1, <1>2, <1>4 DEF ItemsInv, Resolves, Grows
  <2>3. ASSUME NEW k \in DOMAIN findings'
        PROVE  k[2] = None \/ \E s \in DOMAIN services' : services'[s].iid = k[2] /\ s[1] = k[1]
    <3>1. CASE k \in DOMAIN findings
      BY <1>3, <3>1 DEF ItemsInv, Resolves, Grows
    <3>2. CASE k = <<h, l, n>>
      BY <1>1, <1>4, <3>2
    <3> QED
      BY <1>4, <3>1, <3>2
  <2> QED
    BY <2>1, <2>2, <2>3 DEF Resolves
<1> QED
  BY <1>6, <1>7, <1>8 DEF ItemsInv

-----------------------------------------------------------------------------
(* What the filters leave still finds its rows.                             *)
LEMMA TarpitsKeeps ==
    ASSUME ItemsInv, filter_tarpits
    PROVE  ItemsInv'
<1> DEFINE S == OverThreshold
<1>1. /\ hosts' = Remove(hosts, S)
      /\ services' = Remove(services, OfHost(services, S))
      /\ findings' = Remove(findings, OfHost(findings, S))
      /\ stage = "parse" /\ stage' = "kept"
  BY DEF filter_tarpits
<1>2. /\ Sound(hosts) /\ Sound(services) /\ Sound(findings)
  BY DEF ItemsInv, Tables
<1>3. RemovesTo(hosts, S, hosts')
  BY <1>1, <1>2, RemoveIs
<1>4. RemovesTo(services, OfHost(services, S), services')
  BY <1>1, <1>2, RemoveIs
<1>5. RemovesTo(findings, OfHost(findings, S), findings')
  BY <1>1, <1>2, RemoveIs
<1> HIDE DEF S
<1>6. Unique(hosts)
  BY <1>2 DEF Sound
<1>7. ASSUME NEW t \in {services, findings}, NEW k \in DOMAIN t
      PROVE  \E a \in DOMAIN hosts :
                 hosts[a].iid = k[1] /\ (k \in OfHost(t, S) <=> a \in S)
  <2>1. PICK a \in DOMAIN hosts : hosts[a].iid = k[1]
    BY DEF ItemsInv, Resolves
  <2>2. ByIid(hosts, k[1]) = a
    BY <1>6, <2>1, ByIidFinds
  <2> QED
    BY <2>1, <2>2 DEF OfHost
<1>8. TypeOK'
  BY <1>1, <1>3, <1>4, <1>5 DEF ItemsInv, TypeOK, RemovesTo
<1>9. Tables'
  BY <1>1, <1>3, <1>4, <1>5 DEF Tables, RemovesTo
<1>10. Resolves'
  <2>1. \A k \in DOMAIN services' : \E a \in DOMAIN hosts' : hosts'[a].iid = k[1]
    BY <1>3, <1>4, <1>7 DEF RemovesTo
  <2>2. \A k \in DOMAIN findings' : \E a \in DOMAIN hosts' : hosts'[a].iid = k[1]
    BY <1>3, <1>5, <1>7 DEF RemovesTo
  <2>3. ASSUME NEW k \in DOMAIN findings', k[2] # None
        PROVE  \E s \in DOMAIN services' : services'[s].iid = k[2] /\ s[1] = k[1]
    <3>1. PICK s \in DOMAIN services : services[s].iid = k[2] /\ s[1] = k[1]
      BY <1>1, <1>5, <2>3 DEF ItemsInv, Resolves, RemovesTo
    <3>2. PICK a \in DOMAIN hosts : hosts[a].iid = k[1] /\ (k \in OfHost(findings, S) <=> a \in S)
      BY <1>5, <1>7 DEF RemovesTo
    <3>3. PICK b \in DOMAIN hosts : hosts[b].iid = s[1] /\ (s \in OfHost(services, S) <=> b \in S)
      BY <1>7
    <3>4. a = b
      BY <1>6, <3>1, <3>2, <3>3 DEF Unique
    <3>5. s \in DOMAIN services' /\ services'[s].iid = k[2]
      BY <1>4, <1>5, <3>1, <3>2, <3>3, <3>4 DEF RemovesTo
    <3> QED
      BY <3>1, <3>5
  <2> QED
    BY <2>1, <2>2, <2>3 DEF Resolves
<1> QED
  BY <1>8, <1>9, <1>10 DEF ItemsInv

LEMMA OpenKeeps ==
    ASSUME ItemsInv, filter_service_open
    PROVE  ItemsInv'
<1> DEFINE shut == {k \in DOMAIN services : services[k].val \notin Open}
<1>1. /\ services' = Remove(services, shut)
      /\ UNCHANGED <<hosts, findings>>
      /\ stage' = "open"
  BY DEF filter_service_open
<1>2. Sound(services)
  BY DEF ItemsInv, Tables
<1> HIDE DEF shut
<1>3. RemovesTo(services, shut, services')
  BY <1>1, <1>2, RemoveIs
<1>4. TypeOK'
  BY <1>1, <1>3 DEF ItemsInv, TypeOK, RemovesTo
<1>5. Tables'
  BY <1>1, <1>3 DEF ItemsInv, Tables, RemovesTo
<1>6. Resolves'
  BY <1>1, <1>3 DEF ItemsInv, Resolves, RemovesTo
<1> QED
  BY <1>4, <1>5, <1>6 DEF ItemsInv

LEMMA Empty == Growing(<<>>)
<1>1. DOMAIN <<>> = {} /\ IsFiniteSet({})
  BY FS_EmptySet
<1> QED
  BY <1>1 DEF Growing, Sound, Unique

LEMMA ItemsInit == Init => ItemsInv
<1> SUFFICES ASSUME Init PROVE ItemsInv
  OBVIOUS
<1>1. hosts = <<>> /\ services = <<>> /\ findings = <<>> /\ stage = "parse"
  BY DEF Init
<1>2. Growing(hosts) /\ Growing(services) /\ Growing(findings)
  BY <1>1, Empty
<1>3. DOMAIN hosts = {} /\ DOMAIN services = {} /\ DOMAIN findings = {}
  BY <1>1
<1>4. TypeOK
  BY <1>1, <1>3 DEF TypeOK
<1>5. Resolves
  BY <1>3 DEF Resolves
<1> QED
  BY <1>2, <1>4, <1>5 DEF ItemsInv, Tables, Growing

LEMMA ItemsNext == ItemsInv /\ [Next]_vars => ItemsInv'
<1> SUFFICES ASSUME ItemsInv, [Next]_vars PROVE ItemsInv'
  OBVIOUS
<1>1. CASE Parse
  BY <1>1, HostKeeps, ServiceKeeps, FindingKeeps DEF Parse
<1>2. CASE filter_tarpits
  BY <1>2, TarpitsKeeps
<1>3. CASE filter_service_open
  BY <1>3, OpenKeeps
<1>4. CASE filter_service_open_raises
  <2>1. UNCHANGED <<hosts, services, findings>> /\ stage = "kept" /\ stage' = "failed"
    BY <1>4 DEF filter_service_open_raises
  <2> QED
    BY <2>1 DEF ItemsInv, TypeOK, Tables, Resolves
<1>5. CASE UNCHANGED vars
  BY <1>5 DEF vars, ItemsInv, TypeOK, Tables, Resolves
<1> QED
  BY <1>1, <1>2, <1>3, <1>4, <1>5 DEF Next

LEMMA ItemsAlways == Spec => []ItemsInv
BY ItemsInit, ItemsNext, PTL DEF Spec

(* Types of the tables, after any upserts and filters.                      *)
THEOREM ItemsTypes == Spec => []TypeOK
<1>1. ItemsInv => TypeOK
  BY DEF ItemsInv
<1> QED
  BY <1>1, ItemsAlways, PTL

(* LittleTable's unique index never refuses an insert: identifiers are      *)
(* given out once, whatever the filters take away afterwards.               *)
THEOREM ItemsIdentified == Spec => []Identified
<1>1. ItemsInv => Identified
  BY DEF ItemsInv, Tables, Sound, Identified
<1> QED
  BY <1>1, ItemsAlways, PTL

(* by.iid never raises in import_parsed and in the projections.             *)
THEOREM ItemsResolve == Spec => []Resolves
<1>1. ItemsInv => Resolves
  BY DEF ItemsInv
<1> QED
  BY <1>1, ItemsAlways, PTL

-----------------------------------------------------------------------------
(* Lookups through identifiers, of any tables h, s and f that fit.          *)
Fit(h, s) ==
    /\ Sound(h) /\ Sound(s)
    /\ DOMAIN s \subseteq Nat \X Port
    /\ \A k \in DOMAIN s : \E a \in DOMAIN h : h[a].iid = k[1]
FitAll(h, s, f) ==
    /\ Fit(h, s) /\ Sound(f)
    /\ DOMAIN f \subseteq Nat \X (Nat \cup {None}) \X Name
    /\ \A k \in DOMAIN f : \E a \in DOMAIN h : h[a].iid = k[1]
    /\ \A k \in DOMAIN f :
           k[2] = None \/ \E r \in DOMAIN s : s[r].iid = k[2] /\ r[1] = k[1]

LEMMA InvFits ==
    ItemsInv => Fit(hosts, services) /\ (stage # "open" => FitAll(hosts, services, findings))
BY DEF ItemsInv, TypeOK, Tables, Resolves, Fit, FitAll

LEMMA InvFitsNext ==
    ItemsInv' => Fit(hosts', services') /\ (stage' # "open" => FitAll(hosts', services', findings'))
BY DEF ItemsInv, TypeOK, Tables, Resolves, Fit, FitAll

(* A service's key tells its host and port, and no other has it.            *)
LEMMA ServiceKeyIs ==
    ASSUME NEW h, NEW s, Fit(h, s), NEW k \in DOMAIN s, NEW a \in DOMAIN h, h[a].iid = k[1]
    PROVE  ServiceKey(h, k) = <<a, k[2]>>
<1>1. ByIid(h, k[1]) = a
  BY ByIidFinds DEF Fit, Sound
<1> QED
  BY <1>1 DEF ServiceKey

LEMMA ServiceKeyOnce ==
    ASSUME NEW h, NEW s, Fit(h, s), NEW k \in DOMAIN s, NEW l \in DOMAIN s,
           ServiceKey(h, k) = ServiceKey(h, l)
    PROVE  k = l
<1>1. PICK a \in DOMAIN h : h[a].iid = k[1]
  BY DEF Fit
<1>2. PICK b \in DOMAIN h : h[b].iid = l[1]
  BY DEF Fit
<1>3. <<a, k[2]>> = <<b, l[2]>>
  BY <1>1, <1>2, ServiceKeyIs
<1>4. k[1] = l[1] /\ k[2] = l[2]
  BY <1>1, <1>2, <1>3
<1>5. k \in Nat \X Port /\ l \in Nat \X Port
  BY DEF Fit
<1> QED
  BY <1>4, <1>5

LEMMA ServicesSaidIs ==
    ASSUME NEW h, NEW s, Fit(h, s), NEW k \in DOMAIN s
    PROVE  /\ ServiceKey(h, k) \in DOMAIN ServicesSaid(h, s)
           /\ ServicesSaid(h, s)[ServiceKey(h, k)] = s[k].val
<1> DEFINE c == ServiceKey(h, k)
           l == CHOOSE x \in DOMAIN s : ServiceKey(h, x) = c
<1>1. l \in DOMAIN s /\ ServiceKey(h, l) = c
  OBVIOUS
<1>2. l = k
  BY <1>1, ServiceKeyOnce
<1>3. c \in {ServiceKey(h, x) : x \in DOMAIN s}
  OBVIOUS
<1>4. c \in DOMAIN ServicesSaid(h, s) /\ ServicesSaid(h, s)[c] = s[l].val
  BY <1>3 DEF ServicesSaid
<1> QED
  BY <1>2, <1>4

LEMMA ServicesSaidOf ==
    ASSUME NEW h, NEW s, NEW c \in DOMAIN ServicesSaid(h, s)
    PROVE  \E k \in DOMAIN s : c = ServiceKey(h, k)
BY DEF ServicesSaid

(* Keys do not change while hosts come.                                     *)
LEMMA ServiceKeyStays ==
    ASSUME NEW h, NEW s, Fit(h, s), NEW h2, Sound(h2), Grows(h, h2), NEW k \in DOMAIN s
    PROVE  ServiceKey(h2, k) = ServiceKey(h, k)
<1>1. PICK a \in DOMAIN h : h[a].iid = k[1]
  BY DEF Fit
<1>2. a \in DOMAIN h2 /\ h2[a].iid = k[1]
  BY <1>1 DEF Grows
<1>3. ByIid(h, k[1]) = a
  BY <1>1, ByIidFinds DEF Fit, Sound
<1>4. ByIid(h2, k[1]) = a
  BY <1>2, ByIidFinds DEF Sound
<1> QED
  BY <1>3, <1>4 DEF ServiceKey

LEMMA ServicesStay ==
    ASSUME NEW h, NEW s, Fit(h, s), NEW h2, Sound(h2), Grows(h, h2)
    PROVE  ServicesSaid(h2, s) = ServicesSaid(h, s)
<1>1. \A k \in DOMAIN s : ServiceKey(h2, k) = ServiceKey(h, k)
  BY ServiceKeyStays
<1>2. Fit(h2, s)
  BY DEF Fit, Grows
<1> DEFINE old == ServicesSaid(h, s)
           new == ServicesSaid(h2, s)
<1>3. DOMAIN new = {ServiceKey(h2, k) : k \in DOMAIN s} /\ new = [c \in DOMAIN new |-> new[c]]
  BY DEF ServicesSaid
<1>4. DOMAIN old = {ServiceKey(h, k) : k \in DOMAIN s} /\ old = [c \in DOMAIN old |-> old[c]]
  BY DEF ServicesSaid
<1>5. DOMAIN new = DOMAIN old
  BY <1>1, <1>3, <1>4
<1>6. ASSUME NEW c \in DOMAIN old
      PROVE  new[c] = old[c]
  <2>1. PICK k \in DOMAIN s : c = ServiceKey(h, k)
    BY ServicesSaidOf
  <2>2. old[c] = s[k].val
    BY <2>1, ServicesSaidIs
  <2>3. new[c] = s[k].val
    BY <1>1, <1>2, <2>1, ServicesSaidIs
  <2> QED
    BY <2>2, <2>3
<1> HIDE DEF old, new
<1>7. new = old
  BY <1>3, <1>4, <1>5, <1>6
<1> QED
  BY <1>7 DEF old, new

(* An upsert of a service is what the parser says of it.                    *)
LEMMA ServiceSays ==
    ASSUME NEW h, NEW s, Fit(h, s), NEW h2, NEW s2, Fit(h2, s2), Grows(h, h2),
           NEW a \in DOMAIN h2, NEW p, NEW v,
           UpsertsTo(s, <<h2[a].iid, p>>, v, s2)
    PROVE  ServicesSaid(h2, s2) = R!Says(ServicesSaid(h, s), <<a, p>>, v)
<1> DEFINE key == <<h2[a].iid, p>>
           c == <<a, p>>
           old == ServicesSaid(h, s)
           new == ServicesSaid(h2, s2)
<1>1. /\ DOMAIN s2 = DOMAIN s \cup {key}
      /\ \A x \in DOMAIN s : x # key => s2[x] = s[x]
      /\ s2[key].val = IF v = None /\ key \in DOMAIN s THEN s[key].val ELSE v
  BY DEF UpsertsTo
<1>2. ServiceKey(h2, key) = c
  BY <1>1, ServiceKeyIs
<1>3. \A k \in DOMAIN s : ServiceKey(h2, k) = ServiceKey(h, k)
  BY ServiceKeyStays DEF Fit
<1>4. \A k \in DOMAIN s : ServiceKey(h, k) = c <=> k = key
  BY <1>1, <1>2, <1>3, ServiceKeyOnce
<1>5. DOMAIN new = {ServiceKey(h2, k) : k \in DOMAIN s2}
  BY DEF ServicesSaid
<1>6. DOMAIN old = {ServiceKey(h, k) : k \in DOMAIN s}
  BY DEF ServicesSaid
<1>7. DOMAIN new = DOMAIN old \cup {c}
  BY <1>1, <1>2, <1>3, <1>5, <1>6
<1>8. new[c] = s2[key].val
  BY <1>1, <1>2, ServicesSaidIs
<1>9. c \in DOMAIN old <=> key \in DOMAIN s
  BY <1>4, <1>6
<1>10. key \in DOMAIN s => old[c] = s[key].val
  BY <1>4, ServicesSaidIs
<1>11. ASSUME NEW x \in DOMAIN old, x # c
       PROVE  new[x] = old[x]
  <2>1. PICK k \in DOMAIN s : x = ServiceKey(h, k)
    BY <1>11, ServicesSaidOf
  <2>2. k # key /\ k \in DOMAIN s2
    BY <1>1, <1>4, <1>11, <2>1
  <2>3. old[x] = s[k].val
    BY <2>1, ServicesSaidIs
  <2>4. new[x] = s2[k].val
    BY <1>3, <2>1, <2>2, ServicesSaidIs
  <2> QED
    BY <1>1, <2>2, <2>3, <2>4
<1>12. new = [x \in DOMAIN new |-> new[x]]
  BY DEF ServicesSaid
<1> HIDE DEF old, new, key, c
<1>13. R!Says(old, c, v) =
           [x \in DOMAIN old \cup {c} |->
               IF x # c THEN old[x] ELSE IF v = None /\ c \in DOMAIN old THEN old[c] ELSE v]
  BY DEF R!Says
<1>14. \A x \in DOMAIN new :
          new[x] = IF x # c THEN old[x] ELSE IF v = None /\ c \in DOMAIN old THEN old[c] ELSE v
  BY <1>1, <1>7, <1>8, <1>9, <1>10, <1>11
<1>15. new = R!Says(old, c, v)
  BY <1>7, <1>12, <1>13, <1>14
<1> QED
  BY <1>15 DEF old, new, c

(* The same of findings.                                                    *)
LEMMA FindingKeyIs ==
    ASSUME NEW h, NEW s, NEW f, FitAll(h, s, f), NEW k \in DOMAIN f,
           NEW a \in DOMAIN h, h[a].iid = k[1]
    PROVE  /\ k[2] = None => FindingKey(h, s, k) = <<a, None, k[3]>>
           /\ \A r \in DOMAIN s : k[2] # None /\ s[r].iid = k[2] =>
                  FindingKey(h, s, k) = <<a, r[2], k[3]>>
<1>1. ByIid(h, k[1]) = a
  BY ByIidFinds DEF FitAll, Fit, Sound
<1>2. ASSUME NEW r \in DOMAIN s, s[r].iid = k[2]
      PROVE  ByIid(s, k[2]) = r
  BY <1>2, ByIidFinds DEF FitAll, Fit, Sound
<1> QED
  BY <1>1, <1>2 DEF FindingKey

LEMMA FindingKeyOnce ==
    ASSUME NEW h, NEW s, NEW f, FitAll(h, s, f), NEW k \in DOMAIN f, NEW l \in DOMAIN f,
           FindingKey(h, s, k) = FindingKey(h, s, l)
    PROVE  k = l
<1>1. PICK a \in DOMAIN h : h[a].iid = k[1]
  BY DEF FitAll
<1>2. PICK b \in DOMAIN h : h[b].iid = l[1]
  BY DEF FitAll
<1>3. k \in Nat \X (Nat \cup {None}) \X Name /\ l \in Nat \X (Nat \cup {None}) \X Name
  BY DEF FitAll
<1>4. k[2] = None \/ \E r \in DOMAIN s : s[r].iid = k[2] /\ r[1] = k[1]
  BY DEF FitAll
<1>5. l[2] = None \/ \E r \in DOMAIN s : s[r].iid = l[2] /\ r[1] = l[1]
  BY DEF FitAll
<1>6. \A r \in DOMAIN s : r = <<r[1], r[2]>> /\ r[2] # None
  BY NoneAssumption DEF FitAll, Fit
<1>7. CASE k[2] = None /\ l[2] = None
  <2>1. <<a, None, k[3]>> = <<b, None, l[3]>>
    BY <1>1, <1>2, <1>7, FindingKeyIs
  <2> QED
    BY <1>1, <1>2, <1>3, <1>7, <2>1
<1>8. CASE k[2] = None /\ l[2] # None
  <2>1. PICK r \in DOMAIN s : s[r].iid = l[2] /\ r[1] = l[1]
    BY <1>5, <1>8
  <2>2. <<a, None, k[3]>> = <<b, r[2], l[3]>>
    BY <1>1, <1>2, <1>8, <2>1, FindingKeyIs
  <2> QED
    BY <1>6, <2>2
<1>9. CASE k[2] # None /\ l[2] = None
  <2>1. PICK r \in DOMAIN s : s[r].iid = k[2] /\ r[1] = k[1]
    BY <1>4, <1>9
  <2>2. <<a, r[2], k[3]>> = <<b, None, l[3]>>
    BY <1>1, <1>2, <1>9, <2>1, FindingKeyIs
  <2> QED
    BY <1>6, <2>2
<1>10. CASE k[2] # None /\ l[2] # None
  <2>1. PICK r \in DOMAIN s : s[r].iid = k[2] /\ r[1] = k[1]
    BY <1>4, <1>10
  <2>2. PICK q \in DOMAIN s : s[q].iid = l[2] /\ q[1] = l[1]
    BY <1>5, <1>10
  <2>3. <<a, r[2], k[3]>> = <<b, q[2], l[3]>>
    BY <1>1, <1>2, <1>10, <2>1, <2>2, FindingKeyIs
  <2>4. a = b /\ r[2] = q[2] /\ k[3] = l[3]
    BY <2>3
  <2>5. k[1] = l[1]
    BY <1>1, <1>2, <2>4
  <2>6. r = q
    BY <1>6, <2>1, <2>2, <2>4, <2>5
  <2>7. k[2] = l[2]
    BY <2>1, <2>2, <2>6
  <2> QED
    BY <1>3, <2>4, <2>5, <2>7
<1> QED
  BY <1>7, <1>8, <1>9, <1>10

LEMMA FindingsSaidIs ==
    ASSUME NEW h, NEW s, NEW f, FitAll(h, s, f), NEW k \in DOMAIN f
    PROVE  /\ FindingKey(h, s, k) \in DOMAIN FindingsSaid(h, s, f)
           /\ FindingsSaid(h, s, f)[FindingKey(h, s, k)] = f[k].val
<1> DEFINE c == FindingKey(h, s, k)
           l == CHOOSE x \in DOMAIN f : FindingKey(h, s, x) = c
<1>1. l \in DOMAIN f /\ FindingKey(h, s, l) = c
  OBVIOUS
<1>2. l = k
  BY <1>1, FindingKeyOnce
<1>3. c \in {FindingKey(h, s, x) : x \in DOMAIN f}
  OBVIOUS
<1>4. c \in DOMAIN FindingsSaid(h, s, f) /\ FindingsSaid(h, s, f)[c] = f[l].val
  BY <1>3 DEF FindingsSaid
<1> QED
  BY <1>2, <1>4

LEMMA FindingsSaidOf ==
    ASSUME NEW h, NEW s, NEW f, NEW c \in DOMAIN FindingsSaid(h, s, f)
    PROVE  \E k \in DOMAIN f : c = FindingKey(h, s, k)
BY DEF FindingsSaid

LEMMA FindingKeyStays ==
    ASSUME NEW h, NEW s, NEW f, FitAll(h, s, f), NEW h2, NEW s2, Sound(h2), Sound(s2),
           Grows(h, h2), Grows(s, s2), NEW k \in DOMAIN f
    PROVE  FindingKey(h2, s2, k) = FindingKey(h, s, k)
<1>1. PICK a \in DOMAIN h : h[a].iid = k[1]
  BY DEF FitAll
<1>2. a \in DOMAIN h2 /\ h2[a].iid = k[1]
  BY <1>1 DEF Grows
<1>3. ByIid(h, k[1]) = a /\ ByIid(h2, k[1]) = a
  BY <1>1, <1>2, ByIidFinds DEF FitAll, Fit, Sound
<1>4. CASE k[2] = None
  BY <1>3, <1>4 DEF FindingKey
<1>5. CASE k[2] # None
  <2>1. PICK r \in DOMAIN s : s[r].iid = k[2]
    BY <1>5 DEF FitAll
  <2>2. r \in DOMAIN s2 /\ s2[r].iid = k[2]
    BY <2>1 DEF Grows
  <2>3. ByIid(s, k[2]) = r /\ ByIid(s2, k[2]) = r
    BY <2>1, <2>2, ByIidFinds DEF FitAll, Fit, Sound
  <2> QED
    BY <1>3, <2>3 DEF FindingKey
<1> QED
  BY <1>4, <1>5

LEMMA FindingsStay ==
    ASSUME NEW h, NEW s, NEW f, FitAll(h, s, f), NEW h2, NEW s2, Sound(h2), Sound(s2),
           Fit(h2, s2), Grows(h, h2), Grows(s, s2)
    PROVE  FindingsSaid(h2, s2, f) = FindingsSaid(h, s, f)
<1>1. \A k \in DOMAIN f : FindingKey(h2, s2, k) = FindingKey(h, s, k)
  BY FindingKeyStays
<1>2. FitAll(h2, s2, f)
  BY DEF FitAll, Fit, Grows
<1> DEFINE old == FindingsSaid(h, s, f)
           new == FindingsSaid(h2, s2, f)
<1>3. DOMAIN new = {FindingKey(h2, s2, k) : k \in DOMAIN f} /\ new = [c \in DOMAIN new |-> new[c]]
  BY DEF FindingsSaid
<1>4. DOMAIN old = {FindingKey(h, s, k) : k \in DOMAIN f} /\ old = [c \in DOMAIN old |-> old[c]]
  BY DEF FindingsSaid
<1>5. DOMAIN new = DOMAIN old
  BY <1>1, <1>3, <1>4
<1>6. ASSUME NEW c \in DOMAIN old
      PROVE  new[c] = old[c]
  <2>1. PICK k \in DOMAIN f : c = FindingKey(h, s, k)
    BY FindingsSaidOf
  <2>2. old[c] = f[k].val
    BY <2>1, FindingsSaidIs
  <2>3. new[c] = f[k].val
    BY <1>1, <1>2, <2>1, FindingsSaidIs
  <2> QED
    BY <2>2, <2>3
<1> HIDE DEF old, new
<1>7. new = old
  BY <1>3, <1>4, <1>5, <1>6
<1> QED
  BY <1>7 DEF old, new

(* An upsert of a finding: its key tells what was reported.                 *)
LEMMA FindingSays ==
    ASSUME NEW h, NEW s, NEW f, FitAll(h, s, f),
           NEW h2, NEW s2, NEW f2, FitAll(h2, s2, f2), Grows(h, h2), Grows(s, s2),
           NEW key, NEW c, NEW v, UpsertsTo(f, key, v, f2), FindingKey(h2, s2, key) = c
    PROVE  FindingsSaid(h2, s2, f2) = R!Says(FindingsSaid(h, s, f), c, v)
<1> DEFINE old == FindingsSaid(h, s, f)
           new == FindingsSaid(h2, s2, f2)
<1>1. /\ DOMAIN f2 = DOMAIN f \cup {key}
      /\ \A x \in DOMAIN f : x # key => f2[x] = f[x]
      /\ f2[key].val = IF v = None /\ key \in DOMAIN f THEN f[key].val ELSE v
  BY DEF UpsertsTo
<1>2. \A k \in DOMAIN f : FindingKey(h2, s2, k) = FindingKey(h, s, k)
  BY FindingKeyStays DEF FitAll, Fit
<1>3. \A k \in DOMAIN f : FindingKey(h, s, k) = c <=> k = key
  BY <1>1, <1>2, FindingKeyOnce
<1>4. DOMAIN new = {FindingKey(h2, s2, k) : k \in DOMAIN f2}
  BY DEF FindingsSaid
<1>5. DOMAIN old = {FindingKey(h, s, k) : k \in DOMAIN f}
  BY DEF FindingsSaid
<1>6. DOMAIN new = DOMAIN old \cup {c}
  BY <1>1, <1>2, <1>4, <1>5
<1>7. new[c] = f2[key].val
  BY <1>1, FindingsSaidIs
<1>8. c \in DOMAIN old <=> key \in DOMAIN f
  BY <1>3, <1>5
<1>9. key \in DOMAIN f => old[c] = f[key].val
  BY <1>3, FindingsSaidIs
<1>10. ASSUME NEW x \in DOMAIN old, x # c
       PROVE  new[x] = old[x]
  <2>1. PICK k \in DOMAIN f : x = FindingKey(h, s, k)
    BY <1>10, FindingsSaidOf
  <2>2. k # key /\ k \in DOMAIN f2
    BY <1>1, <1>3, <1>10, <2>1
  <2>3. old[x] = f[k].val
    BY <2>1, FindingsSaidIs
  <2>4. new[x] = f2[k].val
    BY <1>2, <2>1, <2>2, FindingsSaidIs
  <2> QED
    BY <1>1, <2>2, <2>3, <2>4
<1>11. new = [x \in DOMAIN new |-> new[x]]
  BY DEF FindingsSaid
<1> HIDE DEF old, new
<1>12. R!Says(old, c, v) =
           [x \in DOMAIN old \cup {c} |->
               IF x # c THEN old[x] ELSE IF v = None /\ c \in DOMAIN old THEN old[c] ELSE v]
  BY DEF R!Says
<1>13. \A x \in DOMAIN new :
          new[x] = IF x # c THEN old[x] ELSE IF v = None /\ c \in DOMAIN old THEN old[c] ELSE v
  BY <1>1, <1>6, <1>7, <1>8, <1>9, <1>10
<1>14. new = R!Says(old, c, v)
  BY <1>6, <1>11, <1>12, <1>13
<1> QED
  BY <1>14 DEF old, new

(* An upsert of a host.                                                     *)
LEMMA HostSays ==
    ASSUME NEW h, NEW h2, NEW a, NEW v, UpsertsTo(h, a, v, h2)
    PROVE  HostsSaid(h2) = R!Says(HostsSaid(h), a, v)
BY DEF UpsertsTo, HostsSaid, R!Says

-----------------------------------------------------------------------------
(* Removals: what is left of the tables says what is left of the report.    *)
LEMMA HostsOnly ==
    ASSUME NEW h, NEW h2, NEW S, RemovesTo(h, S, h2), NEW K,
           \A a \in DOMAIN h : a \in K <=> a \notin S
    PROVE  HostsSaid(h2) = R!Only(HostsSaid(h), K)
BY DEF RemovesTo, HostsSaid, R!Only

LEMMA ServicesOnly ==
    ASSUME NEW h, NEW s, Fit(h, s), NEW h2, NEW s2, Fit(h2, s2), Grows(h2, h),
           NEW S, RemovesTo(s, S, s2), NEW K,
           \A k \in DOMAIN s : ServiceKey(h, k) \in K <=> k \notin S
    PROVE  ServicesSaid(h2, s2) = R!Only(ServicesSaid(h, s), K)
<1> DEFINE old == ServicesSaid(h, s)
           new == ServicesSaid(h2, s2)
<1>1. DOMAIN s2 = DOMAIN s \ S /\ \A k \in DOMAIN s2 : s2[k] = s[k]
  BY DEF RemovesTo
<1>2. \A k \in DOMAIN s2 : ServiceKey(h, k) = ServiceKey(h2, k)
  BY ServiceKeyStays DEF Fit
<1>3. DOMAIN new = {ServiceKey(h2, k) : k \in DOMAIN s2} /\ new = [c \in DOMAIN new |-> new[c]]
  BY DEF ServicesSaid
<1>4. DOMAIN old = {ServiceKey(h, k) : k \in DOMAIN s}
  BY DEF ServicesSaid
<1>5. DOMAIN new = DOMAIN old \cap K
  BY <1>1, <1>2, <1>3, <1>4
<1>6. ASSUME NEW c \in DOMAIN new
      PROVE  new[c] = old[c]
  <2>1. PICK k \in DOMAIN s2 : c = ServiceKey(h2, k)
    BY ServicesSaidOf
  <2>2. new[c] = s2[k].val
    BY <2>1, ServicesSaidIs
  <2>3. old[c] = s[k].val
    BY <1>1, <1>2, <2>1, ServicesSaidIs
  <2> QED
    BY <1>1, <2>2, <2>3
<1> HIDE DEF old, new
<1>7. R!Only(old, K) = [c \in DOMAIN old \cap K |-> old[c]]
  BY DEF R!Only
<1>8. new = R!Only(old, K)
  BY <1>3, <1>5, <1>6, <1>7
<1> QED
  BY <1>8 DEF old, new

LEMMA FindingsOnly ==
    ASSUME NEW h, NEW s, NEW f, FitAll(h, s, f),
           NEW h2, NEW s2, NEW f2, FitAll(h2, s2, f2), Grows(h2, h), Grows(s2, s),
           NEW S, RemovesTo(f, S, f2), NEW K,
           \A k \in DOMAIN f : FindingKey(h, s, k) \in K <=> k \notin S
    PROVE  FindingsSaid(h2, s2, f2) = R!Only(FindingsSaid(h, s, f), K)
<1> DEFINE old == FindingsSaid(h, s, f)
           new == FindingsSaid(h2, s2, f2)
<1>1. DOMAIN f2 = DOMAIN f \ S /\ \A k \in DOMAIN f2 : f2[k] = f[k]
  BY DEF RemovesTo
<1>2. \A k \in DOMAIN f2 : FindingKey(h, s, k) = FindingKey(h2, s2, k)
  BY FindingKeyStays DEF FitAll, Fit
<1>3. DOMAIN new = {FindingKey(h2, s2, k) : k \in DOMAIN f2} /\ new = [c \in DOMAIN new |-> new[c]]
  BY DEF FindingsSaid
<1>4. DOMAIN old = {FindingKey(h, s, k) : k \in DOMAIN f}
  BY DEF FindingsSaid
<1>5. DOMAIN new = DOMAIN old \cap K
  BY <1>1, <1>2, <1>3, <1>4
<1>6. ASSUME NEW c \in DOMAIN new
      PROVE  new[c] = old[c]
  <2>1. PICK k \in DOMAIN f2 : c = FindingKey(h2, s2, k)
    BY FindingsSaidOf
  <2>2. new[c] = f2[k].val
    BY <2>1, FindingsSaidIs
  <2>3. old[c] = f[k].val
    BY <1>1, <1>2, <2>1, FindingsSaidIs
  <2> QED
    BY <1>1, <2>2, <2>3
<1> HIDE DEF old, new
<1>7. R!Only(old, K) = [c \in DOMAIN old \cap K |-> old[c]]
  BY DEF R!Only
<1>8. new = R!Only(old, K)
  BY <1>3, <1>5, <1>6, <1>7
<1> QED
  BY <1>8 DEF old, new

-----------------------------------------------------------------------------
(* Every step of the tables is a step of the report.                        *)
Hosts == HostsSaid(hosts)
Services == ServicesSaid(hosts, services)
Findings == IF stage = "open" THEN [c \in {} |-> None]
            ELSE FindingsSaid(hosts, services, findings)

LEMMA ReportHost ==
    ASSUME ItemsInv, ItemsInv', stage = "parse", UNCHANGED stage,
           NEW a \in Address, NEW v \in Data, upsert_host(a, v)
    PROVE  R!Host(a, v)
<1>1. UNCHANGED <<services, findings>>
  BY DEF upsert_host
<1>2. UpsertsTo(hosts, a, v, hosts')
  BY UpsertIs DEF ItemsInv, Tables, upsert_host
<1>3. FitAll(hosts, services, findings) /\ FitAll(hosts', services', findings')
  BY InvFits, InvFitsNext
<1>4. Grows(hosts, hosts') /\ Grows(services, services)
  BY <1>2, UpsertGrows DEF Grows
<1>5. Services' = Services
  BY <1>1, <1>3, <1>4, ServicesStay DEF Services, FitAll, Fit
<1>6. Findings' = Findings
  <2>1. FindingsSaid(hosts', services, findings) = FindingsSaid(hosts, services, findings)
    BY <1>1, <1>3, <1>4, FindingsStay DEF FitAll, Fit
  <2> QED
    BY <1>1, <2>1 DEF Findings
<1>7. HostsSaid(hosts') = R!Says(HostsSaid(hosts), a, v)
  BY <1>2, HostSays
<1> QED
  BY <1>5, <1>6, <1>7 DEF R!Host, Services, Findings

LEMMA ReportService ==
    ASSUME ItemsInv, ItemsInv', stage = "parse", UNCHANGED stage,
           NEW a \in Address, NEW p \in Port, NEW v \in Data, upsert_service(a, p, v)
    PROVE  R!Service(a, p, v)
<1>1. /\ UpsertsTo(hosts, a, None, hosts')
      /\ UpsertsTo(services, <<HostIid(a), p>>, v, services')
      /\ hosts'[a].iid = HostIid(a)
      /\ findings' = findings
  BY ServiceStep DEF upsert_service
<1>2. FitAll(hosts, services, findings) /\ FitAll(hosts', services', findings')
  BY InvFits, InvFitsNext
<1>3. Fit(hosts, services) /\ Fit(hosts', services')
  BY <1>2 DEF FitAll
<1>4. Grows(hosts, hosts') /\ Grows(services, services')
  BY <1>1, UpsertGrows
<1>5. a \in DOMAIN hosts' /\ UpsertsTo(services, <<hosts'[a].iid, p>>, v, services')
  BY <1>1 DEF UpsertsTo
<1>6. ServicesSaid(hosts', services') = R!Says(ServicesSaid(hosts, services), <<a, p>>, v)
  BY <1>3, <1>4, <1>5, ServiceSays
<1>7. FindingsSaid(hosts', services', findings) = FindingsSaid(hosts, services, findings)
  BY <1>2, <1>3, <1>4, FindingsStay DEF Fit
<1>8. HostsSaid(hosts') = R!Says(HostsSaid(hosts), a, None)
  BY <1>1, HostSays
<1> QED
  BY <1>1, <1>6, <1>7, <1>8 DEF R!Service

LEMMA ReportFinding ==
    ASSUME ItemsInv, ItemsInv', stage = "parse", UNCHANGED stage,
           NEW a \in Address, NEW p \in Port \cup {None}, NEW n \in Name, NEW v \in Data,
           upsert_finding(a, p, n, v)
    PROVE  R!Finding(a, p, n, v)
<1> DEFINE key == <<HostIid(a), Link(a, p), n>>
<1>1. /\ UpsertsTo(hosts, a, None, hosts')
      /\ UpsertsTo(findings, key, v, findings')
      /\ hosts'[a].iid = HostIid(a)
      /\ p = None => services' = services /\ Link(a, p) = None
      /\ p # None => /\ UpsertsTo(services, <<HostIid(a), p>>, None, services')
                     /\ services'[<<HostIid(a), p>>].iid = Link(a, p)
                     /\ Link(a, p) \in Nat
  BY FindingStep
<1>2. FitAll(hosts, services, findings) /\ FitAll(hosts', services', findings')
  BY InvFits, InvFitsNext
<1>3. Fit(hosts, services) /\ Fit(hosts', services')
  BY <1>2 DEF FitAll
<1>4. Grows(hosts, hosts') /\ a \in DOMAIN hosts'
  BY <1>1, UpsertGrows DEF UpsertsTo
<1>5. Grows(services, services')
  <2>1. CASE p = None
    BY <1>1, <2>1 DEF Grows
  <2>2. CASE p # None
    BY <1>1, <2>2, UpsertGrows
  <2> QED
    BY <2>1, <2>2
<1>6. ServicesSaid(hosts', services') =
          IF p = None THEN ServicesSaid(hosts, services)
          ELSE R!Says(ServicesSaid(hosts, services), <<a, p>>, None)
  <2>1. CASE p = None
    BY <1>1, <1>3, <1>4, <2>1, ServicesStay DEF Fit
  <2>2. CASE p # None
    <3>1. UpsertsTo(services, <<hosts'[a].iid, p>>, None, services')
      BY <1>1, <2>2
    <3> QED
      BY <1>3, <1>4, <1>5, <2>2, <3>1, ServiceSays
  <2> QED
    BY <2>1, <2>2
<1>7. FindingKey(hosts', services', key) = <<a, p, n>>
  <2>1. key \in DOMAIN findings' /\ hosts'[a].iid = key[1]
    BY <1>1 DEF UpsertsTo
  <2>2. CASE p = None
    <3>1. key[2] = None
      BY <1>1, <2>2
    <3>2. FindingKey(hosts', services', key) = <<a, None, key[3]>>
      BY <1>2, <1>4, <2>1, <3>1, FindingKeyIs
    <3> QED
      BY <2>2, <3>2
  <2>3. CASE p # None
    <3> DEFINE r == <<HostIid(a), p>>
    <3>1. r \in DOMAIN services' /\ services'[r].iid = key[2]
      BY <1>1, <2>3 DEF UpsertsTo
    <3>2. key[2] # None
      BY <1>1, <2>3, NoneAssumption
    <3>3. FindingKey(hosts', services', key) = <<a, r[2], key[3]>>
      BY <1>2, <1>4, <2>1, <3>1, <3>2, FindingKeyIs
    <3> QED
      BY <3>3
  <2> QED
    BY <2>2, <2>3
<1> HIDE DEF key
<1>8. FindingsSaid(hosts', services', findings') =
          R!Says(FindingsSaid(hosts, services, findings), <<a, p, n>>, v)
  BY <1>1, <1>2, <1>4, <1>5, <1>7, FindingSays
<1>9. HostsSaid(hosts') = R!Says(HostsSaid(hosts), a, None)
  BY <1>1, HostSays
<1> QED
  BY <1>6, <1>8, <1>9 DEF R!Finding

(* A host is a tarpit by the services that point to it, or by those that    *)
(* were reported of it.                                                     *)
LEMMA SameTarpits ==
    ASSUME ItemsInv
    PROVE  R!Tarpits = OverThreshold
<1>1. Fit(hosts, services) /\ DOMAIN hosts \subseteq Address
  BY InvFits DEF ItemsInv, TypeOK
<1> DEFINE said == ServicesSaid(hosts, services)
           Rep(a) == {c \in DOMAIN said : c[1] = a}
           Of(a) == OfHost(services, {a})
<1>2. ASSUME NEW k \in DOMAIN services
      PROVE  ServiceKey(hosts, k)[1] = ByIid(hosts, k[1])
  BY DEF ServiceKey
<1>3. DOMAIN said = {ServiceKey(hosts, k) : k \in DOMAIN services}
  BY DEF ServicesSaid
<1>4. ASSUME NEW a
      PROVE  Cardinality(Rep(a)) = Cardinality(Of(a))
  <2> DEFINE f == [k \in Of(a) |-> ServiceKey(hosts, k)]
  <2>1. f \in [Of(a) -> Rep(a)]
    BY <1>2, <1>3 DEF OfHost
  <2>2. \A k, l \in Of(a) : f[k] = f[l] => k = l
    BY <1>1, ServiceKeyOnce DEF OfHost
  <2>3. \A c \in Rep(a) : \E k \in Of(a) : f[k] = c
    BY <1>2, <1>3 DEF OfHost
  <2>4. f \in Bijection(Of(a), Rep(a))
    BY <2>1, <2>2, <2>3 DEF Bijection, Injection, Surjection, IsInjective
  <2>5. IsFiniteSet(Of(a))
    BY <1>1, FS_Subset DEF OfHost, Fit, Sound
  <2> QED
    BY <2>4, <2>5, FS_Bijection DEF ExistsBijection
<1>5. ASSUME NEW a, a \notin DOMAIN hosts
      PROVE  ~(Cardinality(Rep(a)) > Threshold)
  <2>1. Of(a) = {}
    <3> SUFFICES ASSUME NEW k \in DOMAIN services, ByIid(hosts, k[1]) = a PROVE FALSE
      BY DEF OfHost
    <3>1. PICK b \in DOMAIN hosts : hosts[b].iid = k[1]
      BY <1>1 DEF Fit
    <3>2. ByIid(hosts, k[1]) = b
      BY <1>1, <3>1, ByIidFinds DEF Fit, Sound
    <3> QED
      BY <1>5, <3>1, <3>2
  <2>2. Cardinality(Of(a)) = 0
    BY <2>1, FS_EmptySet
  <2>3. Cardinality(Rep(a)) = 0
    BY <1>4, <2>2
  <2> HIDE DEF Rep
  <2> QED
    BY <2>3, ThresholdAssumption
<1>6. R!Tarpits = {a \in Address : Cardinality(Rep(a)) > Threshold}
  BY DEF R!Tarpits, TooMany
<1>7. OverThreshold = {a \in DOMAIN hosts : Cardinality(Of(a)) > Threshold}
  BY DEF OverThreshold
<1> HIDE DEF Rep, Of
<1> QED
  BY <1>1, <1>4, <1>5, <1>6, <1>7

LEMMA ReportTarpits ==
    ASSUME ItemsInv, ItemsInv', filter_tarpits
    PROVE  R!DropTarpits
<1> DEFINE S == OverThreshold
           K == Address \ S
<1>1. /\ RemovesTo(hosts, S, hosts')
      /\ RemovesTo(services, OfHost(services, S), services')
      /\ RemovesTo(findings, OfHost(findings, S), findings')
      /\ stage = "parse" /\ stage' = "kept"
  BY RemoveIs DEF filter_tarpits, ItemsInv, Tables
<1>2. FitAll(hosts, services, findings) /\ FitAll(hosts', services', findings')
  BY <1>1, InvFits, InvFitsNext
<1>3. Fit(hosts, services) /\ Fit(hosts', services')
  BY <1>2 DEF FitAll
<1>4. Grows(hosts', hosts) /\ Grows(services', services)
  BY <1>1 DEF RemovesTo, Grows
<1>5. DOMAIN hosts \subseteq Address
  BY DEF ItemsInv, TypeOK
<1> HIDE DEF S
<1>6. ASSUME NEW t \in {services, findings}, NEW k \in DOMAIN t
      PROVE  /\ ByIid(hosts, k[1]) \in Address
             /\ k \in OfHost(t, S) <=> ByIid(hosts, k[1]) \in S
  <2>1. PICK a \in DOMAIN hosts : hosts[a].iid = k[1]
    BY <1>2 DEF FitAll, Fit
  <2>2. ByIid(hosts, k[1]) = a
    BY <1>3, <2>1, ByIidFinds DEF Fit, Sound
  <2> QED
    BY <1>5, <2>2 DEF OfHost
<1>7. HostsSaid(hosts') = R!Only(HostsSaid(hosts), K)
  BY <1>1, <1>5, HostsOnly
<1> DEFINE KS == R!Of(ServicesSaid(hosts, services), K)
           KF == R!Of(FindingsSaid(hosts, services, findings), K)
<1>8. \A k \in DOMAIN services : ServiceKey(hosts, k) \in KS <=> k \notin OfHost(services, S)
  <2> SUFFICES ASSUME NEW k \in DOMAIN services
               PROVE  ServiceKey(hosts, k) \in KS <=> k \notin OfHost(services, S)
    OBVIOUS
  <2>1. ServiceKey(hosts, k) \in DOMAIN ServicesSaid(hosts, services)
    BY <1>3, ServicesSaidIs
  <2>2. ServiceKey(hosts, k)[1] = ByIid(hosts, k[1])
    BY DEF ServiceKey
  <2> QED
    BY <1>6, <2>1, <2>2 DEF R!Of
<1>9. \A k \in DOMAIN findings :
          FindingKey(hosts, services, k) \in KF <=> k \notin OfHost(findings, S)
  <2> SUFFICES ASSUME NEW k \in DOMAIN findings
               PROVE  FindingKey(hosts, services, k) \in KF <=> k \notin OfHost(findings, S)
    OBVIOUS
  <2>1. FindingKey(hosts, services, k) \in DOMAIN FindingsSaid(hosts, services, findings)
    BY <1>2, FindingsSaidIs
  <2>2. FindingKey(hosts, services, k)[1] = ByIid(hosts, k[1])
    BY DEF FindingKey
  <2> QED
    BY <1>6, <2>1, <2>2 DEF R!Of
<1> HIDE DEF K, KS, KF
<1>10. ServicesSaid(hosts', services') = R!Only(ServicesSaid(hosts, services), KS)
  BY <1>1, <1>3, <1>4, <1>8, ServicesOnly
<1>11. FindingsSaid(hosts', services', findings') =
           R!Only(FindingsSaid(hosts, services, findings), KF)
  BY <1>1, <1>2, <1>4, <1>9, FindingsOnly
<1>12. K = Address \ R!Tarpits
  BY SameTarpits DEF K, S
<1> QED
  BY <1>1, <1>7, <1>10, <1>11, <1>12 DEF R!DropTarpits, KS, KF

LEMMA ReportOpen ==
    ASSUME ItemsInv, ItemsInv', filter_service_open
    PROVE  R!KeepOpen
<1> DEFINE shut == {k \in DOMAIN services : services[k].val \notin Open}
           said == ServicesSaid(hosts, services)
           K == {c \in DOMAIN said : said[c] \in Open}
<1>1. /\ RemovesTo(services, shut, services')
      /\ UNCHANGED <<hosts, findings>>
      /\ stage = "kept" /\ stage' = "open"
      /\ ~Unstated
  BY RemoveIs DEF filter_service_open, ItemsInv, Tables
<1>2. Fit(hosts, services) /\ Fit(hosts', services')
  BY InvFits, InvFitsNext
<1>3. Grows(hosts', hosts)
  BY <1>1 DEF Grows
<1>4. \A k \in DOMAIN services : ServiceKey(hosts, k) \in K <=> k \notin shut
  BY <1>2, ServicesSaidIs
<1>5. ~R!Unstated
  <2> SUFFICES ASSUME NEW c \in DOMAIN said PROVE said[c] # None
    BY DEF R!Unstated
  <2>1. PICK k \in DOMAIN services : c = ServiceKey(hosts, k)
    BY ServicesSaidOf
  <2>2. said[c] = services[k].val
    BY <1>2, <2>1, ServicesSaidIs
  <2> QED
    BY <1>1, <2>2 DEF Unstated
<1>6. ServicesSaid(hosts', services') = R!Only(said, K)
  <2> HIDE DEF shut, K, said
  <2> QED
    BY <1>1, <1>2, <1>3, <1>4, ServicesOnly DEF said
<1>7. R!KeepOpen <=>
        /\ stage = "kept"
        /\ ~R!Unstated
        /\ ServicesSaid(hosts', services') = R!Only(said, K)
        /\ (IF stage' = "open" THEN [c \in {} |-> None]
            ELSE FindingsSaid(hosts', services', findings')) = R!Nothing
        /\ stage' = "open"
        /\ HostsSaid(hosts') = HostsSaid(hosts)
  BY DEF R!KeepOpen
<1>8. R!Nothing = [c \in {} |-> None]
  BY DEF R!Nothing
<1> QED
  BY <1>1, <1>5, <1>6, <1>7, <1>8

LEMMA ReportRaises ==
    ASSUME ItemsInv, filter_service_open_raises
    PROVE  R!Fail
<1>1. /\ stage = "kept" /\ stage' = "failed"
      /\ UNCHANGED <<hosts, services, findings>>
      /\ Unstated
  BY DEF filter_service_open_raises
<1>2. R!Unstated
  <2>1. PICK k \in DOMAIN services : services[k].val = None
    BY <1>1 DEF Unstated
  <2>2. Fit(hosts, services)
    BY InvFits
  <2>3. /\ ServiceKey(hosts, k) \in DOMAIN ServicesSaid(hosts, services)
        /\ ServicesSaid(hosts, services)[ServiceKey(hosts, k)] = None
    BY <2>1, <2>2, ServicesSaidIs
  <2> QED
    BY <2>3 DEF R!Unstated
<1> QED
  BY <1>1, <1>2 DEF R!Fail

LEMMA ReportInit == Init => R!Init
<1> SUFFICES ASSUME Init PROVE R!Init
  OBVIOUS
<1>1. hosts = <<>> /\ services = <<>> /\ findings = <<>> /\ stage = "parse"
  BY DEF Init
<1>2. DOMAIN hosts = {} /\ DOMAIN services = {} /\ DOMAIN findings = {}
  BY <1>1
<1>3. HostsSaid(hosts) = [x \in {} |-> None]
  BY <1>2 DEF HostsSaid
<1>4. ServicesSaid(hosts, services) = [x \in {} |-> None]
  BY <1>2 DEF ServicesSaid
<1>5. FindingsSaid(hosts, services, findings) = [x \in {} |-> None]
  BY <1>2 DEF FindingsSaid
<1> QED
  BY <1>1, <1>3, <1>4, <1>5 DEF R!Init, R!Nothing

LEMMA ReportNext ==
    ASSUME ItemsInv, ItemsInv', [Next]_vars
    PROVE  [R!Next]_<<HostsSaid(hosts), ServicesSaid(hosts, services), Findings, stage>>
<1>1. CASE Parse
  <2>1. stage = "parse" /\ UNCHANGED stage
    BY <1>1 DEF Parse
  <2>2. ASSUME NEW a \in Address, NEW v \in Data, upsert_host(a, v)
        PROVE  R!Claim
    BY <2>1, <2>2, ReportHost DEF R!Claim, Data
  <2>3. ASSUME NEW a \in Address, NEW p \in Port, NEW v \in Data, upsert_service(a, p, v)
        PROVE  R!Claim
    BY <2>1, <2>3, ReportService DEF R!Claim, Data
  <2>4. ASSUME NEW a \in Address, NEW p \in Port \cup {None}, NEW n \in Name,
               NEW v \in Data, upsert_finding(a, p, n, v)
        PROVE  R!Claim
    BY <2>1, <2>4, ReportFinding DEF R!Claim, Data
  <2> QED
    BY <1>1, <2>2, <2>3, <2>4 DEF Parse, R!Next
<1>2. CASE filter_tarpits
  BY <1>2, ReportTarpits DEF R!Next
<1>3. CASE filter_service_open
  BY <1>3, ReportOpen DEF R!Next
<1>4. CASE filter_service_open_raises
  BY <1>4, ReportRaises DEF R!Next
<1>5. CASE UNCHANGED vars
  BY <1>5 DEF vars, Findings
<1> QED
  BY <1>1, <1>2, <1>3, <1>4, <1>5 DEF Next

(* Read through its identifiers, the database says what the parser said.    *)
THEOREM ItemsReport == Spec => ReportSpec
<1>1. ItemsInv /\ ItemsInv' /\ [Next]_vars =>
          [R!Next]_<<HostsSaid(hosts), ServicesSaid(hosts, services), Findings, stage>>
  BY ReportNext
<1> QED
  BY <1>1, ReportInit, ItemsAlways, PTL DEF Spec, ReportSpec, R!Spec, Findings
=============================================================================
