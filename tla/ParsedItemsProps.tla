-------------------------- MODULE ParsedItemsProps --------------------------
(***************************************************************************)
(* What import_parsed and the planner's projections may rely on.           *)
(***************************************************************************)
EXTENDS ParsedItems

(* Types of rows and keys.                                                  *)
Rows == [iid : Nat, val : Data]
TypeOK ==
    /\ DOMAIN hosts \subseteq Address
    /\ DOMAIN services \subseteq Nat \X Port
    /\ DOMAIN findings \subseteq Nat \X (Nat \cup {None}) \X Name
    /\ \A t \in {hosts, services, findings} : \A k \in DOMAIN t : t[k] \in Rows
    /\ stage \in {"parse", "kept", "open", "failed"}

Unique(t) == \A k, l \in DOMAIN t : t[k].iid = t[l].iid => k = l
(* The unique index on iid takes every insert: no two rows of a table have  *)
(* one identifier, also when the table has shrunk.                          *)
Identified == Unique(hosts) /\ Unique(services) /\ Unique(findings)

(* by.iid finds the host of every row and, while it is asked for, the       *)
(* service of every finding, which is one of the same host.                 *)
Resolves ==
    /\ \A k \in DOMAIN services : \E a \in DOMAIN hosts : hosts[a].iid = k[1]
    /\ \A k \in DOMAIN findings : \E a \in DOMAIN hosts : hosts[a].iid = k[1]
    /\ stage # "open" => \A k \in DOMAIN findings :
           k[2] = None \/ \E s \in DOMAIN services : services[s].iid = k[2] /\ s[1] = k[1]

HostsSaid(h) == [a \in DOMAIN h |-> h[a].val]
ServicesSaid(h, s) ==
    [c \in {ServiceKey(h, k) : k \in DOMAIN s} |->
        s[CHOOSE k \in DOMAIN s : ServiceKey(h, k) = c].val]
FindingsSaid(h, s, f) ==
    [c \in {FindingKey(h, s, k) : k \in DOMAIN f} |->
        f[CHOOSE k \in DOMAIN f : FindingKey(h, s, k) = c].val]
TooMany(S) == Cardinality(S) > Threshold
R == INSTANCE Report WITH
         hosts <- HostsSaid(hosts),
         services <- ServicesSaid(hosts, services),
         findings <- IF stage = "open" THEN [c \in {} |-> None]
                     ELSE FindingsSaid(hosts, services, findings)
(* A "pseudo database of parsed objects" (parser.py:206): looked up through *)
(* the identifiers, the tables say what the parser reported, no more and no *)
(* less, and the filters drop tarpits and what is not open, nothing else.   *)
ReportSpec == R!Spec
=============================================================================
