-------------------------------- MODULE Report --------------------------------
(***************************************************************************)
(* What a parser tells of an output, by natural keys: the abstract         *)
(* specification of ParsedItemsDb.  A repeated claim keeps its value       *)
(* unless it brings one.                                                   *)
(***************************************************************************)
CONSTANTS Address, Port, Name, Value, Open, None, TooMany(_)

VARIABLES hosts, services, findings, stage

Says(f, c, v) ==
    [x \in DOMAIN f \cup {c} |->
        IF x # c THEN f[x] ELSE IF v = None /\ c \in DOMAIN f THEN f[c] ELSE v]
Only(f, S) == [x \in DOMAIN f \cap S |-> f[x]]
Nothing == [x \in {} |-> None]

Init ==
    /\ hosts = Nothing /\ services = Nothing /\ findings = Nothing
    /\ stage = "parse"

Host(a, v) ==
    /\ hosts' = Says(hosts, a, v)
    /\ UNCHANGED <<services, findings>>

Service(a, p, v) ==
    /\ hosts' = Says(hosts, a, None)
    /\ services' = Says(services, <<a, p>>, v)
    /\ UNCHANGED findings

Finding(a, p, n, v) ==
    /\ hosts' = Says(hosts, a, None)
    /\ services' = IF p = None THEN services ELSE Says(services, <<a, p>>, None)
    /\ findings' = Says(findings, <<a, p, n>>, v)

Claim ==
    /\ stage = "parse"
    /\ \/ \E a \in Address, v \in Value \cup {None} : Host(a, v)
       \/ \E a \in Address, p \in Port, v \in Value \cup {None} : Service(a, p, v)
       \/ \E a \in Address, p \in Port \cup {None}, n \in Name, v \in Value \cup {None} :
              Finding(a, p, n, v)
    /\ UNCHANGED stage

Tarpits == {a \in Address : TooMany({c \in DOMAIN services : c[1] = a})}
Of(f, S) == {c \in DOMAIN f : c[1] \in S}

DropTarpits ==
    /\ stage = "parse"
    /\ LET kept == Address \ Tarpits IN
           /\ hosts' = Only(hosts, kept)
           /\ services' = Only(services, Of(services, kept))
           /\ findings' = Only(findings, Of(findings, kept))
    /\ stage' = "kept"

(* findings are not looked up any more *)
Unstated == \E c \in DOMAIN services : services[c] = None
KeepOpen ==
    /\ stage = "kept"
    /\ ~Unstated
    /\ services' = Only(services, {c \in DOMAIN services : services[c] \in Open})
    /\ findings' = Nothing
    /\ stage' = "open"
    /\ UNCHANGED hosts

Fail ==
    /\ stage = "kept"
    /\ Unstated
    /\ stage' = "failed"
    /\ UNCHANGED <<hosts, services, findings>>

Next == Claim \/ DropTarpits \/ KeepOpen \/ Fail
Spec == Init /\ [][Next]_<<hosts, services, findings, stage>>
=============================================================================
