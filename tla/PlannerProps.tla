----------------------------- MODULE PlannerProps -----------------------------
(* What the planner promises. *)
EXTENDS Planner

CONSTANT Within     \* [Network -> addresses in the network of the target]

ASSUME WithinAssumption == Within \in [Network -> SUBSET Address]

Labels == {"stage", "take", "parse", "mark", "archive", "unlink", "delete",
           "read", "enqueue", "import_hosts", "import_services",
           "rescan_hosts", "rescan_services", "lastrun"}

(* Every table, file and variable of the planner keeps its type. *)
TypeOK ==
    /\ queued \in [Handler -> [Target -> Nat]]
    /\ jobState \in [Job -> {"unused", "running", "done", "failed", "invalid",
                             "drained", "gone"}]
    /\ jobStage \in [Job -> Handler \cup {None}]
    /\ jobTarget \in [Job -> Target \cup {None}]
    /\ parsed \in [Job -> Pidb \cup {Unreadable}]
    /\ files \subseteq Job /\ archive \subseteq Job /\ deleting \subseteq Job
    /\ hosts \subseteq Address
    /\ services \in [Service -> {"none", "open", "shut", "bare"}]
    /\ twins \subseteq Address \cup Service
    /\ entered \cup removed \subseteq Address \cup Service
    /\ enqueued \subseteq Handler \X Target
    /\ recent \subseteq Target
    /\ lastrun \subseteq Schedule
    /\ at \in 1..Len(Order) /\ pc \in Labels
    /\ todo \subseteq Job /\ cur \in Job \cup {None}
    /\ data \in [hosts : SUBSET (Address \cup Network),
                services : SUBSET Service]
    /\ nxt \in Nat \ {0}
    /\ seen \subseteq Target
    /\ broken \in BOOLEAN

-----------------------------------------------------------------------------
(* t was queued for s, and is still, or was assigned *)
Reached(s, t) ==
    \/ queued[s][t] > 0
    \/ \E k \in Job : jobStage[k] = s /\ jobTarget[k] = t

(* sv is in storage, or another output told that it is not open, or an     *)
(* operator has deleted it                                                 *)
Stored(sv) ==
    \/ services[sv] = "open"
    \/ sv \in removed
    \/ \E k \in Job : parsed[k] # Unreadable /\ sv \in parsed[k].shut

PassedOn(j) ==
    \A i \in DOMAIN NextStages[jobStage[j]] :
        LET s == NextStages[jobStage[j]][i] IN
        \A t \in Share(s, Found(jobStage[j], parsed[j])) : Reached(s, t)

Loaded(j) == \A sv \in parsed[j].open : Stored(sv)

(* A drained job is gone from the scheduler only when everything it found  *)
(* has been queued for every next stage, or is in storage, and its output  *)
(* is archived; whatever interrupts the planner in between (_drain).       *)
NothingLost ==
    \A j \in Job : jobState[j] = "drained" =>
        /\ j \in archive
        /\ IF Kind[jobStage[j]] = "loader" THEN Loaded(j) ELSE PassedOn(j)

(* Nothing is queued twice by the planner, though task() looks up and      *)
(* inserts in two steps: a target that is there twice was also enqueued by *)
(* an operator, who may do so between the two.                             *)
QueuedOnce ==
    \A s \in Handler, t \in Target : queued[s][t] > 1 => <<s, t>> \in enqueued

(* a discovery found the service open, on a host that is no tarpit *)
Wanted(sv) ==
    \E k \in Job : /\ parsed[k] # Unreadable
                   /\ Kind[jobStage[k]] = "disco"
                   /\ sv \in parsed[k].open
                   /\ Cardinality(ServicesOf(parsed[k], sv[1])) <= Threshold

(* the hosts that a target stands for *)
Covers(t) == IF t \in Network THEN Within[t] ELSE {HostOf(t)}

(* an operator entered it, or had it or a service of it scanned *)
EnteredHost(a) ==
    \/ \E x \in entered : HostOf(x) = a
    \/ \E e \in enqueued : a \in Covers(e[2])

Home(a) ==
    \/ a \in Netlist
    \/ \E s \in Handler : a \in Filternets[s]
    \/ EnteredHost(a)

(* home, or in the network of a host at home (six_enum_disco is the one    *)
(* stage whose hosts are not filtered)                                     *)
InScope(a) ==
    \/ Home(a)
    \/ \E n \in Network : /\ a \in Within[n]
                          /\ \E b \in Address : Home(b) /\ SixNet[b] = n

(* Nothing is scanned but for a reason: a service was found open by a      *)
(* discovery on a host that is no tarpit, or is of a host that an operator *)
(* entered; a host that is discovered is of the home networks, of the      *)
(* network of such a host, or an operator entered it; a network is that of *)
(* such a host.  Also when it came by way of storage and a rescan          *)
(* (NetlistEnum, SixDisco: "drop any outside scope", StorageSixEnum,       *)
(* ServiceDisco, StorageRescan).                                           *)
OnlyWanted ==
    \A s \in Handler, t \in Target :
        Reached(s, t) =>
            \/ <<s, t>> \in enqueued
            \/ /\ Kind[s] = "loader"
               /\ t \in Service /\ InScope(t[1])
               /\ EnteredHost(t[1]) \/ Wanted(t)
            \/ Kind[s] = "disco" /\ t \in Address /\ InScope(t)
            \/ /\ Kind[s] = "six"
               /\ \/ t \in Netlist
                  \/ \E b \in Address : InScope(b) /\ SixNet[b] = t

(* on the output of j the consumer of its stage raises *)
Raises(j) ==
    /\ jobState[j] = "done" /\ parsed[j] # Unreadable
    /\ IF Kind[jobStage[j]] = "loader"
       THEN \/ (parsed[j].hosts \cup Known(parsed[j])) \cap twins # {}
            \/ j = cur /\ pc = "import_services" /\ Unusable(parsed[j]) # {}
       ELSE ConsumerRaises(jobStage[j], parsed[j])


(* Without that limit it is not true.                                      *)
EveryOutputProcessed ==
    \A j \in Job : (jobState[j] = "done") ~> (jobState[j] # "done")

(* the planner is a daemon: a stage that can go on does *)
FairSpec == Spec /\ WF_vars(Step)

=============================================================================
