------------------------------- MODULE Planner -------------------------------
(***************************************************************************)
(* The planner (sner/server/planner/core.py): one process that goes round  *)
(* its stages for ever.  Schedules produce targets, handlers drain the     *)
(* finished jobs of their queue and pass what they found to other queues   *)
(* or load it into storage.  Beside it the scheduler hands out targets,    *)
(* agents return outputs and an operator deletes jobs; the scheduler's own *)
(* steps are those of module Scheduler, seen here as single transactions.  *)
(*                                                                         *)
(* The planner keeps one database session for its life.  An exception ends *)
(* the stage that raised it and the loop goes on, without a rollback: one  *)
(* that failed inside a transaction leaves the session unusable.  Only the *)
(* parser runs inside a try of its own (_drain): when the consumer of an   *)
(* output raises, the job stays as it is and is met again in every round.  *)
(*                                                                         *)
(* Operators (storage views, command line) enter rows in storage and       *)
(* targets in queues by hand, with no look-up, and delete rows.  A row     *)
(* that is there twice is a twin; which of two hosts' rows a service       *)
(* belongs to is not kept.                                                 *)
(***************************************************************************)
EXTENDS Integers, Sequences, FiniteSets

CONSTANTS
    Stage, Order,   \* the stages, and the sequence in which the loop runs them
    Kind,           \* [Stage -> Kinds]
    NextStages,     \* [Stage -> sequences of the handlers that get its data]
    Address, Port,
    Network, SixNet,          \* sixenum targets; that of an address, or None
    Netlist,        \* home_netranges_ipv4, enumerated
    Filternets,     \* [Stage -> addresses in its filternets]; {}: no filter
    Threshold,      \* services of a host that is no tarpit yet
    Outputs,        \* [Handler -> [Target -> parsed outputs of such a scan]]
    Entered, Removed,         \* rows operators enter, and delete, once each
    Enqueued,       \* <<handler, target>> operators enqueue, once each
    Job,            \* uuids a run may draw; bounds the number of jobs
    Operator,       \* whether an operator deletes jobs
    Interrupted,    \* whether the planner is killed and restarted
    Disconnected,   \* whether the database connection may be lost
    None, Unreadable

Kinds == {"loader", "disco", "six", "netlist", "sixenum", "rescan", "cleanup"}
Handler == {s \in Stage : Kind[s] \in {"loader", "disco", "six"}}
Schedule == {s \in Stage : Kind[s] \in {"netlist", "sixenum", "rescan"}}
Service == Address \X Port
Target == Address \cup Service \cup Network

(* what a parser makes of an output: hosts, and services by their state,   *)
(* which some parsers leave empty                                          *)
Pidb == {p \in [hosts : SUBSET Address, open : SUBSET Service,
                shut : SUBSET Service, bare : SUBSET Service] :
            /\ p.open \cap (p.shut \cup p.bare) = {}
            /\ p.shut \cap p.bare = {}}

ASSUME TargetAssumption ==
    Address \cap Service = {} /\ Network \cap (Address \cup Service) = {}
ASSUME OrderAssumption ==
    Order \in Seq(Stage) \ {<<>>} /\ Kind \in [Stage -> Kinds]
ASSUME NextStagesAssumption == NextStages \in [Stage -> Seq(Handler)]
ASSUME NetsAssumption ==
    /\ SixNet \in [Address -> Network \cup {None}]
    /\ Netlist \subseteq Address /\ Filternets \in [Stage -> SUBSET Address]
ASSUME OutputsAssumption ==
    Outputs \in [Handler -> [Target -> SUBSET Pidb]]
ASSUME OperatorAssumption ==
    /\ Entered \cup Removed \subseteq Address \cup Service
    /\ Enqueued \subseteq Handler \X Target
ASSUME SentinelAssumption ==
    None \notin Job \cup Stage \cup Target /\ Unreadable \notin Pidb

VARIABLES
    queued,         \* [Handler -> [Target -> rows in its queue]]
    jobState,       \* retval NULL, 0, > 0, >= 1000, or the row is gone
    jobStage, jobTarget,      \* the handler whose queue it is of, its target
    parsed,         \* what a parser would find in its output
    files, archive, \* jobs with an output file, and with an archived one
    deleting,       \* jobs an operator is deleting
    hosts, services,          \* storage: rows, and states of services
    twins,          \* hosts and services with a second row, an operator's
    entered, removed, enqueued,         \* what operators have done
    recent,         \* hosts and services whose rescan_time is in the interval
    lastrun,        \* schedules whose lastrun is in the interval
    at, pc,         \* the stage that runs, and where it is
    todo, cur,      \* jobs to drain, the one being drained
    data, nxt,      \* what goes to the next stages, and which one is next
    seen,           \* targets read from its queue
    broken          \* the session needs a rollback

jobs == <<jobState, jobStage, jobTarget, parsed>>
disk == <<files, archive>>
storage == <<hosts, services, twins, recent>>
operators == <<deleting, entered, removed, enqueued>>
drain == <<todo, cur>>
pass == <<data, nxt, seen>>
vars == <<queued, jobs, disk, operators, storage, lastrun,
          at, pc, drain, pass, broken>>

-----------------------------------------------------------------------------
(* Projections and filters *)

NoData == [hosts |-> {}, services |-> {}]
Exists(j) == jobState[j] \in {"running", "done", "failed", "invalid"}
Known(p) == p.open \cup p.shut \cup p.bare
ServicesOf(p, a) == {sv \in Known(p) : sv[1] = a}
HostOf(t) == IF t \in Service THEN t[1] ELSE t

(* more services than the threshold, in whatever state *)
filter_tarpits(p) ==
    LET ok == {a \in p.hosts : Cardinality(ServicesOf(p, a)) <= Threshold} IN
    [hosts |-> ok,
     open |-> {sv \in p.open : sv[1] \in ok},
     shut |-> {sv \in p.shut : sv[1] \in ok},
     bare |-> {sv \in p.bare : sv[1] \in ok}]

(* None has no startswith *)
filter_service_open_raises(p) == p.bare # {}
filter_service_open(p) == [p EXCEPT !.shut = {}]

filter_external_hostsAll(as, nets) == as         \* mutant: scope ignored
filter_external_hosts(as, nets) == as \cap nets

project_services(p) == Known(p)

(* addresses without a network: of version 4, or EUI-64 *)
project_sixenum_targets(as) == {SixNet[a] : a \in as} \ {None}

(* what a handler passes on *)
Found(s, p) ==
    CASE Kind[s] = "disco" ->
           [hosts |-> {}, services |-> project_services(
                              filter_service_open(filter_tarpits(p)))]
      [] Kind[s] = "six" ->
           [hosts |-> IF Filternets[s] = {} THEN p.hosts
                      ELSE filter_external_hosts(p.hosts, Filternets[s]),
            services |-> {}]
      [] OTHER -> NoData

(* ServiceDisco.run raises on what it gets *)
ConsumerRaises(s, p) ==
    Kind[s] = "disco" /\ filter_service_open_raises(filter_tarpits(p))

(* service discovery takes hosts, the service scans take services *)
Share(s, d) == IF Kind[s] = "loader" THEN d.services ELSE d.hosts

-----------------------------------------------------------------------------
(* The loop *)

stage == Order[at]
Goto(label) == pc' = label

(* the stage ends, by returning or by an exception that is only logged *)
EndStage ==
    /\ at' = (at % Len(Order)) + 1
    /\ Goto("stage")
    /\ todo' = {} /\ cur' = None
    /\ data' = NoData /\ nxt' = 1 /\ seen' = {}

(* stages that use the database at once *)
Queries(s) ==
    /\ Kind[s] \notin {"netlist", "rescan"}
    /\ Kind[s] = "sixenum" => s \notin lastrun

(* the first use of a session that needs a rollback raises *)
SessionFails ==
    /\ broken
    /\ \/ pc = "stage" /\ Queries(stage)
       \/ pc \in {"read", "rescan_hosts"}
    /\ EndStage
    /\ UNCHANGED <<queued, jobs, disk, operators, storage, lastrun, broken>>

(* steps that use the database *)
Database == {"stage", "take", "read", "enqueue", "import_hosts",
             "import_services", "mark", "archive", "delete",
             "rescan_hosts", "rescan_services"}

(* SQLAlchemy raises its own OperationalError, not the one of psycopg2     *)
(* that is followed by a rollback.                                         *)
LoseConnectionSwallowed ==                \* mutant: the drain goes on
    /\ Disconnected
    /\ ~broken
    /\ pc \in {"read", "enqueue"} /\ cur # None
    /\ Goto("archive")
    /\ UNCHANGED <<queued, jobs, disk, operators, storage, lastrun, at, drain,
                   pass, broken>>

LoseConnection ==
    /\ Disconnected
    /\ ~broken
    /\ pc \in Database
    /\ pc = "stage" => Queries(stage)
    /\ broken' = TRUE
    /\ EndStage
    /\ UNCHANGED <<queued, jobs, disk, operators, storage, lastrun>>

(* killed at any point and started again *)
Restart ==
    /\ Interrupted
    /\ at' = 1 /\ Goto("stage")
    /\ todo' = {} /\ cur' = None
    /\ data' = NoData /\ nxt' = 1 /\ seen' = {}
    /\ broken' = FALSE
    /\ UNCHANGED <<queued, jobs, disk, operators, storage, lastrun>>

-----------------------------------------------------------------------------
(* Handlers: drain *)

QueryJobs ==
    /\ pc = "stage" /\ ~broken
    /\ stage \in Handler
    /\ todo' = {j \in Job : jobState[j] = "done" /\ jobStage[j] = stage}
    /\ cur' = None
    /\ Goto("take")
    /\ UNCHANGED <<queued, jobs, disk, operators, storage, lastrun, at, pass,
                   broken>>

(* the first job is as it was queried, later ones are read again: one that *)
(* was deleted raises                                                      *)
TakeJob ==
    /\ pc = "take"
    /\ \E j \in todo :
          IF Exists(j) \/ cur = None
          THEN /\ cur' = j
               /\ todo' = todo \ {j}
               /\ Goto("parse")
               /\ UNCHANGED <<at, pass>>
          ELSE EndStage
    /\ UNCHANGED <<queued, jobs, disk, operators, storage, lastrun, broken>>

Drained ==
    /\ pc = "take"
    /\ todo = {}
    /\ EndStage
    /\ UNCHANGED <<queued, jobs, disk, operators, storage, lastrun, broken>>

(* what the parser yields makes the handler raise *)
ParsedRaises ==
    /\ cur \in files /\ parsed[cur] # Unreadable
    /\ ConsumerRaises(stage, parsed[cur])

HandlerRaises ==
    /\ pc = "parse"
    /\ ParsedRaises
    /\ EndStage
    /\ UNCHANGED <<queued, jobs, disk, operators, storage, lastrun, broken>>

Parse ==
    /\ pc = "parse"
    /\ ~ParsedRaises
    /\ IF cur \in files /\ parsed[cur] # Unreadable
       THEN /\ data' = Found(stage, parsed[cur])
            /\ Goto(IF Kind[stage] = "loader" THEN "import_hosts" ELSE "read")
       ELSE Goto("mark") /\ UNCHANGED data
    /\ nxt' = 1 /\ seen' = {}
    /\ UNCHANGED <<queued, jobs, disk, operators, storage, lastrun, at, drain,
                   broken>>

Mark ==
    /\ pc = "mark"
    /\ IF Exists(cur)
       THEN /\ jobState' = [jobState EXCEPT ![cur] = "invalid"]
            /\ Goto("take")
            /\ UNCHANGED <<at, drain, pass, broken>>
       ELSE /\ broken' = TRUE
            /\ EndStage
            /\ UNCHANGED jobState
    /\ UNCHANGED <<queued, jobStage, jobTarget, parsed, disk, operators,
                   storage, lastrun>>

(* a job or a file that an operator has deleted raises *)
Archive ==
    /\ pc = "archive"
    /\ IF Exists(cur) /\ cur \in files
       THEN /\ archive' = archive \cup {cur}
            /\ Goto("unlink")
            /\ UNCHANGED <<at, drain, pass>>
       ELSE EndStage /\ UNCHANGED archive
    /\ UNCHANGED <<queued, jobs, files, operators, storage, lastrun, broken>>

Unlink ==
    /\ pc = "unlink"
    /\ files' = files \ {cur}
    /\ Goto("delete")
    /\ UNCHANGED <<queued, jobs, archive, operators, storage, lastrun, at,
                   drain, pass, broken>>

DeleteJob ==
    /\ pc = "delete"
    /\ jobState' = IF Exists(cur) THEN [jobState EXCEPT ![cur] = "drained"]
                   ELSE jobState
    /\ Goto("take")
    /\ UNCHANGED <<queued, jobStage, jobTarget, parsed, disk, operators,
                   storage, lastrun, at, drain, pass, broken>>

-----------------------------------------------------------------------------
(* task(): a stage's data are enqueued for the next stages, one by one *)

AlreadyQueuedNone(s) == {}                       \* mutant: nothing looked up
AlreadyQueued(s) == {t \in Target : queued[s][t] > 0}

ReadQueued ==
    /\ pc = "read" /\ ~broken
    /\ nxt <= Len(NextStages[stage])
    /\ seen' = AlreadyQueued(NextStages[stage][nxt])
    /\ Goto("enqueue")
    /\ UNCHANGED <<queued, jobs, disk, operators, storage, lastrun, at, drain,
                   data, nxt, broken>>

Enqueue ==
    LET s == NextStages[stage][nxt]
        new == Share(s, data) \ seen IN
    /\ pc = "enqueue"
    /\ queued' = [queued EXCEPT ![s] =
                     [t \in Target |-> IF t \in new THEN @[t] + 1 ELSE @[t]]]
    /\ nxt' = nxt + 1
    /\ seen' = {}
    /\ Goto("read")
    /\ UNCHANGED <<jobs, disk, operators, storage, lastrun, at, drain, data,
                   broken>>

(* every next stage has been served: back to the drain or to the schedule *)
Passed ==
    /\ pc = "read" /\ ~broken
    /\ nxt > Len(NextStages[stage])
    /\ Goto(IF stage \in Handler THEN "archive" ELSE "lastrun")
    /\ UNCHANGED <<queued, jobs, disk, operators, storage, lastrun, at, drain,
                   pass, broken>>

-----------------------------------------------------------------------------
(* Storage *)

(* a new row has a rescan_time of its own *)
StoreHosts(as) ==
    /\ hosts' = hosts \cup as
    /\ recent' = recent \cup (as \ hosts)

(* an empty state does not overwrite one *)
StoreServices(p, svs) ==
    /\ services' = [sv \in Service |->
          CASE sv \in svs \cap p.open -> "open"
            [] sv \in svs \cap p.shut -> "shut"
            [] sv \in svs \cap p.bare /\ services[sv] = "none" -> "bare"
            [] OTHER -> services[sv]]
    /\ recent' = recent \cup {sv \in svs : services[sv] = "none"}

(* one_or_none() and one() raise on twins, one() also on a host that is    *)
(* not there any more                                                      *)
Unusable(p) ==
    {sv \in Known(p) : sv \in twins \/ sv[1] \in twins \/ sv[1] \notin hosts}

ImportHosts ==
    LET p == parsed[cur] IN
    /\ pc = "import_hosts"
    /\ p.hosts \cap twins = {}
    /\ StoreHosts(p.hosts)
    /\ Goto("import_services")
    /\ UNCHANGED <<queued, jobs, disk, operators, services, twins, lastrun, at,
                   drain, pass, broken>>

ImportServices ==
    LET p == parsed[cur] IN
    /\ pc = "import_services"
    /\ Unusable(p) = {}
    /\ StoreServices(p, Known(p))
    /\ Goto("archive")
    /\ UNCHANGED <<queued, jobs, disk, operators, hosts, twins, lastrun, at,
                   drain, pass, broken>>

(* import_parsed raises.  The rows before the one it raised on are in the  *)
(* open transaction and go with the next commit of the planner's session,  *)
(* or are lost with it: some of them stay.                                 *)
ImportHostsRaises ==
    LET p == parsed[cur] IN
    /\ pc = "import_hosts"
    /\ p.hosts \cap twins # {}
    /\ \E some \in SUBSET (p.hosts \ twins) : StoreHosts(some)
    /\ EndStage
    /\ UNCHANGED <<queued, jobs, disk, operators, services, twins, lastrun,
                   broken>>

ImportServicesRaises ==
    LET p == parsed[cur] IN
    /\ pc = "import_services"
    /\ Unusable(p) # {}
    /\ \E some \in SUBSET (Known(p) \ Unusable(p)) : StoreServices(p, some)
    /\ EndStage
    /\ UNCHANGED <<queued, jobs, disk, operators, hosts, twins, lastrun,
                   broken>>

(* hosts without services stay when they have other data; the state NULL  *)
(* is not "not like open"; the row that an operator added is open          *)
Cleanup ==
    LET stays(sv) == services[sv] \in {"open", "bare"} \/ sv \in twins
        up == {a \in hosts : \E x \in Port : stays(<<a, x>>)} IN
    /\ pc = "stage" /\ ~broken
    /\ Kind[stage] = "cleanup"
    /\ services' = [sv \in Service |->
          IF ~stays(sv) THEN "none"
          ELSE IF services[sv] = "shut" THEN "open" ELSE services[sv]]
    /\ \E other \in SUBSET (hosts \ up) : hosts' = up \cup other
    /\ \E pairs \in SUBSET (twins \cap hosts') :
          twins' = pairs \cup {sv \in twins \cap Service :
                                  services[sv] # "shut"}
    /\ recent' = recent \cap (hosts' \cup {sv \in Service :
                                          services'[sv] # "none"})
    /\ EndStage
    /\ UNCHANGED <<queued, jobs, disk, operators, lastrun, broken>>

-----------------------------------------------------------------------------
(* Schedules *)

NotYet ==
    /\ pc = "stage"
    /\ stage \in Schedule \cap lastrun
    /\ EndStage
    /\ UNCHANGED <<queued, jobs, disk, operators, storage, lastrun, broken>>

NetlistEnum ==
    /\ pc = "stage"
    /\ Kind[stage] = "netlist" /\ stage \notin lastrun
    /\ data' = [hosts |-> Netlist, services |-> {}]
    /\ Goto("read")
    /\ UNCHANGED <<queued, jobs, disk, operators, storage, lastrun, at, drain,
                   nxt, seen, broken>>

StorageSixEnum ==
    /\ pc = "stage" /\ ~broken
    /\ Kind[stage] = "sixenum" /\ stage \notin lastrun
    /\ data' = [hosts |-> project_sixenum_targets(hosts), services |-> {}]
    /\ Goto("read")
    /\ UNCHANGED <<queued, jobs, disk, operators, storage, lastrun, at, drain,
                   nxt, seen, broken>>

StorageRescan ==
    /\ pc = "stage"
    /\ Kind[stage] = "rescan" /\ stage \notin lastrun
    /\ Goto("rescan_hosts")
    /\ UNCHANGED <<queued, jobs, disk, operators, storage, lastrun, at, drain,
                   pass, broken>>

(* rescan_time is committed before anything is enqueued *)
GetRescanHosts ==
    /\ pc = "rescan_hosts" /\ ~broken
    /\ data' = [data EXCEPT !.hosts = hosts \ recent]
    /\ recent' = recent \cup hosts
    /\ Goto("rescan_services")
    /\ UNCHANGED <<queued, jobs, disk, operators, hosts, services, twins,
                   lastrun, at, drain, nxt, seen, broken>>

GetRescanServices ==
    LET rows == {sv \in Service : services[sv] # "none"} IN
    /\ pc = "rescan_services"
    /\ data' = [data EXCEPT !.services = rows \ recent]
    /\ recent' = recent \cup rows
    /\ Goto("read")
    /\ UNCHANGED <<queued, jobs, disk, operators, hosts, services, twins,
                   lastrun, at, drain, nxt, seen, broken>>

WriteLastrun ==
    /\ pc = "lastrun"
    /\ lastrun' = lastrun \cup {stage}
    /\ EndStage
    /\ UNCHANGED <<queued, jobs, disk, operators, storage, broken>>

(* an interval elapses; it may as well do so when it is looked at *)
RunDue(s) ==
    /\ s \in lastrun
    /\ pc = "stage" /\ stage = s
    /\ lastrun' = lastrun \ {s}
    /\ UNCHANGED <<queued, jobs, disk, operators, storage, at, pc, drain, pass,
                   broken>>

RescanDue(x) ==
    /\ x \in recent
    /\ pc \in {"rescan_hosts", "rescan_services"}
    /\ recent' = recent \ {x}
    /\ UNCHANGED <<queued, jobs, disk, operators, hosts, services, twins,
                   lastrun, at, pc, drain, pass, broken>>

-----------------------------------------------------------------------------
(* The others *)

Assign(s, t, j) ==
    /\ queued[s][t] > 0
    /\ jobState[j] = "unused"
    /\ queued' = [queued EXCEPT ![s][t] = @ - 1]
    /\ jobState' = [jobState EXCEPT ![j] = "running"]
    /\ jobStage' = [jobStage EXCEPT ![j] = s]
    /\ jobTarget' = [jobTarget EXCEPT ![j] = t]
    /\ UNCHANGED <<parsed, disk, operators, storage, lastrun, at, pc, drain,
                   pass, broken>>

(* retval 0, with an output that may be unreadable *)
Output(j) ==
    /\ jobState[j] = "running"
    /\ files' = files \cup {j}
    /\ jobState' = [jobState EXCEPT ![j] = "done"]
    /\ \E p \in Outputs[jobStage[j]][jobTarget[j]] \cup {Unreadable} :
          parsed' = [parsed EXCEPT ![j] = p]
    /\ UNCHANGED <<queued, jobStage, jobTarget, archive, operators, storage,
                   lastrun, at, pc, drain, pass, broken>>

OutputFailed(j) ==
    /\ jobState[j] = "running"
    /\ files' = files \cup {j}
    /\ jobState' = [jobState EXCEPT ![j] = "failed"]
    /\ UNCHANGED <<queued, jobStage, jobTarget, parsed, archive, operators,
                   storage, lastrun, at, pc, drain, pass, broken>>

(* JobManager.delete in a web worker: the file, then the row *)
OperatorUnlink(j) ==
    /\ Operator
    /\ jobState[j] \in {"done", "failed", "invalid"}
    /\ j \notin deleting
    /\ files' = files \ {j}
    /\ deleting' = deleting \cup {j}
    /\ UNCHANGED <<queued, jobs, archive, entered, removed, enqueued, storage,
                   lastrun, at, pc, drain, pass, broken>>

OperatorDelete(j) ==
    /\ j \in deleting
    /\ jobState' = IF Exists(j) THEN [jobState EXCEPT ![j] = "gone"]
                   ELSE jobState
    /\ deleting' = deleting \ {j}
    /\ UNCHANGED <<queued, jobStage, jobTarget, parsed, disk, entered, removed,
                   enqueued, storage, lastrun, at, pc, drain, pass, broken>>

(* host_add, service_add, queue-enqueue, the import of a file: what an     *)
(* operator enters is not looked up; a service belongs to a host row       *)
Enters(x) == x \in Entered \ entered /\ entered' = entered \cup {x}

HostByHand(a) ==
    /\ a \in Address /\ Enters(a)
    /\ StoreHosts({a})
    /\ twins' = IF a \in hosts THEN twins \cup {a} ELSE twins
    /\ UNCHANGED <<queued, jobs, disk, deleting, services, removed, enqueued,
                   lastrun, at, pc, drain, pass, broken>>

ServiceByHand(sv) ==
    /\ sv \in Service /\ sv[1] \in hosts /\ Enters(sv)
    /\ services' = [services EXCEPT ![sv] = IF @ = "none" THEN "open" ELSE @]
    /\ twins' = IF services[sv] = "none" THEN twins ELSE twins \cup {sv}
    /\ recent' = IF services[sv] = "none" THEN recent \cup {sv} ELSE recent
    /\ UNCHANGED <<queued, jobs, disk, deleting, hosts, removed, enqueued,
                   lastrun, at, pc, drain, pass, broken>>

QueueByHand(s, x) ==
    /\ <<s, x>> \in Enqueued \ enqueued
    /\ enqueued' = enqueued \cup {<<s, x>>}
    /\ queued' = [queued EXCEPT ![s][x] = @ + 1]
    /\ UNCHANGED <<jobs, disk, deleting, entered, removed, storage, lastrun,
                   at, pc, drain, pass, broken>>

(* a host goes with its services, one of two with any part of them; twins  *)
(* of services are deleted before their host is                            *)
HostRemoved(a) ==
    LET own == {sv \in Service : sv[1] = a /\ services[sv] # "none"} IN
    /\ a \in hosts \cap (Removed \ removed)
    /\ own \cap twins = {}
    /\ \E gone \in IF a \in twins THEN SUBSET own ELSE {own} :
          /\ services' = [sv \in Service |->
                IF sv \in gone THEN "none" ELSE services[sv]]
          /\ hosts' = IF a \in twins THEN hosts ELSE hosts \ {a}
          /\ recent' = recent \ (gone \cup ({a} \ twins))
          /\ removed' = removed \cup {a} \cup gone
    /\ twins' = twins \ {a}
    /\ UNCHANGED <<queued, jobs, disk, deleting, entered, enqueued, lastrun,
                   at, pc, drain, pass, broken>>

ServiceRemoved(sv) ==
    /\ sv \in Service /\ services[sv] # "none"
    /\ sv \in Removed \ removed
    /\ \E left \in IF sv \in twins THEN {services[sv], "open"} ELSE {"none"} :
          /\ services' = [services EXCEPT ![sv] = left]
          /\ recent' = IF left = "none" THEN recent \ {sv} ELSE recent
    /\ twins' = twins \ {sv}
    /\ removed' = removed \cup {sv}
    /\ UNCHANGED <<queued, jobs, disk, deleting, hosts, entered, enqueued,
                   lastrun, at, pc, drain, pass, broken>>

ByHand(x) ==
    \/ HostByHand(x) \/ ServiceByHand(x)
    \/ \E s \in Handler : QueueByHand(s, x)
    \/ HostRemoved(x) \/ ServiceRemoved(x)

Init ==
    /\ queued = [s \in Handler |-> [t \in Target |-> 0]]
    /\ jobState = [j \in Job |-> "unused"]
    /\ jobStage = [j \in Job |-> None]
    /\ jobTarget = [j \in Job |-> None]
    /\ parsed = [j \in Job |-> Unreadable]
    /\ files = {} /\ archive = {} /\ deleting = {}
    /\ hosts = {} /\ services = [sv \in Service |-> "none"]
    /\ twins = {} /\ entered = {} /\ removed = {} /\ enqueued = {}
    /\ recent = {} /\ lastrun = {}
    /\ at = 1 /\ pc = "stage" /\ todo = {} /\ cur = None
    /\ data = NoData /\ nxt = 1 /\ seen = {}
    /\ broken = FALSE

Step ==
    \/ SessionFails \/ QueryJobs \/ TakeJob \/ Drained
    \/ Parse \/ HandlerRaises \/ Mark \/ Archive \/ Unlink \/ DeleteJob
    \/ ReadQueued \/ Enqueue \/ Passed
    \/ ImportHosts \/ ImportServices
    \/ ImportHostsRaises \/ ImportServicesRaises
    \/ Cleanup \/ NotYet \/ NetlistEnum \/ StorageSixEnum \/ StorageRescan
    \/ GetRescanHosts \/ GetRescanServices \/ WriteLastrun

Scheduler ==
    \/ \E s \in Handler, t \in Target, j \in Job : Assign(s, t, j)
    \/ \E j \in Job : Output(j) \/ OutputFailed(j)

Environment ==
    \/ LoseConnection \/ Restart
    \/ \E s \in Schedule : RunDue(s)
    \/ \E x \in Target : RescanDue(x)
    \/ \E j \in Job : OperatorUnlink(j) \/ OperatorDelete(j)
    \/ \E x \in Target : ByHand(x)

Next == Step \/ Scheduler \/ Environment

Spec == Init /\ [][Next]_vars

=============================================================================
