---------------------------- MODULE PlannerProofs ----------------------------
(***************************************************************************)
(* Theorems about Planner, for every pipeline, every set of targets and    *)
(* jobs, with kills, lost connections and operators.                       *)
(***************************************************************************)
EXTENDS PlannerProps, TLAPS

(* the queue that the next Enqueue inserts into *)
Receiver == NextStages[stage][nxt]

(* What task() has read is still an upper bound of what is queued when it  *)
(* inserts, but for the rows of operators: the scheduler only takes away.  *)
SeenCovers ==
    pc = "enqueue" =>
        \A s \in Handler, t \in Target :
            s = Receiver /\ queued[s][t] > 0
                => t \in seen \/ <<s, t>> \in enqueued

QueueInv ==
    /\ queued \in [Handler -> [Target -> Nat]]
    /\ QueuedOnce
    /\ SeenCovers

(* A step that touches neither the queues nor the position in task().      *)
LEMMA StandStill ==
    ASSUME QueueInv, UNCHANGED <<queued, at, pc, nxt, seen, enqueued>>
    PROVE  QueueInv'
BY DEF QueueInv, QueuedOnce, SeenCovers, Receiver, stage

(* A step that touches no queue and does not end before an insert.         *)
LEMMA Elsewhere ==
    ASSUME QueueInv, UNCHANGED <<queued, enqueued>>, pc' # "enqueue"
    PROVE  QueueInv'
BY DEF QueueInv, QueuedOnce, SeenCovers

(* The lookup of task(): afterwards seen is what is queued.                *)
LEMMA ReadKeeps ==
    ASSUME QueueInv, ReadQueued
    PROVE  QueueInv'
<1>1. /\ UNCHANGED <<queued, at, nxt, enqueued>>
      /\ seen' = {t \in Target : queued[Receiver][t] > 0}
  BY DEF ReadQueued, AlreadyQueued, Receiver, operators
<1>2. SeenCovers'
  BY <1>1 DEF SeenCovers, Receiver, stage
<1> QED
  BY <1>1, <1>2 DEF QueueInv, QueuedOnce

(* The insert of task(): a row is added only where none was, or one of an  *)
(* operator.                                                               *)
LEMMA EnqueueKeeps ==
    ASSUME QueueInv, Enqueue
    PROVE  QueueInv'
<1> DEFINE new == Share(Receiver, data) \ seen
<1>1. /\ pc = "enqueue" /\ pc' = "read" /\ enqueued' = enqueued
      /\ queued' = [queued EXCEPT ![Receiver] =
                       [t \in Target |-> IF t \in new THEN @[t] + 1 ELSE @[t]]]
  BY DEF Enqueue, Goto, Receiver, operators
<1> HIDE DEF new
<1>2. queued' \in [Handler -> [Target -> Nat]]
  <2> DEFINE row == [t \in Target |-> IF t \in new THEN queued[Receiver][t] + 1
                                     ELSE queued[Receiver][t]]
  <2>1. queued' = [queued EXCEPT ![Receiver] = row]
    BY <1>1
  <2>2. Receiver \in Handler => row \in [Target -> Nat]
    BY DEF QueueInv
  <2> HIDE DEF row
  <2> QED
    BY <2>1, <2>2 DEF QueueInv
<1>3. ASSUME NEW s \in Handler, NEW t \in Target, <<s, t>> \notin enqueued
      PROVE  queued'[s][t] <= 1
  <2>1. CASE s = Receiver /\ t \in new
    <3>1. queued[s][t] = 0
      BY <1>1, <1>3, <2>1 DEF QueueInv, SeenCovers, new
    <3>2. queued'[s][t] = queued[s][t] + 1
      BY <1>1, <2>1 DEF QueueInv
    <3> QED
      BY <3>1, <3>2
  <2>2. CASE ~(s = Receiver /\ t \in new)
    <3>1. queued'[s][t] = queued[s][t]
      BY <1>1, <2>2 DEF QueueInv
    <3> QED
      BY <1>3, <3>1 DEF QueueInv, QueuedOnce
  <2> QED
    BY <2>1, <2>2
<1>4. QueuedOnce'
  <2> SUFFICES ASSUME NEW s \in Handler, NEW t \in Target,
                      queued'[s][t] > 1
               PROVE  <<s, t>> \in enqueued
    BY <1>1 DEF QueuedOnce
  <2>1. queued'[s][t] \in Nat
    BY <1>2
  <2> QED
    BY <1>3, <2>1
<1> QED
  BY <1>1, <1>2, <1>4 DEF QueueInv, SeenCovers

(* What operators do by hand: rows in storage, and rows in a queue.        *)
LEMMA ByHandSteps ==
    ASSUME NEW x \in Target, ByHand(x)
    PROVE  /\ jobs' = jobs /\ disk' = disk /\ deleting' = deleting
           /\ lastrun' = lastrun /\ at' = at /\ pc' = pc /\ drain' = drain
           /\ pass' = pass /\ broken' = broken
           /\ entered \subseteq entered' /\ removed \subseteq removed'
           /\ \/ queued' = queued /\ enqueued' = enqueued
              \/ /\ \E s \in Handler : QueueByHand(s, x)
                 /\ UNCHANGED <<hosts, services, entered>>
<1>1. CASE HostByHand(x)
  BY <1>1 DEF HostByHand, Enters
<1>2. CASE ServiceByHand(x)
  BY <1>2 DEF ServiceByHand, Enters
<1>3. CASE \E s \in Handler : QueueByHand(s, x)
  BY <1>3 DEF QueueByHand, storage
<1>4. CASE HostRemoved(x)
  BY <1>4 DEF HostRemoved
<1>5. CASE ServiceRemoved(x)
  BY <1>5 DEF ServiceRemoved
<1> QED
  BY <1>1, <1>2, <1>3, <1>4, <1>5 DEF ByHand

(* A row that an operator inserts, also between the look-up and the insert *)
(* of task().                                                              *)
LEMMA QueueByHandKeeps ==
    ASSUME QueueInv, NEW q \in Handler, NEW u \in Target, QueueByHand(q, u)
    PROVE  QueueInv'
<1>1. /\ UNCHANGED <<at, pc, nxt, seen>>
      /\ queued' = [queued EXCEPT ![q][u] = @ + 1]
      /\ enqueued' = enqueued \cup {<<q, u>>}
  BY DEF QueueByHand, pass
<1>2. queued' \in [Handler -> [Target -> Nat]]
  BY <1>1 DEF QueueInv
<1>3. ASSUME NEW s \in Handler, NEW t \in Target
      PROVE  <<s, t>> \in enqueued' \/ queued'[s][t] = queued[s][t]
  <2>1. CASE s = q /\ t = u
    BY <1>1, <2>1
  <2>2. CASE ~(s = q /\ t = u)
    BY <1>1, <2>2 DEF QueueInv
  <2> QED
    BY <2>1, <2>2
<1>4. enqueued \subseteq enqueued'
  BY <1>1
<1>5. QueuedOnce'
  BY <1>3, <1>4 DEF QueueInv, QueuedOnce
<1>6. SeenCovers'
  <2>1. Receiver' = Receiver
    BY <1>1 DEF Receiver, stage
  <2> QED
    BY <1>1, <1>3, <1>4, <2>1 DEF QueueInv, SeenCovers
<1> QED
  BY <1>2, <1>5, <1>6 DEF QueueInv

(* An assignment takes a row away: what task() has read still covers.      *)
LEMMA AssignKeeps ==
    ASSUME QueueInv, NEW q \in Handler, NEW u \in Target, NEW j \in Job,
           Assign(q, u, j)
    PROVE  QueueInv'
<1>1. /\ UNCHANGED <<at, pc, nxt, seen, enqueued>>
      /\ queued[q][u] > 0
      /\ queued' = [queued EXCEPT ![q][u] = @ - 1]
  BY DEF Assign, pass, operators
<1>2. queued' \in [Handler -> [Target -> Nat]]
  BY <1>1 DEF QueueInv
<1>3. ASSUME NEW s \in Handler, NEW t \in Target
      PROVE  queued'[s][t] <= queued[s][t]
  BY <1>1, <1>2 DEF QueueInv
<1>4. \A s \in Handler, t \in Target :
          queued[s][t] \in Nat /\ queued'[s][t] \in Nat
  BY <1>2 DEF QueueInv
<1>5. QueuedOnce'
  BY <1>1, <1>3, <1>4 DEF QueueInv, QueuedOnce
<1>6. SeenCovers'
  <2> SUFFICES ASSUME pc' = "enqueue",
                      NEW s \in Handler, NEW t \in Target,
                      s = Receiver', queued'[s][t] > 0
               PROVE  t \in seen' \/ <<s, t>> \in enqueued'
    BY DEF SeenCovers
  <2>1. queued[s][t] > 0
    BY <1>3, <1>4
  <2>2. s = Receiver
    BY <1>1 DEF Receiver, stage
  <2> QED
    BY <1>1, <2>1, <2>2 DEF QueueInv, SeenCovers
<1> QED
  BY <1>2, <1>5, <1>6 DEF QueueInv

(* Every step of the system keeps the invariant.                           *)
LEMMA QueueStep ==
    ASSUME QueueInv, [Next]_vars
    PROVE  QueueInv'
<1> USE DEF operators
<1>1. CASE ReadQueued
  BY <1>1, ReadKeeps
<1>2. CASE Enqueue
  BY <1>2, EnqueueKeeps
<1>3. CASE \E s \in Handler, t \in Target, j \in Job : Assign(s, t, j)
  BY <1>3, AssignKeeps
<1>4. CASE \/ SessionFails \/ QueryJobs \/ Drained \/ Mark
           \/ Archive \/ Unlink \/ DeleteJob
  BY <1>4, Elsewhere DEF SessionFails, QueryJobs, Drained, Mark,
     Archive, Unlink, DeleteJob, EndStage, Goto
<1>5. CASE TakeJob
  BY <1>5, Elsewhere DEF TakeJob, EndStage, Goto
<1>6. CASE Parse
  <2>1. UNCHANGED <<queued, enqueued>> /\ pc' \in {"import_hosts", "read", "mark"}
    BY <1>6 DEF Parse, Goto
  <2> QED
    BY <2>1, Elsewhere
<1>7. CASE Passed
  <2>1. UNCHANGED <<queued, enqueued>> /\ pc' \in {"archive", "lastrun"}
    BY <1>7 DEF Passed, Goto
  <2> QED
    BY <2>1, Elsewhere
<1>8. CASE \/ ImportHosts \/ ImportServices \/ Cleanup \/ HandlerRaises
           \/ ImportHostsRaises \/ ImportServicesRaises
  BY <1>8, Elsewhere
  DEF ImportHosts, ImportServices, Cleanup, HandlerRaises,
      ImportHostsRaises, ImportServicesRaises, EndStage, Goto
<1>9. CASE \/ NotYet \/ NetlistEnum \/ StorageSixEnum \/ StorageRescan
           \/ GetRescanHosts \/ GetRescanServices \/ WriteLastrun
  BY <1>9, Elsewhere DEF NotYet, NetlistEnum, StorageSixEnum, StorageRescan,
     GetRescanHosts, GetRescanServices, WriteLastrun, EndStage, Goto
<1>10. CASE \E j \in Job : Output(j) \/ OutputFailed(j)
  BY <1>10, StandStill DEF Output, OutputFailed, pass
<1>11. CASE LoseConnection \/ Restart
  BY <1>11, Elsewhere DEF LoseConnection, Restart, EndStage, Goto
<1>12. CASE \/ \E s \in Schedule : RunDue(s)
            \/ \E x \in Target : RescanDue(x)
  BY <1>12, StandStill DEF RunDue, RescanDue, pass
<1>13. CASE \E j \in Job : OperatorUnlink(j) \/ OperatorDelete(j)
  BY <1>13, StandStill DEF OperatorUnlink, OperatorDelete, pass
<1>14. CASE UNCHANGED vars
  BY <1>14, StandStill DEF vars, pass
<1>15. CASE \E x \in Target : ByHand(x)
  <2>1. PICK x \in Target : ByHand(x)
    BY <1>15
  <2>2. CASE queued' = queued /\ enqueued' = enqueued
    BY <2>1, <2>2, ByHandSteps, StandStill DEF pass
  <2>3. CASE \E s \in Handler : QueueByHand(s, x)
    BY <2>3, QueueByHandKeeps
  <2> QED
    BY <2>1, <2>2, <2>3, ByHandSteps
<1> QED
  BY <1>1, <1>2, <1>3, <1>4, <1>5, <1>6, <1>7, <1>8, <1>9, <1>10, <1>11,
     <1>12, <1>13, <1>14, <1>15 DEF Next, Step, Scheduler, Environment

(* The planner never queues a target twice (QueueHandler.task), though it  *)
(* looks up and inserts in separate steps, and though drains and schedules *)
(* run again after a kill: a target that is there twice was enqueued by an *)
(* operator too.                                                           *)
THEOREM NeverQueuedTwice == Spec => []QueuedOnce
<1>1. Init => QueueInv
  BY DEF Init, QueueInv, QueuedOnce, SeenCovers
<1>2. QueueInv /\ [Next]_vars => QueueInv'
  BY QueueStep
<1>3. QueueInv => QueuedOnce
  BY DEF QueueInv
<1> QED
  BY <1>1, <1>2, <1>3, PTL DEF Spec

-----------------------------------------------------------------------------
(* Types, and which stage is where *)

USE OrderAssumption, NextStagesAssumption, NetsAssumption, OutputsAssumption,
    OperatorAssumption, SentinelAssumption

DrainSteps == {"parse", "mark", "archive", "unlink", "delete",
               "import_hosts", "import_services"}

Passing == pc \in {"read", "enqueue"}

(* a job is being drained *)
Draining == pc \in DrainSteps \/ (Passing /\ stage \in Handler)

(* a job that has returned *)
Over(j) == jobState[j] \notin {"unused", "running"}

Positions ==
    /\ pc \in DrainSteps \cup {"take"} => stage \in Handler
    /\ pc \in {"rescan_hosts", "rescan_services"}
          => stage \in Schedule /\ Kind[stage] = "rescan"
    /\ pc = "lastrun" => stage \in Schedule
    /\ Passing => stage \in Handler \cup Schedule
    /\ pc = "enqueue" => nxt \in DOMAIN NextStages[stage]
    /\ Draining => cur \in Job /\ Over(cur)
    /\ pc \in {"import_hosts", "import_services"} => parsed[cur] \in Pidb
    /\ \A j \in todo : Over(j)

(* what is known of a job in each state *)
JobFacts ==
    \A j \in Job :
        /\ jobState[j] = "unused" => jobStage[j] = None
        /\ jobState[j] # "unused" =>
              jobStage[j] \in Handler /\ jobTarget[j] \in Target
        /\ ~Over(j) => parsed[j] = Unreadable
        /\ j \in deleting => Over(j)

TypeInv == TypeOK /\ Positions /\ JobFacts

LEMMA Stages ==
    ASSUME at \in 1..Len(Order)
    PROVE  /\ stage \in Stage /\ Kind[stage] \in Kinds
           /\ NextStages[stage] \in Seq(Handler)
BY DEF stage

LEMMA EndStageTypes ==
    ASSUME TypeInv, EndStage
    PROVE  /\ at' \in 1..Len(Order) /\ pc' = "stage"
           /\ todo' = {} /\ cur' = None /\ data' = NoData
           /\ nxt' = 1 /\ seen' = {}
<1>1. at \in Nat /\ Len(Order) \in Nat /\ Len(Order) > 0
  BY DEF TypeInv, TypeOK
<1>2. at % Len(Order) \in 0..(Len(Order) - 1)
  BY <1>1
<1> QED
  BY <1>1, <1>2 DEF EndStage, Goto

(* what the two filters of a discovery leave *)
LEMMA OpenOnes ==
    ASSUME NEW p \in Pidb,
           NEW sv \in project_services(filter_service_open(filter_tarpits(p)))
    PROVE  /\ sv \in p.open \cup filter_tarpits(p).bare /\ sv \in Known(p)
           /\ sv[1] \in p.hosts
           /\ Cardinality(ServicesOf(p, sv[1])) <= Threshold
<1> DEFINE ok == {a \in p.hosts : Cardinality(ServicesOf(p, a)) <= Threshold}
           q == filter_tarpits(p)
           r == filter_service_open(q)
<1>1. /\ q = [hosts |-> ok,
              open |-> {x \in p.open : x[1] \in ok},
              shut |-> {x \in p.shut : x[1] \in ok},
              bare |-> {x \in p.bare : x[1] \in ok}]
      /\ r = [q EXCEPT !.shut = {}]
  BY DEF filter_tarpits, filter_service_open
<1>2. r.open = {x \in p.open : x[1] \in ok} /\ r.shut = {}
      /\ r.bare = {x \in p.bare : x[1] \in ok}
  <2>1. \A k \in DOMAIN q : k # "shut" => r[k] = q[k]
    BY <1>1
  <2>2. DOMAIN q = {"hosts", "open", "shut", "bare"}
    BY <1>1
  <2>3. r.open = q.open /\ r.bare = q.bare /\ r.shut = {}
    BY <1>1, <2>1, <2>2
  <2>4. /\ q.open = {x \in p.open : x[1] \in ok}
        /\ q.bare = {x \in p.bare : x[1] \in ok}
    BY <1>1
  <2> HIDE DEF q, r
  <2> QED
    BY <2>3, <2>4
<1>3. sv \in r.open \cup r.shut \cup r.bare
  BY DEF project_services, Known
<1>4. q.bare = {x \in p.bare : x[1] \in ok}
  BY <1>1
<1> HIDE DEF r
<1>5. sv \in p.open \cup q.bare /\ sv[1] \in ok
  BY <1>2, <1>3, <1>4
<1> HIDE DEF q
<1> QED
  BY <1>2, <1>3, <1>5 DEF Known, q

(* what a handler passes on is made of addresses and services *)
LEMMA FoundTypes ==
    ASSUME NEW s \in Stage, NEW p \in Pidb
    PROVE  Found(s, p) \in [hosts : SUBSET Address, services : SUBSET Service]
<1>1. p.hosts \subseteq Address /\ Known(p) \subseteq Service
  BY DEF Pidb, Known
<1>2. project_services(filter_service_open(filter_tarpits(p))) \subseteq Service
  BY <1>1, OpenOnes
<1> QED
  BY <1>1, <1>2 DEF Found, NoData, filter_external_hosts

(* the part of TypeOK about the loop, and the part about what it works on *)
LoopTypes ==
    /\ at \in 1..Len(Order) /\ pc \in Labels
    /\ todo \subseteq Job /\ cur \in Job \cup {None}
    /\ data \in [hosts : SUBSET (Address \cup Network),
                services : SUBSET Service]
    /\ nxt \in Nat \ {0}
    /\ seen \subseteq Target

LEMMA EndStageLoop ==
    ASSUME TypeInv, EndStage
    PROVE  LoopTypes' /\ Positions'
<1>1. LoopTypes'
  BY EndStageTypes DEF LoopTypes, Labels, NoData
<1>2. Positions'
  BY EndStageTypes DEF Positions, Passing, Draining, DrainSteps
<1> QED
  BY <1>1, <1>2

TableTypes ==
    /\ queued \in [Handler -> [Target -> Nat]]
    /\ jobState \in [Job -> {"unused", "running", "done", "failed", "invalid",
                             "drained", "gone"}]
    /\ jobStage \in [Job -> Handler \cup {None}]
    /\ jobTarget \in [Job -> Target \cup {None}]
    /\ parsed \in [Job -> Pidb \cup {Unreadable}]
    /\ files \subseteq Job /\ archive \subseteq Job /\ deleting \subseteq Job
    /\ hosts \subseteq Address
    /\ services \in [Service -> {"none", "open", "shut", "bare"}]
    /\ twins \subseteq Address \cup Service
    /\ entered \cup removed \subseteq Address \cup Service
    /\ enqueued \subseteq Handler \X Target
    /\ recent \subseteq Target
    /\ lastrun \subseteq Schedule
    /\ broken \in BOOLEAN

LEMMA TypeParts == TypeOK <=> TableTypes /\ LoopTypes
BY DEF TypeOK, TableTypes, LoopTypes

(* a step of the planner keeps the types of what it reads and writes *)
LEMMA TableStep ==
    ASSUME TypeInv, [Next]_vars
    PROVE  TableTypes'
<1> USE DEF TypeInv, TypeOK, TableTypes, jobs, disk, storage, operators
<1>1. stage \in Stage /\ NextStages[stage] \in Seq(Handler)
  BY Stages
<1>2. CASE \/ SessionFails \/ QueryJobs \/ TakeJob \/ Drained \/ Parse
           \/ ReadQueued \/ Passed \/ NotYet \/ NetlistEnum \/ StorageRescan
           \/ StorageSixEnum \/ HandlerRaises \/ LoseConnection \/ Restart
  BY <1>2
  DEF SessionFails, QueryJobs, TakeJob, Drained, Parse, ReadQueued, Passed,
      NotYet, NetlistEnum, StorageRescan, StorageSixEnum, HandlerRaises,
      LoseConnection, Restart
<1>3. CASE Mark \/ Archive \/ Unlink \/ DeleteJob
  BY <1>3 DEF Mark, Archive, Unlink, DeleteJob, Positions, Draining, DrainSteps
<1>4. CASE Enqueue
  <2> DEFINE new == Share(Receiver, data) \ seen
             row == [t \in Target |-> IF t \in new THEN queued[Receiver][t] + 1
                                     ELSE queued[Receiver][t]]
  <2>1. /\ queued' = [queued EXCEPT ![Receiver] = row]
        /\ UNCHANGED <<jobs, disk, operators, storage, lastrun, broken>>
    BY <1>4 DEF Enqueue, Receiver
  <2>2. Receiver \in Handler => row \in [Target -> Nat]
    OBVIOUS
  <2> HIDE DEF row
  <2> QED
    BY <2>1, <2>2
<1>5. CASE \/ ImportHosts \/ ImportHostsRaises
           \/ ImportServices \/ ImportServicesRaises
  <2>1. parsed[cur] \in Pidb
    BY <1>5 DEF ImportHosts, ImportHostsRaises, ImportServices,
                ImportServicesRaises, Positions
  <2>2. /\ parsed[cur].hosts \subseteq Address
        /\ Known(parsed[cur]) \subseteq Service
    BY <2>1 DEF Pidb, Known
  <2>3. CASE ImportHosts \/ ImportHostsRaises
    <3>1. PICK as \in SUBSET parsed[cur].hosts : StoreHosts(as)
      BY <2>3 DEF ImportHosts, ImportHostsRaises
    <3> QED
      BY <2>2, <2>3, <3>1
      DEF ImportHosts, ImportHostsRaises, StoreHosts, Target
  <2>4. CASE ImportServices \/ ImportServicesRaises
    <3>1. PICK svs \in SUBSET Known(parsed[cur]) :
              StoreServices(parsed[cur], svs)
      BY <2>4 DEF ImportServices, ImportServicesRaises
    <3>2. services' \in [Service -> {"none", "open", "shut", "bare"}]
          /\ recent' \subseteq Target
      BY <2>2, <3>1 DEF StoreServices, Target
    <3> QED
      BY <2>4, <3>2 DEF ImportServices, ImportServicesRaises
  <2> QED
    BY <1>5, <2>3, <2>4
<1>6. CASE Cleanup
  <2>1. /\ services' \in [Service -> {"none", "open", "shut", "bare"}]
        /\ hosts' \subseteq hosts /\ recent' \subseteq recent
        /\ twins' \subseteq Address \cup Service
    BY <1>6 DEF Cleanup
  <2> QED
    BY <1>6, <2>1 DEF Cleanup
<1>7. CASE GetRescanHosts \/ GetRescanServices \/ WriteLastrun
  BY <1>7 DEF GetRescanHosts, GetRescanServices, WriteLastrun, Positions,
              Target
<1>8. CASE \E s \in Handler, t \in Target, j \in Job : Assign(s, t, j)
  BY <1>8 DEF Assign
<1>9. CASE \E j \in Job : Output(j) \/ OutputFailed(j)
  <2>1. PICK j \in Job : Output(j) \/ OutputFailed(j)
    BY <1>9
  <2>2. Outputs[jobStage[j]][jobTarget[j]] \subseteq Pidb
    BY <2>1 DEF Output, OutputFailed, JobFacts
  <2>3. parsed' \in [Job -> Pidb \cup {Unreadable}]
    <3>1. CASE Output(j)
      <4>1. PICK p \in Pidb \cup {Unreadable} :
                parsed' = [parsed EXCEPT ![j] = p]
        BY <2>2, <3>1 DEF Output
      <4> QED
        BY <4>1
    <3> QED
      BY <2>1, <3>1 DEF OutputFailed
  <2> QED
    BY <2>1, <2>3 DEF Output, OutputFailed
<1>10. CASE \/ \E s \in Schedule : RunDue(s)
            \/ \E x \in Target : RescanDue(x)
            \/ \E j \in Job : OperatorUnlink(j) \/ OperatorDelete(j)
  BY <1>10 DEF RunDue, RescanDue, OperatorUnlink, OperatorDelete
<1>11. CASE UNCHANGED vars
  BY <1>11 DEF vars
<1>12. CASE \E x \in Target : ByHand(x)
  <2>1. PICK x \in Target : ByHand(x)
    BY <1>12
  <2>2. CASE HostByHand(x)
    BY <2>2 DEF HostByHand, Enters, StoreHosts, Target
  <2>3. CASE ServiceByHand(x)
    BY <2>3 DEF ServiceByHand, Enters, Target
  <2>4. CASE \E s \in Handler : QueueByHand(s, x)
    <3>1. PICK s \in Handler : QueueByHand(s, x)
      BY <2>4
    <3>2. queued' \in [Handler -> [Target -> Nat]]
      BY <3>1 DEF QueueByHand
    <3> QED
      BY <3>1, <3>2 DEF QueueByHand
  <2>5. CASE HostRemoved(x)
    BY <2>5 DEF HostRemoved
  <2>6. CASE ServiceRemoved(x)
    BY <2>6 DEF ServiceRemoved
  <2> QED
    BY <2>1, <2>2, <2>3, <2>4, <2>5, <2>6 DEF ByHand
<1> QED
  BY <1>2, <1>3, <1>4, <1>5, <1>6, <1>7, <1>8, <1>9, <1>10, <1>11,
     <1>12
  DEF Next, Step, Scheduler, Environment

(* What a step of the system may do to a job: it is assigned, it returns,  *)
(* or the planner or an operator is done with it.                          *)
Scanned(j) ==
    /\ jobStage'[j] = jobStage[j] /\ jobTarget'[j] = jobTarget[j]
    /\ parsed'[j] = parsed[j]
Kept(j) == jobState'[j] = jobState[j] /\ Scanned(j)
Started(j) ==
    /\ jobState[j] = "unused" /\ jobState'[j] = "running"
    /\ parsed'[j] = parsed[j]
    /\ \E s \in Handler, t \in Target :
          /\ Assign(s, t, j)
          /\ jobStage'[j] = s /\ jobTarget'[j] = t
Returned(j) ==
    /\ jobState[j] = "running" /\ jobState'[j] \in {"done", "failed"}
    /\ jobStage'[j] = jobStage[j] /\ jobTarget'[j] = jobTarget[j]
    /\ Output(j) \/ parsed'[j] = parsed[j]
Ended(j) ==
    /\ Over(j) /\ Scanned(j)
    /\ \/ jobState'[j] = "invalid" /\ pc = "mark" /\ j = cur
       \/ jobState'[j] = "drained" /\ DeleteJob /\ j = cur
       \/ jobState'[j] = "gone" /\ OperatorDelete(j)

LEMMA JobSteps ==
    ASSUME TypeInv, [Next]_vars, NEW j \in Job
    PROVE  Kept(j) \/ Started(j) \/ Returned(j) \/ Ended(j)
<1> USE DEF TypeInv, TypeOK, jobs
<1>1. ASSUME UNCHANGED jobs
      PROVE  Kept(j)
  BY <1>1 DEF Kept, Scanned
<1>2. CASE \/ SessionFails \/ QueryJobs \/ TakeJob \/ Drained \/ Parse
           \/ ReadQueued \/ Passed \/ NotYet \/ NetlistEnum \/ StorageRescan
           \/ LoseConnection \/ Restart \/ Archive \/ Unlink \/ Enqueue
           \/ ImportHosts \/ ImportServices \/ Cleanup \/ HandlerRaises
           \/ ImportHostsRaises \/ ImportServicesRaises \/ StorageSixEnum
           \/ GetRescanHosts \/ GetRescanServices \/ WriteLastrun
  BY <1>1, <1>2
  DEF SessionFails, QueryJobs, TakeJob, Drained, Parse, ReadQueued, Passed,
      NotYet, NetlistEnum, StorageRescan, LoseConnection, Restart, Archive,
      Unlink, Enqueue, ImportHosts, ImportServices, Cleanup, HandlerRaises,
      ImportHostsRaises, ImportServicesRaises, StorageSixEnum,
      GetRescanHosts, GetRescanServices, WriteLastrun
<1>3. CASE Mark \/ DeleteJob
  <2>1. Over(cur)
    BY <1>3 DEF Mark, DeleteJob, Positions, Draining, DrainSteps
  <2> QED
    BY <1>3, <2>1 DEF Mark, DeleteJob, Kept, Ended, Scanned
<1>4. CASE \E s \in Handler, t \in Target, i \in Job : Assign(s, t, i)
  <2>1. PICK s \in Handler, t \in Target, i \in Job : Assign(s, t, i)
    BY <1>4
  <2>2. CASE i = j
    <3>1. /\ jobState[j] = "unused" /\ jobState'[j] = "running"
          /\ parsed'[j] = parsed[j]
          /\ jobStage'[j] = s /\ jobTarget'[j] = t
      BY <2>1, <2>2 DEF Assign
    <3> QED
      BY <2>1, <2>2, <3>1 DEF Started
  <2>3. CASE i # j
    BY <2>1, <2>3 DEF Assign, Kept, Scanned
  <2> QED
    BY <2>2, <2>3
<1>5. CASE \E i \in Job : Output(i) \/ OutputFailed(i)
  <2>1. PICK i \in Job : Output(i) \/ OutputFailed(i)
    BY <1>5
  <2>2. CASE i = j
    <3>1. /\ jobState[j] = "running" /\ jobState'[j] \in {"done", "failed"}
          /\ jobStage'[j] = jobStage[j] /\ jobTarget'[j] = jobTarget[j]
          /\ OutputFailed(j) => parsed'[j] = parsed[j]
      BY <2>1, <2>2 DEF Output, OutputFailed
    <3> QED
      BY <2>1, <2>2, <3>1 DEF Returned
  <2>3. CASE i # j
    BY <2>1, <2>3 DEF Output, OutputFailed, Kept, Scanned
  <2> QED
    BY <2>2, <2>3
<1>6. CASE \/ \E s \in Schedule : RunDue(s)
           \/ \E x \in Target : RescanDue(x)
           \/ \E i \in Job : OperatorUnlink(i)
           \/ UNCHANGED vars
  BY <1>1, <1>6 DEF RunDue, RescanDue, OperatorUnlink, vars
<1>7. CASE \E i \in Job : OperatorDelete(i)
  BY <1>7 DEF OperatorDelete, Kept, Ended, Scanned, Over, JobFacts
<1>8. CASE \E x \in Target : ByHand(x)
  BY <1>1, <1>8, ByHandSteps
<1> QED
  BY <1>2, <1>3, <1>4, <1>5, <1>6, <1>7, <1>8 DEF Next, Step, Scheduler, Environment

(* A job that has returned has done so for good, with the same output.     *)
LEMMA OverStays ==
    ASSUME TypeInv, [Next]_vars, NEW j \in Job, Over(j)
    PROVE  Over(j)' /\ Scanned(j)
BY JobSteps DEF Kept, Started, Returned, Ended, Over

LEMMA FactsStep ==
    ASSUME TypeInv, [Next]_vars
    PROVE  JobFacts'
<1>1. ASSUME NEW j \in Job
      PROVE  /\ jobState'[j] = "unused" => jobStage'[j] = None
             /\ jobState'[j] # "unused" =>
                   jobStage'[j] \in Handler /\ jobTarget'[j] \in Target
             /\ ~Over(j)' => parsed'[j] = Unreadable
  BY JobSteps
  DEF TypeInv, JobFacts, Kept, Started, Returned, Ended, Scanned, Over
<1>2. ASSUME NEW j \in Job, j \in deleting'
      PROVE  j \in deleting \/ Over(j)
  <2> USE DEF disk, operators
  <2>1. CASE \/ SessionFails \/ QueryJobs \/ TakeJob \/ Drained \/ Parse
             \/ ReadQueued \/ Passed \/ NotYet \/ NetlistEnum
             \/ StorageRescan \/ LoseConnection \/ Restart \/ Archive
             \/ Unlink \/ Enqueue \/ ImportHosts \/ ImportServices
             \/ Cleanup \/ GetRescanHosts \/ GetRescanServices
             \/ WriteLastrun \/ Mark \/ DeleteJob \/ HandlerRaises
             \/ ImportHostsRaises \/ ImportServicesRaises \/ StorageSixEnum
    BY <1>2, <2>1
    DEF SessionFails, QueryJobs, TakeJob, Drained, Parse, ReadQueued, Passed,
        NotYet, NetlistEnum, StorageRescan, LoseConnection, Restart, Archive,
        Unlink, Enqueue, ImportHosts, ImportServices, Cleanup,
        GetRescanHosts, GetRescanServices, WriteLastrun, Mark, DeleteJob,
        HandlerRaises, ImportHostsRaises, ImportServicesRaises, StorageSixEnum
  <2>2. CASE \/ \E s \in Handler, t \in Target, i \in Job : Assign(s, t, i)
             \/ \E i \in Job : Output(i) \/ OutputFailed(i)
             \/ \E s \in Schedule : RunDue(s)
             \/ \E x \in Target : RescanDue(x)
             \/ UNCHANGED vars
    BY <1>2, <2>2 DEF Assign, Output, OutputFailed, RunDue, RescanDue, vars
  <2>3. CASE \E i \in Job : OperatorUnlink(i) \/ OperatorDelete(i)
    BY <1>2, <2>3 DEF OperatorUnlink, OperatorDelete, Over
  <2>4. CASE \E x \in Target : ByHand(x)
    BY <1>2, <2>4, ByHandSteps
  <2> QED
    BY <2>1, <2>2, <2>3, <2>4 DEF Next, Step, Scheduler, Environment
<1>3. ASSUME NEW j \in Job, j \in deleting'
      PROVE  Over(j)'
  BY <1>2, <1>3, OverStays DEF TypeInv, JobFacts
<1> QED
  BY <1>1, <1>3 DEF JobFacts

LEMMA LoopStep ==
    ASSUME TypeInv, [Next]_vars
    PROVE  LoopTypes' /\ Positions'
<1> USE DEF TypeInv, TypeOK, LoopTypes, Positions, Passing, Draining,
            DrainSteps, Labels, Goto, drain, pass
<1>0. \A j \in Job : Over(j) => Over(j)' /\ parsed'[j] = parsed[j]
  BY OverStays DEF Scanned
<1>1. /\ stage \in Stage /\ Kind[stage] \in Kinds
      /\ NextStages[stage] \in Seq(Handler)
  BY Stages
<1>2. ASSUME EndStage
      PROVE  LoopTypes' /\ Positions'
  BY <1>2, EndStageLoop
<1>3. ASSUME UNCHANGED <<at, pc, drain, pass>>
      PROVE  LoopTypes' /\ Positions'
  BY <1>0, <1>3 DEF stage
<1>4. CASE SessionFails \/ Drained \/ NotYet \/ LoseConnection \/ WriteLastrun
           \/ Cleanup \/ HandlerRaises
           \/ ImportHostsRaises \/ ImportServicesRaises
  BY <1>2, <1>4
  DEF SessionFails, Drained, NotYet, LoseConnection, WriteLastrun, Cleanup,
      HandlerRaises, ImportHostsRaises, ImportServicesRaises
<1>5. CASE QueryJobs
  BY <1>0, <1>5 DEF QueryJobs, stage, Over, jobs
<1>6. CASE TakeJob
  BY <1>0, <1>2, <1>6 DEF TakeJob, stage
<1>7. CASE Parse
  <2>1. parsed[cur] # Unreadable => parsed[cur] \in Pidb
    BY <1>7 DEF Parse
  <2> QED
    BY <1>0, <1>1, <1>7, <2>1, FoundTypes DEF Parse, stage
<1>8. CASE Mark \/ Archive
  BY <1>0, <1>2, <1>8 DEF Mark, Archive, stage
<1>9. CASE Unlink \/ DeleteJob
  BY <1>0, <1>9 DEF Unlink, DeleteJob, stage
<1>10. CASE ReadQueued
  BY <1>0, <1>1, <1>10 DEF ReadQueued, stage, AlreadyQueued
<1>11. CASE Enqueue
  BY <1>0, <1>1, <1>11 DEF Enqueue, stage
<1>12. CASE Passed
  BY <1>0, <1>1, <1>12 DEF Passed, stage
<1>13. CASE ImportHosts \/ ImportServices
  BY <1>0, <1>13 DEF ImportHosts, ImportServices, stage
<1>14. CASE NetlistEnum \/ StorageRescan \/ StorageSixEnum
  <2>1. project_sixenum_targets(hosts) \subseteq Network
    BY DEF project_sixenum_targets
  <2> QED
    BY <1>0, <1>1, <1>14, <2>1
    DEF NetlistEnum, StorageRescan, StorageSixEnum, stage, Schedule, Handler
<1>15. CASE GetRescanHosts \/ GetRescanServices
  <2>1. /\ stage \in Schedule /\ stage \notin Handler
        /\ Kind[stage] = "rescan"
    BY <1>15 DEF GetRescanHosts, GetRescanServices, Schedule, Handler
  <2> DEFINE Hosts == Address \cup Network
             Data == [hosts : SUBSET Hosts, services : SUBSET Service]
  <2>2. data' \in Data
    <3>0. data \in Data /\ hosts \subseteq Hosts
      OBVIOUS
    <3>1. ASSUME NEW x \in SUBSET Hosts, NEW y \in SUBSET Service
          PROVE  /\ [data EXCEPT !.hosts = x]
                       \in Data
                 /\ [data EXCEPT !.services = y]
                       \in Data
      BY <3>0
    <3>2. CASE GetRescanHosts
      <4>1. PICK x \in SUBSET Hosts : data' = [data EXCEPT !.hosts = x]
        BY <3>0, <3>2 DEF GetRescanHosts
      <4> QED
        BY <3>1, <4>1
    <3>3. CASE GetRescanServices
      <4>1. PICK y \in SUBSET Service : data' = [data EXCEPT !.services = y]
        BY <3>3 DEF GetRescanServices
      <4> QED
        BY <3>1, <4>1
    <3> QED
      BY <1>15, <3>2, <3>3
  <2>3. /\ UNCHANGED <<at, nxt, seen, todo, cur>> /\ stage' = stage
        /\ pc' \in {"rescan_services", "read"}
    BY <1>15 DEF GetRescanHosts, GetRescanServices, stage
  <2> QED
    BY <1>0, <2>1, <2>2, <2>3
<1>16. CASE Restart
  BY <1>0, <1>16 DEF Restart, NoData
<1>17. CASE \/ \E s \in Handler, t \in Target, j \in Job : Assign(s, t, j)
            \/ \E j \in Job : Output(j) \/ OutputFailed(j)
            \/ \E s \in Schedule : RunDue(s)
            \/ \E x \in Target : RescanDue(x)
            \/ \E j \in Job : OperatorUnlink(j) \/ OperatorDelete(j)
            \/ UNCHANGED vars
  BY <1>3, <1>17
  DEF Assign, Output, OutputFailed, RunDue, RescanDue, OperatorUnlink,
      OperatorDelete, vars
<1>18. CASE \E x \in Target : ByHand(x)
  BY <1>3, <1>18, ByHandSteps
<1> QED
  BY <1>4, <1>5, <1>6, <1>7, <1>8, <1>9, <1>10, <1>11, <1>12, <1>13, <1>14,
     <1>15, <1>16, <1>17, <1>18
  DEF Next, Step, Scheduler, Environment

(* Types, and that the loop is at a step of the stage it runs.             *)
THEOREM PlannerTypes == Spec => []TypeInv
<1>1. Init => TypeInv
  <2> SUFFICES ASSUME Init PROVE TypeInv
    OBVIOUS
  <2>1. TableTypes
    BY DEF Init, TableTypes
  <2>2. LoopTypes
    BY DEF Init, LoopTypes, Labels, NoData
  <2>3. Positions /\ JobFacts
    BY DEF Init, Positions, Passing, Draining, DrainSteps, JobFacts, Over
  <2> QED
    BY <2>1, <2>2, <2>3, TypeParts DEF TypeInv
<1>2. TypeInv /\ [Next]_vars => TypeInv'
  BY TableStep, LoopStep, FactsStep
  DEF TypeInv, TypeOK, TableTypes, LoopTypes
<1> QED
  BY <1>1, <1>2, PTL DEF Spec

-----------------------------------------------------------------------------
(* Nothing that a job found is lost *)

(* what is in the output of a job is queued or stored *)
Safe(j) ==
    /\ parsed[j] # Unreadable
    /\ IF Kind[jobStage[j]] = "loader" THEN Loaded(j) ELSE PassedOn(j)

(* the next stages before nxt have got the data of the job being drained *)
Served ==
    \A i \in DOMAIN NextStages[stage], t \in Target :
        i < nxt /\ t \in Share(NextStages[stage][i], data)
            => Reached(NextStages[stage][i], t)

DrainedSafe ==
    \A j \in Job : jobState[j] = "drained" => j \in archive /\ Safe(j)

(* what the drain of the current job has seen to so far *)
DrainLoop ==
    /\ \A j \in todo : jobStage[j] = stage
    /\ Draining => jobStage[cur] = stage
    /\ Passing /\ stage \in Handler =>
          /\ Kind[stage] # "loader"
          /\ parsed[cur] # Unreadable /\ data = Found(stage, parsed[cur])
          /\ Served
    /\ pc = "enqueue" => \A t \in seen : Reached(Receiver, t)
    /\ pc \in {"import_hosts", "import_services"} => Kind[stage] = "loader"
    /\ pc \in {"archive", "unlink", "delete"} => Safe(cur)
    /\ pc \in {"unlink", "delete"} => cur \in archive

DrainInv == TypeInv /\ DrainedSafe /\ DrainLoop

(* Only the planner's inserts and the scheduler's assignments write queues. *)
LEMMA QueueWriters ==
    ASSUME [Next]_vars
    PROVE  \/ UNCHANGED queued \/ Enqueue
           \/ \E q \in Handler, u \in Target, j \in Job : Assign(q, u, j)
           \/ \E q \in Handler, x \in Target : QueueByHand(q, x)
<1>1. CASE \/ SessionFails \/ QueryJobs \/ TakeJob \/ Drained \/ Parse
           \/ ReadQueued \/ Passed \/ NotYet \/ NetlistEnum
           \/ StorageRescan \/ LoseConnection \/ Restart \/ Archive
           \/ Unlink \/ ImportHosts \/ ImportServices
           \/ Cleanup \/ GetRescanHosts \/ GetRescanServices
           \/ WriteLastrun \/ Mark \/ DeleteJob \/ HandlerRaises
           \/ ImportHostsRaises \/ ImportServicesRaises \/ StorageSixEnum
  BY <1>1
  DEF SessionFails, QueryJobs, TakeJob, Drained, Parse, ReadQueued,
      Passed, NotYet, NetlistEnum, StorageRescan, LoseConnection,
      Restart, Archive, Unlink, ImportHosts, ImportServices, Cleanup,
      GetRescanHosts, GetRescanServices, WriteLastrun, Mark, DeleteJob,
      HandlerRaises, ImportHostsRaises, ImportServicesRaises, StorageSixEnum
<1>2. CASE \/ \E i \in Job : Output(i) \/ OutputFailed(i)
           \/ \E z \in Schedule : RunDue(z)
           \/ \E x \in Target : RescanDue(x)
           \/ \E i \in Job : OperatorUnlink(i) \/ OperatorDelete(i)
           \/ UNCHANGED vars
  BY <1>2
  DEF Output, OutputFailed, RunDue, RescanDue, OperatorUnlink,
      OperatorDelete, vars
<1>3. CASE \E x \in Target : ByHand(x)
  <2>1. PICK x \in Target : ByHand(x)
    BY <1>3
  <2>2. CASE queued' = queued
    BY <2>2
  <2>3. CASE \E s \in Handler : QueueByHand(s, x)
    BY <2>1, <2>3
  <2> QED
    BY <2>1, <2>2, <2>3, ByHandSteps
<1> QED
  BY <1>1, <1>2, <1>3 DEF Next, Step, Scheduler, Environment

(* What was queued stays queued until it is assigned. *)
LEMMA ReachedStays ==
    ASSUME TypeInv, [Next]_vars, NEW s \in Handler, NEW t \in Target,
           Reached(s, t)
    PROVE  Reached(s, t)'
<1> USE DEF TypeInv, TypeOK
<1>1. CASE \E k \in Job : jobStage[k] = s /\ jobTarget[k] = t
  <2>1. PICK k \in Job : jobStage[k] = s /\ jobTarget[k] = t
    BY <1>1
  <2>2. jobState[k] # "unused"
    BY <2>1 DEF JobFacts, Handler
  <2>3. jobStage'[k] = s /\ jobTarget'[k] = t
    BY <2>1, <2>2, JobSteps DEF Kept, Started, Returned, Ended, Scanned
  <2> QED
    BY <2>3 DEF Reached
<1>2. CASE queued[s][t] > 0
  <2>1. CASE UNCHANGED queued
    BY <1>2, <2>1 DEF Reached
  <2>2. CASE Enqueue
    <3>1. queued'[s][t] >= queued[s][t]
      BY <2>2 DEF Enqueue
    <3>2. queued'[s][t] > 0
      BY <1>2, <3>1, TableStep DEF TableTypes
    <3> QED
      BY <3>2 DEF Reached
  <2>3. CASE \E q \in Handler, u \in Target, j \in Job : Assign(q, u, j)
    <3>1. PICK q \in Handler, u \in Target, j \in Job : Assign(q, u, j)
      BY <2>3
    <3>2. CASE q = s /\ u = t
      <4>1. jobStage'[j] = s /\ jobTarget'[j] = t
        BY <3>1, <3>2 DEF Assign
      <4> QED
        BY <4>1 DEF Reached
    <3>3. CASE ~(q = s /\ u = t)
      BY <1>2, <3>1, <3>3 DEF Assign, Reached
    <3> QED
      BY <3>2, <3>3
  <2>4. CASE \E q \in Handler, x \in Target : QueueByHand(q, x)
    <3>1. queued'[s][t] >= queued[s][t]
      BY <2>4 DEF QueueByHand
    <3>2. queued'[s][t] > 0
      BY <1>2, <3>1, TableStep DEF TableTypes
    <3> QED
      BY <3>2 DEF Reached
  <2> QED
    BY <2>1, <2>2, <2>3, <2>4, QueueWriters
<1> QED
  BY <1>1, <1>2 DEF Reached

(* Only imports, cleanups and operators write storage. *)
LEMMA StorageWriters ==
    ASSUME [Next]_vars
    PROVE  \/ UNCHANGED <<hosts, services>>
           \/ Cleanup \/ ImportHosts \/ ImportHostsRaises
           \/ ImportServices \/ ImportServicesRaises
           \/ \E x \in Target : \/ HostByHand(x) \/ ServiceByHand(x)
                               \/ HostRemoved(x) \/ ServiceRemoved(x)
<1> USE DEF storage
<1>1. CASE \/ SessionFails \/ QueryJobs \/ TakeJob \/ Drained \/ Parse
           \/ ReadQueued \/ Enqueue \/ Passed \/ NotYet \/ NetlistEnum
           \/ StorageRescan \/ LoseConnection \/ Restart \/ Archive
           \/ Unlink \/ GetRescanHosts
           \/ GetRescanServices \/ WriteLastrun \/ Mark \/ DeleteJob
           \/ HandlerRaises \/ StorageSixEnum
  BY <1>1
  DEF SessionFails, QueryJobs, TakeJob, Drained, Parse, ReadQueued,
      Enqueue, Passed, NotYet, NetlistEnum, StorageRescan,
      LoseConnection, Restart, Archive, Unlink,
      GetRescanHosts, GetRescanServices, WriteLastrun, Mark, DeleteJob,
      HandlerRaises, StorageSixEnum
<1>2. CASE \/ \E s \in Handler, t \in Target, j \in Job : Assign(s, t, j)
           \/ \E i \in Job : Output(i) \/ OutputFailed(i)
           \/ \E z \in Schedule : RunDue(z)
           \/ \E x \in Target : RescanDue(x)
           \/ \E i \in Job : OperatorUnlink(i) \/ OperatorDelete(i)
           \/ UNCHANGED vars
  BY <1>2
  DEF Assign, Output, OutputFailed, RunDue, RescanDue, OperatorUnlink,
      OperatorDelete, vars
<1>3. CASE \E x \in Target : ByHand(x)
  <2>1. PICK x \in Target : ByHand(x)
    BY <1>3
  <2>2. CASE \E s \in Handler : QueueByHand(s, x)
    BY <2>2 DEF QueueByHand
  <2> QED
    BY <2>1, <2>2 DEF ByHand
<1> QED
  BY <1>1, <1>2, <1>3 DEF Next, Step, Scheduler, Environment

(* Nobody else writes what operators have done. *)
LEMMA OthersNotByHand ==
    ASSUME [Next]_vars, ~\E x \in Target : ByHand(x)
    PROVE  /\ entered' = entered /\ removed' = removed
           /\ enqueued' = enqueued
<1> USE DEF operators
<1>1. CASE \/ SessionFails \/ QueryJobs \/ TakeJob \/ Drained \/ Parse
           \/ ReadQueued \/ Enqueue \/ Passed \/ NotYet \/ NetlistEnum
           \/ StorageRescan \/ LoseConnection \/ Restart \/ Archive
           \/ Unlink \/ ImportHosts \/ ImportServices \/ Cleanup
           \/ GetRescanHosts \/ GetRescanServices \/ WriteLastrun
           \/ Mark \/ DeleteJob \/ HandlerRaises
           \/ ImportHostsRaises \/ ImportServicesRaises \/ StorageSixEnum
  BY <1>1
  DEF SessionFails, QueryJobs, TakeJob, Drained, Parse, ReadQueued, Enqueue,
      Passed, NotYet, NetlistEnum, StorageRescan, LoseConnection, Restart,
      Archive, Unlink, ImportHosts, ImportServices, Cleanup, GetRescanHosts,
      GetRescanServices, WriteLastrun, Mark, DeleteJob,
      HandlerRaises, ImportHostsRaises, ImportServicesRaises, StorageSixEnum
<1>2. CASE \/ \E s \in Handler, t \in Target, j \in Job : Assign(s, t, j)
           \/ \E i \in Job : Output(i) \/ OutputFailed(i)
           \/ \E z \in Schedule : RunDue(z)
           \/ \E x \in Target : RescanDue(x)
           \/ \E i \in Job : OperatorUnlink(i) \/ OperatorDelete(i)
           \/ UNCHANGED vars
  BY <1>2
  DEF Assign, Output, OutputFailed, RunDue, RescanDue, OperatorUnlink,
      OperatorDelete, vars
<1> QED
  BY <1>1, <1>2 DEF Next, Step, Scheduler, Environment

(* An open service stays in storage until an output tells otherwise, or an *)
(* operator deletes it.                                                    *)
LEMMA StoredStays ==
    ASSUME TypeInv, [Next]_vars, NEW sv \in Service, Stored(sv)
    PROVE  Stored(sv)'
<1> USE DEF TypeInv, TypeOK
<1>1. ASSUME NEW k \in Job, parsed[k] # Unreadable, sv \in parsed[k].shut
      PROVE  Stored(sv)'
  <2>1. parsed'[k] = parsed[k]
    BY <1>1, OverStays DEF JobFacts, Scanned
  <2> QED
    BY <1>1, <2>1 DEF Stored
<1>2. CASE services[sv] = "open"
  <2>1. CASE UNCHANGED services \/ Cleanup
    BY <1>2, <2>1 DEF Cleanup, Stored
  <2>2. CASE ImportServices \/ ImportServicesRaises
    <3>1. cur \in Job /\ parsed[cur] \in Pidb
      BY <2>2 DEF ImportServices, ImportServicesRaises, Positions, Draining,
                  DrainSteps
    <3>2. PICK svs \in SUBSET Known(parsed[cur]) :
              StoreServices(parsed[cur], svs)
      BY <2>2 DEF ImportServices, ImportServicesRaises
    <3>3. services'[sv] = "open" \/ sv \in parsed[cur].shut
      BY <1>2, <3>2 DEF StoreServices
    <3> QED
      BY <1>1, <3>1, <3>3 DEF Stored
  <2>3. CASE ImportHosts \/ ImportHostsRaises
    BY <1>2, <2>3 DEF ImportHosts, ImportHostsRaises, Stored
  <2>4. ASSUME NEW x \in Target, HostByHand(x) \/ ServiceByHand(x)
        PROVE  Stored(sv)'
    BY <1>2, <2>4 DEF HostByHand, ServiceByHand, Stored
  <2>5. ASSUME NEW x \in Target, HostRemoved(x) \/ ServiceRemoved(x)
        PROVE  Stored(sv)'
    <3>1. services'[sv] = "open" \/ sv \in removed'
      BY <1>2, <2>5 DEF HostRemoved, ServiceRemoved
    <3> QED
      BY <3>1 DEF Stored
  <2> QED
    BY <2>1, <2>2, <2>3, <2>4, <2>5, StorageWriters
<1>3. removed \subseteq removed'
  <2>1. CASE \E x \in Target : ByHand(x)
    BY <2>1, ByHandSteps
  <2>2. CASE ~\E x \in Target : ByHand(x)
    BY <2>2, OthersNotByHand
  <2> QED
    BY <2>1, <2>2
<1> QED
  BY <1>1, <1>2, <1>3 DEF Stored

LEMMA SafeStays ==
    ASSUME TypeInv, [Next]_vars, NEW j \in Job, Over(j), Safe(j)
    PROVE  Safe(j)'
<1> USE DEF TypeInv, TypeOK
<1> SUFFICES ASSUME NEW s, s = jobStage[j], NEW p, p = parsed[j]
             PROVE  Safe(j)'
  OBVIOUS
<1>1. jobStage'[j] = s /\ parsed'[j] = p
  BY OverStays DEF Scanned
<1>2. s \in Handler /\ s \in Stage /\ p \in Pidb
  BY DEF JobFacts, Over, Safe, Handler
<1>3. CASE Kind[s] = "loader"
  <2>1. \A sv \in p.open : sv \in Service /\ Stored(sv)
    BY <1>2, <1>3 DEF Safe, Loaded, Pidb
  <2>2. \A sv \in p.open : Stored(sv)'
    BY <2>1, StoredStays
  <2> QED
    BY <1>1, <1>2, <1>3, <2>2, SentinelAssumption DEF Safe, Loaded
<1>4. CASE Kind[s] # "loader"
  <2>1. ASSUME NEW i \in DOMAIN NextStages[s],
               NEW t \in Share(NextStages[s][i], Found(s, p))
        PROVE  Reached(NextStages[s][i], t)'
    <3>1. NextStages[s][i] \in Handler
      BY <1>2
    <3>2. t \in Target
      BY <1>2, <2>1, FoundTypes DEF Share, Target
    <3>3. Reached(NextStages[s][i], t)
      BY <1>4, <2>1 DEF Safe, PassedOn
    <3> QED
      BY <3>1, <3>2, <3>3, ReachedStays
  <2> QED
    BY <1>1, <1>2, <1>4, <2>1, SentinelAssumption DEF Safe, PassedOn
<1> QED
  BY <1>3, <1>4

LEMMA ArchiveGrows ==
    ASSUME TypeInv, [Next]_vars
    PROVE  archive \subseteq archive'
<1> USE DEF disk
<1>1. CASE \/ SessionFails \/ QueryJobs \/ TakeJob \/ Drained \/ Parse
           \/ ReadQueued \/ Enqueue \/ Passed \/ NotYet \/ NetlistEnum
           \/ StorageRescan \/ LoseConnection \/ Restart \/ Archive
           \/ Unlink \/ ImportHosts \/ ImportServices \/ Cleanup
           \/ GetRescanHosts \/ GetRescanServices \/ WriteLastrun
           \/ Mark \/ DeleteJob \/ HandlerRaises
           \/ ImportHostsRaises \/ ImportServicesRaises \/ StorageSixEnum
  BY <1>1
  DEF SessionFails, QueryJobs, TakeJob, Drained, Parse, ReadQueued, Enqueue,
      Passed, NotYet, NetlistEnum, StorageRescan, LoseConnection, Restart,
      Archive, Unlink, ImportHosts, ImportServices, Cleanup, GetRescanHosts,
      GetRescanServices, WriteLastrun, Mark, DeleteJob,
      HandlerRaises, ImportHostsRaises, ImportServicesRaises, StorageSixEnum
<1>2. CASE \/ \E s \in Handler, t \in Target, j \in Job : Assign(s, t, j)
           \/ \E i \in Job : Output(i) \/ OutputFailed(i)
           \/ \E z \in Schedule : RunDue(z)
           \/ \E x \in Target : RescanDue(x)
           \/ \E i \in Job : OperatorUnlink(i) \/ OperatorDelete(i)
           \/ UNCHANGED vars
  BY <1>2
  DEF Assign, Output, OutputFailed, RunDue, RescanDue, OperatorUnlink,
      OperatorDelete, vars
<1>3. CASE \E x \in Target : ByHand(x)
  BY <1>3, ByHandSteps
<1> QED
  BY <1>1, <1>2, <1>3 DEF Next, Step, Scheduler, Environment

LEMMA DrainedStep ==
    ASSUME DrainInv, [Next]_vars
    PROVE  DrainedSafe'
<1> USE DEF DrainInv
<1> SUFFICES ASSUME NEW j \in Job, jobState'[j] = "drained"
             PROVE  j \in archive' /\ Safe(j)'
  BY DEF DrainedSafe
<1>1. CASE Kept(j)
  BY <1>1, SafeStays, ArchiveGrows DEF Kept, DrainedSafe, Over
<1>2. CASE Ended(j)
  <2>1. DeleteJob /\ j = cur /\ Over(j)
    BY <1>2 DEF Ended
  <2>2. cur \in archive /\ Safe(cur)
    BY <2>1 DEF DeleteJob, DrainLoop
  <2> QED
    BY <2>1, <2>2, SafeStays, ArchiveGrows
<1> QED
  BY <1>1, <1>2, JobSteps DEF Started, Returned

(* What is open in an output is so in storage after it is stored.          *)
LEMMA StoredOpen ==
    ASSUME NEW p \in Pidb, NEW svs, StoreServices(p, svs),
           NEW sv \in Service, sv \in svs, sv \in p.open
    PROVE  services'[sv] = "open"
BY DEF StoreServices, Pidb

LEMMA LoopKeeps ==
    ASSUME DrainInv, [Next]_vars
    PROVE  DrainLoop'
<1> USE DEF DrainInv, DrainLoop, Goto, drain, pass
<1>1. TypeOK /\ Positions
  BY DEF TypeInv
<1>2. /\ at \in 1..Len(Order) /\ stage \in Stage
      /\ NextStages[stage] \in Seq(Handler)
  BY <1>1, Stages DEF TypeOK
<1>3. \A j \in Job : Over(j) =>
         /\ jobStage'[j] = jobStage[j] /\ parsed'[j] = parsed[j]
         /\ Safe(j) => Safe(j)'
  BY OverStays, SafeStays DEF Scanned
<1>4. \A s \in Handler, t \in Target : Reached(s, t) => Reached(s, t)'
  BY ReachedStays
<1>5. Draining => cur \in Job /\ Over(cur)
  BY <1>1 DEF Positions
<1>6. \A j \in todo : j \in Job /\ jobStage'[j] = stage
  BY <1>1, <1>3 DEF Positions, TypeOK
<1>7. ASSUME EndStage
      PROVE  DrainLoop'
  BY <1>7, EndStageTypes DEF Passing, Draining, DrainSteps
<1>8. ASSUME UNCHANGED <<at, nxt, data>>, Served
      PROVE  Served'
  BY <1>2, <1>4, <1>8 DEF Served, stage
<1>9. CASE \/ SessionFails \/ Drained \/ NotYet \/ LoseConnection
           \/ WriteLastrun \/ Cleanup \/ HandlerRaises
           \/ ImportHostsRaises \/ ImportServicesRaises
  BY <1>7, <1>9
  DEF SessionFails, Drained, NotYet, LoseConnection, WriteLastrun, Cleanup,
      HandlerRaises, ImportHostsRaises, ImportServicesRaises
<1>10. CASE QueryJobs
  BY <1>10 DEF QueryJobs, stage, Passing, Draining, DrainSteps, jobs
<1>11. CASE TakeJob
  BY <1>6, <1>7, <1>11 DEF TakeJob, stage, Passing, Draining, DrainSteps
<1>12. CASE Parse
  <2>1. /\ stage \in Handler /\ jobStage'[cur] = stage
        /\ parsed'[cur] = parsed[cur]
    BY <1>1, <1>3, <1>5, <1>12
    DEF Parse, Positions, Draining, DrainSteps
  <2>2. /\ nxt' = 1 /\ stage' = stage /\ cur' = cur /\ todo' = todo
        /\ \/ pc' = "mark"
           \/ /\ pc' = IF Kind[stage] = "loader" THEN "import_hosts"
                       ELSE "read"
              /\ parsed[cur] # Unreadable
              /\ data' = Found(stage, parsed[cur])
              /\ ~ConsumerRaises(stage, parsed[cur])
    BY <1>12 DEF ParsedRaises, Parse, stage
  <2>3. Served'
    BY <1>2, <2>2 DEF Served
  <2> QED
    BY <1>6, <2>1, <2>2, <2>3 DEF Passing, Draining, DrainSteps
<1>13. CASE Mark \/ DeleteJob
  BY <1>6, <1>7, <1>13
  DEF Mark, DeleteJob, stage, Passing, Draining, DrainSteps
<1>14. CASE Archive
  BY <1>3, <1>5, <1>6, <1>7, <1>14
  DEF Archive, stage, Passing, Draining, DrainSteps
<1>15. CASE Unlink
  BY <1>3, <1>5, <1>6, <1>15
  DEF Unlink, stage, Passing, Draining, DrainSteps, disk
<1>16. CASE ReadQueued
  <2>1. UNCHANGED <<at, nxt, data, cur, todo>> /\ stage' = stage
        /\ pc = "read" /\ pc' = "enqueue"
        /\ seen' = {t \in Target : queued[Receiver][t] > 0}
        /\ Receiver' = Receiver /\ Receiver \in Handler
    BY <1>1, <1>2, <1>16
    DEF ReadQueued, stage, AlreadyQueued, Receiver, TypeOK
  <2>2. \A t \in seen' : Reached(Receiver, t)
    BY <2>1 DEF Reached
  <2>3. \A r : r = Receiver => \A t \in seen' : Reached(r, t)'
    BY <1>4, <2>1, <2>2
  <2> QED
    BY <1>3, <1>5, <1>6, <1>8, <2>1, <2>3 DEF Passing, Draining, DrainSteps
<1>17. CASE Enqueue
  <2>1. /\ UNCHANGED <<at, data, cur, todo>> /\ stage' = stage
        /\ pc = "enqueue" /\ pc' = "read" /\ nxt' = nxt + 1
        /\ Receiver \in Handler
        /\ nxt \in DOMAIN NextStages[stage] /\ nxt \in Nat
    BY <1>1, <1>2, <1>17 DEF Enqueue, stage, Receiver, Positions, TypeOK
  <2>2. ASSUME NEW r, r = Receiver, NEW t \in Target, t \in Share(r, data)
        PROVE  Reached(r, t)'
    <3>1. CASE t \in seen
      BY <1>4, <2>1, <2>2, <3>1
    <3>2. CASE t \notin seen
      <4>1. queued'[r][t] = queued[r][t] + 1
        BY <1>1, <1>17, <2>1, <2>2, <3>2 DEF Enqueue, Receiver, TypeOK
      <4>2. queued[r][t] \in Nat
        BY <1>1, <2>1, <2>2 DEF TypeOK
      <4> QED
        BY <4>1, <4>2 DEF Reached
    <3> QED
      BY <3>1, <3>2
  <2>3. stage \in Handler => Served'
    <3> SUFFICES ASSUME stage \in Handler,
                        NEW i \in DOMAIN NextStages[stage], NEW t \in Target,
                        NEW r, r = NextStages[stage][i],
                        i < nxt + 1, t \in Share(r, data)
                 PROVE  Reached(r, t)'
      BY <2>1 DEF Served
    <3>1. CASE i = nxt
      BY <2>2, <3>1 DEF Receiver
    <3>2. CASE i < nxt
      BY <1>2, <1>4, <2>1, <3>2 DEF Served, Passing
    <3> QED
      BY <1>2, <2>1, <3>1, <3>2
  <2> QED
    BY <1>3, <1>5, <1>6, <2>1, <2>3 DEF Passing, Draining, DrainSteps
<1>18. CASE Passed
  <2>1. /\ UNCHANGED <<at, data, cur, todo>> /\ stage' = stage
        /\ pc = "read" /\ nxt > Len(NextStages[stage])
        /\ pc' = IF stage \in Handler THEN "archive" ELSE "lastrun"
    BY <1>18 DEF Passed, stage
  <2>2. stage \in Handler => Safe(cur)
    <3> SUFFICES ASSUME stage \in Handler
                 PROVE  Safe(cur)
      OBVIOUS
    <3>1. /\ Kind[stage] # "loader" /\ parsed[cur] # Unreadable
          /\ data = Found(stage, parsed[cur]) /\ Served
          /\ jobStage[cur] = stage /\ cur \in Job
      BY <1>5, <2>1 DEF Passing, Draining
    <3>2. parsed[cur] \in Pidb
      BY <1>1, <3>1 DEF TypeOK
    <3>3. \A s \in Handler : Share(s, data) \subseteq Target
      BY <1>2, <3>1, <3>2, FoundTypes DEF Share, Target
    <3>4. \A i \in DOMAIN NextStages[stage] : i < nxt
      BY <1>1, <1>2, <2>1 DEF TypeOK
    <3>5. PassedOn(cur)
      BY <1>2, <3>1, <3>3, <3>4 DEF PassedOn, Served
    <3> QED
      BY <3>1, <3>5 DEF Safe
  <2> QED
    BY <1>3, <1>5, <1>6, <2>1, <2>2 DEF Passing, Draining, DrainSteps
<1>19. CASE ImportHosts
  BY <1>3, <1>5, <1>6, <1>19
  DEF ImportHosts, stage, Passing, Draining, DrainSteps
<1>20. CASE ImportServices
  <2>1. /\ UNCHANGED <<at, cur, todo>> /\ stage' = stage
        /\ pc' = "archive" /\ cur \in Job /\ Over(cur)
        /\ jobStage[cur] = stage /\ Kind[stage] = "loader"
    BY <1>5, <1>20 DEF ImportServices, stage, Draining, DrainSteps
  <2>2. /\ parsed[cur] \in Pidb /\ parsed'[cur] = parsed[cur]
        /\ jobStage'[cur] = stage
    BY <1>1, <1>3, <1>20, <2>1 DEF Positions, ImportServices
  <2>3. \A sv \in parsed[cur].open : services'[sv] = "open"
    <3>1. StoreServices(parsed[cur], Known(parsed[cur]))
      BY <1>20 DEF ImportServices
    <3>2. parsed[cur].open \subseteq Service \cap Known(parsed[cur])
      BY <2>2 DEF Pidb, Known
    <3>3. ASSUME NEW sv \in parsed[cur].open
          PROVE  services'[sv] = "open"
      BY <2>2, <3>1, <3>2, StoredOpen
    <3> QED
      BY <3>3
  <2>4. Safe(cur)'
    BY <2>1, <2>2, <2>3, SentinelAssumption DEF Safe, Loaded, Stored
  <2> QED
    BY <1>6, <2>1, <2>2, <2>4 DEF Passing, Draining, DrainSteps
<1>21. CASE \/ NetlistEnum \/ StorageRescan \/ GetRescanHosts
            \/ GetRescanServices \/ StorageSixEnum
  <2>1. stage \in Schedule /\ stage \notin Handler
    BY <1>1, <1>2, <1>21
    DEF NetlistEnum, StorageRescan, GetRescanHosts, GetRescanServices,
        StorageSixEnum, Positions, Schedule, Handler
  <2>2. /\ UNCHANGED <<at, cur, todo>> /\ stage' = stage
        /\ pc' \in {"read", "rescan_hosts", "rescan_services"}
    BY <1>21
    DEF NetlistEnum, StorageRescan, GetRescanHosts, GetRescanServices,
        StorageSixEnum, stage
  <2> QED
    BY <1>6, <2>1, <2>2 DEF Passing, Draining, DrainSteps
<1>22. CASE Restart
  BY <1>22 DEF Restart, Passing, Draining, DrainSteps
<1>23. ASSUME UNCHANGED <<at, pc, drain, pass>>
       PROVE  DrainLoop'
  <2>1. stage' = stage /\ Receiver' = Receiver
    BY <1>23 DEF stage, Receiver
  <2>2. pc = "enqueue" => Receiver \in Handler /\ seen \subseteq Target
    BY <1>1, <1>2 DEF Positions, Receiver, TypeOK
  <2>3. \A r : pc = "enqueue" /\ r = Receiver =>
            \A t \in seen : Reached(r, t)'
    BY <1>4, <2>2
  <2> QED
    BY <1>3, <1>5, <1>6, <1>8, <1>23, <2>1, <2>3, ArchiveGrows
    DEF Passing, Draining, DrainSteps
<1>24. CASE \/ \E s \in Handler, t \in Target, j \in Job : Assign(s, t, j)
            \/ \E j \in Job : Output(j) \/ OutputFailed(j)
            \/ \E s \in Schedule : RunDue(s)
            \/ \E x \in Target : RescanDue(x)
            \/ \E j \in Job : OperatorUnlink(j) \/ OperatorDelete(j)
            \/ UNCHANGED vars
  BY <1>23, <1>24
  DEF Assign, Output, OutputFailed, RunDue, RescanDue, OperatorUnlink,
      OperatorDelete, vars
<1>25. CASE \E x \in Target : ByHand(x)
  BY <1>23, <1>25, ByHandSteps
<1> QED
  BY <1>9, <1>10, <1>11, <1>12, <1>13, <1>14, <1>15, <1>16, <1>17, <1>18,
     <1>19, <1>20, <1>21, <1>22, <1>24, <1>25
  DEF Next, Step, Scheduler, Environment

LEMMA DrainAlways == Spec => []DrainInv
<1>1. Init /\ TypeInv => DrainInv
  BY DEF Init, DrainInv, DrainedSafe, DrainLoop, Passing, Draining, DrainSteps
<1>2. DrainInv /\ [Next]_vars => DrainedSafe' /\ DrainLoop'
  BY DrainedStep, LoopKeeps
<1>3. TypeInv /\ [Next]_vars => TypeInv'
  BY TableStep, LoopStep, FactsStep
  DEF TypeInv, TypeOK, TableTypes, LoopTypes
<1>4. DrainInv /\ [Next]_vars => DrainInv'
  BY <1>2, <1>3 DEF DrainInv
<1> QED
  BY <1>1, <1>4, PlannerTypes, PTL DEF Spec

(* A drained job has lost nothing (core.py:172-195): whatever kills the    *)
(* planner, cuts its connection, or an operator deletes between two steps, *)
(* its row is deleted only after everything found in its output has been   *)
(* queued for every next stage or stored, and the output archived; for     *)
(* every pipeline, with any number of stages, targets and jobs.            *)
THEOREM DrainLosesNothing == Spec => []NothingLost
<1>1. DrainInv => NothingLost
  BY DEF DrainInv, DrainedSafe, NothingLost, Safe
<1> QED
  BY <1>1, DrainAlways, PTL

-----------------------------------------------------------------------------
(* Nothing is scanned but for a reason *)

(* Scans report on what they scan: a service scan and a discovery on the   *)
(* hosts of the target, the scan of a service on that service, a discovery *)
(* of a network that has no filter on hosts in that network.  What a       *)
(* six_dns_disco, a six_enum_disco or storage_rescan finds is not passed   *)
(* to one of the first two, what storage_six_enum finds to nothing else;   *)
(* an address is in one network.                                           *)
Focused ==
    /\ \A s \in Handler, t \in Target : \A p \in Outputs[s][t] :
          /\ Kind[s] \in {"loader", "disco"} =>
                /\ p.hosts \subseteq Covers(t)
                /\ \A sv \in Known(p) : sv[1] \in Covers(t)
          /\ Kind[s] = "loader" /\ t \in Service => Known(p) \subseteq {t}
          /\ Kind[s] = "six" /\ Filternets[s] = {} => p.hosts \subseteq Covers(t)
    /\ \A s \in Stage : \A i \in DOMAIN NextStages[s] :
          /\ Kind[s] \in {"six", "rescan"} => Kind[NextStages[s][i]] # "six"
          /\ Kind[s] = "sixenum" => Kind[NextStages[s][i]] = "six"
    /\ \A n \in Network : \A b \in Within[n] : SixNet[b] \in {n, None}

(* an output is one of those a scan of the job's target may give *)
Scans ==
    \A j \in Job : parsed[j] # Unreadable =>
        parsed[j] \in Outputs[jobStage[j]][jobTarget[j]]

(* reasons to scan a service, and to enumerate a network *)
WantedService(sv) ==
    /\ sv \in Service /\ InScope(sv[1])
    /\ EnteredHost(sv[1]) \/ Wanted(sv)

NetInScope(t) == \E b \in Address : InScope(b) /\ SixNet[b] = t

Reason(s, t) ==
    /\ Kind[s] = "loader" => WantedService(t)
    /\ Kind[s] = "disco" => t \in Address /\ InScope(t)
    /\ Kind[s] = "six" => t \in Netlist \/ NetInScope(t)

(* What storage holds and what a stage passes on has such a reason.        *)
StoredWanted ==
    /\ \A sv \in Service : services[sv] # "none" => WantedService(sv)
    /\ \A a \in hosts : InScope(a)

DataWanted ==
    /\ \A sv \in data.services : WantedService(sv)
    /\ IF Kind[stage] = "sixenum" THEN \A t \in data.hosts : NetInScope(t)
       ELSE \A t \in data.hosts : t \in Address /\ InScope(t)
    /\ Kind[stage] \notin {"six", "rescan", "sixenum"}
          => data.hosts \subseteq Netlist

WantInv == DrainInv /\ OnlyWanted /\ Scans /\ StoredWanted /\ DataWanted

(* what OnlyWanted claims, one kind of handler at a time *)
LEMMA WantedByKind ==
    OnlyWanted <=>
        \A s \in Handler, t \in Target :
            Reached(s, t) => <<s, t>> \in enqueued \/ Reason(s, t)
BY DEF OnlyWanted, Reason, WantedService, NetInScope, Handler

(* What operators have done is kept. *)
LEMMA OperatorsGrow ==
    ASSUME [Next]_vars
    PROVE  entered \subseteq entered' /\ enqueued \subseteq enqueued'
<1>1. CASE \E x \in Target : ByHand(x)
  <2>1. PICK x \in Target : ByHand(x)
    BY <1>1
  <2>2. CASE enqueued' = enqueued
    BY <2>1, <2>2, ByHandSteps
  <2>3. CASE \E s \in Handler : QueueByHand(s, x)
    BY <2>1, <2>3, ByHandSteps DEF QueueByHand
  <2> QED
    BY <2>1, <2>2, <2>3, ByHandSteps
<1>2. CASE ~\E x \in Target : ByHand(x)
  BY <1>2, OthersNotByHand
<1> QED
  BY <1>1, <1>2

LEMMA ScopeStays ==
    ASSUME [Next]_vars, NEW a
    PROVE  /\ EnteredHost(a) => EnteredHost(a)'
           /\ InScope(a) => InScope(a)'
<1>1. ASSUME NEW b, EnteredHost(b)
      PROVE  EnteredHost(b)'
  BY <1>1, OperatorsGrow DEF EnteredHost
<1>2. ASSUME NEW b, Home(b)
      PROVE  Home(b)'
  BY <1>1, <1>2 DEF Home
<1> QED
  BY <1>1, <1>2 DEF InScope

LEMMA ReachedNew ==
    ASSUME TypeInv, [Next]_vars, NEW s \in Handler, NEW t \in Target,
           Reached(s, t)'
    PROVE  \/ Reached(s, t)
           \/ Enqueue /\ s = Receiver /\ t \in Share(Receiver, data)
           \/ <<s, t>> \in enqueued'
<1> USE DEF TypeInv, TypeOK
<1>1. CASE \E k \in Job : jobStage'[k] = s /\ jobTarget'[k] = t
  <2>1. PICK k \in Job : jobStage'[k] = s /\ jobTarget'[k] = t
    BY <1>1
  <2>2. CASE jobStage[k] = s /\ jobTarget[k] = t
    BY <2>2 DEF Reached
  <2>3. CASE ~(jobStage[k] = s /\ jobTarget[k] = t)
    <3>1. jobState[k] = "unused" /\ jobState'[k] = "running"
      BY <2>1, <2>3, JobSteps DEF Kept, Started, Returned, Ended, Scanned
    <3>2. Assign(s, t, k)
      BY <2>1, <3>1, JobSteps DEF Kept, Started, Returned, Ended
    <3>3. queued[s][t] > 0
      BY <3>2 DEF Assign
    <3> QED
      BY <3>3 DEF Reached
  <2> QED
    BY <2>2, <2>3
<1>2. CASE queued'[s][t] > 0
  <2>1. CASE UNCHANGED queued
    BY <1>2, <2>1 DEF Reached
  <2>2. CASE Enqueue
    <3>1. CASE s = Receiver /\ t \in Share(Receiver, data)
      BY <2>2, <3>1
    <3>2. CASE ~(s = Receiver /\ t \in Share(Receiver, data))
      <4>1. queued'[s][t] = queued[s][t]
        BY <2>2, <3>2 DEF Enqueue, Receiver
      <4> QED
        BY <1>2, <4>1 DEF Reached
    <3> QED
      BY <3>1, <3>2
  <2>3. CASE \E q \in Handler, u \in Target, j \in Job : Assign(q, u, j)
    <3>1. queued'[s][t] <= queued[s][t] /\ queued'[s][t] \in Nat
      BY <2>3, TableStep DEF Assign, TableTypes
    <3> QED
      BY <1>2, <3>1 DEF Reached
  <2>4. CASE \E q \in Handler, x \in Target : QueueByHand(q, x)
    <3>1. PICK q \in Handler, x \in Target : QueueByHand(q, x)
      BY <2>4
    <3>2. CASE q = s /\ x = t
      BY <3>1, <3>2 DEF QueueByHand
    <3>3. CASE ~(q = s /\ x = t)
      <4>1. queued'[s][t] = queued[s][t]
        BY <3>1, <3>3 DEF QueueByHand
      <4> QED
        BY <1>2, <4>1 DEF Reached
    <3> QED
      BY <3>2, <3>3
  <2> QED
    BY <2>1, <2>2, <2>3, <2>4, QueueWriters
<1> QED
  BY <1>1, <1>2 DEF Reached

LEMMA WantedStays ==
    ASSUME TypeInv, [Next]_vars, NEW sv, Wanted(sv)
    PROVE  Wanted(sv)'
<1>1. PICK k \in Job : /\ parsed[k] # Unreadable
                       /\ Kind[jobStage[k]] = "disco"
                       /\ sv \in parsed[k].open
                       /\ Cardinality(ServicesOf(parsed[k], sv[1]))
                             <= Threshold
  BY DEF Wanted
<1>2. parsed'[k] = parsed[k] /\ jobStage'[k] = jobStage[k]
  BY <1>1, OverStays DEF TypeInv, JobFacts, Scanned
<1> QED
  BY <1>1, <1>2, SentinelAssumption DEF Wanted

(* A reason stays one. *)
LEMMA ReasonStays ==
    ASSUME TypeInv, [Next]_vars
    PROVE  /\ \A sv : WantedService(sv) => WantedService(sv)'
           /\ \A t : NetInScope(t) => NetInScope(t)'
           /\ \A s, t : Reason(s, t) => Reason(s, t)'
<1>1. ASSUME NEW sv, WantedService(sv)
      PROVE  WantedService(sv)'
  BY <1>1, ScopeStays, WantedStays DEF WantedService
<1>2. ASSUME NEW t, NetInScope(t)
      PROVE  NetInScope(t)'
  BY <1>2, ScopeStays DEF NetInScope
<1>3. ASSUME NEW s, NEW t, Reason(s, t)
      PROVE  Reason(s, t)'
  BY <1>1, <1>2, <1>3, ScopeStays DEF Reason
<1> QED
  BY <1>1, <1>2, <1>3

(* what a job was started on, and why *)
LEMMA ScanOf ==
    ASSUME WantInv, NEW j \in Job, parsed[j] # Unreadable
    PROVE  /\ jobStage[j] \in Handler /\ jobTarget[j] \in Target
           /\ parsed[j] \in Pidb
           /\ parsed[j] \in Outputs[jobStage[j]][jobTarget[j]]
           /\ \/ <<jobStage[j], jobTarget[j]>> \in enqueued
              \/ Reason(jobStage[j], jobTarget[j])
<1> USE DEF WantInv, DrainInv, TypeInv
<1>1. /\ jobStage[j] \in Handler /\ jobTarget[j] \in Target
      /\ Reached(jobStage[j], jobTarget[j])
  BY DEF JobFacts, Over, Reached
<1> QED
  BY <1>1, WantedByKind DEF Scans, TypeOK

(* hosts of what an operator enqueued count as entered *)
LEMMA EnqueuedHosts ==
    ASSUME NEW s, NEW t, <<s, t>> \in enqueued, NEW a \in Covers(t)
    PROVE  EnteredHost(a) /\ InScope(a)
<1>1. EnteredHost(a)
  BY DEF EnteredHost
<1> QED
  BY <1>1 DEF InScope, Home

(* what a handler passes on *)
LEMMA FoundWanted ==
    ASSUME Focused, WantInv, NEW s \in Handler, NEW j \in Job,
           jobStage[j] = s, parsed[j] # Unreadable,
           ~ConsumerRaises(s, parsed[j])
    PROVE  LET d == Found(s, parsed[j]) IN
           /\ \A sv \in d.services : WantedService(sv)
           /\ \A a \in d.hosts : a \in Address /\ InScope(a)
           /\ Kind[s] # "six" => d.hosts = {}
<1> DEFINE p == parsed[j]
           t == jobTarget[j]
<1>1. /\ t \in Target /\ p \in Pidb /\ p \in Outputs[s][t]
      /\ <<s, t>> \in enqueued \/ Reason(s, t)
  BY ScanOf
<1>2. CASE Kind[s] = "disco"
  <2>1. /\ Found(s, p).services =
              project_services(filter_service_open(filter_tarpits(p)))
        /\ Found(s, p).hosts = {}
    BY <1>2 DEF Found
  <2>2. ASSUME NEW sv \in Found(s, p).services
        PROVE  WantedService(sv)
    <3>1. /\ sv \in p.open /\ sv \in Known(p)
          /\ Cardinality(ServicesOf(p, sv[1])) <= Threshold
      BY <1>1, <1>2, <2>1, <2>2, OpenOnes
      DEF ConsumerRaises, filter_service_open_raises
    <3>2. Wanted(sv) /\ sv \in Service
      BY <1>1, <1>2, <3>1 DEF Wanted, Pidb
    <3>3. sv[1] \in Covers(t)
      BY <1>1, <1>2, <3>1 DEF Focused
    <3>4. CASE <<s, t>> \in enqueued
      BY <3>2, <3>3, <3>4, EnqueuedHosts DEF WantedService
    <3>5. CASE Reason(s, t)
      <4>1. t \in Address /\ InScope(t)
        BY <1>2, <3>5 DEF Reason
      <4>2. sv[1] = t
        BY <3>3, <4>1, TargetAssumption DEF Covers, HostOf
      <4> QED
        BY <3>2, <4>1, <4>2 DEF WantedService
    <3> QED
      BY <1>1, <3>4, <3>5
  <2> QED
    BY <1>2, <2>1, <2>2
<1>3. CASE Kind[s] = "six"
  <2>1. Found(s, p).services = {}
        /\ Found(s, p).hosts = IF Filternets[s] = {} THEN p.hosts
                               ELSE p.hosts \cap Filternets[s]
    BY <1>3 DEF Found, filter_external_hosts
  <2>2. ASSUME NEW a \in Found(s, p).hosts
        PROVE  a \in Address /\ InScope(a)
    <3>1. a \in p.hosts /\ a \in Address
      BY <1>1, <2>1, <2>2 DEF Pidb
    <3>2. CASE Filternets[s] # {}
      BY <2>1, <2>2, <3>1, <3>2 DEF InScope, Home
    <3>3. CASE Filternets[s] = {}
      <4>1. a \in Covers(t)
        BY <1>1, <1>3, <3>1, <3>3 DEF Focused
      <4>2. CASE <<s, t>> \in enqueued
        BY <3>1, <4>1, <4>2, EnqueuedHosts
      <4>3. CASE t \in Netlist
        <5>1. a = t
          BY <4>1, <4>3, TargetAssumption DEF Covers, HostOf
        <5> QED
          BY <3>1, <4>3, <5>1 DEF InScope, Home
      <4>4. CASE NetInScope(t)
        <5>1. PICK b \in Address : InScope(b) /\ SixNet[b] = t
          BY <4>4 DEF NetInScope
        <5>2. t \in Network /\ a \in Within[t]
          BY <1>1, <4>1, <5>1 DEF Covers
        <5>3. \E c \in Address : Home(c) /\ SixNet[c] = t
          <6>1. CASE Home(b)
            BY <5>1, <6>1
          <6>2. CASE ~Home(b)
            <7>1. PICK n \in Network :
                     /\ b \in Within[n]
                     /\ \E c \in Address : Home(c) /\ SixNet[c] = n
              BY <5>1, <6>2 DEF InScope
            <7>2. n = t
              BY <1>1, <5>1, <7>1 DEF Focused
            <7> QED
              BY <7>1, <7>2
          <6> QED
            BY <6>1, <6>2
        <5> QED
          BY <3>1, <5>2, <5>3 DEF InScope
      <4> QED
        BY <1>1, <1>3, <4>2, <4>3, <4>4 DEF Reason
    <3> QED
      BY <3>2, <3>3
  <2> QED
    BY <1>3, <2>1, <2>2
<1>4. CASE Kind[s] = "loader"
  BY <1>4 DEF Found, NoData
<1> QED
  BY <1>2, <1>3, <1>4 DEF Handler

(* what a loader stores *)
LEMMA LoadedWanted ==
    ASSUME Focused, WantInv, NEW j \in Job, Kind[jobStage[j]] = "loader",
           parsed[j] # Unreadable
    PROVE  /\ \A sv \in Known(parsed[j]) : WantedService(sv)
           /\ \A a \in parsed[j].hosts : InScope(a)
<1> DEFINE p == parsed[j]
           s == jobStage[j]
           t == jobTarget[j]
<1>1. /\ s \in Handler /\ t \in Target /\ p \in Pidb /\ p \in Outputs[s][t]
      /\ <<s, t>> \in enqueued \/ Reason(s, t)
  BY ScanOf
<1>2. /\ p.hosts \subseteq Covers(t)
      /\ \A sv \in Known(p) : sv[1] \in Covers(t) /\ sv \in Service
  BY <1>1 DEF Focused, Pidb, Known
<1>3. CASE <<s, t>> \in enqueued
  BY <1>2, <1>3, EnqueuedHosts DEF WantedService
<1>4. CASE Reason(s, t)
  <2>1. WantedService(t)
    BY <1>4 DEF Reason
  <2>2. t \in Service /\ Known(p) \subseteq {t}
    BY <1>1, <2>1 DEF Focused, WantedService
  <2>3. Covers(t) = {t[1]}
    BY <2>2, TargetAssumption DEF Covers, HostOf
  <2> QED
    BY <1>2, <2>1, <2>2, <2>3 DEF WantedService
<1> QED
  BY <1>1, <1>3, <1>4

LEMMA OnlyWantedStep ==
    ASSUME Focused, WantInv, [Next]_vars
    PROVE  OnlyWanted'
<1> USE DEF WantInv, DrainInv
<1>1. ASSUME NEW s \in Handler, NEW t \in Target, Reached(s, t)'
      PROVE  <<s, t>> \in enqueued' \/ Reason(s, t)'
  <2>1. CASE Reached(s, t)
    BY <2>1, WantedByKind, ReasonStays, OperatorsGrow
  <2>2. CASE Enqueue /\ s = Receiver /\ t \in Share(Receiver, data)
    <3>1. stage \in Stage /\ nxt \in DOMAIN NextStages[stage]
      BY <2>2, Stages DEF TypeInv, TypeOK, Positions, Enqueue
    <3>2. CASE Kind[s] = "loader"
      BY <2>2, <3>2, ReasonStays DEF Share, DataWanted, Reason
    <3>3. CASE Kind[s] = "disco"
      <4>1. Kind[stage] # "sixenum"
        BY <2>2, <3>1, <3>3 DEF Focused, Receiver
      <4> QED
        BY <2>2, <3>3, <4>1, ReasonStays DEF Share, DataWanted, Reason
    <3>4. CASE Kind[s] = "six"
      <4>1. t \in data.hosts
        BY <2>2, <3>4 DEF Share
      <4>2. Kind[stage] \notin {"six", "rescan"}
        BY <2>2, <3>1, <3>4 DEF Focused, Receiver
      <4> QED
        BY <3>4, <4>1, <4>2, ReasonStays DEF DataWanted, Reason
    <3> QED
      BY <3>2, <3>3, <3>4 DEF Handler
  <2> QED
    BY <1>1, <2>1, <2>2, ReachedNew
<1>2. OnlyWanted' <=>
        \A s \in Handler, t \in Target :
            Reached(s, t)' => <<s, t>> \in enqueued' \/ Reason(s, t)'
  BY DEF OnlyWanted, Reason, WantedService, NetInScope, Handler
<1> QED
  BY <1>1, <1>2

LEMMA ScansStep ==
    ASSUME WantInv, [Next]_vars
    PROVE  Scans'
<1> USE DEF WantInv, DrainInv, TypeInv, TypeOK, jobs
<1> SUFFICES ASSUME NEW j \in Job, parsed'[j] # Unreadable
             PROVE  parsed'[j] \in Outputs[jobStage'[j]][jobTarget'[j]]
  BY DEF Scans
<1>1. CASE Kept(j) \/ Ended(j)
  BY <1>1 DEF Kept, Ended, Scanned, Scans
<1>2. CASE Started(j)
  BY <1>2 DEF Started, JobFacts, Over
<1>3. CASE Returned(j)
  <2>1. Output(j) \/ parsed'[j] = parsed[j]
    BY <1>3 DEF Returned
  <2> QED
    BY <1>3, <2>1 DEF Output, Returned, JobFacts, Over
<1> QED
  BY <1>1, <1>2, <1>3, JobSteps

LEMMA StoredStep ==
    ASSUME Focused, WantInv, [Next]_vars
    PROVE  StoredWanted'
<1> USE DEF WantInv, DrainInv, TypeInv
<1>1. ASSUME NEW sv \in Service, services'[sv] # "none"
      PROVE  WantedService(sv)'
  <2>1. CASE services[sv] # "none"
    BY <2>1, ReasonStays DEF StoredWanted
  <2>2. CASE services[sv] = "none"
    <3>1. CASE ImportServices \/ ImportServicesRaises
      <4>1. PICK svs \in SUBSET Known(parsed[cur]) :
                StoreServices(parsed[cur], svs)
        BY <3>1 DEF ImportServices, ImportServicesRaises
      <4>2. sv \in Known(parsed[cur])
        BY <1>1, <2>2, <4>1 DEF StoreServices
      <4>3. /\ cur \in Job /\ Kind[jobStage[cur]] = "loader"
            /\ parsed[cur] # Unreadable
        BY <3>1, SentinelAssumption
        DEF ImportServices, ImportServicesRaises, DrainLoop, Positions,
            Draining, DrainSteps
      <4> QED
        BY <4>2, <4>3, LoadedWanted, ReasonStays
    <3>2. ASSUME NEW x \in Target, HostByHand(x) \/ ServiceByHand(x)
          PROVE  WantedService(sv)'
      <4>1. ServiceByHand(x) /\ sv = x /\ x \in entered'
        BY <1>1, <2>2, <3>2 DEF HostByHand, ServiceByHand, Enters, TypeOK
      <4>2. EnteredHost(sv[1])'
        BY <4>1 DEF EnteredHost, HostOf
      <4> QED
        BY <4>2 DEF WantedService, InScope, Home
    <3>3. ASSUME NEW x \in Target, HostRemoved(x) \/ ServiceRemoved(x)
          PROVE  FALSE
      BY <1>1, <2>2, <3>3 DEF HostRemoved, ServiceRemoved, TypeOK
    <3>4. CASE \/ UNCHANGED <<hosts, services>> \/ Cleanup
               \/ ImportHosts \/ ImportHostsRaises
      BY <1>1, <2>2, <3>4
      DEF Cleanup, ImportHosts, ImportHostsRaises, TypeOK
    <3> QED
      BY <3>1, <3>2, <3>3, <3>4, StorageWriters
  <2> QED
    BY <2>1, <2>2
<1>2. ASSUME NEW a \in hosts'
      PROVE  InScope(a)'
  <2>1. CASE a \in hosts
    BY <2>1, ScopeStays DEF StoredWanted
  <2>2. CASE a \notin hosts
    <3>1. CASE ImportHosts \/ ImportHostsRaises
      <4>1. PICK as \in SUBSET parsed[cur].hosts : StoreHosts(as)
        BY <3>1 DEF ImportHosts, ImportHostsRaises
      <4>2. a \in parsed[cur].hosts
        BY <1>2, <2>2, <4>1 DEF StoreHosts
      <4>3. /\ cur \in Job /\ Kind[jobStage[cur]] = "loader"
            /\ parsed[cur] # Unreadable
        BY <3>1, SentinelAssumption
        DEF ImportHosts, ImportHostsRaises, DrainLoop, Positions, Draining,
            DrainSteps
      <4> QED
        BY <4>2, <4>3, LoadedWanted, ScopeStays
    <3>2. ASSUME NEW x \in Target, HostByHand(x)
          PROVE  InScope(a)'
      <4>1. a = x /\ x \in entered' /\ x \in Address
        BY <1>2, <2>2, <3>2 DEF HostByHand, StoreHosts, Enters
      <4>2. EnteredHost(a)'
        BY <4>1, TargetAssumption DEF EnteredHost, HostOf
      <4> QED
        BY <4>2 DEF InScope, Home
    <3>3. ASSUME NEW x \in Target,
                 ServiceByHand(x) \/ HostRemoved(x) \/ ServiceRemoved(x)
          PROVE  FALSE
      BY <1>2, <2>2, <3>3 DEF ServiceByHand, HostRemoved, ServiceRemoved
    <3>4. CASE \/ UNCHANGED <<hosts, services>> \/ Cleanup
               \/ ImportServices \/ ImportServicesRaises
      BY <1>2, <2>2, <3>4 DEF Cleanup, ImportServices, ImportServicesRaises
    <3> QED
      BY <3>1, <3>2, <3>3, <3>4, StorageWriters
  <2> QED
    BY <2>1, <2>2
<1> QED
  BY <1>1, <1>2 DEF StoredWanted

LEMMA DataStep ==
    ASSUME Focused, WantInv, [Next]_vars
    PROVE  DataWanted'
<1> USE DEF WantInv, DrainInv, TypeInv
<1>0. /\ \A sv : WantedService(sv) => WantedService(sv)'
      /\ \A t : NetInScope(t) => NetInScope(t)'
      /\ \A a : InScope(a) => InScope(a)'
  BY ReasonStays, ScopeStays
<1>1. ASSUME UNCHANGED <<at, data>>
      PROVE  DataWanted'
  BY <1>0, <1>1 DEF DataWanted, stage
<1>2. ASSUME data' = NoData
      PROVE  DataWanted'
  BY <1>2 DEF DataWanted, NoData
<1>3. CASE Parse
  <2>1. CASE data' = data
    BY <1>1, <1>3, <2>1 DEF Parse
  <2>2. CASE data' # data
    <3>1. /\ data' = Found(stage, parsed[cur]) /\ stage' = stage
          /\ parsed[cur] # Unreadable
          /\ ~ConsumerRaises(stage, parsed[cur])
          /\ cur \in Job /\ jobStage[cur] = stage /\ stage \in Handler
      BY <1>3, <2>2
      DEF Parse, ParsedRaises, stage, DrainLoop, Positions, Draining,
          DrainSteps
    <3>2. Kind[stage] # "sixenum"
      BY <3>1 DEF Handler
    <3> QED
      BY <1>0, <3>1, <3>2, FoundWanted DEF DataWanted
  <2> QED
    BY <2>1, <2>2
<1>4. CASE NetlistEnum
  <2>1. /\ stage' = stage /\ Kind[stage] = "netlist"
        /\ data'.hosts = Netlist /\ data'.services = {}
    BY <1>4 DEF NetlistEnum, stage
  <2>2. \A a \in Netlist : a \in Address /\ InScope(a)'
    BY DEF InScope, Home
  <2> QED
    BY <2>1, <2>2 DEF DataWanted
<1>5. CASE StorageSixEnum
  <2>1. /\ stage' = stage /\ Kind[stage] = "sixenum"
        /\ data'.hosts = project_sixenum_targets(hosts)
        /\ data'.services = {}
    BY <1>5 DEF StorageSixEnum, stage
  <2>2. \A t \in project_sixenum_targets(hosts) : NetInScope(t)
    BY DEF project_sixenum_targets, NetInScope, StoredWanted, TypeOK
  <2> QED
    BY <1>0, <2>1, <2>2 DEF DataWanted
<1>6. CASE GetRescanHosts \/ GetRescanServices
  <2>1. /\ stage' = stage /\ Kind[stage] = "rescan"
    BY <1>6 DEF GetRescanHosts, GetRescanServices, stage, Positions
  <2>2. /\ data'.hosts \subseteq data.hosts \cup hosts
        /\ \A sv \in data'.services :
              \/ sv \in data.services
              \/ sv \in Service /\ services[sv] # "none"
    <3>1. data \in [hosts : SUBSET (Address \cup Network),
                    services : SUBSET Service]
      BY DEF TypeOK
    <3>2. CASE GetRescanHosts
      <4>1. data' = [data EXCEPT !.hosts = hosts \ recent]
        BY <3>2 DEF GetRescanHosts
      <4> QED
        BY <3>1, <4>1
    <3>3. CASE GetRescanServices
      <4>1. data' = [data EXCEPT !.services =
                        {sv \in Service : services[sv] # "none"} \ recent]
        BY <3>3 DEF GetRescanServices
      <4> QED
        BY <3>1, <4>1
    <3> QED
      BY <1>6, <3>2, <3>3
  <2>3. hosts \subseteq Address
    BY DEF TypeOK
  <2> QED
    BY <1>0, <2>1, <2>2, <2>3 DEF DataWanted, StoredWanted
<1>7. \/ UNCHANGED <<at, data>> \/ data' = NoData \/ Parse \/ NetlistEnum
      \/ StorageSixEnum \/ GetRescanHosts \/ GetRescanServices
  <2> USE DEF pass
  <2>1. CASE \/ SessionFails \/ QueryJobs \/ TakeJob \/ Drained
             \/ ReadQueued \/ Enqueue \/ Passed \/ NotYet
             \/ StorageRescan \/ LoseConnection \/ Restart \/ Archive
             \/ Unlink \/ ImportHosts \/ ImportServices \/ Cleanup
             \/ WriteLastrun \/ Mark \/ DeleteJob \/ HandlerRaises
             \/ ImportHostsRaises \/ ImportServicesRaises
    BY <2>1
    DEF SessionFails, QueryJobs, TakeJob, Drained, ReadQueued, Enqueue,
        Passed, NotYet, StorageRescan, LoseConnection, Restart, Archive,
        Unlink, ImportHosts, ImportServices, Cleanup, WriteLastrun, Mark,
        DeleteJob, HandlerRaises, ImportHostsRaises, ImportServicesRaises,
        EndStage
  <2>2. CASE \/ \E s \in Handler, t \in Target, j \in Job : Assign(s, t, j)
             \/ \E i \in Job : Output(i) \/ OutputFailed(i)
             \/ \E z \in Schedule : RunDue(z)
             \/ \E x \in Target : RescanDue(x)
             \/ \E i \in Job : OperatorUnlink(i) \/ OperatorDelete(i)
             \/ UNCHANGED vars
    BY <2>2
    DEF Assign, Output, OutputFailed, RunDue, RescanDue, OperatorUnlink,
        OperatorDelete, vars
  <2>3. CASE \E x \in Target : ByHand(x)
    BY <2>3, ByHandSteps
  <2> QED
    BY <2>1, <2>2, <2>3 DEF Next, Step, Scheduler, Environment
<1> QED
  BY <1>1, <1>2, <1>3, <1>4, <1>5, <1>6, <1>7

(* Whatever is scanned is so for a reason (core.py:88-129, 177-187,        *)
(* 235-306, 380-383), for every pipeline whose scans report on what they   *)
(* scan: a service was found open by a discovery on a host that is no      *)
(* tarpit, or is of a host that an operator entered, also when a rescan    *)
(* took it from storage; a host is of the home networks, or in the network *)
(* of one that is, or was entered.  Whatever raises, is cut off, killed,   *)
(* entered or removed in between.                                          *)
THEOREM ScansOnlyWanted ==
    ASSUME Focused
    PROVE  Spec => []OnlyWanted
<1>1. Init /\ DrainInv => WantInv
  BY DEF Init, WantInv, OnlyWanted, Reached, Scans, StoredWanted, DataWanted,
         NoData
<1>2. WantInv /\ [Next]_vars /\ DrainInv' => WantInv'
  BY OnlyWantedStep, ScansStep, StoredStep, DataStep DEF WantInv
<1>3. WantInv => OnlyWanted
  BY DEF WantInv
<1> QED
  BY <1>1, <1>2, <1>3, DrainAlways, PTL DEF Spec

=============================================================================
