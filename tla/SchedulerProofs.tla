--------------------------- MODULE SchedulerProofs ---------------------------
(* Theorems of the scheduler for every number of queues, targets, sessions *)
(* and jobs, every hot level, and any process killed at any point: lock    *)
(* and readynets, then heat and the rate limit, then the deletion of jobs. *)
EXTENDS SchedulerProps, FiniteSetTheorems, FunctionTheorems, SequenceTheorems, TLAPS

USE HashvalAssumption, HotLevelAssumption, BoundsAssumption, BatchAssumption,
    OpsAssumption, SentinelAssumption

-----------------------------------------------------------------------------
(* Lemmas about the table operations *)

(* The bag that enqueue adds: a natural number for each target, positive   *)
(* exactly for the targets that occur in its input (core.py:189-198).      *)
LEMMA OccurrencesPositive ==
    ASSUME NEW ts \in Seq(Target), NEW t \in Target
    PROVE  /\ Occurrences(ts, t) \in Nat
           /\ Occurrences(ts, t) > 0 <=> \E i \in DOMAIN ts : ts[i] = t
<1> DEFINE P == {i \in DOMAIN ts : ts[i] = t}
<1>1. IsFiniteSet(1..Len(ts))
  BY FS_Interval
<1>2. P \subseteq 1..Len(ts)
  OBVIOUS
<1>3. IsFiniteSet(P)
  BY <1>1, <1>2, FS_Subset
<1>4. Cardinality(P) \in Nat /\ (Cardinality(P) = 0 <=> P = {})
  BY <1>3, FS_CardinalityType, FS_EmptySet
<1> QED
  BY <1>4 DEF Occurrences

(* An upsert writes the counted value into its own row and no other. *)
LEMMA UpsertCount ==
    ASSUME NEW hm, NEW h, NEW c, NEW g
    PROVE  Count(Upsert(hm, h, c), g) = IF g = h THEN c ELSE Count(hm, g)
BY DEF Upsert, Count

(* The garbage collector changes no count (core.py:438-439). *)
LEMMA CollectedCount ==
    ASSUME NEW hm, NEW g
    PROVE  Count(Collected(hm), g) = Count(hm, g)
BY DEF Collected, Count

(* Increments, decrements and collections keep the heatmap a table keyed   *)
(* by network.                                                             *)
IsTable(hm) == DOMAIN hm \subseteq Net /\ hm \in [DOMAIN hm -> Int]

LEMMA UpsertTable ==
    ASSUME NEW hm, IsTable(hm), NEW h \in Net, NEW c \in Int
    PROVE  IsTable(Upsert(hm, h, c))
BY DEF Upsert, IsTable

LEMMA HeatmapTable ==
    ASSUME NEW hm, IsTable(hm), NEW h \in Net
    PROVE  /\ IsTable(Incremented(hm, h))
           /\ IsTable(Decremented(hm, h))
           /\ IsTable(Collected(hm))
<1>1. Count(hm, h) + 1 \in Int
  BY DEF Count, IsTable
<1>2. (IF h \in DOMAIN hm THEN hm[h] - 1 ELSE 1) \in Int
  BY DEF IsTable
<1>3. IsTable(Collected(hm))
  BY DEF Collected, IsTable
<1> QED
  BY <1>1, <1>2, <1>3, UpsertTable DEF Incremented, Decremented

(* taking one row of a target out of the bag of a queue *)
LEMMA PopBag ==
    ASSUME NEW bag \in [Queue -> [Target -> Nat]], NEW q \in Queue,
           NEW t \in Target, bag[q][t] > 0
    PROVE  /\ [bag EXCEPT ![q][t] = @ - 1] \in [Queue -> [Target -> Nat]]
           /\ \A p \in Queue, u \in Target :
                [bag EXCEPT ![q][t] = @ - 1][p][u] =
                   IF p = q /\ u = t THEN bag[q][t] - 1 ELSE bag[p][u]
<1>1. bag[q][t] - 1 \in Nat
  OBVIOUS
<1>2. [bag EXCEPT ![q][t] = @ - 1]
        = [bag EXCEPT ![q] = [bag[q] EXCEPT ![t] = bag[q][t] - 1]]
  OBVIOUS
<1>3. [bag[q] EXCEPT ![t] = bag[q][t] - 1] \in [Target -> Nat]
  BY <1>1
<1>4. [bag EXCEPT ![q][t] = @ - 1] \in [Queue -> [Target -> Nat]]
  BY <1>2, <1>3
<1>5. ASSUME NEW p \in Queue, NEW u \in Target
      PROVE  [bag EXCEPT ![q][t] = @ - 1][p][u] =
                IF p = q /\ u = t THEN bag[q][t] - 1 ELSE bag[p][u]
  BY <1>2, <1>3
<1> QED
  BY <1>4, <1>5

(* a request whose job or queue is filled in is a request *)
LEMMA RequestUpdate ==
    ASSUME NEW r \in [Session -> Request], NEW s \in Session
    PROVE  /\ \A j \in Job : [r EXCEPT ![s].job = j] \in [Session -> Request]
           /\ \A q \in Queue :
                [r EXCEPT ![s].queue = q] \in [Session -> Request]
<1>1. r[s] \in Request
  OBVIOUS
<1>2. ASSUME NEW j \in Job
      PROVE  [r EXCEPT ![s].job = j] \in [Session -> Request]
  <2>1. [r[s] EXCEPT !.job = j] \in Request
    BY <1>1 DEF Request
  <2>2. [r EXCEPT ![s].job = j] = [r EXCEPT ![s] = [r[s] EXCEPT !.job = j]]
    OBVIOUS
  <2> QED
    BY <2>1, <2>2
<1>3. ASSUME NEW q \in Queue
      PROVE  [r EXCEPT ![s].queue = q] \in [Session -> Request]
  <2>1. [r[s] EXCEPT !.queue = q] \in Request
    BY <1>1 DEF Request
  <2>2. [r EXCEPT ![s].queue = q] = [r EXCEPT ![s] = [r[s] EXCEPT !.queue = q]]
    OBVIOUS
  <2> QED
    BY <2>1, <2>2
<1> QED
  BY <1>2, <1>3

-----------------------------------------------------------------------------
(* Type correctness.  TypeOK is inductive only together with what the      *)
(* handlers have in hand: Tail of the targets to pop, and the network of   *)
(* the first one, are defined when there is one; the row of a job is read  *)
(* by a handler that has a job.                                            *)

JobsHaveTargets == \A j \in Job : Exists(j) => jobTargets[j] # <<>>

HasWork(s) ==
    /\ pc[s] \in {"heatmap_put", "create", "heatmap_pop", "reconcile"}
          => todo[s] # <<>>
    /\ pc[s] = "get_lock" /\ req[s].op = "reconcile" => todo[s] # <<>>
    /\ pc[s] = "get_lock" /\ req[s].op = "output" => req[s].job \in Job
    /\ pc[s] \in {"write", "finish", "reload"} => req[s].job \in Job
    /\ pc[s] \in {"unlink", "delete_row", "next_job", "rmdir"}
          => req[s].op \notin {"output", "reconcile"}

WorkInv == JobsHaveTargets /\ \A s \in Session : HasWork(s)

(* the state predicate TypeOK in the parts that a step disturbs together *)
TypeTables ==
    /\ queues \subseteq Queue
    /\ targets \in [Queue -> [Target -> Nat]]
    /\ readynet \subseteq Queue \X Net
    /\ DOMAIN heatmap \subseteq Net
    /\ heatmap \in [DOMAIN heatmap -> Int]

TypeJobs ==
    /\ jobState \in
         [Job -> {"unused", "running", "finished", "reconciled", "deleted"}]
    /\ jobQueue \in [Job -> Queue \cup {NoQueue}]
    /\ jobTargets \in [Job -> Seq(Target)]
    /\ files \subseteq (Queue \cup {NoQueue}) \X (Job \cup {NoJob})
    /\ issued \subseteq Job

TypeLocal ==
    /\ lock \in Session \cup {NoSession}
    /\ leaked \in BOOLEAN
    /\ pc \in [Session -> Labels]
    /\ req \in [Session -> Request]
    /\ todo \in [Session -> Seq(Target)]
    /\ left \in [Session -> SUBSET Job]

LEMMA TypeParts == TypeOK <=> TypeTables /\ TypeJobs /\ TypeLocal
BY DEF TypeOK, TypeTables, TypeJobs, TypeLocal

(* A call and a return leave the handler variables well typed. *)
LEMMA TypeReturn ==
    ASSUME TypeLocal, NEW s \in Session, Return(s),
           lock' \in Session \cup {NoSession}, leaked' \in BOOLEAN
    PROVE  TypeLocal'
BY DEF TypeLocal, Return, Goto, NoReq, Request, Labels

LEMMA TypeCall ==
    ASSUME TypeLocal, NEW s \in Session, NEW op \in Op,
           NEW q \in Queue \cup {NoQueue}, NEW j \in Job \cup {NoJob},
           NEW label \in Labels, Call(s, op, q, j, label),
           UNCHANGED <<lock, leaked>>,
           todo' \in [Session -> Seq(Target)],
           left' \in [Session -> SUBSET Job]
    PROVE  TypeLocal'
BY DEF TypeLocal, Call, Goto, Request

LEMMA TypeGoto ==
    ASSUME TypeLocal, NEW s \in Session, NEW label \in Labels, Goto(s, label),
           lock' \in Session \cup {NoSession}, leaked' \in BOOLEAN,
           req' \in [Session -> Request],
           todo' \in [Session -> Seq(Target)],
           left' \in [Session -> SUBSET Job]
    PROVE  TypeLocal'
BY DEF TypeLocal, Goto

LEMMA TypeRaise ==
    ASSUME TypeOK, NEW s \in Session, RaiseLocked(s)
    PROVE  TypeOK'
<1>1. TypeLocal'
  BY TypeReturn, TypeParts DEF RaiseLocked, TypeLocal
<1>2. TypeTables' /\ TypeJobs'
  BY TypeParts DEF RaiseLocked, TypeTables, TypeJobs, tables, jobs
<1> QED
  BY <1>1, <1>2, TypeParts DEF TypeOK, TypeTables, TypeJobs, TypeLocal

(* A request that arrives: only the handler variables change. *)
LEMMA TypeBegin ==
    ASSUME TypeOK, NEW s \in Session, Begin(s)
    PROVE  TypeOK'
<1> USE DEF TypeOK, TypeLocal, tables, jobs, locking
<1>1. CASE \E q \in Queue, ts \in Batch : BeginEnqueue(s, q, ts)
  <2>1. PICK q \in Queue, ts \in Batch : BeginEnqueue(s, q, ts)
    BY <1>1
  <2>2. TypeLocal'
    BY <2>1, TypeCall DEF BeginEnqueue, Labels, Op
  <2> QED
    BY <2>1, <2>2 DEF BeginEnqueue
<1>2. CASE \E q \in Queue : BeginFlush(s, q)
  <2>1. PICK q \in Queue : BeginFlush(s, q)
    BY <1>2
  <2>2. TypeLocal'
    BY <2>1, TypeCall DEF BeginFlush, Labels, Op
  <2> QED
    BY <2>1, <2>2 DEF BeginFlush
<1>3. CASE \E q \in Queue : BeginDeleteEmptyQueue(s, q)
  <2>1. PICK q \in Queue : BeginDeleteEmptyQueue(s, q)
    BY <1>3
  <2>2. TypeLocal'
    BY <2>1, TypeCall DEF BeginDeleteEmptyQueue, Labels, Op
  <2> QED
    BY <2>1, <2>2 DEF BeginDeleteEmptyQueue
<1>4. CASE \E q \in Queue, op \in Op : BeginDeleteJobs(s, q, op)
  <2>1. PICK q \in Queue, op \in Op : BeginDeleteJobs(s, q, op)
    BY <1>4
  <2> DEFINE members == {j \in Job : Exists(j) /\ jobQueue[j] = q}
  <2>2. PICK j \in members : /\ Call(s, op, q, j, "unlink")
                             /\ left' = [left EXCEPT ![s] = members \ {j}]
    BY <2>1 DEF BeginDeleteJobs
  <2>3. left' \in [Session -> SUBSET Job]
    BY <2>2
  <2>4. "unlink" \in Labels /\ todo' \in [Session -> Seq(Target)]
        /\ UNCHANGED <<lock, leaked>>
    BY <2>1 DEF BeginDeleteJobs, Labels
  <2>5. TypeLocal'
    <3> HIDE DEF members
    <3> QED
      BY <2>2, <2>3, <2>4, TypeCall DEF members
  <2> QED
    BY <2>1, <2>5 DEF BeginDeleteJobs
<1>5. CASE \E j \in Job : \/ BeginRepeat(s, j) \/ BeginDeleteJob(s, j)
                          \/ BeginOutput(s, j) \/ BeginReconcile(s, j)
  <2>1. PICK j \in Job : \/ BeginRepeat(s, j) \/ BeginDeleteJob(s, j)
                         \/ BeginOutput(s, j) \/ BeginReconcile(s, j)
    BY <1>5
  <2>2. jobQueue[j] \in Queue \cup {NoQueue} /\ jobTargets[j] \in Seq(Target)
    OBVIOUS
  <2>3. CASE BeginRepeat(s, j)
    BY <2>2, <2>3, TypeCall DEF BeginRepeat, Labels, Op
  <2>4. CASE BeginDeleteJob(s, j)
    BY <2>2, <2>4, TypeCall DEF BeginDeleteJob, Labels, Op
  <2>5. CASE BeginOutput(s, j)
    BY <2>2, <2>5, TypeCall DEF BeginOutput, Labels, Op
  <2>6. CASE BeginReconcile(s, j)
    BY <2>2, <2>6, TypeCall DEF BeginReconcile, Labels, Op
  <2> QED
    BY <2>1, <2>3, <2>4, <2>5, <2>6
<1>6. CASE BeginRecount(s)
  BY <1>6, TypeCall DEF BeginRecount, Labels, Op
<1>7. CASE BeginAssign(s)
  BY <1>7, TypeCall DEF BeginAssign, Labels, Op
<1> QED
  BY <1>1, <1>2, <1>3, <1>4, <1>5, <1>6, <1>7 DEF Begin

LEMMA FirstStepLabel ==
    ASSUME NEW op
    PROVE  FirstStep(op) \in Labels
BY DEF FirstStep, Labels

(* A step of a handler. *)
LEMMA TypeStep ==
    ASSUME TypeOK, WorkInv, NEW s \in Session, Step(s)
    PROVE  TypeOK'
<1> USE DEF TypeOK, tables, jobs, locking
<1>0. TypeLocal
  BY DEF TypeLocal
<1>1. CASE GetLock(s)
  <2>1. TypeLocal'
    BY <1>0, <1>1, TypeGoto, FirstStepLabel DEF GetLock
  <2> QED
    BY <1>1, <2>1 DEF GetLock, TypeLocal
<1>2. CASE LockTimeout(s)
  BY <1>0, <1>2, TypeReturn DEF LockTimeout, TypeLocal
<1>3. CASE ReleaseLock(s)
  <2>1. lock' \in Session \cup {NoSession} /\ leaked' \in BOOLEAN
    BY <1>3 DEF ReleaseLock, OwnerAfter
  <2>2. TypeLocal'
    BY <1>0, <1>3, <2>1, TypeReturn DEF ReleaseLock
  <2>3. issued' \subseteq Job
    <3>1. req[s].job \in Job \cup {NoJob}
      BY DEF Request
    <3> QED
      BY <1>3, <3>1 DEF ReleaseLock
  <2> QED
    BY <1>3, <2>2, <2>3 DEF ReleaseLock, TypeLocal
<1>4. CASE Enqueue(s)
  <2>1. TypeLocal'
    BY <1>0, <1>4, TypeGoto DEF Enqueue, Labels
  <2>2. todo[s] \in Seq(Target)
    OBVIOUS
  <2>3. targets' \in [Queue -> [Target -> Nat]]
    <3>1. \A t \in Target : Occurrences(todo[s], t) \in Nat
      BY <2>2, OccurrencesPositive
    <3> QED
      BY <1>4, <3>1 DEF Enqueue
  <2>4. NetsOf(todo[s]) \subseteq Net
    BY <2>2 DEF NetsOf
  <2>5. readynet' \subseteq Queue \X Net
    BY <1>4, <2>4 DEF Enqueue, CoolNets
  <2> QED
    BY <1>4, <2>1, <2>3, <2>5 DEF Enqueue, TypeLocal
<1>5. CASE EnqueueForeignKey(s)
  BY <1>5, TypeRaise DEF EnqueueForeignKey
<1>6. CASE Flush(s)
  <2>1. TypeLocal'
    BY <1>0, <1>6, TypeGoto DEF Flush, Labels
  <2>2. targets' \in [Queue -> [Target -> Nat]]
    BY <1>6 DEF Flush, NoTargets
  <2> QED
    BY <1>6, <2>1, <2>2 DEF Flush, TypeLocal
<1>7. CASE Recount(s)
  <2>1. TypeLocal'
    BY <1>0, <1>7, TypeGoto DEF Recount, Labels
  <2>2. readynet' \subseteq Queue \X Net
    BY <1>7 DEF Recount
  <2> QED
    BY <1>7, <2>1, <2>2 DEF Recount, TypeLocal
<1>8. CASE Unlink(s)
  <2>1. TypeLocal'
    BY <1>0, <1>8, TypeGoto DEF Unlink, Labels
  <2> QED
    BY <1>8, <2>1 DEF Unlink, TypeLocal
<1>9. CASE UnlinkNoQueue(s)
  BY <1>0, <1>9, TypeReturn DEF UnlinkNoQueue, TypeLocal
<1>10. CASE DeleteRow(s)
  <2>1. TypeLocal'
    BY <1>0, <1>10, TypeReturn, TypeGoto DEF DeleteRow, Labels
  <2>2. TypeJobs'
    BY <1>10 DEF DeleteRow, DropRows, TypeJobs
  <2> QED
    BY <1>10, <2>1, <2>2 DEF DeleteRow, TypeLocal, TypeJobs
<1>11. CASE NextJob(s)
  <2>1. PICK j \in left[s] :
          IF jobState[j] \in {"finished", "reconciled"}
          THEN /\ req' = [req EXCEPT ![s].job = j]
               /\ left' = [left EXCEPT ![s] = @ \ {j}]
               /\ Goto(s, "unlink")
               /\ UNCHANGED todo
          ELSE Return(s)
    BY <1>11 DEF NextJob
  <2>2. UNCHANGED <<lock, leaked>>
    BY <1>11 DEF NextJob
  <2>3. TypeLocal'
    <3>1. CASE Return(s)
      BY <1>0, <2>2, <3>1, TypeReturn
    <3>2. CASE /\ req' = [req EXCEPT ![s].job = j]
               /\ left' = [left EXCEPT ![s] = @ \ {j}]
               /\ Goto(s, "unlink")
               /\ UNCHANGED todo
      <4>1. j \in Job
        OBVIOUS
      <4>2. req' \in [Session -> Request]
        BY <3>2, <4>1, RequestUpdate
      <4> QED
        BY <1>0, <2>2, <3>2, <4>2, TypeGoto DEF Labels
    <3> QED
      BY <2>1, <3>1, <3>2
  <2> QED
    BY <1>11, <2>3 DEF NextJob, TypeLocal
<1>12. CASE NoNextJob(s)
  <2>1. TypeLocal'
    BY <1>0, <1>12, TypeReturn, TypeGoto DEF NoNextJob, Labels
  <2> QED
    BY <1>12, <2>1 DEF NoNextJob, TypeLocal
<1>13. CASE RemoveDir(s)
  <2>1. TypeLocal'
    BY <1>0, <1>13, TypeReturn, TypeGoto DEF RemoveDir, Labels
  <2> QED
    BY <1>13, <2>1 DEF RemoveDir, TypeLocal
<1>14. CASE DeleteQueue(s)
  <2>1. TypeLocal'
    BY <1>0, <1>14, TypeGoto DEF DeleteQueue, Labels
  <2>2. TypeJobs'
    BY <1>14 DEF DeleteQueue, DropRows, TypeJobs
  <2>3. targets' \in [Queue -> [Target -> Nat]]
    BY <1>14 DEF DeleteQueue, NoTargets
  <2> QED
    BY <1>14, <2>1, <2>2, <2>3 DEF DeleteQueue, TypeLocal, TypeJobs
<1>15. CASE SelectQueue(s)
  <2>1. TypeLocal'
    <3>1. CASE \E q \in queues : /\ req' = [req EXCEPT ![s].queue = q]
                                 /\ Goto(s, "pop_target")
      <4>1. PICK q \in queues : /\ req' = [req EXCEPT ![s].queue = q]
                                /\ Goto(s, "pop_target")
        BY <3>1
      <4>2. req' \in [Session -> Request]
        BY <4>1, RequestUpdate
      <4> QED
        BY <1>0, <1>15, <4>1, <4>2, TypeGoto DEF SelectQueue, Labels
    <3>2. CASE Goto(s, "release_lock") /\ UNCHANGED req
      BY <1>0, <1>15, <3>2, TypeGoto DEF SelectQueue, Labels
    <3> QED
      BY <1>15, <3>1, <3>2 DEF SelectQueue
  <2> QED
    BY <1>15, <2>1 DEF SelectQueue, TypeLocal
<1>16. CASE PopTarget(s)
  <2> DEFINE q == req[s].queue
  <2>1. PICK t \in Candidates(q) :
          /\ targets' = [targets EXCEPT ![q][t] = @ - 1]
          /\ readynet' = IF q \in Holders(hashval[t])'
                         THEN readynet ELSE readynet \ {<<q, hashval[t]>>}
          /\ IF t \in Excluded
             THEN UNCHANGED <<todo, pc>>
             ELSE /\ todo' = [todo EXCEPT ![s] = Append(@, t)]
                  /\ Goto(s, "heatmap_put")
    BY <1>16 DEF PopTarget
  <2>2. t \in Target /\ q \in Queue /\ targets[q][t] > 0
    BY DEF Candidates
  <2>3. targets' \in [Queue -> [Target -> Nat]]
    <3> HIDE DEF q
    <3> QED
      BY <2>1, <2>2, PopBag
  <2>4. todo' \in [Session -> Seq(Target)] /\ pc' \in [Session -> Labels]
    <3>1. CASE UNCHANGED <<todo, pc>>
      BY <3>1
    <3>2. CASE /\ todo' = [todo EXCEPT ![s] = Append(@, t)]
               /\ Goto(s, "heatmap_put")
      <4>1. todo[s] \in Seq(Target)
        OBVIOUS
      <4>2. Append(todo[s], t) \in Seq(Target)
        BY <2>2, <4>1, AppendProperties
      <4>3. todo' \in [Session -> Seq(Target)]
        BY <3>2, <4>2
      <4> QED
        BY <3>2, <4>3 DEF Goto, Labels
    <3> QED
      BY <2>1, <3>1, <3>2
  <2> QED
    BY <1>16, <2>1, <2>3, <2>4 DEF PopTarget
<1>17. CASE HeatmapPut(s)
  <2>1. TypeLocal'
    BY <1>0, <1>17, TypeGoto DEF HeatmapPut, Labels
  <2> DEFINE h == hashval[todo[s][Len(todo[s])]]
  <2>2. h \in Net
    <3>1. todo[s] # <<>> /\ todo[s] \in Seq(Target)
      BY <1>17 DEF HeatmapPut, WorkInv, HasWork
    <3> QED
      BY <3>1
  <2>3. DOMAIN heatmap' \subseteq Net /\ heatmap' \in [DOMAIN heatmap' -> Int]
    BY <1>17, <2>2, HeatmapTable DEF HeatmapPut, IsTable
  <2> QED
    BY <1>17, <2>1, <2>3 DEF HeatmapPut, TypeLocal
<1>18. CASE EndOfGroup(s)
  <2>1. TypeLocal'
    BY <1>0, <1>18, TypeGoto DEF EndOfGroup, Labels
  <2> QED
    BY <1>18, <2>1 DEF EndOfGroup, TypeLocal
<1>19. CASE CreateJob(s)
  <2>1. PICK j \in Rows({"unused"}) :
          /\ jobState' = [jobState EXCEPT ![j] = "running"]
          /\ jobQueue' = [jobQueue EXCEPT ![j] = req[s].queue]
          /\ jobTargets' = [jobTargets EXCEPT ![j] = todo[s]]
          /\ req' = [req EXCEPT ![s].job = j]
    BY <1>19 DEF CreateJob
  <2>2. j \in Job /\ req[s].queue \in Queue \cup {NoQueue}
    BY DEF Rows, Request
  <2>3. req' \in [Session -> Request]
    BY <2>1, <2>2, RequestUpdate
  <2>4. todo' \in [Session -> Seq(Target)]
    BY <1>19 DEF CreateJob
  <2>5. TypeLocal'
    BY <1>0, <1>19, <2>3, <2>4, TypeGoto DEF CreateJob, Labels
  <2>6. TypeJobs'
    BY <1>19, <2>1, <2>2 DEF CreateJob, TypeJobs
  <2> QED
    BY <1>19, <2>5, <2>6 DEF CreateJob, TypeLocal, TypeJobs
<1>20. CASE WriteOutput(s)
  <2>1. TypeLocal'
    BY <1>0, <1>20, TypeGoto DEF WriteOutput, Labels
  <2>2. files' \subseteq (Queue \cup {NoQueue}) \X (Job \cup {NoJob})
    <3>1. /\ req[s].queue \in Queue \cup {NoQueue}
          /\ req[s].job \in Job \cup {NoJob}
      BY DEF Request
    <3> QED
      BY <1>20, <3>1 DEF WriteOutput, OutputPath
  <2> QED
    BY <1>20, <2>1, <2>2 DEF WriteOutput, TypeLocal
<1>21. CASE WriteOutputNoQueue(s)
  BY <1>21, TypeRaise DEF WriteOutputNoQueue
<1>22. CASE Finish(s)
  <2>1. TypeLocal'
    BY <1>0, <1>22, TypeGoto DEF Finish, Labels
  <2> QED
    BY <1>22, <2>1 DEF Finish, TypeLocal
<1>23. CASE Reload(s)
  <2>1. jobTargets[req[s].job] \in Seq(Target)
    BY <1>23 DEF Reload, WorkInv, HasWork
  <2>2. todo' \in [Session -> Seq(Target)]
    BY <1>23, <2>1 DEF Reload
  <2>3. TypeLocal'
    BY <1>0, <1>23, <2>2, TypeGoto DEF Reload, Labels
  <2> QED
    BY <1>23, <2>3 DEF Reload, TypeLocal
<1>24. CASE HeatmapPop(s) \/ Reconcile(s)
  <2>1. PopFirst(s) /\ todo[s] # <<>> /\ todo[s] \in Seq(Target)
    BY <1>24 DEF HeatmapPop, Reconcile, WorkInv, HasWork
  <2> DEFINE h == hashval[todo[s][1]]
  <2>2. h \in Net
    BY <2>1
  <2>3. todo' \in [Session -> Seq(Target)]
    BY <2>1 DEF PopFirst
  <2>4. TypeLocal'
    BY <1>0, <2>1, <2>3, TypeGoto DEF PopFirst, Labels
  <2>5. DOMAIN heatmap' \subseteq Net /\ heatmap' \in [DOMAIN heatmap' -> Int]
    <3> DEFINE after == Decremented(heatmap, h)
    <3>1. DOMAIN after \subseteq Net /\ after \in [DOMAIN after -> Int]
      BY <2>2, HeatmapTable DEF IsTable
    <3>2. /\ DOMAIN Collected(after) \subseteq Net
          /\ Collected(after) \in [DOMAIN Collected(after) -> Int]
      <4> HIDE DEF after
      <4> QED
        BY <2>2, <3>1, HeatmapTable DEF IsTable
    <3>3. heatmap' \in {after, Collected(after)}
      BY <2>1 DEF PopFirst
    <3> QED
      BY <3>1, <3>2, <3>3
  <2>6. readynet' \subseteq Queue \X Net
    BY <2>1, <2>2 DEF PopFirst, Holders
  <2>7. jobState' \in
          [Job -> {"unused", "running", "finished", "reconciled", "deleted"}]
    BY <1>24 DEF HeatmapPop, Reconcile
  <2> QED
    BY <2>1, <2>4, <2>5, <2>6, <2>7 DEF PopFirst, TypeLocal
<1>25. CASE RowGone(s)
  BY <1>25, TypeRaise DEF RowGone
<1>26. CASE ReadynetConflict(s)
  BY <1>26, TypeRaise DEF ReadynetConflict
<1> QED
  BY <1>1, <1>2, <1>3, <1>4, <1>5, <1>6, <1>7, <1>8, <1>9, <1>10, <1>11,
     <1>12, <1>13, <1>14, <1>15, <1>16, <1>17, <1>18, <1>19, <1>20, <1>21,
     <1>22, <1>23, <1>24, <1>25, <1>26
  DEF Step

(* A step of one session leaves the others with what they have in hand. *)
LEMMA WorkLocal ==
    ASSUME WorkInv, NEW s \in Session,
           \A z \in Session \ {s} :
              pc'[z] = pc[z] /\ req'[z] = req[z] /\ todo'[z] = todo[z],
           HasWork(s)', JobsHaveTargets'
    PROVE  WorkInv'
BY DEF WorkInv, HasWork

LEMMA WorkBegin ==
    ASSUME TypeOK, WorkInv, NEW s \in Session, Begin(s)
    PROVE  WorkInv'
<1> USE DEF TypeOK, jobs, Call, Goto
<1>1. UNCHANGED jobs
  BY DEF Begin, BeginEnqueue, BeginFlush, BeginDeleteEmptyQueue,
         BeginDeleteJobs, BeginRepeat, BeginDeleteJob, BeginOutput,
         BeginReconcile, BeginRecount, BeginAssign
<1>2. JobsHaveTargets'
  BY <1>1 DEF WorkInv, JobsHaveTargets, Exists
<1>3. ASSUME NEW op, NEW q, NEW j, NEW label, Call(s, op, q, j, label),
             label \in {"get_lock", "unlink", "rmdir"},
             \A z \in Session \ {s} : todo'[z] = todo[z],
             label = "get_lock" /\ op = "reconcile" => todo'[s] # <<>>,
             label = "get_lock" /\ op = "output" => j \in Job,
             label = "get_lock" \/ op \notin {"output", "reconcile"}
      PROVE  WorkInv'
  <2>1. HasWork(s)'
    BY <1>3 DEF HasWork
  <2> QED
    BY <1>2, <1>3, <2>1, WorkLocal
<1>4. CASE \E q \in Queue, ts \in Batch : BeginEnqueue(s, q, ts)
  BY <1>3, <1>4 DEF BeginEnqueue
<1>5. CASE \E q \in Queue : BeginFlush(s, q) \/ BeginDeleteEmptyQueue(s, q)
  BY <1>3, <1>5 DEF BeginFlush, BeginDeleteEmptyQueue
<1>6. CASE \E q \in Queue, op \in Op : BeginDeleteJobs(s, q, op)
  BY <1>3, <1>6 DEF BeginDeleteJobs
<1>7. CASE \E j \in Job : BeginRepeat(s, j) \/ BeginDeleteJob(s, j)
  BY <1>3, <1>7 DEF BeginRepeat, BeginDeleteJob
<1>8. CASE \E j \in Job : BeginOutput(s, j)
  BY <1>3, <1>8 DEF BeginOutput
<1>9. CASE \E j \in Job : BeginReconcile(s, j)
  <2>1. PICK j \in Job : BeginReconcile(s, j)
    BY <1>9
  <2>2. jobTargets[j] # <<>>
    BY <2>1 DEF BeginReconcile, WorkInv, JobsHaveTargets, Exists
  <2>3. todo' = [todo EXCEPT ![s] = jobTargets[j]]
    BY <2>1 DEF BeginReconcile
  <2> QED
    BY <1>3, <2>1, <2>2, <2>3 DEF BeginReconcile
<1>10. CASE BeginRecount(s) \/ BeginAssign(s)
  BY <1>3, <1>10 DEF BeginRecount, BeginAssign
<1> QED
  BY <1>4, <1>5, <1>6, <1>7, <1>8, <1>9, <1>10 DEF Begin

LEMMA WorkStep ==
    ASSUME TypeOK, WorkInv, NEW s \in Session, Step(s) \/ Crash(s)
    PROVE  WorkInv'
<1> USE DEF TypeOK, tables, jobs, locking, Goto
<1>0. JobsHaveTargets /\ HasWork(s)
  BY DEF WorkInv
<1>1. ASSUME UNCHANGED jobs
      PROVE  JobsHaveTargets'
  BY <1>0, <1>1 DEF JobsHaveTargets, Exists
<1>2. ASSUME NEW js, DropRows(js)
      PROVE  JobsHaveTargets'
  BY <1>0, <1>2 DEF DropRows, JobsHaveTargets, Exists
<1>3. ASSUME Return(s), JobsHaveTargets'
      PROVE  WorkInv'
  BY <1>3, WorkLocal DEF Return, HasWork
<1>4. CASE GetLock(s)
  BY <1>0, <1>1, <1>4, WorkLocal DEF GetLock, HasWork, FirstStep
<1>5. CASE \/ LockTimeout(s) \/ ReleaseLock(s) \/ EnqueueForeignKey(s)
           \/ UnlinkNoQueue(s) \/ WriteOutputNoQueue(s) \/ RowGone(s)
           \/ ReadynetConflict(s) \/ Crash(s)
  BY <1>1, <1>3, <1>5
  DEF LockTimeout, ReleaseLock, EnqueueForeignKey, UnlinkNoQueue,
      WriteOutputNoQueue, RowGone, ReadynetConflict, Crash, RaiseLocked
<1>6. CASE Enqueue(s)
  BY <1>1, <1>6, WorkLocal DEF Enqueue, HasWork
<1>7. CASE Flush(s)
  BY <1>1, <1>7, WorkLocal DEF Flush, HasWork
<1>8. CASE Recount(s)
  BY <1>1, <1>8, WorkLocal DEF Recount, HasWork
<1>9. CASE Unlink(s)
  BY <1>0, <1>1, <1>9, WorkLocal DEF Unlink, HasWork
<1>10. CASE DeleteRow(s)
  <2>1. JobsHaveTargets'
    BY <1>2, <1>10 DEF DeleteRow
  <2>2. CASE Return(s)
    BY <1>3, <2>1, <2>2
  <2>3. CASE Goto(s, "next_job") /\ UNCHANGED <<req, todo, left>>
    BY <1>0, <1>10, <2>1, <2>3, WorkLocal DEF DeleteRow, HasWork
  <2> QED
    BY <1>10, <2>2, <2>3 DEF DeleteRow
<1>11. CASE NextJob(s)
  <2>1. JobsHaveTargets'
    BY <1>1, <1>11 DEF NextJob
  <2>2. CASE Return(s)
    BY <1>3, <2>1, <2>2
  <2>3. CASE \E j \in left[s] : /\ req' = [req EXCEPT ![s].job = j]
                                /\ Goto(s, "unlink")
                                /\ UNCHANGED todo
    BY <1>0, <1>11, <2>1, <2>3, WorkLocal DEF NextJob, HasWork
  <2> QED
    BY <1>11, <2>2, <2>3 DEF NextJob
<1>12. CASE NoNextJob(s)
  <2>1. JobsHaveTargets'
    BY <1>1, <1>12 DEF NoNextJob
  <2>2. CASE Return(s)
    BY <1>3, <2>1, <2>2
  <2>3. CASE Goto(s, "rmdir") /\ UNCHANGED <<req, todo, left>>
    BY <1>0, <1>12, <2>1, <2>3, WorkLocal DEF NoNextJob, HasWork
  <2> QED
    BY <1>12, <2>2, <2>3 DEF NoNextJob
<1>13. CASE RemoveDir(s)
  <2>1. JobsHaveTargets'
    BY <1>1, <1>13 DEF RemoveDir
  <2>2. CASE Return(s)
    BY <1>3, <2>1, <2>2
  <2>3. CASE Goto(s, "get_lock") /\ UNCHANGED <<req, todo, left>>
    BY <1>0, <1>13, <2>1, <2>3, WorkLocal DEF RemoveDir, HasWork
  <2> QED
    BY <1>13, <2>2, <2>3 DEF RemoveDir
<1>14. CASE DeleteQueue(s)
  <2>1. JobsHaveTargets'
    BY <1>2, <1>14 DEF DeleteQueue
  <2> QED
    BY <1>14, <2>1, WorkLocal DEF DeleteQueue, HasWork
<1>15. CASE SelectQueue(s)
  BY <1>1, <1>15, WorkLocal DEF SelectQueue, HasWork
<1>16. CASE PopTarget(s)
  <2>1. \/ UNCHANGED <<todo, pc>>
        \/ \E t \in Target : /\ todo' = [todo EXCEPT ![s] = Append(@, t)]
                             /\ pc' = [pc EXCEPT ![s] = "heatmap_put"]
    BY <1>16 DEF PopTarget, Candidates
  <2>2. UNCHANGED <<jobs, req>> /\ pc[s] = "pop_target"
    BY <1>16 DEF PopTarget
  <2>3. CASE UNCHANGED <<todo, pc>>
    BY <1>0, <1>1, <2>2, <2>3, WorkLocal DEF HasWork
  <2>4. CASE \E t \in Target : /\ todo' = [todo EXCEPT ![s] = Append(@, t)]
                               /\ pc' = [pc EXCEPT ![s] = "heatmap_put"]
    <3>1. PICK t \in Target : /\ todo' = [todo EXCEPT ![s] = Append(@, t)]
                              /\ pc' = [pc EXCEPT ![s] = "heatmap_put"]
      BY <2>4
    <3>2. Append(todo[s], t) # <<>>
      <4>1. todo[s] \in Seq(Target) /\ t \in Target
        OBVIOUS
      <4> QED
        BY ONLY <4>1, AppendProperties
    <3>3. HasWork(s)'
      BY <3>1, <3>2 DEF HasWork
    <3> QED
      BY <1>1, <2>2, <3>1, <3>3, WorkLocal
  <2> QED
    BY <2>1, <2>3, <2>4
<1>17. CASE HeatmapPut(s)
  BY <1>1, <1>17, WorkLocal DEF HeatmapPut, HasWork
<1>18. CASE EndOfGroup(s)
  BY <1>1, <1>18, WorkLocal DEF EndOfGroup, HasWork
<1>19. CASE CreateJob(s)
  <2>1. JobsHaveTargets'
    BY <1>0, <1>19 DEF CreateJob, HasWork, JobsHaveTargets, Exists, Rows
  <2> QED
    BY <1>19, <2>1, WorkLocal DEF CreateJob, HasWork
<1>20. CASE WriteOutput(s)
  BY <1>0, <1>1, <1>20, WorkLocal DEF WriteOutput, HasWork
<1>21. CASE Finish(s)
  <2>1. JobsHaveTargets'
    BY <1>0, <1>21 DEF Finish, JobsHaveTargets, Exists
  <2> QED
    BY <1>0, <1>21, <2>1, WorkLocal DEF Finish, HasWork
<1>22. CASE Reload(s)
  <2>1. jobTargets[req[s].job] # <<>>
    BY <1>0, <1>22 DEF Reload, HasWork, JobsHaveTargets
  <2> QED
    BY <1>1, <1>22, <2>1, WorkLocal DEF Reload, HasWork
<1>23. CASE HeatmapPop(s) \/ Reconcile(s)
  <2>1. PopFirst(s) /\ todo[s] # <<>> /\ todo[s] \in Seq(Target)
    BY <1>0, <1>23 DEF HeatmapPop, Reconcile, HasWork
  <2>2. JobsHaveTargets'
    BY <1>0, <1>23, <2>1
    DEF HeatmapPop, Reconcile, PopFirst, JobsHaveTargets, Exists
  <2>3. HasWork(s)'
    <3>1. CASE Len(todo[s]) = 1
      BY <2>1, <3>1 DEF PopFirst, HasWork
    <3>2. CASE Len(todo[s]) # 1
      <4>1. Tail(todo[s]) # <<>>
        <5>1. Len(Tail(todo[s])) = Len(todo[s]) - 1
          BY ONLY <2>1, HeadTailProperties
        <5>2. Len(todo[s]) \in Nat
          BY <2>1
        <5>3. Len(<<>>) = 0
          OBVIOUS
        <5>4. ASSUME Tail(todo[s]) = <<>>
              PROVE  Len(todo[s]) - 1 = 0
          BY ONLY <5>1, <5>3, <5>4
        <5> QED
          BY <3>2, <5>2, <5>4
      <4> QED
        BY <2>1, <3>2, <4>1 DEF PopFirst, HasWork
    <3> QED
      BY <3>1, <3>2
  <2> QED
    BY <2>1, <2>2, <2>3, WorkLocal DEF PopFirst
<1> QED
  BY <1>4, <1>5, <1>6, <1>7, <1>8, <1>9, <1>10, <1>11, <1>12, <1>13, <1>14,
     <1>15, <1>16, <1>17, <1>18, <1>19, <1>20, <1>21, <1>22, <1>23 DEF Step

(* A kill resets the handler variables and frees the lock. *)
LEMMA TypeCrash ==
    ASSUME TypeOK, NEW s \in Session, Crash(s)
    PROVE  TypeOK'
<1>1. TypeLocal'
  <2>1. lock' \in Session \cup {NoSession} /\ leaked' \in BOOLEAN
    BY DEF TypeOK, Crash
  <2> QED
    BY <2>1, TypeReturn, TypeParts DEF Crash
<1>2. TypeTables' /\ TypeJobs'
  BY TypeParts DEF Crash, TypeTables, TypeJobs, tables, jobs
<1> QED
  BY <1>1, <1>2 DEF TypeOK, TypeTables, TypeJobs, TypeLocal

(* Type correctness, with what the handlers have in hand: SchedulerProps'  *)
(* TypeOK holds in every state the scheduler can reach.                    *)
THEOREM TypeCorrect == Spec => [](TypeOK /\ WorkInv)
<1>1. Init => TypeOK /\ WorkInv
  <2> SUFFICES ASSUME Init PROVE TypeOK /\ WorkInv
    OBVIOUS
  <2> USE DEF Init
  <2>1. TypeTables
    BY DEF TypeTables, NoTargets
  <2>2. TypeJobs
    BY DEF TypeJobs
  <2>3. TypeLocal
    <3>1. NoReq \in Request
      BY DEF NoReq, Request
    <3>2. req \in [Session -> Request]
      BY <3>1
    <3>3. todo \in [Session -> Seq(Target)]
      OBVIOUS
    <3> QED
      BY <3>2, <3>3 DEF TypeLocal, Labels
  <2>4. WorkInv
    BY DEF WorkInv, JobsHaveTargets, HasWork, Exists
  <2> QED
    BY <2>1, <2>2, <2>3, <2>4, TypeParts
<1>2. TypeOK /\ WorkInv /\ [Next]_vars => (TypeOK /\ WorkInv)'
  <2> SUFFICES ASSUME TypeOK, WorkInv, [Next]_vars
               PROVE  TypeOK' /\ WorkInv'
    OBVIOUS
  <2>1. CASE UNCHANGED vars
    BY <2>1 DEF vars, tables, jobs, locking, local, TypeOK, WorkInv,
                JobsHaveTargets, HasWork, Exists
  <2>2. ASSUME NEW s \in Session, Begin(s)
        PROVE  TypeOK' /\ WorkInv'
    BY <2>2, TypeBegin, WorkBegin
  <2>3. ASSUME NEW s \in Session, Step(s)
        PROVE  TypeOK' /\ WorkInv'
    BY <2>3, TypeStep, WorkStep
  <2>4. ASSUME NEW s \in Session, Crash(s)
        PROVE  TypeOK' /\ WorkInv'
    BY <2>4, TypeCrash, WorkStep
  <2> QED
    BY <2>1, <2>2, <2>3, <2>4 DEF Next
<1> QED
  BY <1>1, <1>2, PTL DEF Spec

-----------------------------------------------------------------------------
(* Mutual exclusion *)

LEMMA LockStep ==
    ASSUME TypeOK, LockHeld, NEW s \in Session,
           Begin(s) \/ Step(s) \/ Crash(s)
    PROVE  LockHeld'
<1> USE DEF TypeOK, locking, Goto
<1>1. ASSUME \A z \in Session \ {s} : pc'[z] = pc[z],
             \/ lock' = lock \/ lock \in {NoSession, s},
             pc'[s] \in Locked => lock' = s
      PROVE  LockHeld'
  <2> SUFFICES ASSUME NEW z \in Session, pc'[z] \in Locked
               PROVE  lock' = z
    BY DEF LockHeld
  <2>1. CASE z = s
    BY <1>1, <2>1
  <2>2. CASE z # s
    <3>1. lock = z
      BY <1>1, <2>2 DEF LockHeld
    <3> QED
      BY <1>1, <2>2, <3>1
  <2> QED
    BY <2>1, <2>2
<1>2. CASE Begin(s)
  BY <1>1, <1>2
  DEF Begin, BeginEnqueue, BeginFlush, BeginDeleteEmptyQueue, BeginDeleteJobs,
      BeginRepeat, BeginDeleteJob, BeginOutput, BeginReconcile, BeginRecount,
      BeginAssign, Call, Locked
<1>3. CASE GetLock(s)
  BY <1>1, <1>3 DEF GetLock, CanLock
<1>4. CASE ReleaseLock(s)
  <2>1. lock = s
    BY <1>4 DEF ReleaseLock, LockHeld, Locked
  <2> QED
    BY <1>1, <1>4, <2>1 DEF ReleaseLock, Return, Locked
<1>5. CASE Crash(s)
  BY <1>1, <1>5 DEF Crash, Return, Locked
<1>6. CASE \/ LockTimeout(s) \/ EnqueueForeignKey(s) \/ UnlinkNoQueue(s)
           \/ WriteOutputNoQueue(s) \/ RowGone(s) \/ ReadynetConflict(s)
  BY <1>1, <1>6
  DEF LockTimeout, EnqueueForeignKey, UnlinkNoQueue, WriteOutputNoQueue,
      RowGone, ReadynetConflict, RaiseLocked, Return, Locked
<1>7. CASE \/ Unlink(s) \/ DeleteRow(s) \/ NextJob(s) \/ NoNextJob(s)
           \/ RemoveDir(s)
  BY <1>1, <1>7
  DEF Unlink, DeleteRow, NextJob, NoNextJob, RemoveDir, Return, Locked
<1>8. CASE \/ Enqueue(s) \/ Flush(s) \/ Recount(s) \/ DeleteQueue(s)
           \/ SelectQueue(s) \/ PopTarget(s) \/ HeatmapPut(s)
           \/ EndOfGroup(s) \/ CreateJob(s) \/ WriteOutput(s) \/ Finish(s)
           \/ Reload(s) \/ HeatmapPop(s) \/ Reconcile(s)
  <2>1. pc[s] \in Locked
    BY <1>8
    DEF Enqueue, Flush, Recount, DeleteQueue, SelectQueue, PopTarget,
        HeatmapPut, EndOfGroup, CreateJob, WriteOutput, Finish, Reload,
        HeatmapPop, Reconcile, Locked
  <2>2. lock = s
    BY <2>1 DEF LockHeld
  <2>3. lock' = lock /\ \A z \in Session \ {s} : pc'[z] = pc[z]
    BY <1>8
    DEF Enqueue, Flush, Recount, DeleteQueue, SelectQueue, PopTarget,
        HeatmapPut, EndOfGroup, CreateJob, WriteOutput, Finish, Reload,
        HeatmapPop, Reconcile, PopFirst
  <2> QED
    BY <1>1, <2>2, <2>3
<1> QED
  BY <1>2, <1>3, <1>4, <1>5, <1>6, <1>7, <1>8 DEF Step

(* Mutual exclusion (core.py:365-383): in every reachable state, and with  *)
(* any exceptions and kills, a handler between get_lock and release_lock   *)
(* owns the lock.                                                          *)
THEOREM MutualExclusion == Spec => []LockHeld
<1>1. Init => LockHeld
  BY DEF Init, LockHeld, Locked
<1>2. TypeOK /\ LockHeld /\ [Next]_vars => LockHeld'
  <2> SUFFICES ASSUME TypeOK, LockHeld, [Next]_vars
               PROVE  LockHeld'
    OBVIOUS
  <2>1. CASE UNCHANGED vars
    BY <2>1 DEF vars, locking, local, LockHeld
  <2>2. CASE Next
    BY <2>2, LockStep DEF Next
  <2> QED
    BY <2>1, <2>2
<1> QED
  BY <1>1, <1>2, TypeCorrect, PTL DEF Spec

-----------------------------------------------------------------------------
(* readynet is exactly the networks that may be assigned now *)

Readynets == ReadynetBacked /\ ReadynetComplete

(* steps that write no target, no readynet and no count *)
LEMMA ReadynetsKept ==
    ASSUME Readynets, UNCHANGED <<targets, readynet, heatmap>>
    PROVE  Readynets'
BY DEF Readynets, ReadynetBacked, ReadynetComplete, Hot, Count

LEMMA ReadynetsEnqueue ==
    ASSUME TypeOK, Readynets, NEW s \in Session, Enqueue(s)
    PROVE  Readynets'
<1> DEFINE q == req[s].queue
           ts == todo[s]
<1>1. /\ q \in Queue /\ ts \in Seq(Target)
      /\ targets' = [targets EXCEPT ![q] =
                        [t \in Target |-> targets[q][t] + Occurrences(ts, t)]]
      /\ readynet' = readynet \cup ({q} \X CoolNets(ts))
      /\ heatmap' = heatmap
  BY DEF Enqueue, TypeOK
<1>2. \A t \in Target : /\ Occurrences(ts, t) \in Nat
                        /\ Occurrences(ts, t) > 0 <=>
                              \E i \in DOMAIN ts : ts[i] = t
  BY <1>1, OccurrencesPositive
<1>3. /\ \A p \in Queue, t \in Target :
            targets'[p][t] = IF p = q THEN targets[q][t] + Occurrences(ts, t)
                                      ELSE targets[p][t]
      /\ \A p \in Queue, t \in Target : targets[p][t] \in Nat
  BY <1>1 DEF TypeOK
<1> HIDE DEF q, ts
<1>4. ReadynetBacked'
  <2> SUFFICES ASSUME NEW r \in readynet'
               PROVE  \E t \in Target : /\ hashval[t] = r[2]
                                        /\ targets'[r[1]][t] > 0
    BY DEF ReadynetBacked
  <2>1. CASE r \in readynet
    <3>1. PICK t \in Target : hashval[t] = r[2] /\ targets[r[1]][t] > 0
      BY <2>1 DEF Readynets, ReadynetBacked
    <3>2. r[1] \in Queue
      BY <2>1 DEF TypeOK
    <3> QED
      BY <1>2, <1>3, <3>1, <3>2
  <2>2. CASE r \in {q} \X CoolNets(ts)
    <3>1. r[1] = q /\ r[2] \in NetsOf(ts)
      BY <2>2 DEF CoolNets
    <3>2. PICK i \in DOMAIN ts : r[2] = hashval[ts[i]]
      BY <3>1 DEF NetsOf
    <3>3. ts[i] \in Target
      BY <1>1
    <3> QED
      BY <1>1, <1>2, <1>3, <3>1, <3>2, <3>3
  <2> QED
    BY <1>1, <2>1, <2>2
<1>5. ReadynetComplete'
  <2> SUFFICES ASSUME NEW p \in Queue, NEW t \in Target, targets'[p][t] > 0,
                      ~Hot(Count(heatmap', hashval[t]))
               PROVE  <<p, hashval[t]>> \in readynet'
    BY DEF ReadynetComplete, Hot
  <2>1. CASE targets[p][t] > 0
    BY <1>1, <2>1 DEF Readynets, ReadynetComplete
  <2>2. CASE ~(targets[p][t] > 0)
    <3>1. p = q /\ Occurrences(ts, t) > 0
      BY <1>2, <1>3, <2>2
    <3>2. hashval[t] \in NetsOf(ts)
      BY <1>2, <3>1 DEF NetsOf
    <3>3. hashval[t] \in CoolNets(ts)
      BY <1>1, <3>2 DEF CoolNets
    <3> QED
      BY <1>1, <3>1, <3>3
  <2> QED
    BY <2>1, <2>2
<1> QED
  BY <1>4, <1>5 DEF Readynets

(* flush and queue delete drop targets and readynets of one queue together *)
LEMMA ReadynetsDrop ==
    ASSUME TypeOK, Readynets, NEW q,
           targets' = [targets EXCEPT ![q] = NoTargets],
           readynet' = readynet \ ReadynetOf(q),
           UNCHANGED heatmap
    PROVE  Readynets'
<1>1. \A p \in Queue, t \in Target :
         targets'[p][t] = IF p = q THEN 0 ELSE targets[p][t]
  BY DEF TypeOK, NoTargets
<1>2. ReadynetBacked'
  <2> SUFFICES ASSUME NEW r \in readynet'
               PROVE  \E t \in Target : /\ hashval[t] = r[2]
                                        /\ targets'[r[1]][t] > 0
    BY DEF ReadynetBacked
  <2>1. r \in readynet /\ r[1] # q /\ r[1] \in Queue
    BY DEF ReadynetOf, TypeOK
  <2>2. PICK t \in Target : hashval[t] = r[2] /\ targets[r[1]][t] > 0
    BY <2>1 DEF Readynets, ReadynetBacked
  <2> QED
    BY <1>1, <2>1, <2>2
<1>3. ReadynetComplete'
  <2> SUFFICES ASSUME NEW p \in Queue, NEW t \in Target, targets'[p][t] > 0,
                      ~Hot(Count(heatmap', hashval[t]))
               PROVE  <<p, hashval[t]>> \in readynet'
    BY DEF ReadynetComplete, Hot
  <2>1. p # q /\ targets[p][t] > 0
    BY <1>1
  <2>2. <<p, hashval[t]>> \in readynet
    BY <2>1 DEF Readynets, ReadynetComplete
  <2> QED
    BY <2>1, <2>2 DEF ReadynetOf
<1> QED
  BY <1>2, <1>3 DEF Readynets

LEMMA ReadynetsRecount ==
    ASSUME TypeOK, Readynets, NEW s \in Session, Recount(s)
    PROVE  Readynets'
<1> DEFINE hot == {h \in Net : Hot(Count(heatmap, h))}
<1>1. /\ readynet' = {r \in readynet : r[2] \notin hot}
               \cup {r \in Queue \X (Net \ hot) : r[1] \in Holders(r[2])}
      /\ targets' = targets /\ heatmap' = heatmap
  BY DEF Recount, tables
<1>2. ReadynetBacked'
  BY <1>1 DEF Readynets, ReadynetBacked, Holders
<1>3. ReadynetComplete'
  <2> SUFFICES ASSUME NEW p \in Queue, NEW t \in Target, targets[p][t] > 0,
                      ~Hot(Count(heatmap, hashval[t]))
               PROVE  <<p, hashval[t]>> \in readynet'
    BY <1>1 DEF ReadynetComplete, Hot
  <2>1. hashval[t] \in Net \ hot /\ p \in Holders(hashval[t])
    BY DEF Holders
  <2> QED
    BY <1>1, <2>1
<1> QED
  BY <1>2, <1>3 DEF Readynets

LEMMA ReadynetsPopTarget ==
    ASSUME TypeOK, Readynets, NEW s \in Session, PopTarget(s)
    PROVE  Readynets'
<1> DEFINE q == req[s].queue
<1>1. PICK t \in Candidates(q) :
        /\ targets' = [targets EXCEPT ![q][t] = @ - 1]
        /\ readynet' = IF q \in Holders(hashval[t])'
                       THEN readynet ELSE readynet \ {<<q, hashval[t]>>}
  BY DEF PopTarget
<1> DEFINE h == hashval[t]
<1>2. t \in Target /\ q \in Queue /\ targets[q][t] > 0 /\ heatmap' = heatmap
  BY DEF Candidates, TypeOK, PopTarget
<1>3. \A p \in Queue, u \in Target :
         targets'[p][u] = IF p = q /\ u = t THEN targets[q][t] - 1
                                            ELSE targets[p][u]
  <2> HIDE DEF q
  <2> QED
    BY <1>1, <1>2, PopBag DEF TypeOK
<1>4. q \in Holders(h)' <=> \E u \in Target : hashval[u] = h /\ targets'[q][u] > 0
  BY <1>2 DEF Holders
<1> HIDE DEF q
<1>5. ReadynetBacked'
  <2> SUFFICES ASSUME NEW r \in readynet'
               PROVE  \E u \in Target : /\ hashval[u] = r[2]
                                        /\ targets'[r[1]][u] > 0
    BY DEF ReadynetBacked
  <2>1. r \in readynet /\ r \in Queue \X Net
    BY <1>1 DEF TypeOK
  <2>2. CASE r = <<q, h>>
    BY <1>1, <1>4, <2>2
  <2>3. CASE r # <<q, h>>
    <3>1. PICK u \in Target : hashval[u] = r[2] /\ targets[r[1]][u] > 0
      BY <2>1 DEF Readynets, ReadynetBacked
    <3>2. ~(r[1] = q /\ u = t)
      BY <2>1, <2>3, <3>1
    <3> QED
      BY <1>3, <2>1, <3>1, <3>2
  <2> QED
    BY <2>2, <2>3
<1>6. ReadynetComplete'
  <2> SUFFICES ASSUME NEW p \in Queue, NEW u \in Target, targets'[p][u] > 0,
                      ~Hot(Count(heatmap', hashval[u]))
               PROVE  <<p, hashval[u]>> \in readynet'
    BY DEF ReadynetComplete, Hot
  <2>1. targets[p][u] > 0
    BY <1>2, <1>3 DEF TypeOK
  <2>2. <<p, hashval[u]>> \in readynet
    BY <1>2, <2>1 DEF Readynets, ReadynetComplete
  <2>3. p = q /\ hashval[u] = h => q \in Holders(h)'
    BY <1>4
  <2> QED
    BY <1>1, <2>2, <2>3
<1> QED
  BY <1>5, <1>6 DEF Readynets

LEMMA ReadynetsHeatmapPut ==
    ASSUME TypeOK, WorkInv, Readynets, NEW s \in Session, HeatmapPut(s)
    PROVE  Readynets'
<1> DEFINE h == hashval[todo[s][Len(todo[s])]]
<1>1. /\ heatmap' = Incremented(heatmap, h)
      /\ readynet' = IF Hot(heatmap'[h]) THEN {r \in readynet : r[2] # h}
                                         ELSE readynet
      /\ targets' = targets
  BY DEF HeatmapPut
<1>2. h \in Net
  <2>1. todo[s] # <<>> /\ todo[s] \in Seq(Target)
    BY DEF HeatmapPut, WorkInv, HasWork, TypeOK
  <2> QED
    BY <2>1
<1>3. Count(heatmap, h) \in Int
  BY <1>2 DEF TypeOK, Count
<1> HIDE DEF h
<1>4. \A g : Count(heatmap', g) = IF g = h THEN Count(heatmap, h) + 1
                                           ELSE Count(heatmap, g)
  BY <1>1, UpsertCount DEF Incremented
<1>5. heatmap'[h] = Count(heatmap, h) + 1
  BY <1>1 DEF Incremented, Upsert
<1>6. ReadynetBacked'
  BY <1>1 DEF Readynets, ReadynetBacked
<1>7. ReadynetComplete'
  <2> SUFFICES ASSUME NEW p \in Queue, NEW t \in Target, targets[p][t] > 0,
                      ~Hot(Count(heatmap', hashval[t]))
               PROVE  <<p, hashval[t]>> \in readynet'
    BY <1>1 DEF ReadynetComplete, Hot
  <2>1. ~Hot(Count(heatmap, hashval[t]))
    BY <1>3, <1>4 DEF Hot
  <2>2. <<p, hashval[t]>> \in readynet
    BY <2>1 DEF Readynets, ReadynetComplete
  <2>3. hashval[t] = h => ~Hot(heatmap'[h])
    BY <1>4, <1>5
  <2> QED
    BY <1>1, <2>2, <2>3
<1> QED
  BY <1>6, <1>7 DEF Readynets

LEMMA ReadynetsPopFirst ==
    ASSUME TypeOK, NEW s \in Session, todo[s] # <<>>, Readynets, PopFirst(s)
    PROVE  Readynets'
<1> DEFINE h == hashval[todo[s][1]]
           after == Decremented(heatmap, h)
<1>1. /\ heatmap' \in {after, Collected(after)}
      /\ readynet' = IF Cools(h) THEN readynet \cup (Holders(h) \X {h})
                                 ELSE readynet
      /\ targets' = targets
  BY DEF PopFirst
<1>2. h \in Net
  BY DEF TypeOK
<1>3. /\ Count(heatmap, h) \in Int
      /\ after[h] = IF h \in DOMAIN heatmap THEN Count(heatmap, h) - 1 ELSE 1
      /\ h \notin DOMAIN heatmap => Count(heatmap, h) = 0
  BY <1>2 DEF TypeOK, Count, Decremented, Upsert
<1>4. \A g : Count(heatmap', g) = IF g = h THEN after[h] ELSE Count(heatmap, g)
  <2>1. \A g : Count(after, g) = IF g = h THEN after[h] ELSE Count(heatmap, g)
    <3> DEFINE c == IF h \in DOMAIN heatmap THEN heatmap[h] - 1 ELSE 1
    <3>1. after = Upsert(heatmap, h, c)
      BY DEF Decremented
    <3>2. after[h] = c
      BY <3>1 DEF Upsert
    <3> HIDE DEF c, after, h
    <3> QED
      BY <3>1, <3>2, UpsertCount
  <2>2. \A g : Count(Collected(after), g) = Count(after, g)
    <3> HIDE DEF after
    <3> QED
      BY CollectedCount
  <2> HIDE DEF after
  <2> QED
    BY <1>1, <2>1, <2>2
<1>5. Cools(h) <=> HotLevel > 0 /\ after[h] + 1 = HotLevel
  BY DEF Cools
<1> HIDE DEF after, h
<1>6. ReadynetBacked'
  BY <1>1 DEF Readynets, ReadynetBacked, Holders
<1>7. ReadynetComplete'
  <2> SUFFICES ASSUME NEW p \in Queue, NEW t \in Target, targets[p][t] > 0,
                      ~Hot(Count(heatmap', hashval[t]))
               PROVE  <<p, hashval[t]>> \in readynet'
    BY <1>1 DEF ReadynetComplete, Hot
  <2>1. CASE Hot(Count(heatmap, hashval[t]))
    <3>1. hashval[t] = h
      BY <1>4, <2>1
    <3>2. ~Hot(after[h]) /\ Hot(Count(heatmap, h))
      BY <1>4, <2>1, <3>1
    <3>3. Cools(h)
      BY <1>3, <1>5, <3>2 DEF Hot
    <3>4. p \in Holders(h)
      BY <3>1 DEF Holders
    <3> QED
      BY <1>1, <3>1, <3>3, <3>4
  <2>2. CASE ~Hot(Count(heatmap, hashval[t]))
    BY <1>1, <2>2 DEF Readynets, ReadynetComplete
  <2> QED
    BY <2>1, <2>2
<1> QED
  BY <1>6, <1>7 DEF Readynets

LEMMA ReadynetsStep ==
    ASSUME TypeOK, WorkInv, Readynets, NEW s \in Session,
           Begin(s) \/ Step(s) \/ Crash(s)
    PROVE  Readynets'
<1> USE DEF tables
<1>1. CASE Begin(s)
  BY <1>1, ReadynetsKept
  DEF Begin, BeginEnqueue, BeginFlush, BeginDeleteEmptyQueue, BeginDeleteJobs,
      BeginRepeat, BeginDeleteJob, BeginOutput, BeginReconcile, BeginRecount,
      BeginAssign
<1>2. CASE Crash(s)
  BY <1>2, ReadynetsKept DEF Crash
<1>3. CASE Enqueue(s)
  BY <1>3, ReadynetsEnqueue
<1>4. CASE Flush(s)
  BY <1>4, ReadynetsDrop DEF Flush
<1>5. CASE DeleteQueue(s)
  BY <1>5, ReadynetsDrop DEF DeleteQueue
<1>6. CASE Recount(s)
  BY <1>6, ReadynetsRecount
<1>7. CASE PopTarget(s)
  BY <1>7, ReadynetsPopTarget
<1>8. CASE HeatmapPut(s)
  BY <1>8, ReadynetsHeatmapPut
<1>9. CASE HeatmapPop(s) \/ Reconcile(s)
  <2>1. PopFirst(s) /\ todo[s] # <<>>
    BY <1>9 DEF HeatmapPop, Reconcile, WorkInv, HasWork
  <2> QED
    BY <2>1, ReadynetsPopFirst
<1>10. CASE \/ GetLock(s) \/ LockTimeout(s) \/ ReleaseLock(s)
            \/ EnqueueForeignKey(s) \/ Unlink(s) \/ UnlinkNoQueue(s)
            \/ DeleteRow(s) \/ NextJob(s) \/ NoNextJob(s) \/ RemoveDir(s)
            \/ SelectQueue(s) \/ EndOfGroup(s) \/ CreateJob(s)
            \/ WriteOutput(s) \/ WriteOutputNoQueue(s) \/ Finish(s)
            \/ Reload(s) \/ RowGone(s) \/ ReadynetConflict(s)
  BY <1>10, ReadynetsKept
  DEF GetLock, LockTimeout, ReleaseLock, EnqueueForeignKey, Unlink,
      UnlinkNoQueue, DeleteRow, NextJob, NoNextJob, RemoveDir, SelectQueue,
      EndOfGroup, CreateJob, WriteOutput, WriteOutputNoQueue, Finish, Reload,
      RowGone, ReadynetConflict, RaiseLocked
<1> QED
  BY <1>1, <1>2, <1>3, <1>4, <1>5, <1>6, <1>7, <1>8, <1>9, <1>10 DEF Step

LEMMA ReadynetsInvariant == Spec => []Readynets
<1>1. Init => Readynets
  BY DEF Init, Readynets, ReadynetBacked, ReadynetComplete, NoTargets
<1>2. TypeOK /\ WorkInv /\ Readynets /\ [Next]_vars => Readynets'
  <2> SUFFICES ASSUME TypeOK, WorkInv, Readynets, [Next]_vars
               PROVE  Readynets'
    OBVIOUS
  <2>1. CASE UNCHANGED vars
    BY <2>1, ReadynetsKept DEF vars, tables
  <2>2. CASE Next
    BY <2>2, ReadynetsStep DEF Next
  <2> QED
    BY <2>1, <2>2
<1> QED
  BY <1>1, <1>2, TypeCorrect, PTL DEF Spec

(* A drawn readynet always has a target (core.py:499-510): job_assign      *)
(* never unpacks an empty row, for any number of workers, exceptions left  *)
(* in any handler, and kills between any two transactions.                 *)
THEOREM EveryReadynetBacked == Spec => []ReadynetBacked
<1>1. Readynets => ReadynetBacked
  BY DEF Readynets
<1> QED
  BY <1>1, ReadynetsInvariant, PTL

(* No queued target is stranded (core.py:197-205, 420-421, 441-443,        *)
(* 513-521, 592-610): while the network of a queued target is under the    *)
(* hot level, the queue offers that network.                               *)
THEOREM NoTargetStranded == Spec => []ReadynetComplete
<1>1. Readynets => ReadynetComplete
  BY DEF Readynets
<1> QED
  BY <1>1, ReadynetsInvariant, PTL

-----------------------------------------------------------------------------
(* Which handler is where *)

AssignSteps == {"select", "pop_target", "heatmap_put", "create"}
OutputSteps == {"write", "finish", "reload"}

(* A session runs handlers of its own, is at a step of its handler, and    *)
(* has targets in hand only where the code fills its list.                 *)
Shape(s) ==
    /\ req[s].op # "none" => req[s].op \in Ops[s]
    /\ pc[s] = "get_lock" => req[s].op \notin {"none", "prune", "delete_job"}
    /\ pc[s] \in {"unlink", "delete_row"}
          => req[s].op \in {"delete_job", "prune", "delete_queue"}
    /\ pc[s] = "next_job" => req[s].op \in {"prune", "delete_queue"}
    /\ pc[s] \in {"rmdir", "delete_queue"} => req[s].op = "delete_queue"
    /\ pc[s] \in AssignSteps => req[s].op = "assign"
    /\ pc[s] \in OutputSteps => req[s].op = "output"
    /\ pc[s] = "reconcile" => req[s].op = "reconcile"
    /\ pc[s] = "heatmap_pop" => req[s].op \in {"output", "reconcile"}
    /\ req[s].op = "assign" =>
          /\ pc[s] \in AssignSteps \cup {"get_lock", "release_lock"}
          /\ pc[s] \in {"get_lock", "select", "release_lock"} => todo[s] = <<>>
    /\ pc[s] = "idle" => todo[s] = <<>> /\ req[s].op = "none"

Shapes == \A s \in Session : Shape(s)

(* A step changes the handler variables of its own session only. *)
LEMMA Alone ==
    ASSUME TypeOK, NEW s \in Session, Begin(s) \/ Step(s) \/ Crash(s)
    PROVE  \A z \in Session \ {s} :
              pc'[z] = pc[z] /\ req'[z] = req[z] /\ todo'[z] = todo[z]
<1> USE DEF TypeOK, Goto, Return
<1>1. CASE Begin(s)
  BY <1>1
  DEF Begin, BeginEnqueue, BeginFlush, BeginDeleteEmptyQueue, BeginDeleteJobs,
      BeginRepeat, BeginDeleteJob, BeginOutput, BeginReconcile, BeginRecount,
      BeginAssign, Call
<1>2. CASE Crash(s)
  BY <1>2 DEF Crash
<1>3. CASE \/ GetLock(s) \/ LockTimeout(s) \/ ReleaseLock(s)
           \/ Enqueue(s) \/ EnqueueForeignKey(s) \/ Flush(s) \/ Recount(s)
  BY <1>3
  DEF GetLock, LockTimeout, ReleaseLock, Enqueue, EnqueueForeignKey, Flush,
      Recount, RaiseLocked
<1>4. CASE \/ Unlink(s) \/ UnlinkNoQueue(s) \/ DeleteRow(s)
           \/ NextJob(s) \/ NoNextJob(s) \/ RemoveDir(s) \/ DeleteQueue(s)
  BY <1>4
  DEF Unlink, UnlinkNoQueue, DeleteRow, NextJob, NoNextJob, RemoveDir,
      DeleteQueue
<1>5. CASE \/ SelectQueue(s) \/ PopTarget(s) \/ HeatmapPut(s)
           \/ EndOfGroup(s) \/ CreateJob(s)
  BY <1>5 DEF SelectQueue, PopTarget, HeatmapPut, EndOfGroup, CreateJob
<1>6. CASE \/ WriteOutput(s) \/ WriteOutputNoQueue(s) \/ Finish(s)
           \/ Reload(s) \/ HeatmapPop(s) \/ Reconcile(s) \/ RowGone(s)
           \/ ReadynetConflict(s)
  BY <1>6
  DEF WriteOutput, WriteOutputNoQueue, Finish, Reload, HeatmapPop, Reconcile,
      PopFirst, RowGone, ReadynetConflict, RaiseLocked
<1> QED
  BY <1>1, <1>2, <1>3, <1>4, <1>5, <1>6 DEF Step

(* The request of a session keeps its kind when its job or queue is set. *)
LEMMA RequestKept ==
    ASSUME NEW r \in [Session -> Request], NEW s \in Session
    PROVE  /\ \A j : [r EXCEPT ![s].job = j][s].op = r[s].op
           /\ \A q : [r EXCEPT ![s].queue = q][s].op = r[s].op
<1>1. r[s] \in Request
  OBVIOUS
<1>2. ASSUME NEW j
      PROVE  [r EXCEPT ![s].job = j][s].op = r[s].op
  <2>1. [r EXCEPT ![s].job = j][s] = [r[s] EXCEPT !.job = j]
    OBVIOUS
  <2>2. [r[s] EXCEPT !.job = j].op = r[s].op
    BY <1>1 DEF Request
  <2> QED
    BY <2>1, <2>2
<1>3. ASSUME NEW q
      PROVE  [r EXCEPT ![s].queue = q][s].op = r[s].op
  <2>1. [r EXCEPT ![s].queue = q][s] = [r[s] EXCEPT !.queue = q]
    OBVIOUS
  <2>2. [r[s] EXCEPT !.queue = q].op = r[s].op
    BY <1>1 DEF Request
  <2> QED
    BY <2>1, <2>2
<1> QED
  BY <1>2, <1>3

(* the handler's kind survives the steps that fill in its job or queue *)
LEMMA RequestOp ==
    ASSUME TypeOK, NEW s \in Session,
           \/ req' = req
           \/ \E q : req' = [req EXCEPT ![s].queue = q]
           \/ \E j : req' = [req EXCEPT ![s].job = j]
    PROVE  req'[s].op = req[s].op
<1> req \in [Session -> Request]
  BY DEF TypeOK
<1>1. ASSUME NEW q, req' = [req EXCEPT ![s].queue = q]
      PROVE  req'[s].op = req[s].op
  <2>1. [req EXCEPT ![s].queue = q][s].op = req[s].op
    BY RequestKept
  <2> QED
    BY <1>1, <2>1
<1>2. ASSUME NEW j, req' = [req EXCEPT ![s].job = j]
      PROVE  req'[s].op = req[s].op
  <2>1. [req EXCEPT ![s].job = j][s].op = req[s].op
    BY RequestKept
  <2> QED
    BY <1>2, <2>1
<1> QED
  BY <1>1, <1>2

LEMMA ShapeStep ==
    ASSUME TypeOK, Shapes, NEW s \in Session, Begin(s) \/ Step(s) \/ Crash(s)
    PROVE  Shapes'
<1> USE DEF TypeOK, Goto, AssignSteps, OutputSteps
<1>0. Shape(s)
  BY DEF Shapes
<1>1. ASSUME Shape(s)'
      PROVE  Shapes'
  <2> HIDE DEF TypeOK, Goto, AssignSteps, OutputSteps
  <2> SUFFICES ASSUME NEW z \in Session
               PROVE  Shape(z)'
    BY DEF Shapes
  <2>1. CASE z = s
    BY <1>1, <2>1 DEF Shape
  <2>2. CASE z # s
    <3>1. pc'[z] = pc[z] /\ req'[z] = req[z] /\ todo'[z] = todo[z]
      BY Alone, <2>2
    <3>2. Shape(z)
      BY DEF Shapes
    <3> QED
      BY <3>1, <3>2 DEF Shape
  <2> QED
    BY <2>1, <2>2
<1>2. ASSUME Return(s)
      PROVE  Shape(s)'
  BY <1>2 DEF Return, Shape, NoReq
<1>3. CASE Begin(s)
  <2> USE <1>0, <1>1 DEF Call, Shape
  <2>2. CASE \E q \in Queue, ts \in Batch : BeginEnqueue(s, q, ts)
    BY <2>2 DEF BeginEnqueue
  <2>3. CASE \E q \in Queue : BeginFlush(s, q) \/ BeginDeleteEmptyQueue(s, q)
    BY <2>3 DEF BeginFlush, BeginDeleteEmptyQueue
  <2>4. CASE \E q \in Queue, op \in Op : BeginDeleteJobs(s, q, op)
    BY <2>4 DEF BeginDeleteJobs
  <2>5. CASE \E j \in Job : BeginRepeat(s, j) \/ BeginDeleteJob(s, j)
    BY <2>5 DEF BeginRepeat, BeginDeleteJob
  <2>6. CASE \E j \in Job : BeginOutput(s, j) \/ BeginReconcile(s, j)
    BY <2>6 DEF BeginOutput, BeginReconcile
  <2>7. CASE BeginRecount(s) \/ BeginAssign(s)
    BY <2>7 DEF BeginRecount, BeginAssign
  <2> QED
    BY <1>1, <1>3, <2>2, <2>3, <2>4, <2>5, <2>6, <2>7 DEF Begin
<1>4. CASE \/ LockTimeout(s) \/ ReleaseLock(s) \/ EnqueueForeignKey(s)
           \/ UnlinkNoQueue(s) \/ WriteOutputNoQueue(s) \/ RowGone(s)
           \/ ReadynetConflict(s) \/ Crash(s)
  BY <1>1, <1>2, <1>4
  DEF LockTimeout, ReleaseLock, EnqueueForeignKey, UnlinkNoQueue,
      WriteOutputNoQueue, RowGone, ReadynetConflict, RaiseLocked, Crash
<1>5. CASE GetLock(s)
  <2>1. /\ FirstStep(req[s].op) \in AssignSteps <=> req[s].op = "assign"
        /\ req[s].op = "assign" => FirstStep(req[s].op) = "select"
        /\ FirstStep(req[s].op) \in OutputSteps => req[s].op = "output"
        /\ FirstStep(req[s].op) = "reconcile" => req[s].op = "reconcile"
        /\ FirstStep(req[s].op) = "delete_queue" => req[s].op = "delete_queue"
        /\ FirstStep(req[s].op) \notin
              {"heatmap_pop", "unlink", "delete_row", "next_job", "rmdir",
               "get_lock"}
        /\ FirstStep(req[s].op) = "idle"
              => req[s].op \notin Op \/ req[s].op \in {"prune", "delete_job"}
    BY DEF FirstStep, Op
  <2>2. req[s].op \in Op \cup {"none"}
    BY DEF Request
  <2>3. pc'[s] = FirstStep(req[s].op) /\ req' = req /\ todo' = todo
        /\ pc[s] = "get_lock"
    BY <1>5 DEF GetLock
  <2> HIDE DEF Op
  <2> QED
    BY <1>0, <1>1, <2>1, <2>2, <2>3 DEF Shape
<1>6. CASE Enqueue(s) \/ Flush(s) \/ Recount(s) \/ Unlink(s) \/ DeleteQueue(s)
  BY <1>0, <1>1, <1>6
  DEF Enqueue, Flush, Recount, Unlink, DeleteQueue, Shape
<1>7. CASE DeleteRow(s) \/ NoNextJob(s) \/ RemoveDir(s)
  BY <1>0, <1>1, <1>2, <1>7 DEF DeleteRow, NoNextJob, RemoveDir, Shape
<1>8. CASE NextJob(s)
  <2>1. CASE Return(s)
    BY <1>1, <1>2, <2>1
  <2>2. CASE \E j \in left[s] : /\ req' = [req EXCEPT ![s].job = j]
                                /\ Goto(s, "unlink")
                                /\ UNCHANGED todo
    <3>1. req'[s].op = req[s].op
      BY <2>2, RequestKept
    <3> QED
      BY <1>0, <1>1, <1>8, <2>2, <3>1 DEF NextJob, Shape
  <2> QED
    BY <1>8, <2>1, <2>2 DEF NextJob
<1>9. CASE SelectQueue(s)
  <2>1. req'[s].op = req[s].op
    BY <1>9, RequestOp DEF SelectQueue
  <2> QED
    BY <1>0, <1>1, <1>9, <2>1 DEF SelectQueue, Shape
<1>10. CASE PopTarget(s)
  <2>1. /\ pc[s] = "pop_target" /\ req' = req
        /\ pc' = pc \/ pc' = [pc EXCEPT ![s] = "heatmap_put"]
    BY <1>10 DEF PopTarget
  <2> QED
    BY <1>0, <1>1, <2>1 DEF Shape
<1>11. CASE HeatmapPut(s) \/ EndOfGroup(s)
  BY <1>0, <1>1, <1>11 DEF HeatmapPut, EndOfGroup, Shape
<1>12. CASE CreateJob(s)
  BY <1>0, <1>1, <1>12, RequestKept DEF CreateJob, Shape
<1>13. CASE WriteOutput(s) \/ Finish(s) \/ Reload(s)
  BY <1>0, <1>1, <1>13 DEF WriteOutput, Finish, Reload, Shape
<1>14. CASE HeatmapPop(s) \/ Reconcile(s)
  BY <1>0, <1>1, <1>14 DEF HeatmapPop, Reconcile, PopFirst, Shape
<1> QED
  BY <1>3, <1>4, <1>5, <1>6, <1>7, <1>8, <1>9, <1>10, <1>11, <1>12, <1>13,
     <1>14 DEF Step

LEMMA ShapesKept == Spec => []Shapes
<1>1. Init => Shapes
  BY DEF Init, Shapes, Shape, NoReq, AssignSteps, OutputSteps
<1>2. TypeOK /\ Shapes /\ [Next]_vars => Shapes'
  <2> SUFFICES ASSUME TypeOK, Shapes, [Next]_vars
               PROVE  Shapes'
    OBVIOUS
  <2>1. CASE UNCHANGED vars
    BY <2>1 DEF vars, local, Shapes, Shape
  <2>2. CASE Next
    BY <2>2, ShapeStep DEF Next
  <2> QED
    BY <2>1, <2>2
<1> QED
  BY <1>1, <1>2, TypeCorrect, PTL DEF Spec

-----------------------------------------------------------------------------
(* No network gets hotter than the hot level, and none that is hot is      *)
(* offered *)

LastOf(ts) == ts[Len(ts)]

(* The target an assign has just taken out of its queue is of a network    *)
(* that can take it.                                                       *)
PutCool ==
    \A s \in Session : pc[s] = "heatmap_put" =>
        ~Hot(Count(heatmap, hashval[LastOf(todo[s])]))

HeatBounded ==
    HotLevel > 0 => \A h \in Net : Count(heatmap, h) <= HotLevel

CoolInv == ReadynetCool /\ HeatBounded /\ PutCool

LEMMA CountInt ==
    ASSUME TypeOK, NEW h
    PROVE  Count(heatmap, h) \in Int
BY DEF TypeOK, Count

(* what one heatmap_pop does to the counts (core.py:428-445): down by one, *)
(* or a row that counts one                                                *)
LEMMA PopCount ==
    ASSUME TypeOK, NEW s \in Session, todo[s] # <<>>, PopFirst(s)
    PROVE  LET h == hashval[todo[s][1]] IN
           /\ h \in Net
           /\ \A g : g # h => Count(heatmap', g) = Count(heatmap, g)
           /\ Count(heatmap', h) = IF h \in DOMAIN heatmap
                                   THEN Count(heatmap, h) - 1 ELSE 1
           /\ Cools(h) <=> HotLevel > 0 /\ Count(heatmap', h) + 1 = HotLevel
<1> DEFINE h == hashval[todo[s][1]]
           after == Decremented(heatmap, h)
           c == IF h \in DOMAIN heatmap THEN heatmap[h] - 1 ELSE 1
<1>1. heatmap' \in {after, Collected(after)}
  BY DEF PopFirst
<1>2. h \in Net
  BY DEF TypeOK
<1>3. after = Upsert(heatmap, h, c) /\ after[h] = c
  BY DEF Decremented, Upsert
<1>4. \A g : Count(after, g) = IF g = h THEN c ELSE Count(heatmap, g)
  <2> HIDE DEF c, h, after
  <2> QED
    BY <1>3, UpsertCount
<1>5. \A g : Count(Collected(after), g) = Count(after, g)
  <2> HIDE DEF after
  <2> QED
    BY CollectedCount
<1>6. \A g : Count(heatmap', g) = IF g = h THEN c ELSE Count(heatmap, g)
  <2> HIDE DEF after, c, h
  <2> QED
    BY <1>1, <1>4, <1>5
<1>7. Cools(h) <=> HotLevel > 0 /\ c + 1 = HotLevel
  BY <1>3 DEF Cools
<1>8. c = IF h \in DOMAIN heatmap THEN Count(heatmap, h) - 1 ELSE 1
  BY DEF Count
<1> HIDE DEF c, h
<1> QED
  BY <1>2, <1>6, <1>7, <1>8 DEF h

(* what heatmap_put does to the counts (core.py:408-423) *)
LEMMA PutCount ==
    ASSUME TypeOK, WorkInv, NEW s \in Session, HeatmapPut(s)
    PROVE  LET h == hashval[LastOf(todo[s])] IN
           /\ h \in Net
           /\ \A g : Count(heatmap', g) = IF g = h THEN Count(heatmap, h) + 1
                                                   ELSE Count(heatmap, g)
           /\ heatmap'[h] = Count(heatmap', h)
<1> DEFINE h == hashval[LastOf(todo[s])]
<1>1. heatmap' = Upsert(heatmap, h, Count(heatmap, h) + 1)
  BY DEF HeatmapPut, Incremented, LastOf
<1>2. h \in Net
  <2>1. todo[s] # <<>> /\ todo[s] \in Seq(Target)
    BY DEF HeatmapPut, WorkInv, HasWork, TypeOK
  <2> QED
    BY <2>1 DEF LastOf
<1>3. heatmap'[h] = Count(heatmap, h) + 1
  BY <1>1 DEF Upsert
<1> HIDE DEF h
<1>4. \A g : Count(heatmap', g) = IF g = h THEN Count(heatmap, h) + 1
                                           ELSE Count(heatmap, g)
  BY <1>1, UpsertCount
<1> QED
  BY <1>2, <1>3, <1>4 DEF h

(* a step that changes no count, and offers nothing that is hot *)
LEMMA CoolKept ==
    ASSUME CoolInv, UNCHANGED heatmap,
           \A r \in readynet' : r \in readynet \/ ~Hot(Count(heatmap, r[2])),
           \A z \in Session : pc'[z] = "heatmap_put" =>
              /\ pc[z] = "heatmap_put"
              /\ todo'[z] = todo[z]
    PROVE  CoolInv'
BY DEF CoolInv, ReadynetCool, HeatBounded, PutCool, Hot, Count

LEMMA CoolStep ==
    ASSUME TypeOK, WorkInv, LockHeld, CoolInv, NEW s \in Session,
           Begin(s) \/ Step(s) \/ Crash(s),
           HeatmapPop(s) \/ Reconcile(s) =>
              HotLevel # 1 \/ hashval[todo[s][1]] \in DOMAIN heatmap
    PROVE  CoolInv'
<1> USE DEF tables
<1>0. /\ TypeOK /\ pc \in [Session -> Labels]
      /\ \A z \in Session \ {s} : pc'[z] = pc[z] /\ todo'[z] = todo[z]
  BY Alone DEF TypeOK
<1>1. ASSUME UNCHANGED <<readynet, heatmap>>, pc'[s] # "heatmap_put"
      PROVE  CoolInv'
  BY <1>0, <1>1, CoolKept
<1>2. CASE Begin(s)
  BY <1>0, <1>1, <1>2
  DEF Begin, BeginEnqueue, BeginFlush, BeginDeleteEmptyQueue, BeginDeleteJobs,
      BeginRepeat, BeginDeleteJob, BeginOutput, BeginReconcile, BeginRecount,
      BeginAssign, Call, Goto
<1>3. CASE \/ LockTimeout(s) \/ ReleaseLock(s) \/ EnqueueForeignKey(s)
           \/ UnlinkNoQueue(s) \/ WriteOutputNoQueue(s) \/ RowGone(s)
           \/ ReadynetConflict(s) \/ Crash(s)
  BY <1>0, <1>1, <1>3
  DEF LockTimeout, ReleaseLock, EnqueueForeignKey, UnlinkNoQueue,
      WriteOutputNoQueue, RowGone, ReadynetConflict, RaiseLocked, Crash,
      Return, Goto
<1>4. CASE GetLock(s)
  BY <1>0, <1>1, <1>4 DEF GetLock, FirstStep, Goto
<1>5. CASE \/ Unlink(s) \/ DeleteRow(s) \/ NextJob(s) \/ NoNextJob(s)
           \/ RemoveDir(s)
  BY <1>0, <1>1, <1>5
  DEF Unlink, DeleteRow, NextJob, NoNextJob, RemoveDir, Return, Goto
<1>6. CASE \/ SelectQueue(s) \/ EndOfGroup(s) \/ CreateJob(s)
           \/ WriteOutput(s) \/ Finish(s) \/ Reload(s)
  BY <1>0, <1>1, <1>6
  DEF SelectQueue, EndOfGroup, CreateJob, WriteOutput, Finish, Reload, Goto
<1>7. CASE Enqueue(s)
  <2>1. /\ \A r \in readynet' : r \in readynet \/ ~Hot(Count(heatmap, r[2]))
        /\ pc'[s] = "release_lock" /\ UNCHANGED heatmap
    BY <1>0, <1>7 DEF Enqueue, CoolNets, Goto
  <2> QED
    BY <1>0, <2>1, CoolKept
<1>8. CASE Flush(s) \/ DeleteQueue(s)
  <2>1. /\ readynet' \subseteq readynet
        /\ pc'[s] = "release_lock" /\ UNCHANGED heatmap
    BY <1>0, <1>8 DEF Flush, DeleteQueue, Goto
  <2> QED
    BY <1>0, <2>1, CoolKept
<1>9. CASE Recount(s)
  <2>1. /\ \A r \in readynet' : r \in readynet \/ ~Hot(Count(heatmap, r[2]))
        /\ pc'[s] = "release_lock" /\ UNCHANGED heatmap
    BY <1>0, <1>9 DEF Recount, Goto
  <2> QED
    BY <1>0, <2>1, CoolKept
<1>10. CASE PopTarget(s)
  <2>1. PICK t \in Candidates(req[s].queue) :
          /\ readynet' = IF req[s].queue \in Holders(hashval[t])'
                         THEN readynet
                         ELSE readynet \ {<<req[s].queue, hashval[t]>>}
          /\ IF t \in Excluded
             THEN UNCHANGED <<todo, pc>>
             ELSE /\ todo' = [todo EXCEPT ![s] = Append(@, t)]
                  /\ Goto(s, "heatmap_put")
    BY <1>10 DEF PopTarget
  <2>2. /\ readynet' \subseteq readynet /\ UNCHANGED heatmap
        /\ pc[s] = "pop_target"
    BY <1>10, <2>1 DEF PopTarget
  <2>3. CASE t \in Excluded
    BY <1>0, <2>1, <2>2, <2>3, CoolKept
  <2>4. CASE t \notin Excluded
    <3>1. ReadynetCool' /\ HeatBounded'
      BY <2>2 DEF CoolInv, ReadynetCool, HeatBounded, Hot, Count
    <3>2. ~Hot(Count(heatmap, hashval[t]))
      BY DEF Candidates, CoolInv, ReadynetCool
    <3>3. LastOf(todo'[s]) = t
      <4>1. todo[s] \in Seq(Target) /\ t \in Target
        BY DEF TypeOK, Candidates
      <4>2. todo'[s] = Append(todo[s], t)
        BY <1>0, <2>1, <2>4 DEF TypeOK
      <4> QED
        BY <4>1, <4>2, AppendProperties DEF LastOf
    <3>4. PutCool'
      BY <1>0, <2>2, <3>2, <3>3 DEF CoolInv, PutCool, Hot, Count
    <3> QED
      BY <3>1, <3>4 DEF CoolInv
  <2> QED
    BY <2>3, <2>4
<1>11. ASSUME pc[s] \in Locked, pc'[s] # "heatmap_put"
       PROVE  PutCool'
  <2>1. \A z \in Session \ {s} : pc'[z] # "heatmap_put"
    BY <1>0, <1>11 DEF LockHeld, Locked
  <2> QED
    BY <1>11, <2>1 DEF PutCool
<1>12. CASE HeatmapPut(s)
  <2> DEFINE h == hashval[LastOf(todo[s])]
  <2>1. pc[s] = "heatmap_put" /\ pc'[s] = "pop_target"
    BY <1>0, <1>12 DEF HeatmapPut, Goto
  <2>2. PutCool'
    BY <1>11, <2>1 DEF Locked
  <2>3. /\ h \in Net /\ heatmap'[h] = Count(heatmap', h)
        /\ \A g : Count(heatmap', g) = IF g = h THEN Count(heatmap, h) + 1
                                                ELSE Count(heatmap, g)
    BY <1>12, PutCount
  <2>4. readynet' = IF Hot(heatmap'[h]) THEN {r \in readynet : r[2] # h}
                                        ELSE readynet
    BY <1>12 DEF HeatmapPut, LastOf
  <2>5. ~Hot(Count(heatmap, h)) /\ Count(heatmap, h) \in Int
    BY <2>1, CountInt DEF CoolInv, PutCool
  <2> HIDE DEF h
  <2>6. ReadynetCool'
    BY <2>3, <2>4 DEF CoolInv, ReadynetCool, Hot
  <2>7. HeatBounded'
    BY <2>3, <2>5 DEF CoolInv, HeatBounded, Hot
  <2> QED
    BY <2>2, <2>6, <2>7 DEF CoolInv
<1>13. CASE HeatmapPop(s) \/ Reconcile(s)
  <2> DEFINE h == hashval[todo[s][1]]
  <2>1. /\ PopFirst(s) /\ todo[s] # <<>>
        /\ pc[s] \in {"heatmap_pop", "reconcile"}
    BY <1>13 DEF HeatmapPop, Reconcile, WorkInv, HasWork
  <2>2. pc'[s] # "heatmap_put"
    BY <1>0, <2>1 DEF PopFirst, Goto
  <2>3. PutCool'
    BY <1>11, <2>1, <2>2 DEF Locked
  <2>4. /\ h \in Net
        /\ \A g : g # h => Count(heatmap', g) = Count(heatmap, g)
        /\ Count(heatmap', h) = IF h \in DOMAIN heatmap
                                THEN Count(heatmap, h) - 1 ELSE 1
        /\ Cools(h) <=> HotLevel > 0 /\ Count(heatmap', h) + 1 = HotLevel
    BY <2>1, PopCount
  <2>5. readynet' = IF Cools(h) THEN readynet \cup (Holders(h) \X {h})
                                ELSE readynet
    BY <2>1 DEF PopFirst
  <2>6. HotLevel # 1 \/ h \in DOMAIN heatmap
    BY <1>13
  <2>7. Count(heatmap, h) \in Int /\ \A g : Count(heatmap, g) \in Int
    BY CountInt
  <2> HIDE DEF h
  <2>8. HeatBounded'
    BY <2>4, <2>7 DEF CoolInv, HeatBounded
  <2>9. ReadynetCool'
    <3> SUFFICES ASSUME NEW r \in readynet'
                 PROVE  ~Hot(Count(heatmap', r[2]))
      BY DEF ReadynetCool, Hot
    <3>1. CASE r \in readynet
      <4>1. ~Hot(Count(heatmap, r[2]))
        BY <3>1 DEF CoolInv, ReadynetCool
      <4> QED
        BY <2>4, <2>6, <2>7, <4>1 DEF Hot
    <3>2. CASE r \notin readynet
      <4>1. r[2] = h /\ Cools(h)
        BY <2>5, <3>2
      <4> QED
        BY <2>4, <2>7, <4>1 DEF Hot
    <3> QED
      BY <3>1, <3>2
  <2> QED
    BY <2>3, <2>8, <2>9 DEF CoolInv
<1> QED
  BY <1>2, <1>3, <1>4, <1>5, <1>6, <1>7, <1>8, <1>9, <1>10, <1>12, <1>13
  DEF Step

LEMMA CoolInit == Init => CoolInv
BY DEF Init, CoolInv, ReadynetCool, HeatBounded, PutCool, Count

LEMMA CoolStutter ==
    ASSUME CoolInv, UNCHANGED vars
    PROVE  CoolInv'
BY DEF vars, tables, local, CoolInv, ReadynetCool, HeatBounded, PutCool, Hot,
       Count

(* No queue offers a network that has reached the hot level                *)
(* (core.py:197-205, 420-421, 441-443, 592-610), for any number of         *)
(* workers, with exceptions and kills; the level 1 is the one exception,   *)
(* where the row that a pop inserts for a network without one is hot.      *)
THEOREM HotNeverOffered ==
    ASSUME HotLevel # 1
    PROVE  Spec => []ReadynetCool
<1>1. TypeOK /\ WorkInv /\ LockHeld /\ CoolInv /\ [Next]_vars => CoolInv'
  BY CoolStep, CoolStutter DEF Next
<1>2. CoolInv => ReadynetCool
  BY DEF CoolInv
<1> QED
  BY <1>1, <1>2, CoolInit, TypeCorrect, MutualExclusion, PTL DEF Spec

-----------------------------------------------------------------------------
(* Jobs are closed once when one process closes them *)

Closing == {"output", "reconcile"}

(* outputs and reconciles are handled by one process, as in the shipped    *)
(* unit with its single worker (extra/sner-server.service)                 *)
OneCloser(w) == \A s \in Session \ {w} : Ops[s] \cap Closing = {}

(* A handler that has yet to close its job finds the job open, and a       *)
(* reconcile holds the targets of the job, which it read before the lock.  *)
StillOpen(s) ==
    /\ req[s].op \in Closing
    /\ pc[s] \in {"get_lock", "write", "finish", "reconcile"}
    => /\ req[s].job \in Job
       /\ jobState[req[s].job] \in {"running", "deleted"}
       /\ (req[s].op = "reconcile" /\ jobState[req[s].job] = "running"
             => todo[s] = jobTargets[req[s].job])

OpenJobs == \A s \in Session : StillOpen(s)

(* how a step changes the rows of jobs *)
JobSame(j) == jobState'[j] = jobState[j] /\ jobTargets'[j] = jobTargets[j]
JobDropped(j) ==
    Exists(j) /\ jobState'[j] = "deleted" /\ jobTargets'[j] = <<>>
JobCreated(s, j) ==
    /\ CreateJob(s)
    /\ jobState[j] = "unused" /\ jobState'[j] = "running"
    /\ jobTargets'[j] = todo[s]
JobClosed(s, j) ==
    /\ Finish(s) \/ Reconcile(s)
    /\ j = req[s].job /\ Exists(j)
    /\ jobState'[j] \in {"finished", "reconciled"}
    /\ jobTargets'[j] = jobTargets[j]

LEMMA JobRows ==
    ASSUME TypeOK, NEW s \in Session, Begin(s) \/ Step(s) \/ Crash(s),
           NEW j \in Job
    PROVE  JobSame(j) \/ JobDropped(j) \/ JobCreated(s, j) \/ JobClosed(s, j)
<1> USE DEF TypeOK, jobs
<1>1. ASSUME UNCHANGED jobs
      PROVE  JobSame(j)
  BY <1>1 DEF JobSame
<1>2. ASSUME NEW js, DropRows(js), js \subseteq {i \in Job : Exists(i)}
      PROVE  JobSame(j) \/ JobDropped(j)
  BY <1>2 DEF DropRows, JobSame, JobDropped
<1>3. CASE Begin(s)
  BY <1>1, <1>3
  DEF Begin, BeginEnqueue, BeginFlush, BeginDeleteEmptyQueue, BeginDeleteJobs,
      BeginRepeat, BeginDeleteJob, BeginOutput, BeginReconcile, BeginRecount,
      BeginAssign
<1>4. CASE \/ LockTimeout(s) \/ ReleaseLock(s) \/ EnqueueForeignKey(s)
           \/ UnlinkNoQueue(s) \/ WriteOutputNoQueue(s) \/ RowGone(s)
           \/ ReadynetConflict(s) \/ Crash(s) \/ GetLock(s)
  BY <1>1, <1>4
  DEF LockTimeout, ReleaseLock, EnqueueForeignKey, UnlinkNoQueue, GetLock,
      WriteOutputNoQueue, RowGone, ReadynetConflict, RaiseLocked, Crash
<1>5. CASE \/ Enqueue(s) \/ Flush(s) \/ Recount(s) \/ Unlink(s)
           \/ NextJob(s) \/ NoNextJob(s) \/ RemoveDir(s)
           \/ SelectQueue(s) \/ PopTarget(s) \/ HeatmapPut(s)
           \/ EndOfGroup(s) \/ WriteOutput(s) \/ Reload(s)
  BY <1>1, <1>5
  DEF Enqueue, Flush, Recount, Unlink, NextJob, NoNextJob, RemoveDir,
      SelectQueue, PopTarget, HeatmapPut, EndOfGroup, WriteOutput, Reload
<1>6. CASE HeatmapPop(s)
  BY <1>6 DEF HeatmapPop, PopFirst, JobSame
<1>7. CASE DeleteRow(s) \/ DeleteQueue(s)
  BY <1>2, <1>7 DEF DeleteRow, DeleteQueue
<1>8. CASE CreateJob(s)
  BY <1>8 DEF CreateJob, Rows, JobSame, JobCreated
<1>9. CASE Finish(s)
  BY <1>9 DEF Finish, JobSame, JobClosed
<1>10. CASE Reconcile(s)
  BY <1>10 DEF Reconcile, PopFirst, JobSame, JobClosed
<1> QED
  BY <1>3, <1>4, <1>5, <1>6, <1>7, <1>8, <1>9, <1>10 DEF Step

LEMMA OpenStep ==
    ASSUME TypeOK, Shapes, NEW w \in Session, OneCloser(w), OpenJobs,
           NEW s \in Session, Begin(s) \/ Step(s) \/ Crash(s)
    PROVE  OpenJobs'
<1> USE DEF TypeOK
<1>1. \A z \in Session : req[z].op \in Closing => z = w
  BY DEF Shapes, Shape, OneCloser, Closing
<1>2. \A j \in Job : \/ JobSame(j) \/ JobDropped(j) \/ JobCreated(s, j)
                      \/ JobClosed(s, j)
  BY JobRows
<1>3. ASSUME NEW z \in Session, z # s
      PROVE  StillOpen(z)'
  <2> SUFFICES ASSUME req[z].op \in Closing,
                      pc[z] \in {"get_lock", "write", "finish", "reconcile"}
               PROVE  /\ req[z].job \in Job
                      /\ jobState'[req[z].job] \in {"running", "deleted"}
                      /\ (/\ req[z].op = "reconcile"
                          /\ jobState'[req[z].job] = "running"
                          => todo[z] = jobTargets'[req[z].job])
    BY <1>3, Alone DEF StillOpen
  <2> DEFINE j == req[z].job
  <2>1. /\ j \in Job /\ jobState[j] \in {"running", "deleted"}
        /\ (req[z].op = "reconcile" /\ jobState[j] = "running"
                => todo[z] = jobTargets[j])
    BY DEF OpenJobs, StillOpen
  <2>2. ~JobCreated(s, j)
    BY <2>1 DEF JobCreated
  <2>3. ~JobClosed(s, j)
    <3>1. s # w
      BY <1>1, <1>3
    <3>2. req[s].op \notin Closing
      BY <1>1, <3>1
    <3>3. pc[s] \notin {"finish", "reconcile"}
      BY <3>2 DEF Shapes, Shape, OutputSteps, Closing
    <3> QED
      BY <3>3 DEF JobClosed, Finish, Reconcile
  <2>4. JobSame(j) \/ JobDropped(j)
    BY <1>2, <2>1, <2>2, <2>3
  <2> HIDE DEF j
  <2>5. jobState'[j] \in {"running", "deleted"}
    BY <2>1, <2>4 DEF JobSame, JobDropped
  <2>6. jobState'[j] = "running" => JobSame(j)
    BY <2>4 DEF JobDropped
  <2>7. req[z].op = "reconcile" /\ jobState'[j] = "running"
           => todo[z] = jobTargets'[j]
    BY <2>1, <2>6 DEF JobSame
  <2> QED
    BY <2>1, <2>5, <2>7 DEF j
<1>4. StillOpen(s)'
  <2> USE DEF StillOpen, Closing, Goto
  <2>1. CASE Begin(s)
    <3>1. CASE \E q \in Queue, ts \in Batch : BeginEnqueue(s, q, ts)
      BY <3>1 DEF BeginEnqueue, Call
    <3>2. CASE \E q \in Queue : BeginFlush(s, q) \/ BeginDeleteEmptyQueue(s, q)
      BY <3>2 DEF BeginFlush, BeginDeleteEmptyQueue, Call
    <3>3. CASE \E q \in Queue, op \in Op : BeginDeleteJobs(s, q, op)
      BY <3>3 DEF BeginDeleteJobs, Call
    <3>4. CASE \E j \in Job : BeginRepeat(s, j) \/ BeginDeleteJob(s, j)
      BY <3>4 DEF BeginRepeat, BeginDeleteJob, Call
    <3>5. CASE \E j \in Job : BeginOutput(s, j) \/ BeginReconcile(s, j)
      BY <3>5 DEF BeginOutput, BeginReconcile, Call, jobs
    <3>6. CASE BeginRecount(s) \/ BeginAssign(s)
      BY <3>6 DEF BeginRecount, BeginAssign, Call
    <3> QED
      BY <2>1, <3>1, <3>2, <3>3, <3>4, <3>5, <3>6 DEF Begin
  <2>2. CASE GetLock(s)
    BY <2>2 DEF GetLock, OpenJobs, jobs
  <2>3. CASE WriteOutput(s)
    BY <2>3 DEF WriteOutput, OpenJobs, jobs, Shapes, Shape, OutputSteps
  <2>4. CASE SelectQueue(s) \/ CreateJob(s) \/ PopTarget(s)
    <3>1. pc[s] \in AssignSteps
      BY <2>4 DEF SelectQueue, CreateJob, PopTarget, AssignSteps
    <3>2. req[s].op = "assign"
      BY <3>1 DEF Shapes, Shape
    <3>3. req'[s].op = req[s].op
      BY <2>4, RequestOp DEF SelectQueue, CreateJob, PopTarget
    <3> QED
      BY <3>2, <3>3
  <2>5. CASE NextJob(s)
    BY <2>5 DEF NextJob, Return, NoReq
  <2>6. CASE RemoveDir(s)
    BY <2>6 DEF RemoveDir, Return, NoReq, Shapes, Shape
  <2>7. CASE \/ LockTimeout(s) \/ ReleaseLock(s) \/ EnqueueForeignKey(s)
             \/ UnlinkNoQueue(s) \/ WriteOutputNoQueue(s) \/ RowGone(s)
             \/ ReadynetConflict(s) \/ Crash(s)
    BY <2>7
    DEF LockTimeout, ReleaseLock, EnqueueForeignKey, UnlinkNoQueue,
        WriteOutputNoQueue, RowGone, ReadynetConflict, RaiseLocked, Crash,
        Return, NoReq
  <2>8. CASE \/ Enqueue(s) \/ Flush(s) \/ Recount(s) \/ DeleteQueue(s)
             \/ Unlink(s) \/ DeleteRow(s) \/ NoNextJob(s)
    BY <2>8
    DEF Enqueue, Flush, Recount, DeleteQueue, Unlink, DeleteRow, NoNextJob,
        Return, NoReq
  <2>9. CASE \/ HeatmapPut(s) \/ EndOfGroup(s) \/ Finish(s) \/ Reload(s)
             \/ HeatmapPop(s) \/ Reconcile(s)
    BY <2>9
    DEF HeatmapPut, EndOfGroup, Finish, Reload, HeatmapPop, Reconcile, PopFirst
  <2> QED
    BY <2>1, <2>2, <2>3, <2>4, <2>5, <2>6, <2>7, <2>8, <2>9 DEF Step
<1> QED
  BY <1>3, <1>4 DEF OpenJobs

LEMMA OpenKept ==
    ASSUME NEW w \in Session, OneCloser(w)
    PROVE  Spec => []OpenJobs
<1>1. Init => OpenJobs
  BY DEF Init, OpenJobs, StillOpen, NoReq, Closing
<1>2. TypeOK /\ Shapes /\ OpenJobs /\ [Next]_vars => OpenJobs'
  <2> SUFFICES ASSUME TypeOK, Shapes, OpenJobs, [Next]_vars
               PROVE  OpenJobs'
    OBVIOUS
  <2>1. CASE UNCHANGED vars
    BY <2>1 DEF vars, local, jobs, OpenJobs, StillOpen
  <2>2. CASE Next
    BY <2>2, OpenStep DEF Next
  <2> QED
    BY <2>1, <2>2
<1> QED
  BY <1>1, <1>2, TypeCorrect, ShapesKept, PTL DEF Spec

(* Where one process handles outputs and reconciles, a job is closed once  *)
(* (core.py:556-589): neither a repeated output nor an operator changes    *)
(* what was recorded, whatever else runs beside it and whatever is killed. *)
THEOREM JobsClosedOnce ==
    ASSUME NEW w \in Session, OneCloser(w)
    PROVE  Spec => ClosedOnce
<1>1. TypeOK /\ Shapes /\ OpenJobs /\ [Next]_vars =>
        [\A j \in Job : jobState[j] \in {"finished", "reconciled"}
            => jobState'[j] \in {jobState[j], "deleted"}]_vars
  <2> SUFFICES ASSUME TypeOK, Shapes, OpenJobs, Next, NEW j \in Job,
                      jobState[j] \in {"finished", "reconciled"}
               PROVE  jobState'[j] \in {jobState[j], "deleted"}
    OBVIOUS
  <2>1. PICK s \in Session : Begin(s) \/ Step(s) \/ Crash(s)
    BY DEF Next
  <2>2. ~JobClosed(s, j)
    BY DEF JobClosed, Finish, Reconcile, OpenJobs, StillOpen, Shapes, Shape,
           OutputSteps, Closing
  <2> QED
    BY <2>1, <2>2, JobRows DEF JobSame, JobDropped, JobCreated
<1> QED
  BY <1>1, TypeCorrect, ShapesKept, OpenKept, PTL DEF Spec, ClosedOnce

-----------------------------------------------------------------------------
(* Counting the targets that the heatmap has to answer for *)

(* targets of running jobs, as in RunningAt, without a bound on places *)
OpenAt(h) ==
    {p \in Job \X Nat : /\ jobState[p[1]] = "running"
                       /\ p[2] \in Places(jobTargets[p[1]], h)}

(* The strengthening of HeatCovers: the heatmap also counts what handlers  *)
(* have yet to take down.                                                  *)
CoverInv ==
    \A h \in Net :
        /\ IsFiniteSet(OpenAt(h))
        /\ Cardinality(OpenAt(h)) + Cardinality(HandAt(h)) <= Count(heatmap, h)

LEMMA PlacesFinite ==
    ASSUME NEW ts \in Seq(Target), NEW h
    PROVE  /\ IsFiniteSet(Places(ts, h))
           /\ Places(ts, h) \subseteq 1..Len(ts)
           /\ Cardinality(Places(ts, h)) \in Nat
<1>1. Places(ts, h) \subseteq 1..Len(ts)
  BY DEF Places
<1>2. IsFiniteSet(1..Len(ts))
  BY FS_Interval
<1> QED
  BY <1>1, <1>2, FS_Subset, FS_CardinalityType

(* the first target done, the others move up *)
LEMMA PlacesTail ==
    ASSUME NEW ts \in Seq(Target), ts # <<>>, NEW h
    PROVE  Cardinality(Places(ts, h)) =
             Cardinality(Places(Tail(ts), h))
             + (IF hashval[ts[1]] = h THEN 1 ELSE 0)
<1> DEFINE A == Places(Tail(ts), h)
           B == Places(ts, h) \ {1}
           f == [i \in A |-> i + 1]
<1>1. /\ Tail(ts) \in Seq(Target) /\ Len(Tail(ts)) = Len(ts) - 1
      /\ \A i \in 1..Len(Tail(ts)) : Tail(ts)[i] = ts[i + 1]
      /\ Len(ts) \in Nat \ {0}
  BY HeadTailProperties, EmptySeq
<1>2. IsFiniteSet(A) /\ A \subseteq 1..Len(Tail(ts)) /\ Cardinality(A) \in Nat
  BY <1>1, PlacesFinite
<1>3. IsFiniteSet(Places(ts, h)) /\ Places(ts, h) \subseteq 1..Len(ts)
      /\ Cardinality(Places(ts, h)) \in Nat
  BY PlacesFinite
<1>4. \A i : i \in A <=> i \in 1..(Len(ts) - 1) /\ hashval[ts[i + 1]] = h
  BY <1>1 DEF Places
<1>5. \A i : i \in B <=> i \in 2..Len(ts) /\ hashval[ts[i]] = h
  BY <1>1 DEF Places
<1>6. ExistsBijection(A, B)
  <2>1. f \in [A -> B]
    <3> SUFFICES ASSUME NEW i \in A
                 PROVE  i + 1 \in B
      OBVIOUS
    <3> HIDE DEF A, B
    <3> QED
      BY <1>1, <1>4, <1>5
  <2>2. \A i, k \in A : f[i] = f[k] => i = k
    <3> SUFFICES ASSUME NEW i \in A, NEW k \in A, i + 1 = k + 1
                 PROVE  i = k
      OBVIOUS
    <3> HIDE DEF A
    <3> QED
      BY <1>2, <1>4
  <2>3. \A k \in B : \E i \in A : f[i] = k
    <3> SUFFICES ASSUME NEW k \in B
                 PROVE  k - 1 \in A /\ (k - 1) + 1 = k
      OBVIOUS
    <3> HIDE DEF A, B
    <3> QED
      BY <1>1, <1>4, <1>5
  <2> HIDE DEF A, B, f
  <2>4. f \in Bijection(A, B)
    BY <2>1, <2>2, <2>3, Fun_IsBij
  <2> QED
    BY <2>4 DEF ExistsBijection
<1>7. IsFiniteSet(B) /\ Cardinality(B) = Cardinality(A)
  <2> HIDE DEF A, B
  <2> QED
    BY <1>2, <1>6, FS_Bijection
<1>8. Cardinality(B) = IF 1 \in Places(ts, h)
                       THEN Cardinality(Places(ts, h)) - 1
                       ELSE Cardinality(Places(ts, h))
  BY <1>3, FS_RemoveElement
<1>9. 1 \in Places(ts, h) <=> hashval[ts[1]] = h
  BY <1>1 DEF Places
<1> HIDE DEF A, B
<1> QED
  BY <1>2, <1>3, <1>7, <1>8, <1>9 DEF A

(* Two sets that shrink count no more than before. *)
LEMMA CoverLess ==
    ASSUME NEW A, NEW B, NEW A2, NEW B2, NEW c \in Int,
           IsFiniteSet(A), IsFiniteSet(B), A2 \subseteq A, B2 \subseteq B,
           Cardinality(A) + Cardinality(B) <= c
    PROVE  /\ IsFiniteSet(A2) /\ IsFiniteSet(B2)
           /\ Cardinality(A2) + Cardinality(B2) <= c
<1>1. IsFiniteSet(A2) /\ Cardinality(A2) <= Cardinality(A)
  BY FS_Subset
<1>2. IsFiniteSet(B2) /\ Cardinality(B2) <= Cardinality(B)
  BY FS_Subset
<1>3. /\ Cardinality(A) \in Nat /\ Cardinality(B) \in Nat
      /\ Cardinality(A2) \in Nat /\ Cardinality(B2) \in Nat
  BY <1>1, <1>2, FS_CardinalityType
<1> QED
  BY <1>1, <1>2, <1>3

(* the places of a list, each with the job it belongs to *)
LEMMA JobPlaces ==
    ASSUME NEW I, IsFiniteSet(I), NEW j
    PROVE  /\ IsFiniteSet({j} \X I)
           /\ Cardinality({j} \X I) = Cardinality(I)
<1>1. IsFiniteSet({j}) /\ Cardinality({j}) = 1
  BY FS_Singleton
<1>2. Cardinality(I) \in Nat
  BY FS_CardinalityType
<1> QED
  BY <1>1, <1>2, FS_Product

LEMMA HandFinite ==
    ASSUME TypeOK, WorkInv, NEW h
    PROVE  /\ IsFiniteSet(HandAt(h))
           /\ \A s \in Session : Held(s) \in Seq(Target)
<1>1. \A s \in Session : Held(s) \in Seq(Target)
  BY DEF TypeOK, WorkInv, HasWork, Held
<1>2. \A s \in Session : IsFiniteSet(HeldAt(s, h))
  <2> SUFFICES ASSUME NEW s \in Session
               PROVE  IsFiniteSet(HeldAt(s, h))
    OBVIOUS
  <2>1. IsFiniteSet(Places(Held(s), h))
    BY <1>1, PlacesFinite
  <2>2. HeldAt(s, h) \subseteq Places(Held(s), h)
    BY DEF HeldAt
  <2> QED
    BY <2>1, <2>2, FS_Subset
<1> QED
  BY <1>1, <1>2, FS_EmptySet DEF HandAt

Carrying == {"pop_target", "heatmap_put", "create", "reload", "heatmap_pop"}

(* The steps of an assign before the job is created count nothing anew:    *)
(* a target that was just taken waits for its heatmap_put.                 *)
LEMMA AssignHand ==
    ASSUME TypeOK, Shapes, NEW s \in Session,
           SelectQueue(s) \/ PopTarget(s) \/ EndOfGroup(s)
    PROVE  /\ UNCHANGED <<heatmap, lock>>
           /\ pc[s] \in {"select", "pop_target"}
           /\ req[s].op = "assign" /\ req'[s].op = "assign"
           /\ \A h : HeldAt(s, h)' = HeldAt(s, h)
<1>2. /\ pc \in [Session -> Labels] /\ todo \in [Session -> Seq(Target)]
  BY DEF TypeOK
<1>3. UNCHANGED <<heatmap, lock>> /\ pc[s] \in {"select", "pop_target"}
  BY DEF SelectQueue, PopTarget, EndOfGroup, tables, locking
<1>4. req[s].op = "assign" /\ req'[s].op = "assign"
  <2>1. req[s].op = "assign"
    BY <1>3 DEF Shapes, Shape, AssignSteps
  <2>2. req'[s].op = req[s].op
    BY RequestOp DEF SelectQueue, PopTarget, EndOfGroup
  <2> QED
    BY <2>1, <2>2
<1>5. CASE SelectQueue(s)
  <2>1. todo' = todo /\ pc[s] = "select"
    BY <1>5 DEF SelectQueue
  <2>2. todo[s] = <<>>
    BY <1>4, <2>1 DEF Shapes, Shape
  <2>3. Held(s)' = <<>> /\ Held(s) = <<>>
    BY <1>4, <2>1, <2>2 DEF Held
  <2> QED
    BY <1>3, <1>4, <2>3 DEF HeldAt, Places
<1>6. CASE PopTarget(s)
  <2>1. /\ req' = req /\ pc[s] = "pop_target"
        /\ \/ UNCHANGED <<todo, pc>>
           \/ \E t \in Target : /\ todo' = [todo EXCEPT ![s] = Append(@, t)]
                                /\ pc' = [pc EXCEPT ![s] = "heatmap_put"]
    BY <1>6 DEF PopTarget, Candidates, Goto
  <2>2. req[s].op = "assign"
    BY <1>4
  <2>3. ASSUME NEW h
        PROVE  HeldAt(s, h)' = HeldAt(s, h)
    <3>1. CASE UNCHANGED <<todo, pc>>
      BY <2>1, <2>2, <3>1 DEF HeldAt, Held
    <3>2. CASE \E t \in Target : /\ todo' = [todo EXCEPT ![s] = Append(@, t)]
                                 /\ pc' = [pc EXCEPT ![s] = "heatmap_put"]
      <4>1. PICK t \in Target : /\ todo' = [todo EXCEPT ![s] = Append(@, t)]
                                /\ pc' = [pc EXCEPT ![s] = "heatmap_put"]
        BY <3>2
      <4>2. /\ todo[s] \in Seq(Target) /\ todo'[s] = Append(todo[s], t)
            /\ pc'[s] = "heatmap_put"
        BY <1>2, <4>1
      <4>3. /\ Len(todo'[s]) = Len(todo[s]) + 1
            /\ \A i \in 1..Len(todo[s]) : todo'[s][i] = todo[s][i]
        BY <4>2, AppendProperties
      <4>4. todo'[s] \in Seq(Target)
        BY <4>2, AppendProperties
      <4>5. Held(s) = todo[s] /\ Held(s)' = todo'[s]
        BY <2>1, <2>2 DEF Held
      <4>6. ASSUME NEW i \in HeldAt(s, h)'
            PROVE  i \in HeldAt(s, h)
        <5>1. i \in 1..Len(todo'[s]) /\ hashval[todo'[s][i]] = h
          BY <4>4, <4>5, <4>6 DEF HeldAt, Places
        <5>2. i # Len(todo'[s])
          BY <4>2, <4>5, <4>6 DEF HeldAt
        <5>3. i \in 1..Len(todo[s])
          BY <4>2, <4>3, <5>1, <5>2
        <5>4. hashval[todo[s][i]] = h
          BY <4>3, <5>1, <5>3
        <5> QED
          BY <2>1, <4>2, <4>5, <5>3, <5>4 DEF HeldAt, Places
      <4>7. ASSUME NEW i \in HeldAt(s, h)
            PROVE  i \in HeldAt(s, h)'
        <5>1. i \in 1..Len(todo[s]) /\ hashval[todo[s][i]] = h
          BY <4>2, <4>5, <4>7 DEF HeldAt, Places
        <5>2. i \in 1..Len(todo'[s]) /\ i # Len(todo'[s])
          BY <4>2, <4>3, <5>1
        <5>3. hashval[todo'[s][i]] = h
          BY <4>3, <5>1
        <5> QED
          BY <4>4, <4>5, <5>2, <5>3 DEF HeldAt, Places
      <4> QED
        BY <4>6, <4>7
    <3> QED
      BY <2>1, <3>1, <3>2
  <2> QED
    BY <1>3, <1>4, <2>3
<1>7. CASE EndOfGroup(s)
  <2>1. /\ UNCHANGED <<todo, req>> /\ pc[s] = "pop_target"
        /\ pc'[s] \in {"release_lock", "create"}
    BY <1>2, <1>7 DEF EndOfGroup, Goto
  <2>2. \A h : HeldAt(s, h)' = HeldAt(s, h)
    BY <1>4, <2>1 DEF HeldAt, Held
  <2> QED
    BY <1>3, <1>4, <2>2
<1> QED
  BY <1>5, <1>6, <1>7

(* the count of a network less the targets that it has to answer for *)
Gap(h) == Count(heatmap, h) - (Cardinality(OpenAt(h)) + Cardinality(HandAt(h)))

(* the steps that move targets between queue, hand, job and heatmap *)
Moving(s) ==
    \/ SelectQueue(s) \/ PopTarget(s) \/ EndOfGroup(s)
    \/ HeatmapPut(s) \/ CreateJob(s)
    \/ Finish(s) \/ Reload(s) \/ HeatmapPop(s) \/ Reconcile(s)

(* Each of them changes the count along with the targets. *)
LEMMA GapKept ==
    ASSUME TypeOK, WorkInv, LockHeld, Shapes, OpenJobs, CoverInv,
           NEW s \in Session, Moving(s), Shapes', NEW h \in Net
    PROVE  /\ IsFiniteSet(OpenAt(h)') /\ IsFiniteSet(HandAt(h)')
           /\ Gap(h)' = Gap(h)
<1> DEFINE c == Count(heatmap, h)
<1>1. /\ IsFiniteSet(HandAt(h)) /\ IsFiniteSet(OpenAt(h))
      /\ Cardinality(HandAt(h)) \in Nat /\ Cardinality(OpenAt(h)) \in Nat
      /\ c \in Int /\ Cardinality(OpenAt(h)) + Cardinality(HandAt(h)) <= c
      /\ IsFiniteSet({}) /\ Cardinality({}) = 0
  BY HandFinite, CountInt, FS_CardinalityType, FS_EmptySet DEF CoverInv
<1>2. /\ pc \in [Session -> Labels] /\ req \in [Session -> Request]
      /\ todo \in [Session -> Seq(Target)]
      /\ lock \in Session \cup {NoSession}
  BY DEF TypeOK
<1>3. lock = s /\ lock' = s
  <2>1. pc[s] \in Locked /\ lock' = lock
    BY DEF Moving, SelectQueue, PopTarget, EndOfGroup, HeatmapPut, CreateJob,
           Finish, Reload, HeatmapPop, Reconcile, PopFirst, locking, Locked
  <2> QED
    BY <2>1 DEF LockHeld
<1>4. HandAt(h) = HeldAt(s, h) /\ HandAt(h)' = HeldAt(s, h)'
  BY <1>3 DEF HandAt
<1>5. pc'[s] \notin Carrying => HandAt(h)' = {}
  BY <1>4 DEF Carrying, Held, HeldAt, Places, Shapes, Shape, AssignSteps
<1>6. ASSUME OpenAt(h)' = OpenAt(h), HandAt(h)' = HandAt(h),
             heatmap' = heatmap
      PROVE  /\ IsFiniteSet(OpenAt(h)') /\ IsFiniteSet(HandAt(h)')
             /\ Gap(h)' = Gap(h)
  BY <1>1, <1>6 DEF Gap
<1>7. CASE SelectQueue(s) \/ PopTarget(s) \/ EndOfGroup(s)
  <2>1. HeldAt(s, h)' = HeldAt(s, h) /\ heatmap' = heatmap
    BY <1>7, AssignHand
  <2>2. UNCHANGED <<jobState, jobTargets>>
    BY <1>7 DEF SelectQueue, PopTarget, EndOfGroup, jobs
  <2>3. OpenAt(h)' = OpenAt(h)
    BY <2>2 DEF OpenAt
  <2> QED
    BY <1>4, <1>6, <2>1, <2>3
<1>8. CASE Reload(s)
  <2>1. /\ UNCHANGED <<heatmap, req, jobState, jobTargets>> /\ pc[s] = "reload"
        /\ todo'[s] = jobTargets[req[s].job] /\ pc'[s] = "heatmap_pop"
    BY <1>2, <1>8 DEF Reload, Goto, tables, jobs
  <2>2. req[s].op = "output"
    BY <2>1 DEF Shapes, Shape, OutputSteps
  <2>3. HeldAt(s, h)' = HeldAt(s, h)
    BY <2>1, <2>2 DEF HeldAt, Held
  <2>4. OpenAt(h)' = OpenAt(h)
    BY <2>1 DEF OpenAt
  <2> QED
    BY <1>4, <1>6, <2>1, <2>3, <2>4
<1>9. CASE HeatmapPut(s)
  <2> DEFINE g == hashval[LastOf(todo[s])]
  <2>1. /\ UNCHANGED <<todo, req, jobState, jobTargets>>
        /\ pc[s] = "heatmap_put" /\ pc'[s] = "pop_target"
    BY <1>2, <1>9 DEF HeatmapPut, Goto, jobs
  <2>2. req[s].op = "assign" /\ todo[s] # <<>> /\ todo[s] \in Seq(Target)
    BY <1>2, <2>1 DEF Shapes, Shape, AssignSteps, WorkInv, HasWork
  <2>3. Held(s) = todo[s] /\ Held(s)' = todo[s]
    BY <2>1, <2>2 DEF Held
  <2>4. Count(heatmap', h) = IF h = g THEN c + 1 ELSE c
    BY <1>9, PutCount
  <2>5. OpenAt(h)' = OpenAt(h)
    BY <2>1 DEF OpenAt
  <2>6. /\ HandAt(h) = {i \in Places(todo[s], h) : i # Len(todo[s])}
        /\ HandAt(h)' = Places(todo[s], h)
    BY <1>4, <2>1, <2>3 DEF HeldAt
  <2>7. Len(todo[s]) \in Places(todo[s], h) <=> h = g
    <3>1. Len(todo[s]) \in DOMAIN todo[s]
      BY <2>2
    <3> QED
      BY <3>1 DEF Places, LastOf
  <2>8. /\ Len(todo[s]) \notin HandAt(h)
        /\ HandAt(h)' = IF h = g THEN HandAt(h) \cup {Len(todo[s])}
                                 ELSE HandAt(h)
    BY <2>6, <2>7
  <2>9. /\ IsFiniteSet(HandAt(h)')
        /\ Cardinality(HandAt(h)') = IF h = g THEN Cardinality(HandAt(h)) + 1
                                              ELSE Cardinality(HandAt(h))
    <3> DEFINE H == HandAt(h)
               n == Len(todo[s])
    <3>1. IsFiniteSet(H) /\ n \notin H
      BY <1>1, <2>8
    <3> HIDE DEF H, n
    <3>2. /\ IsFiniteSet(H \cup {n})
          /\ Cardinality(H \cup {n}) = Cardinality(H) + 1
      BY <3>1, FS_AddElement
    <3>3. /\ H = HandAt(h)
          /\ HandAt(h)' = IF h = g THEN H \cup {n} ELSE H
      BY <2>8 DEF H, n
    <3> HIDE DEF g
    <3> QED
      BY <3>1, <3>2, <3>3
  <2> HIDE DEF g
  <2> QED
    BY <1>1, <2>4, <2>5, <2>9 DEF Gap
<1>10. CASE CreateJob(s)
  <2>1. PICK j \in Rows({"unused"}) :
          /\ jobState' = [jobState EXCEPT ![j] = "running"]
          /\ jobTargets' = [jobTargets EXCEPT ![j] = todo[s]]
    BY <1>10 DEF CreateJob
  <2>2. /\ heatmap' = heatmap /\ pc[s] = "create"
        /\ pc'[s] = "release_lock"
    BY <1>2, <1>10 DEF CreateJob, Goto, tables
  <2>3. req[s].op = "assign" /\ todo[s] \in Seq(Target)
    BY <1>2, <2>2 DEF Shapes, Shape, AssignSteps
  <2> DEFINE I == Places(todo[s], h)
  <2>4. HandAt(h) = I /\ HandAt(h)' = {}
    BY <1>4, <1>5, <2>2, <2>3 DEF HeldAt, Held, Carrying
  <2>5. j \in Job /\ jobState[j] = "unused" /\ I \subseteq Nat
    BY <2>3, PlacesFinite DEF Rows
  <2>6. OpenAt(h)' = OpenAt(h) \cup ({j} \X I)
    <3>1. \A k \in Job : jobState'[k] = IF k = j THEN "running" ELSE jobState[k]
      BY <2>1 DEF TypeOK
    <3>2. \A k \in Job :
             jobTargets'[k] = IF k = j THEN todo[s] ELSE jobTargets[k]
      BY <2>1 DEF TypeOK
    <3> QED
      BY <2>5, <3>1, <3>2 DEF OpenAt
  <2>7. OpenAt(h) \cap ({j} \X I) = {}
    BY <2>5 DEF OpenAt
  <2> HIDE DEF I
  <2>8. IsFiniteSet({j} \X I) /\ Cardinality({j} \X I) = Cardinality(I)
    BY <1>1, <2>4, JobPlaces
  <2>9. /\ IsFiniteSet(OpenAt(h)')
        /\ Cardinality(OpenAt(h)') = Cardinality(OpenAt(h)) + Cardinality(I)
    <3> DEFINE A == OpenAt(h)
               X == {j} \X I
    <3>1. /\ IsFiniteSet(A) /\ IsFiniteSet(X) /\ A \cap X = {}
          /\ Cardinality(X) = Cardinality(I)
          /\ Cardinality(A) \in Nat /\ Cardinality(I) \in Nat
      BY <1>1, <2>4, <2>7, <2>8
    <3> HIDE DEF A, X
    <3>2. /\ IsFiniteSet(A \cup X)
          /\ Cardinality(A \cup X) = Cardinality(A) + Cardinality(X) - 0
      BY <3>1, FS_Union, FS_EmptySet
    <3>3. OpenAt(h)' = A \cup X /\ A = OpenAt(h)
      BY <2>6 DEF A, X
    <3> QED
      BY <3>1, <3>2, <3>3
  <2> QED
    BY <1>1, <2>2, <2>4, <2>9 DEF Gap
(* the targets of a job that is closed leave it *)
<1>11. ASSUME NEW j \in Job, jobState[j] = "running",
              jobState'[j] # "running", \A k \in Job \ {j} : JobSame(k)
       PROVE  /\ IsFiniteSet(OpenAt(h)')
              /\ Cardinality(OpenAt(h)') =
                    Cardinality(OpenAt(h))
                    - Cardinality(Places(jobTargets[j], h))
  <2> DEFINE I == Places(jobTargets[j], h)
             A == OpenAt(h)
             X == {j} \X I
  <2>1. IsFiniteSet(I) /\ I \subseteq Nat
    <3>1. jobTargets[j] \in Seq(Target)
      BY DEF TypeOK
    <3> QED
      BY <3>1, PlacesFinite
  <2>2. OpenAt(h)' = A \ X
    BY <1>11 DEF OpenAt, JobSame
  <2>3. A \cap X = X
    BY <1>11, <2>1 DEF OpenAt
  <2>4. IsFiniteSet(A) /\ Cardinality(X) = Cardinality(I)
    BY <1>1, <2>1, JobPlaces
  <2> HIDE DEF I, A, X
  <2>5. /\ IsFiniteSet(A \ X)
        /\ Cardinality(A \ X) = Cardinality(A) - Cardinality(X)
    BY <2>3, <2>4, FS_Difference
  <2> QED
    BY <2>2, <2>4, <2>5 DEF A, I
<1>12. CASE Finish(s)
  <2> DEFINE j == req[s].job
  <2>1. /\ UNCHANGED <<heatmap, req, jobTargets>> /\ pc[s] = "finish"
        /\ pc'[s] = "reload" /\ Exists(j)
        /\ jobState' = [jobState EXCEPT ![j] = "finished"]
    BY <1>2, <1>12 DEF Finish, Goto, tables
  <2>2. req[s].op = "output"
    BY <2>1 DEF Shapes, Shape, OutputSteps
  <2>3. j \in Job /\ jobState[j] = "running"
    BY <2>1, <2>2 DEF OpenJobs, StillOpen, Closing, Exists
  <2>4. Held(s) = <<>> /\ Held(s)' = jobTargets[j]
    BY <2>1, <2>2 DEF Held
  <2>5. jobState'[j] # "running" /\ \A k \in Job \ {j} : JobSame(k)
    BY <2>1, <2>3 DEF TypeOK, JobSame
  <2>6. HandAt(h) = {} /\ HandAt(h)' = Places(jobTargets[j], h)
    BY <1>4, <2>1, <2>4 DEF HeldAt, Places
  <2> HIDE DEF j
  <2>7. /\ IsFiniteSet(Places(jobTargets[j], h))
        /\ Cardinality(Places(jobTargets[j], h)) \in Nat
    <3>1. jobTargets[j] \in Seq(Target)
      BY <2>3 DEF TypeOK
    <3> QED
      BY <3>1, PlacesFinite
  <2>8. /\ IsFiniteSet(OpenAt(h)')
        /\ Cardinality(OpenAt(h)') =
              Cardinality(OpenAt(h)) - Cardinality(Places(jobTargets[j], h))
    BY <1>11, <2>3, <2>5
  <2> QED
    BY <1>1, <2>1, <2>6, <2>7, <2>8 DEF Gap
(* one target of the list is done, its network counts one less *)
<1>13. ASSUME PopFirst(s), todo[s] # <<>>, req[s].op # "assign",
              IsFiniteSet(OpenAt(h)'),
              Cardinality(OpenAt(h)') + Cardinality(Places(todo[s], h)) =
                 Cardinality(OpenAt(h)) + Cardinality(HandAt(h))
       PROVE  IsFiniteSet(HandAt(h)') /\ Gap(h)' = Gap(h)
  <2> DEFINE g == hashval[todo[s][1]]
             A == OpenAt(h)'
             B == Places(todo[s], h)
             T == Places(Tail(todo[s]), h)
  <2>1. /\ todo'[s] = Tail(todo[s]) /\ req' = req
        /\ pc'[s] = IF Len(todo[s]) = 1 THEN "release_lock" ELSE "heatmap_pop"
    BY <1>2, <1>13 DEF PopFirst, Goto
  <2>2. todo[s] \in Seq(Target) /\ Tail(todo[s]) \in Seq(Target)
        /\ Len(Tail(todo[s])) = Len(todo[s]) - 1
    BY <1>2, <1>13, HeadTailProperties
  <2>3. HandAt(h)' = T
    <3>1. CASE Len(todo[s]) = 1
      <4>1. T \subseteq 1..Len(Tail(todo[s]))
        BY <2>2, PlacesFinite
      <4>2. Len(Tail(todo[s])) = 0
        BY <2>2, <3>1
      <4> HIDE DEF T
      <4>3. \A i : i \notin T
        <5> SUFFICES ASSUME NEW i \in T
                     PROVE  FALSE
          OBVIOUS
        <5>1. i \in 1..0
          BY <4>1, <4>2
        <5> QED
          BY <5>1
      <4> QED
        BY <1>5, <2>1, <3>1, <4>3 DEF Carrying
    <3>2. CASE Len(todo[s]) # 1
      BY <1>4, <1>13, <2>1, <3>2 DEF HeldAt, Held
    <3> QED
      BY <3>1, <3>2
  <2>4. IsFiniteSet(T) /\ Cardinality(T) \in Nat /\ Cardinality(B) \in Nat
    BY <2>2, PlacesFinite
  <2>5. Cardinality(B) = Cardinality(T) + (IF g = h THEN 1 ELSE 0)
    BY <1>13, <2>2, PlacesTail
  <2>6. /\ \A k : k # g => Count(heatmap', k) = Count(heatmap, k)
        /\ Count(heatmap', g) = IF g \in DOMAIN heatmap
                                THEN Count(heatmap, g) - 1 ELSE 1
    BY <1>13, PopCount
  <2>7. /\ Cardinality(A) \in Nat
        /\ Cardinality(A) + Cardinality(B) =
              Cardinality(OpenAt(h)) + Cardinality(HandAt(h))
    BY <1>13, FS_CardinalityType
  <2>8. h \notin DOMAIN heatmap => c = 0
    BY DEF Count
  <2> HIDE DEF g, A, B, T, c
  <2>9. g = h => h \in DOMAIN heatmap
    BY <1>1, <2>4, <2>5, <2>7, <2>8
  <2>10. Count(heatmap', h) = IF g = h THEN c - 1 ELSE c
    BY <2>6, <2>9 DEF c
  <2>11. /\ Gap(h)' = Count(heatmap', h) - (Cardinality(A) + Cardinality(T))
         /\ Gap(h) = c - (Cardinality(OpenAt(h)) + Cardinality(HandAt(h)))
    BY <2>3 DEF Gap, A, c
  <2>12. IsFiniteSet(HandAt(h)')
    BY <2>3, <2>4
  <2>13. Gap(h)' = Gap(h)
    BY <1>1, <2>4, <2>5, <2>7, <2>10, <2>11
  <2> QED
    BY <2>12, <2>13
<1>14. CASE HeatmapPop(s)
  <2>1. /\ pc[s] = "heatmap_pop" /\ PopFirst(s)
        /\ UNCHANGED <<jobState, jobTargets>>
    BY <1>14 DEF HeatmapPop, PopFirst
  <2>2. todo[s] # <<>> /\ req[s].op \in Closing
    BY <2>1 DEF WorkInv, HasWork, Shapes, Shape, Closing
  <2>3. OpenAt(h)' = OpenAt(h)
    BY <2>1 DEF OpenAt
  <2>4. HandAt(h) = Places(todo[s], h)
    BY <1>4, <2>1 DEF HeldAt, Held
  <2> QED
    BY <1>1, <1>13, <2>1, <2>2, <2>3, <2>4 DEF Closing
<1>15. CASE Reconcile(s)
  <2> DEFINE j == req[s].job
  <2>1. /\ pc[s] = "reconcile" /\ PopFirst(s) /\ Exists(j)
        /\ jobState' = [jobState EXCEPT ![j] = "reconciled"]
        /\ UNCHANGED jobTargets
    BY <1>15 DEF Reconcile, PopFirst
  <2>2. todo[s] # <<>> /\ req[s].op = "reconcile"
    BY <2>1 DEF WorkInv, HasWork, Shapes, Shape
  <2>3. j \in Job /\ jobState[j] = "running" /\ todo[s] = jobTargets[j]
    BY <2>1, <2>2 DEF OpenJobs, StillOpen, Closing, Exists
  <2>4. HandAt(h) = {}
    BY <1>4, <2>1, <2>2 DEF HeldAt, Held, Places
  <2>5. jobState'[j] # "running" /\ \A k \in Job \ {j} : JobSame(k)
    BY <2>1, <2>3 DEF TypeOK, JobSame
  <2> HIDE DEF j
  <2>6. Cardinality(Places(todo[s], h)) \in Nat
    BY <1>2, PlacesFinite
  <2>7. /\ IsFiniteSet(OpenAt(h)')
        /\ Cardinality(OpenAt(h)') + Cardinality(Places(todo[s], h)) =
              Cardinality(OpenAt(h)) + Cardinality(HandAt(h))
    <3>1. /\ IsFiniteSet(OpenAt(h)')
          /\ Cardinality(OpenAt(h)') =
                Cardinality(OpenAt(h)) - Cardinality(Places(todo[s], h))
      BY <1>11, <2>3, <2>5
    <3> QED
      BY <1>1, <2>4, <2>6, <3>1
  <2> QED
    BY <1>13, <2>1, <2>2, <2>7
<1> QED
  BY <1>7, <1>8, <1>9, <1>10, <1>12, <1>14, <1>15 DEF Moving

LEMMA CoverStep ==
    ASSUME TypeOK, WorkInv, LockHeld, Shapes, OpenJobs, CoverInv,
           NEW s \in Session, Begin(s) \/ Step(s) \/ Crash(s),
           TypeOK', Shapes'
    PROVE  CoverInv'
<1> DEFINE c(h) == Count(heatmap, h)
           Rest(h) == IF lock = s THEN {} ELSE HandAt(h)
<1>1. /\ \A h : IsFiniteSet(HandAt(h)) /\ c(h) \in Int
      /\ \A z \in Session : Held(z) \in Seq(Target)
  BY HandFinite, CountInt
<1>2. /\ pc \in [Session -> Labels] /\ req \in [Session -> Request]
      /\ todo \in [Session -> Seq(Target)]
      /\ lock \in Session \cup {NoSession}
  BY DEF TypeOK
<1>3. \A z \in Session \ {s} :
         pc'[z] = pc[z] /\ req'[z] = req[z] /\ todo'[z] = todo[z]
  BY Alone
<1>4. \A j \in Job : \/ JobSame(j) \/ JobDropped(j) \/ JobCreated(s, j)
                      \/ JobClosed(s, j)
  BY JobRows
(* steps that shrink what is counted *)
<1>5. ASSUME UNCHANGED heatmap,
             \A h \in Net : /\ OpenAt(h)' \subseteq OpenAt(h)
                            /\ HandAt(h)' \subseteq HandAt(h)
      PROVE  CoverInv'
  <2> SUFFICES ASSUME NEW h \in Net
               PROVE  /\ IsFiniteSet(OpenAt(h)')
                      /\ Cardinality(OpenAt(h)') + Cardinality(HandAt(h)')
                            <= Count(heatmap, h)
    BY <1>5 DEF CoverInv
  <2>1. /\ IsFiniteSet(OpenAt(h))
        /\ Cardinality(OpenAt(h)) + Cardinality(HandAt(h)) <= c(h)
    BY DEF CoverInv
  <2>2. /\ OpenAt(h)' \subseteq OpenAt(h) /\ HandAt(h)' \subseteq HandAt(h)
        /\ IsFiniteSet(HandAt(h)) /\ Count(heatmap, h) \in Int
    BY <1>1, <1>5
  <2> QED
    BY ONLY <2>1, <2>2, CoverLess
<1>6. ASSUME ~CreateJob(s)
      PROVE  \A h : OpenAt(h)' \subseteq OpenAt(h)
  BY <1>4, <1>6 DEF OpenAt, JobSame, JobDropped, JobCreated, JobClosed
<1>7. ASSUME NEW z \in Session \ {s}, ~CreateJob(s), NEW h
      PROVE  HeldAt(z, h)' \subseteq HeldAt(z, h)
  <2>1. CASE Held(z)' = Held(z)
    BY <1>3, <2>1 DEF HeldAt
  <2>2. CASE Held(z)' # Held(z)
    <3>1. Held(z)' = jobTargets'[req[z].job] /\ Held(z) = jobTargets[req[z].job]
          /\ pc[z] = "reload"
      BY <1>3, <2>2 DEF Held
    <3>2. req[z].job \in Job
      BY <3>1 DEF WorkInv, HasWork
    <3>3. jobTargets'[req[z].job] = <<>>
      BY <1>4, <1>7, <2>2, <3>1, <3>2
      DEF JobSame, JobDropped, JobCreated, JobClosed
    <3> QED
      BY <3>1, <3>3 DEF HeldAt, Places
  <2> QED
    BY <2>1, <2>2
<1>8. ASSUME ~CreateJob(s),
             \/ /\ lock' = lock
                /\ lock = s => \A h : HeldAt(s, h)' \subseteq HeldAt(s, h)
             \/ lock' \in {s, NoSession} /\ Held(s)' = <<>>
             \/ lock' = lock /\ Held(s)' = <<>>
      PROVE  \A h : HandAt(h)' \subseteq HandAt(h)
  <2>1. Held(s)' = <<>> => \A h : HeldAt(s, h)' = {}
    BY DEF HeldAt, Places
  <2>2. CASE lock' = lock /\ lock # s
    BY <1>2, <1>7, <1>8, <2>2 DEF HandAt
  <2>3. CASE lock' = s
    BY <1>8, <2>1, <2>3 DEF HandAt
  <2>4. CASE lock' = NoSession
    BY <2>4 DEF HandAt
  <2> QED
    BY <1>8, <2>2, <2>3, <2>4
<1>9. pc'[s] \notin Carrying => Held(s)' = <<>>
  BY DEF Carrying, Held, Shapes, Shape, AssignSteps
<1>10. ASSUME UNCHANGED <<heatmap, lock>>, ~CreateJob(s), pc'[s] \notin Carrying
       PROVE  CoverInv'
  BY <1>5, <1>6, <1>8, <1>9, <1>10
<1>11. CASE Begin(s)
  <2>1. UNCHANGED <<heatmap, lock>>
    BY <1>11
    DEF Begin, BeginEnqueue, BeginFlush, BeginDeleteEmptyQueue,
        BeginDeleteJobs, BeginRepeat, BeginDeleteJob, BeginOutput,
        BeginReconcile, BeginRecount, BeginAssign, tables, locking
  <2>2. pc[s] = "idle" /\ pc'[s] \in {"get_lock", "unlink", "rmdir"}
    BY <1>2, <1>11
    DEF Begin, BeginEnqueue, BeginFlush, BeginDeleteEmptyQueue,
        BeginDeleteJobs, BeginRepeat, BeginDeleteJob, BeginOutput,
        BeginReconcile, BeginRecount, BeginAssign, Call, Goto
  <2> QED
    BY <1>10, <2>1, <2>2 DEF Carrying, CreateJob
<1>12. CASE \/ LockTimeout(s) \/ EnqueueForeignKey(s) \/ UnlinkNoQueue(s)
            \/ WriteOutputNoQueue(s) \/ RowGone(s) \/ ReadynetConflict(s)
  <2>1. UNCHANGED <<heatmap, lock>> /\ pc'[s] = "idle"
    BY <1>2, <1>12
    DEF LockTimeout, EnqueueForeignKey, UnlinkNoQueue, WriteOutputNoQueue,
        RowGone, ReadynetConflict, RaiseLocked, Return, Goto, tables, locking
  <2>2. ~CreateJob(s)
    BY <1>12
    DEF LockTimeout, EnqueueForeignKey, UnlinkNoQueue, WriteOutputNoQueue,
        RowGone, ReadynetConflict, CreateJob
  <2> QED
    BY <1>10, <2>1, <2>2 DEF Carrying
<1>13. CASE GetLock(s) \/ ReleaseLock(s) \/ Crash(s)
  <2>1. /\ UNCHANGED heatmap
        /\ lock' \in {lock, s, NoSession}
        /\ pc'[s] \notin Carrying
    BY <1>2, <1>13
    DEF GetLock, ReleaseLock, Crash, Return, Goto, OwnerAfter, FirstStep,
        tables, Carrying
  <2>2. pc'[s] # "release_lock"
    BY <1>2, <1>13 DEF GetLock, ReleaseLock, Crash, Return, Goto, FirstStep
  <2>3. ~CreateJob(s)
    BY <1>2, <2>2 DEF CreateJob, Goto
  <2> QED
    BY <1>5, <1>6, <1>8, <1>9, <2>1, <2>3
<1>14. CASE \/ Enqueue(s) \/ Flush(s) \/ Recount(s) \/ DeleteQueue(s)
            \/ WriteOutput(s)
  <2>1. UNCHANGED <<heatmap, lock>> /\ pc'[s] \in {"release_lock", "finish"}
        /\ pc[s] # "create"
    BY <1>2, <1>14
    DEF Enqueue, Flush, Recount, DeleteQueue, WriteOutput, Goto, tables,
        locking
  <2> QED
    BY <1>10, <2>1 DEF Carrying, CreateJob
<1>15. CASE \/ Unlink(s) \/ DeleteRow(s) \/ NextJob(s)
            \/ NoNextJob(s) \/ RemoveDir(s)
  <2>1. UNCHANGED <<heatmap, lock>> /\ pc[s] # "create"
        /\ pc'[s] \in {"delete_row", "idle", "next_job", "unlink", "rmdir",
                      "get_lock"}
    BY <1>2, <1>15
    DEF Unlink, DeleteRow, NextJob, NoNextJob, RemoveDir, Return, Goto,
        tables, locking
  <2> QED
    BY <1>10, <2>1 DEF Carrying, CreateJob
<1>16. CASE Moving(s)
  <2> SUFFICES ASSUME NEW h \in Net
               PROVE  /\ IsFiniteSet(OpenAt(h)')
                      /\ Cardinality(OpenAt(h)') + Cardinality(HandAt(h)')
                            <= Count(heatmap', h)
    BY DEF CoverInv
  <2>1. /\ IsFiniteSet(OpenAt(h)') /\ IsFiniteSet(HandAt(h)')
        /\ Gap(h)' = Gap(h)
    BY <1>16, GapKept
  <2>2. /\ IsFiniteSet(OpenAt(h))
        /\ Cardinality(OpenAt(h)) + Cardinality(HandAt(h)) <= c(h)
    BY DEF CoverInv
  <2>3. /\ Cardinality(OpenAt(h)) \in Nat /\ Cardinality(HandAt(h)) \in Nat
        /\ c(h) \in Int /\ Count(heatmap', h) \in Int
    BY <1>1, <2>2, FS_CardinalityType DEF TypeOK, Count
  <2>4. Cardinality(OpenAt(h)') \in Nat /\ Cardinality(HandAt(h)') \in Nat
    BY <2>1, FS_CardinalityType
  <2> QED
    BY <2>1, <2>2, <2>3, <2>4 DEF Gap
<1> QED
  BY <1>11, <1>12, <1>13, <1>14, <1>15, <1>16 DEF Step, Moving

LEMMA CoverInit == Init => CoverInv
<1> SUFFICES ASSUME Init, NEW h \in Net
             PROVE  /\ IsFiniteSet(OpenAt(h))
                    /\ Cardinality(OpenAt(h)) + Cardinality(HandAt(h))
                          <= Count(heatmap, h)
  BY DEF CoverInv
<1>1. OpenAt(h) = {} /\ HandAt(h) = {} /\ Count(heatmap, h) = 0
  BY DEF Init, OpenAt, HandAt, Count
<1> QED
  BY <1>1, FS_EmptySet

LEMMA CoverStutter ==
    ASSUME CoverInv, UNCHANGED vars
    PROVE  CoverInv'
<1>1. \A h : /\ OpenAt(h)' = OpenAt(h) /\ HandAt(h)' = HandAt(h)
             /\ Count(heatmap', h) = Count(heatmap, h)
  BY DEF vars, tables, jobs, locking, local, OpenAt, HandAt, HeldAt, Held,
         Count
<1> QED
  BY <1>1 DEF CoverInv

LEMMA CoverKept ==
    ASSUME NEW w \in Session, OneCloser(w)
    PROVE  Spec => []CoverInv
<1>1. /\ TypeOK /\ WorkInv /\ LockHeld /\ Shapes /\ OpenJobs /\ CoverInv
      /\ [Next]_vars /\ TypeOK' /\ Shapes'
      => CoverInv'
  BY CoverStep, CoverStutter DEF Next
<1> QED
  BY <1>1, CoverInit, TypeCorrect, MutualExclusion, ShapesKept, OpenKept, PTL
  DEF Spec

(* What is in flight is among what is counted. *)
LEMMA InFlightCounted ==
    ASSUME TypeOK, WorkInv, LockHeld, Shapes, NEW h, IsFiniteSet(OpenAt(h))
    PROVE  /\ IsFiniteSet(RunningAt(h)) /\ IsFiniteSet(TakenAt(h))
           /\ Cardinality(RunningAt(h)) \in Nat
           /\ Cardinality(TakenAt(h)) \in Nat
           /\ InFlight(h) <= Cardinality(OpenAt(h)) + Cardinality(HandAt(h))
<1>1. RunningAt(h) \subseteq OpenAt(h)
  BY DEF RunningAt, OpenAt, Places
<1>2. TakenAt(h) \subseteq {lock} \X HandAt(h)
  <2> SUFFICES ASSUME NEW p \in TakenAt(h)
               PROVE  p \in {lock} \X HandAt(h)
    OBVIOUS
  <2> DEFINE z == p[1]
             i == p[2]
  <2>1. /\ p = <<z, i>> /\ z \in Session /\ req[z].op = "assign"
        /\ i \in DOMAIN todo[z] /\ hashval[todo[z][i]] = h
        /\ i = Len(todo[z]) => pc[z] # "heatmap_put"
    BY DEF TakenAt
  <2>2. todo[z] # <<>>
    BY <2>1
  <2>3. pc[z] \in Locked
    BY <2>1, <2>2 DEF Shapes, Shape, AssignSteps, Locked
  <2>4. lock = z
    BY <2>1, <2>3 DEF LockHeld
  <2> HIDE DEF z, i
  <2> QED
    BY <2>1, <2>4 DEF HandAt, HeldAt, Held, Places
<1>3. IsFiniteSet({lock} \X HandAt(h))
      /\ Cardinality({lock} \X HandAt(h)) = Cardinality(HandAt(h))
  BY HandFinite, JobPlaces
<1>4. /\ IsFiniteSet(RunningAt(h))
      /\ Cardinality(RunningAt(h)) <= Cardinality(OpenAt(h))
  BY <1>1, FS_Subset
<1>5. /\ IsFiniteSet(TakenAt(h))
      /\ Cardinality(TakenAt(h)) <= Cardinality(HandAt(h))
  BY <1>2, <1>3, FS_Subset
<1>6. /\ Cardinality(OpenAt(h)) \in Nat /\ Cardinality(HandAt(h)) \in Nat
      /\ Cardinality(RunningAt(h)) \in Nat /\ Cardinality(TakenAt(h)) \in Nat
  BY <1>4, <1>5, HandFinite, FS_CardinalityType
<1> QED
  BY <1>4, <1>5, <1>6 DEF InFlight

(* Where one process closes jobs, the heatmap never counts less than what  *)
(* is in the hands of agents or being assigned (core.py:408-445, 537,      *)
(* 578-580), with kills anywhere: heat may be lost track of, never work.   *)
THEOREM HeatCoversWork ==
    ASSUME NEW w \in Session, OneCloser(w)
    PROVE  Spec => []HeatCovers
<1>1. TypeOK /\ WorkInv /\ LockHeld /\ Shapes /\ CoverInv => HeatCovers
  <2> SUFFICES ASSUME TypeOK, WorkInv, LockHeld, Shapes, CoverInv, NEW h \in Net
               PROVE  InFlight(h) <= Count(heatmap, h)
    BY DEF HeatCovers
  <2>1. /\ IsFiniteSet(OpenAt(h)) /\ IsFiniteSet(HandAt(h))
        /\ Cardinality(OpenAt(h)) + Cardinality(HandAt(h)) <= Count(heatmap, h)
    BY HandFinite DEF CoverInv
  <2>2. /\ Cardinality(RunningAt(h)) \in Nat /\ Cardinality(TakenAt(h)) \in Nat
        /\ InFlight(h) <= Cardinality(OpenAt(h)) + Cardinality(HandAt(h))
    BY <2>1, InFlightCounted
  <2>3. /\ Cardinality(OpenAt(h)) \in Nat /\ Cardinality(HandAt(h)) \in Nat
        /\ Count(heatmap, h) \in Int /\ InFlight(h) \in Nat
    BY <2>1, <2>2, FS_CardinalityType, CountInt DEF InFlight
  <2> QED
    BY <2>1, <2>2, <2>3
<1> QED
  BY <1>1, TypeCorrect, MutualExclusion, ShapesKept, CoverKept, PTL

(* A target that is to be taken down has a row in the heatmap. *)
LEMMA PoppedCounted ==
    ASSUME TypeOK, WorkInv, LockHeld, Shapes, OpenJobs, CoverInv,
           NEW s \in Session,
           \/ pc[s] = "heatmap_pop"
           \/ pc[s] = "reconcile" /\ Exists(req[s].job)
    PROVE  hashval[todo[s][1]] \in DOMAIN heatmap
<1> DEFINE h == hashval[todo[s][1]]
<1>1. /\ todo[s] # <<>> /\ todo[s] \in Seq(Target)
      /\ pc[s] \in {"heatmap_pop", "reconcile"}
  BY DEF WorkInv, HasWork, TypeOK
<1>2. lock = s
  BY <1>1 DEF LockHeld, Locked
<1>3. 1 \in Places(todo[s], h) /\ h \in Net
  BY <1>1 DEF Places
<1>4. OpenAt(h) # {} \/ HandAt(h) # {}
  <2>1. CASE pc[s] = "heatmap_pop"
    <3>1. 1 \in HandAt(h)
      BY <1>2, <1>3, <2>1 DEF HandAt, HeldAt, Held
    <3> QED
      BY <3>1
  <2>2. CASE pc[s] = "reconcile" /\ Exists(req[s].job)
    <3> DEFINE j == req[s].job
    <3>1. pc[s] = "reconcile" /\ Exists(j)
      BY <2>2
    <3>2. req[s].op = "reconcile"
      BY <3>1 DEF Shapes, Shape
    <3>3. j \in Job /\ jobState[j] = "running" /\ todo[s] = jobTargets[j]
      BY <3>1, <3>2 DEF OpenJobs, StillOpen, Closing, Exists
    <3> HIDE DEF j
    <3>4. <<j, 1>> \in OpenAt(h)
      BY <1>3, <3>3 DEF OpenAt
    <3> QED
      BY <3>4
  <2> QED
    BY <2>1, <2>2
<1> HIDE DEF h
<1>5. /\ IsFiniteSet(OpenAt(h)) /\ IsFiniteSet(HandAt(h))
      /\ Cardinality(OpenAt(h)) + Cardinality(HandAt(h)) <= Count(heatmap, h)
  BY <1>3, HandFinite DEF CoverInv
<1>6. /\ Cardinality(OpenAt(h)) \in Nat /\ Cardinality(HandAt(h)) \in Nat
      /\ Count(heatmap, h) \in Int
      /\ Cardinality(OpenAt(h)) # 0 \/ Cardinality(HandAt(h)) # 0
  BY <1>4, <1>5, FS_CardinalityType, FS_EmptySet, CountInt
<1>7. Count(heatmap, h) # 0
  BY <1>5, <1>6
<1> QED
  BY <1>7 DEF Count, h

LEMMA CoolAlways ==
    ASSUME NEW w \in Session, OneCloser(w)
    PROVE  Spec => []CoolInv
<1>1. /\ TypeOK /\ WorkInv /\ LockHeld /\ Shapes /\ OpenJobs /\ CoverInv
      /\ CoolInv /\ [Next]_vars
      => CoolInv'
  <2>1. ASSUME TypeOK, WorkInv, LockHeld, Shapes, OpenJobs, CoverInv, CoolInv,
               NEW s \in Session, Begin(s) \/ Step(s) \/ Crash(s)
        PROVE  CoolInv'
    <3>1. HeatmapPop(s) \/ Reconcile(s)
             => hashval[todo[s][1]] \in DOMAIN heatmap
      <4>1. /\ HeatmapPop(s) => pc[s] = "heatmap_pop"
            /\ Reconcile(s) => pc[s] = "reconcile" /\ Exists(req[s].job)
        BY DEF HeatmapPop, Reconcile
      <4> QED
        BY <2>1, <4>1, PoppedCounted
    <3> QED
      BY <2>1, <3>1, CoolStep
  <2> QED
    BY <2>1, CoolStutter DEF Next
<1> QED
  BY <1>1, CoolInit, TypeCorrect, MutualExclusion, ShapesKept, OpenKept,
     CoverKept, PTL
  DEF Spec

(* Where one process closes jobs, no queue offers a hot network, whatever  *)
(* the hot level.                                                          *)
THEOREM HotNeverOfferedByOne ==
    ASSUME NEW w \in Session, OneCloser(w)
    PROVE  Spec => []ReadynetCool
<1>1. CoolInv => ReadynetCool
  BY DEF CoolInv
<1> QED
  BY <1>1, CoolAlways, PTL

(* Where one process closes jobs, no network ever has more targets in the  *)
(* hands of agents than SNER_HEATMAP_HOT_LEVEL: the promise of the         *)
(* scheduler to the networks it scans.                                     *)
THEOREM RateLimited ==
    ASSUME NEW w \in Session, OneCloser(w)
    PROVE  Spec => []RateLimit
<1>1. /\ TypeOK /\ WorkInv /\ LockHeld /\ Shapes
      /\ CoverInv /\ HeatCovers /\ CoolInv
      => RateLimit
  <2> SUFFICES ASSUME TypeOK, WorkInv, LockHeld, Shapes, CoverInv, HeatCovers,
                      CoolInv, HotLevel > 0, NEW h \in Net
               PROVE  InFlight(h) <= HotLevel
    BY DEF RateLimit
  <2>1. InFlight(h) <= Count(heatmap, h) /\ Count(heatmap, h) <= HotLevel
    BY DEF HeatCovers, CoolInv, HeatBounded
  <2>2. InFlight(h) \in Nat /\ Count(heatmap, h) \in Int
    BY InFlightCounted, CountInt DEF CoverInv, InFlight
  <2> QED
    BY <2>1, <2>2
<1> QED
  BY <1>1, TypeCorrect, MutualExclusion, ShapesKept, CoverKept, HeatCoversWork,
     CoolAlways, PTL

-----------------------------------------------------------------------------
(* The scheduler implements RateLimiter *)

(* the steps after which a session may have counted targets in its list *)
Assembling == {"pop_target", "heatmap_put", "create"}

LEMMA NotAssembling ==
    ASSUME TypeOK, NEW s \in Session, Begin(s) \/ Step(s) \/ Crash(s),
           ~HeatmapPut(s), ~(SelectQueue(s) \/ PopTarget(s) \/ EndOfGroup(s))
    PROVE  pc'[s] \notin Assembling
<1> USE DEF TypeOK, Goto, Return, Assembling
<1>1. CASE Begin(s)
  BY <1>1
  DEF Begin, BeginEnqueue, BeginFlush, BeginDeleteEmptyQueue, BeginDeleteJobs,
      BeginRepeat, BeginDeleteJob, BeginOutput, BeginReconcile, BeginRecount,
      BeginAssign, Call
<1>2. CASE \/ LockTimeout(s) \/ ReleaseLock(s) \/ EnqueueForeignKey(s)
           \/ UnlinkNoQueue(s) \/ WriteOutputNoQueue(s) \/ RowGone(s)
           \/ ReadynetConflict(s) \/ Crash(s)
  BY <1>2
  DEF LockTimeout, ReleaseLock, EnqueueForeignKey, UnlinkNoQueue,
      WriteOutputNoQueue, RowGone, ReadynetConflict, RaiseLocked, Crash
<1>3. CASE GetLock(s)
  BY <1>3 DEF GetLock, FirstStep
<1>4. CASE \/ Enqueue(s) \/ Flush(s) \/ Recount(s) \/ DeleteQueue(s)
           \/ CreateJob(s) \/ WriteOutput(s) \/ Finish(s) \/ Reload(s)
  BY <1>4
  DEF Enqueue, Flush, Recount, DeleteQueue, CreateJob, WriteOutput, Finish,
      Reload
<1>5. CASE \/ Unlink(s) \/ DeleteRow(s) \/ NextJob(s)
           \/ NoNextJob(s) \/ RemoveDir(s)
  BY <1>5 DEF Unlink, DeleteRow, NextJob, NoNextJob, RemoveDir
<1>6. CASE HeatmapPop(s) \/ Reconcile(s)
  BY <1>6 DEF HeatmapPop, Reconcile, PopFirst
<1> QED
  BY <1>1, <1>2, <1>3, <1>4, <1>5, <1>6 DEF Step

(* the places of the targets that a session has taken and counted *)
TakenBy(s, h) ==
    IF req[s].op = "assign" THEN HeldAt(s, h) \cap (1..MaxGroup) ELSE {}

LEMMA TakenPairs ==
    ASSUME NEW h
    PROVE  TakenAt(h) =
              {p \in Session \X (1..MaxGroup) : p[2] \in TakenBy(p[1], h)}
BY DEF TakenAt, TakenBy, HeldAt, Held, Places

LEMMA OthersTaken ==
    ASSUME TypeOK, NEW s \in Session, Begin(s) \/ Step(s) \/ Crash(s),
           NEW z \in Session \ {s}, NEW h
    PROVE  TakenBy(z, h)' = TakenBy(z, h)
<1>1. pc'[z] = pc[z] /\ req'[z] = req[z] /\ todo'[z] = todo[z]
  BY Alone
<1>2. req[z].op = "assign" => Held(z)' = Held(z)
  BY <1>1 DEF Held
<1> QED
  BY <1>1, <1>2 DEF TakenBy, HeldAt

(* but for heatmap_put, no step takes a target *)
LEMMA TakenLess ==
    ASSUME TypeOK, Shapes, Shapes', NEW s \in Session,
           Begin(s) \/ Step(s) \/ Crash(s), ~HeatmapPut(s), NEW h
    PROVE  TakenAt(h)' \subseteq TakenAt(h)
<1>1. TakenBy(s, h)' \subseteq TakenBy(s, h)
  <2>1. CASE SelectQueue(s) \/ PopTarget(s) \/ EndOfGroup(s)
    BY <2>1, AssignHand DEF TakenBy
  <2>2. CASE ~(SelectQueue(s) \/ PopTarget(s) \/ EndOfGroup(s))
    <3>1. pc'[s] \notin Assembling
      BY <2>2, NotAssembling
    <3>2. req'[s].op = "assign" => todo'[s] = <<>>
      BY <3>1 DEF Shapes, Shape, AssignSteps, Assembling
    <3> QED
      BY <3>2 DEF TakenBy, HeldAt, Held, Places
  <2> QED
    BY <2>1, <2>2
<1>2. \A z \in Session \ {s} : TakenBy(z, h)' = TakenBy(z, h)
  BY OthersTaken
<1>3. \A z \in Session : TakenBy(z, h)' \subseteq TakenBy(z, h)
  BY <1>1, <1>2
<1>4. TakenAt(h)' =
         {p \in Session \X (1..MaxGroup) : p[2] \in TakenBy(p[1], h)'}
  BY DEF TakenAt, TakenBy, HeldAt, Held, Places
<1> QED
  BY <1>3, <1>4, TakenPairs

(* but for the creation of a job, no step makes one run *)
LEMMA RunningLess ==
    ASSUME TypeOK, NEW s \in Session, Begin(s) \/ Step(s) \/ Crash(s),
           ~CreateJob(s), NEW h
    PROVE  RunningAt(h)' \subseteq RunningAt(h)
BY JobRows DEF RunningAt, JobSame, JobDropped, JobCreated, JobClosed

(* the step that takes one: its network counts one more, the others as     *)
(* before                                                                  *)
LEMMA PutTakes ==
    ASSUME TypeOK, WorkInv, Shapes, NEW s \in Session, HeatmapPut(s),
           NEW h, IsFiniteSet(TakenAt(h))
    PROVE  /\ RunningAt(h)' = RunningAt(h)
           /\ Cardinality(TakenAt(h)') =
                 IF h = hashval[LastOf(todo[s])] /\ Len(todo[s]) <= MaxGroup
                 THEN Cardinality(TakenAt(h)) + 1 ELSE Cardinality(TakenAt(h))
<1> DEFINE n == Len(todo[s])
           g == hashval[LastOf(todo[s])]
<1>1. /\ UNCHANGED <<jobState, jobTargets, todo, req>>
      /\ pc[s] = "heatmap_put" /\ pc'[s] = "pop_target"
  BY DEF HeatmapPut, Goto, jobs, TypeOK
<1>2. /\ req[s].op = "assign" /\ todo[s] \in Seq(Target) /\ n \in 1..n
      /\ n \in Nat
  BY <1>1 DEF Shapes, Shape, AssignSteps, WorkInv, HasWork, TypeOK
<1>3. RunningAt(h)' = RunningAt(h)
  BY <1>1 DEF RunningAt
<1>4. TakenBy(s, h) = {i \in Places(todo[s], h) : i # n} \cap (1..MaxGroup)
  BY <1>1, <1>2 DEF TakenBy, HeldAt, Held
<1>5. TakenBy(s, h)' = Places(todo[s], h) \cap (1..MaxGroup)
  BY <1>1, <1>2 DEF TakenBy, HeldAt, Held
<1>6. n \in Places(todo[s], h) <=> h = g
  BY <1>2 DEF Places, LastOf
<1>7. n \in 1..MaxGroup <=> n <= MaxGroup
  BY <1>2
<1> HIDE DEF n, g
<1>8. TakenBy(s, h)' = IF h = g /\ n <= MaxGroup THEN TakenBy(s, h) \cup {n}
                                                 ELSE TakenBy(s, h)
  BY <1>4, <1>5, <1>6, <1>7
<1>9. \A z \in Session \ {s} : TakenBy(z, h)' = TakenBy(z, h)
  BY OthersTaken DEF Step
<1>10. TakenAt(h)' =
         {p \in Session \X (1..MaxGroup) : p[2] \in TakenBy(p[1], h)'}
  BY DEF TakenAt, TakenBy, HeldAt, Held, Places
<1>11. TakenAt(h)' = IF h = g /\ n <= MaxGroup THEN TakenAt(h) \cup {<<s, n>>}
                                               ELSE TakenAt(h)
  <2>1. CASE h = g /\ n <= MaxGroup
    BY <1>7, <1>8, <1>9, <1>10, <2>1, TakenPairs
  <2>2. CASE ~(h = g /\ n <= MaxGroup)
    <3>1. \A z \in Session : TakenBy(z, h)' = TakenBy(z, h)
      BY <1>8, <1>9, <2>2
    <3> QED
      BY <1>10, <2>2, <3>1, TakenPairs
  <2> QED
    BY <2>1, <2>2
<1>12. <<s, n>> \notin TakenAt(h)
  BY <1>4, TakenPairs
<1>13. Cardinality(TakenAt(h)') = IF h = g /\ n <= MaxGroup
                                  THEN Cardinality(TakenAt(h)) + 1
                                  ELSE Cardinality(TakenAt(h))
  BY <1>11, <1>12, FS_AddElement
<1> QED
  BY <1>3, <1>13 DEF n, g

(* the creation of a job moves what was taken into what runs *)
LEMMA CreateMoves ==
    ASSUME TypeOK, WorkInv, LockHeld, Shapes, NEW s \in Session, CreateJob(s),
           NEW h, IsFiniteSet(RunningAt(h)), IsFiniteSet(TakenAt(h))
    PROVE  /\ IsFiniteSet(RunningAt(h)') /\ IsFiniteSet(TakenAt(h)')
           /\ Cardinality(RunningAt(h)') + Cardinality(TakenAt(h)')
                 <= Cardinality(RunningAt(h)) + Cardinality(TakenAt(h))
<1> DEFINE I == Places(todo[s], h) \cap (1..MaxGroup)
<1>1. PICK j \in Rows({"unused"}) :
        /\ jobState' = [jobState EXCEPT ![j] = "running"]
        /\ jobTargets' = [jobTargets EXCEPT ![j] = todo[s]]
  BY DEF CreateJob
<1>2. /\ pc[s] = "create" /\ pc'[s] = "release_lock" /\ todo'[s] = <<>>
  BY DEF CreateJob, Goto, TypeOK
<1>3. lock = s /\ req[s].op = "assign" /\ todo[s] \in Seq(Target)
  BY <1>2 DEF LockHeld, Locked, Shapes, Shape, AssignSteps, TypeOK
<1>4. RunningAt(h)' \subseteq RunningAt(h) \cup ({j} \X I)
  <2>1. \A k \in Job : jobState'[k] = IF k = j THEN "running" ELSE jobState[k]
    BY <1>1 DEF TypeOK
  <2>2. \A k \in Job : jobTargets'[k] = IF k = j THEN todo[s] ELSE jobTargets[k]
    BY <1>1 DEF TypeOK
  <2> QED
    BY <2>1, <2>2 DEF RunningAt, Places
<1>5. {s} \X I \subseteq TakenAt(h)
  BY <1>2, <1>3 DEF TakenAt, Places
<1>6. TakenAt(h)' = {}
  <2> SUFFICES ASSUME NEW p \in TakenAt(h)'
               PROVE  FALSE
    OBVIOUS
  <2>1. p[1] \in Session /\ req'[p[1]].op = "assign" /\ todo'[p[1]] # <<>>
    BY DEF TakenAt
  <2>2. p[1] # s
    BY <1>2, <2>1
  <2>3. req[p[1]].op = "assign" /\ todo[p[1]] # <<>>
    BY <2>1, <2>2, Alone DEF Step
  <2>4. pc[p[1]] \in Locked
    BY <2>1, <2>3 DEF Shapes, Shape, AssignSteps, Locked
  <2> QED
    BY <1>3, <2>1, <2>2, <2>4 DEF LockHeld
<1>7. IsFiniteSet(I)
  <2>1. IsFiniteSet(Places(todo[s], h))
    BY <1>3, PlacesFinite
  <2> QED
    BY <2>1, FS_Intersection
<1> HIDE DEF I
<1>8. /\ IsFiniteSet({j} \X I) /\ Cardinality({j} \X I) = Cardinality(I)
      /\ IsFiniteSet({s} \X I) /\ Cardinality({s} \X I) = Cardinality(I)
  BY <1>7, JobPlaces
<1>9. Cardinality(I) <= Cardinality(TakenAt(h))
  BY <1>5, <1>8, FS_Subset
<1>10. /\ IsFiniteSet(RunningAt(h) \cup ({j} \X I))
       /\ Cardinality(RunningAt(h) \cup ({j} \X I))
             <= Cardinality(RunningAt(h)) + Cardinality(I)
  <2> DEFINE A == RunningAt(h)
             X == {j} \X I
  <2>1. IsFiniteSet(A) /\ IsFiniteSet(X) /\ Cardinality(X) = Cardinality(I)
    BY <1>8
  <2> HIDE DEF A, X
  <2>2. /\ IsFiniteSet(A \cup X)
        /\ Cardinality(A \cup X)
              = Cardinality(A) + Cardinality(X) - Cardinality(A \cap X)
    BY <2>1, FS_Union
  <2>3. /\ IsFiniteSet(A \cap X) /\ Cardinality(A \cap X) \in Nat
        /\ Cardinality(A) \in Nat /\ Cardinality(X) \in Nat
    BY <2>1, FS_Intersection, FS_CardinalityType
  <2>4. Cardinality(A \cup X) <= Cardinality(A) + Cardinality(I)
    BY <2>1, <2>2, <2>3
  <2> QED
    BY <2>2, <2>4 DEF A, X
<1>11. /\ IsFiniteSet(RunningAt(h)')
       /\ Cardinality(RunningAt(h)')
             <= Cardinality(RunningAt(h) \cup ({j} \X I))
  BY <1>4, <1>10, FS_Subset
<1>12. /\ IsFiniteSet(TakenAt(h)') /\ Cardinality(TakenAt(h)') = 0
  BY <1>6, FS_EmptySet
<1>13. /\ Cardinality(RunningAt(h)') \in Nat
       /\ Cardinality(RunningAt(h) \cup ({j} \X I)) \in Nat
       /\ Cardinality(RunningAt(h)) \in Nat /\ Cardinality(TakenAt(h)) \in Nat
       /\ Cardinality(I) \in Nat
  BY <1>7, <1>10, <1>11, FS_CardinalityType
<1> QED
  BY <1>9, <1>10, <1>11, <1>12, <1>13

(* every step takes one target of a network under the level, or none *)
LEMMA LimiterStep ==
    ASSUME TypeOK, WorkInv, LockHeld, Shapes, Shapes', CoverInv, CoolInv,
           HeatCovers, Next
    PROVE  Limiter!Next
<1>1. PICK s \in Session : Begin(s) \/ Step(s) \/ Crash(s)
  BY DEF Next
<1>2. \A h \in Net :
        /\ IsFiniteSet(RunningAt(h)) /\ IsFiniteSet(TakenAt(h))
        /\ Cardinality(RunningAt(h)) \in Nat
        /\ Cardinality(TakenAt(h)) \in Nat
  BY InFlightCounted DEF CoverInv
<1>3. ASSUME \A h \in Net :
               /\ IsFiniteSet(RunningAt(h)') /\ IsFiniteSet(TakenAt(h)')
               /\ Cardinality(RunningAt(h)') + Cardinality(TakenAt(h)')
                     <= Cardinality(RunningAt(h)) + Cardinality(TakenAt(h))
      PROVE  Limiter!GiveBack
  <2> SUFFICES ASSUME NEW h \in Net
               PROVE  InFlight(h)' \in 0..InFlight(h)
    BY DEF Limiter!GiveBack
  <2>1. Cardinality(RunningAt(h)') \in Nat /\ Cardinality(TakenAt(h)') \in Nat
    BY <1>3, FS_CardinalityType
  <2> QED
    BY <1>2, <1>3, <2>1 DEF InFlight
<1>4. CASE HeatmapPut(s)
  <2> DEFINE g == hashval[LastOf(todo[s])]
  <2>1. \A h \in Net :
          /\ RunningAt(h)' = RunningAt(h)
          /\ Cardinality(TakenAt(h)') =
                IF h = g /\ Len(todo[s]) <= MaxGroup
                THEN Cardinality(TakenAt(h)) + 1 ELSE Cardinality(TakenAt(h))
    BY <1>2, <1>4, PutTakes
  <2>2. g \in Net /\ pc[s] = "heatmap_put"
    BY <1>4, PutCount DEF HeatmapPut
  <2>3. ~Hot(Count(heatmap, g)) /\ Count(heatmap, g) \in Int
    BY <2>2, CountInt DEF CoolInv, PutCool
  <2>4. HotLevel > 0 => InFlight(g) < HotLevel
    <3>1. InFlight(g) <= Count(heatmap, g) /\ InFlight(g) \in Nat
      BY <1>2, <2>2 DEF HeatCovers, InFlight
    <3> QED
      BY <2>3, <3>1 DEF Hot
  <2> HIDE DEF g
  <2>5. CASE Len(todo[s]) <= MaxGroup
    <3>1. \A h \in Net :
             InFlight(h)' = IF h = g THEN InFlight(h) + 1 ELSE InFlight(h)
      BY <1>2, <2>1, <2>5 DEF InFlight
    <3>2. Limiter!Take(g)
      BY <2>2, <2>4, <3>1 DEF Limiter!Take
    <3> QED
      BY <2>2, <3>2 DEF Limiter!Next
  <2>6. CASE ~(Len(todo[s]) <= MaxGroup)
    <3>1. \A h \in Net : InFlight(h)' = InFlight(h) /\ InFlight(h) \in Nat
      BY <1>2, <2>1, <2>6 DEF InFlight
    <3>2. Limiter!GiveBack
      BY <3>1 DEF Limiter!GiveBack
    <3> QED
      BY <3>2 DEF Limiter!Next
  <2> QED
    BY <2>5, <2>6
<1>5. CASE CreateJob(s)
  BY <1>2, <1>3, <1>5, CreateMoves DEF Limiter!Next
<1>6. CASE ~HeatmapPut(s) /\ ~CreateJob(s)
  <2>1. \A h : /\ RunningAt(h)' \subseteq RunningAt(h)
              /\ TakenAt(h)' \subseteq TakenAt(h)
    BY <1>1, <1>6, RunningLess, TakenLess
  <2> SUFFICES ASSUME NEW h \in Net
               PROVE  /\ IsFiniteSet(RunningAt(h)') /\ IsFiniteSet(TakenAt(h)')
                      /\ Cardinality(RunningAt(h)') + Cardinality(TakenAt(h)')
                            <= Cardinality(RunningAt(h))
                               + Cardinality(TakenAt(h))
    BY <1>3 DEF Limiter!Next
  <2>2. /\ IsFiniteSet(RunningAt(h)')
        /\ Cardinality(RunningAt(h)') <= Cardinality(RunningAt(h))
    BY <1>2, <2>1, FS_Subset
  <2>3. /\ IsFiniteSet(TakenAt(h)')
        /\ Cardinality(TakenAt(h)') <= Cardinality(TakenAt(h))
    BY <1>2, <2>1, FS_Subset
  <2>4. Cardinality(RunningAt(h)') \in Nat /\ Cardinality(TakenAt(h)') \in Nat
    BY <2>2, <2>3, FS_CardinalityType
  <2> QED
    BY <1>2, <2>2, <2>3, <2>4
<1> QED
  BY <1>4, <1>5, <1>6

(* Where one process closes jobs, the scheduler with its queues, readynets, *)
(* heatmap, lock, exceptions and kills implements RateLimiter.              *)
THEOREM ImplementsLimiter ==
    ASSUME NEW w \in Session, OneCloser(w)
    PROVE  Spec => LimiterSpec
<1>1. Init => Limiter!Init
  <2> SUFFICES ASSUME Init, NEW h \in Net
               PROVE  InFlight(h) = 0
    BY DEF Limiter!Init
  <2>1. RunningAt(h) = {} /\ TakenAt(h) = {}
    BY DEF Init, RunningAt, TakenAt, NoReq
  <2> QED
    BY <2>1, FS_EmptySet DEF InFlight
<1>2. /\ TypeOK /\ WorkInv /\ LockHeld /\ Shapes /\ Shapes' /\ CoverInv
      /\ CoolInv /\ HeatCovers /\ [Next]_vars
      => [Limiter!Next]_([h \in Net |-> InFlight(h)])
  <2>1. ASSUME UNCHANGED vars
        PROVE  UNCHANGED [h \in Net |-> InFlight(h)]
    <3>1. \A h : RunningAt(h)' = RunningAt(h) /\ TakenAt(h)' = TakenAt(h)
      BY <2>1 DEF vars, jobs, local, RunningAt, TakenAt
    <3> QED
      BY <3>1 DEF InFlight
  <2> QED
    BY <2>1, LimiterStep
<1> QED
  BY <1>1, <1>2, TypeCorrect, MutualExclusion, ShapesKept, CoverKept,
     CoolAlways, HeatCoversWork, PTL
  DEF Spec, LimiterSpec, Limiter!Spec

-----------------------------------------------------------------------------
(* Jobs and their output files *)

Closed == {"finished", "reconciled", "deleted"}

(* Nothing opens a job again. *)
LEMMA ClosedStays ==
    ASSUME TypeOK, NEW s \in Session, Begin(s) \/ Step(s) \/ Crash(s),
           NEW j \in Job, jobState[j] \in Closed
    PROVE  jobState'[j] \in Closed
BY JobRows DEF JobSame, JobDropped, JobCreated, JobClosed, Closed

(* A job stays in its queue for as long as it has a row. *)
LEMMA JobQueues ==
    ASSUME TypeOK, NEW s \in Session, Begin(s) \/ Step(s) \/ Crash(s),
           NEW j \in Job, jobState[j] # "unused", Exists(j)'
    PROVE  Exists(j) /\ jobQueue'[j] = jobQueue[j]
<1>1. jobQueue'[j] = jobQueue[j]
  <2> USE DEF TypeOK, jobs
  <2>1. CASE DeleteRow(s) \/ DeleteQueue(s)
    BY <2>1 DEF DeleteRow, DeleteQueue, DropRows, Exists
  <2>2. CASE Begin(s)
    BY <2>2
    DEF Begin, BeginEnqueue, BeginFlush, BeginDeleteEmptyQueue,
        BeginDeleteJobs, BeginRepeat, BeginDeleteJob, BeginOutput,
        BeginReconcile, BeginRecount, BeginAssign
  <2>3. CASE \/ LockTimeout(s) \/ ReleaseLock(s) \/ EnqueueForeignKey(s)
             \/ UnlinkNoQueue(s) \/ WriteOutputNoQueue(s) \/ RowGone(s)
             \/ ReadynetConflict(s) \/ Crash(s) \/ GetLock(s)
    BY <2>3
    DEF LockTimeout, ReleaseLock, EnqueueForeignKey, UnlinkNoQueue, GetLock,
        WriteOutputNoQueue, RowGone, ReadynetConflict, RaiseLocked, Crash
  <2>4. CASE \/ Enqueue(s) \/ Flush(s) \/ Recount(s) \/ Unlink(s)
             \/ NextJob(s) \/ NoNextJob(s) \/ RemoveDir(s)
             \/ SelectQueue(s) \/ PopTarget(s) \/ HeatmapPut(s)
             \/ EndOfGroup(s) \/ WriteOutput(s) \/ Reload(s)
    BY <2>4
    DEF Enqueue, Flush, Recount, Unlink, NextJob, NoNextJob, RemoveDir,
        SelectQueue, PopTarget, HeatmapPut, EndOfGroup, WriteOutput, Reload
  <2>5. CASE HeatmapPop(s) \/ Reconcile(s) \/ Finish(s)
    BY <2>5 DEF HeatmapPop, Reconcile, PopFirst, Finish
  <2>6. CASE CreateJob(s)
    BY <2>6 DEF CreateJob, Rows
  <2> QED
    BY <2>1, <2>2, <2>3, <2>4, <2>5, <2>6 DEF Step
<1>2. Exists(j)
  BY JobRows DEF JobSame, JobDropped, JobCreated, JobClosed, Exists
<1> QED
  BY <1>1, <1>2

-----------------------------------------------------------------------------
(* No running job is deleted *)

(* the only process that assigns jobs and deletes queues *)
OneKeeper(w) ==
    \A s \in Session \ {w} : Ops[s] \cap {"assign", "delete_queue"} = {}

(* JobManager.delete has seen that the job it deletes is closed.           *)
Checked(s) ==
    pc[s] \in {"unlink", "delete_row"} =>
        /\ req[s].job \in Job
        /\ jobState[req[s].job] \in Closed

(* The running jobs of a queue that is being deleted are still to be       *)
(* visited, and the deletion stops at the first of them.                   *)
Visited(s) ==
    req[s].op = "delete_queue" =>
        /\ pc[s] \in {"unlink", "delete_row", "next_job"} =>
              \A j \in Job :
                  jobState[j] = "running" /\ jobQueue[j] = req[s].queue
                      => j \in left[s]
        /\ pc[s] \in {"rmdir", "get_lock", "delete_queue"} =>
              \A j \in Job :
                  ~(jobState[j] = "running" /\ jobQueue[j] = req[s].queue)

DeleteInv == \A s \in Session : Checked(s) /\ Visited(s)

(* A job that runs after a step that assigns nothing ran before it.        *)
LEMMA RunningBefore ==
    ASSUME TypeOK, NEW s \in Session, Begin(s) \/ Step(s) \/ Crash(s),
           ~CreateJob(s), NEW j \in Job, jobState'[j] = "running"
    PROVE  jobState[j] = "running" /\ jobQueue'[j] = jobQueue[j]
<1>1. jobState[j] = "running"
  BY JobRows DEF JobSame, JobDropped, JobCreated, JobClosed
<1> QED
  BY <1>1, JobQueues DEF Exists

(* A step leaves the jobs that other sessions still have to visit.         *)
LEMMA LeftAlone ==
    ASSUME TypeOK, NEW s \in Session, Begin(s) \/ Step(s) \/ Crash(s)
    PROVE  \A z \in Session \ {s} : left'[z] = left[z]
<1> USE DEF TypeOK, Return
<1>1. CASE Begin(s)
  BY <1>1
  DEF Begin, BeginEnqueue, BeginFlush, BeginDeleteEmptyQueue, BeginDeleteJobs,
      BeginRepeat, BeginDeleteJob, BeginOutput, BeginReconcile, BeginRecount,
      BeginAssign
<1>2. CASE \/ Crash(s) \/ LockTimeout(s) \/ ReleaseLock(s)
           \/ EnqueueForeignKey(s) \/ UnlinkNoQueue(s)
           \/ WriteOutputNoQueue(s) \/ RowGone(s) \/ ReadynetConflict(s)
  BY <1>2
  DEF Crash, LockTimeout, ReleaseLock, EnqueueForeignKey, UnlinkNoQueue,
      WriteOutputNoQueue, RowGone, ReadynetConflict, RaiseLocked
<1>3. CASE \/ GetLock(s) \/ Enqueue(s) \/ Flush(s) \/ Recount(s)
           \/ Unlink(s) \/ DeleteQueue(s)
           \/ SelectQueue(s) \/ PopTarget(s) \/ HeatmapPut(s)
           \/ EndOfGroup(s) \/ CreateJob(s) \/ WriteOutput(s) \/ Finish(s)
           \/ Reload(s) \/ HeatmapPop(s) \/ Reconcile(s)
  BY <1>3
  DEF GetLock, Enqueue, Flush, Recount, Unlink, DeleteQueue, SelectQueue,
      PopTarget, HeatmapPut, EndOfGroup, CreateJob, WriteOutput, Finish,
      Reload, HeatmapPop, Reconcile, PopFirst
<1>4. CASE DeleteRow(s) \/ NextJob(s) \/ NoNextJob(s) \/ RemoveDir(s)
  BY <1>4 DEF DeleteRow, NextJob, NoNextJob, RemoveDir
<1> QED
  BY <1>1, <1>2, <1>3, <1>4 DEF Step

LEMMA DeleteStep ==
    ASSUME TypeOK, Shapes, NEW w \in Session, OneKeeper(w), DeleteInv,
           NEW s \in Session, Begin(s) \/ Step(s) \/ Crash(s)
    PROVE  DeleteInv'
<1> USE DEF TypeOK
<1>1. \A z \in Session : Checked(z) /\ Visited(z)
  BY DEF DeleteInv
<1>2. \A z \in Session : req[z].op \in {"assign", "delete_queue"} => z = w
  BY DEF Shapes, Shape, OneKeeper
<1>3. ASSUME NEW z \in Session, z # s
      PROVE  Checked(z)' /\ Visited(z)'
  <2>1. pc'[z] = pc[z] /\ req'[z] = req[z] /\ left'[z] = left[z]
    BY <1>3, Alone, LeftAlone
  <2>2. Checked(z)'
    BY <1>1, <2>1, ClosedStays DEF Checked
  <2>3. req[z].op = "delete_queue" => ~CreateJob(s)
    BY <1>2, <1>3 DEF CreateJob, Shapes, Shape, AssignSteps
  <2>4. Visited(z)'
    BY <1>1, <2>1, <2>3, RunningBefore DEF Visited
  <2> QED
    BY <2>2, <2>4
<1>4. Checked(s)' /\ Visited(s)'
  <2>1. CASE Begin(s)
    <3> USE DEF Goto, Call, Checked, Visited
    <3>1. CASE \E q \in Queue, ts \in Batch : BeginEnqueue(s, q, ts)
      BY <1>1, <3>1 DEF BeginEnqueue
    <3>2. CASE \E q \in Queue : BeginFlush(s, q)
      BY <1>1, <3>2 DEF BeginFlush
    <3>3. CASE \E q \in Queue : BeginDeleteEmptyQueue(s, q)
      BY <1>1, <3>3 DEF BeginDeleteEmptyQueue, Exists, jobs
    <3>4. CASE \E q \in Queue, op \in Op : BeginDeleteJobs(s, q, op)
      BY <1>1, <3>4 DEF BeginDeleteJobs, Exists, jobs, Closed
    <3>5. CASE \E j \in Job : BeginDeleteJob(s, j)
      BY <1>1, <3>5 DEF BeginDeleteJob, jobs, Closed
    <3>6. CASE \E j \in Job : BeginRepeat(s, j)
      BY <1>1, <3>6 DEF BeginRepeat
    <3>7. CASE \E j \in Job : BeginOutput(s, j) \/ BeginReconcile(s, j)
      BY <1>1, <3>7 DEF BeginOutput, BeginReconcile
    <3>8. CASE BeginRecount(s) \/ BeginAssign(s)
      BY <1>1, <3>8 DEF BeginRecount, BeginAssign
    <3> QED
      BY <2>1, <3>1, <3>2, <3>3, <3>4, <3>5, <3>6, <3>7, <3>8 DEF Begin
  <2>2. ASSUME Return(s)
        PROVE  Checked(s)' /\ Visited(s)'
    BY <2>2 DEF Return, Goto, NoReq, Checked, Visited
  <2>3. CASE \/ Crash(s) \/ LockTimeout(s) \/ ReleaseLock(s)
             \/ EnqueueForeignKey(s) \/ UnlinkNoQueue(s)
             \/ WriteOutputNoQueue(s) \/ RowGone(s) \/ ReadynetConflict(s)
    BY <2>2, <2>3
    DEF Crash, LockTimeout, ReleaseLock, EnqueueForeignKey, UnlinkNoQueue,
        WriteOutputNoQueue, RowGone, ReadynetConflict, RaiseLocked
  <2>4. CASE GetLock(s)
    BY <1>1, <2>4 DEF GetLock, Goto, FirstStep, jobs, Checked, Visited
  <2>5. CASE Unlink(s)
    BY <1>1, <2>5 DEF Unlink, Goto, jobs, Checked, Visited
  <2>6. CASE DeleteRow(s)
    <3>1. CASE req[s].op = "delete_job"
      BY <2>2, <2>6, <3>1 DEF DeleteRow
    <3>2. CASE req[s].op # "delete_job"
      <4>1. /\ pc[s] = "delete_row" /\ pc'[s] = "next_job"
            /\ UNCHANGED <<req, left>> /\ ~CreateJob(s)
        BY <2>6, <3>2 DEF DeleteRow, Goto, CreateJob
      <4> QED
        BY <1>1, <4>1, RunningBefore DEF Checked, Visited
    <3> QED
      BY <3>1, <3>2
  <2>7. CASE NextJob(s)
    <3>1. PICK j \in left[s] :
             IF jobState[j] \in {"finished", "reconciled"}
             THEN /\ req' = [req EXCEPT ![s].job = j]
                  /\ left' = [left EXCEPT ![s] = @ \ {j}]
                  /\ Goto(s, "unlink")
                  /\ UNCHANGED todo
             ELSE Return(s)
      BY <2>7 DEF NextJob
    <3>2. CASE jobState[j] \in {"finished", "reconciled"}
      <4>1. req'[s] = [req[s] EXCEPT !.job = j]
        BY <3>1, <3>2
      <4>2. req'[s].op = req[s].op /\ req'[s].queue = req[s].queue
            /\ req'[s].job = j
        BY <4>1 DEF Request
      <4>3. /\ pc[s] = "next_job" /\ pc'[s] = "unlink"
            /\ left'[s] = left[s] \ {j}
            /\ UNCHANGED <<jobState, jobQueue>>
        BY <2>7, <3>1, <3>2 DEF NextJob, Goto, jobs
      <4> QED
        BY <1>1, <3>2, <4>2, <4>3 DEF Checked, Visited, Closed
    <3> QED
      BY <2>2, <3>1, <3>2
  <2>8. CASE NoNextJob(s) \/ RemoveDir(s)
    <3>1. CASE Return(s)
      BY <2>2, <3>1
    <3>2. CASE ~Return(s)
      BY <1>1, <2>8, <3>2
      DEF NoNextJob, RemoveDir, Goto, jobs, Checked, Visited, Shapes, Shape
    <3> QED
      BY <3>1, <3>2
  <2>9. CASE SelectQueue(s) \/ PopTarget(s) \/ CreateJob(s)
    <3>1. req[s].op = "assign" /\ left' = left
      BY <2>9 DEF SelectQueue, PopTarget, CreateJob, Shapes, Shape, AssignSteps
    <3>2. req'[s].op = req[s].op
      BY <2>9, RequestOp DEF SelectQueue, CreateJob, PopTarget
    <3>3. pc'[s] \notin {"unlink", "delete_row"}
      BY <2>9 DEF SelectQueue, PopTarget, CreateJob, Goto
    <3> QED
      BY <1>1, <3>1, <3>2, <3>3 DEF Checked, Visited
  <2>10. CASE \/ Enqueue(s) \/ Flush(s) \/ Recount(s) \/ DeleteQueue(s)
              \/ HeatmapPut(s) \/ EndOfGroup(s) \/ WriteOutput(s)
              \/ Finish(s) \/ Reload(s) \/ HeatmapPop(s) \/ Reconcile(s)
    <3>1. /\ UNCHANGED <<req, left>>
          /\ pc'[s] \in {"release_lock", "pop_target", "create", "finish",
                         "reload", "heatmap_pop"}
      BY <2>10
      DEF Enqueue, Flush, Recount, DeleteQueue, HeatmapPut, EndOfGroup,
          WriteOutput, Finish, Reload, HeatmapPop, Reconcile, PopFirst, Goto
    <3> QED
      BY <1>1, <3>1 DEF Checked, Visited
  <2> QED
    BY <2>1, <2>3, <2>4, <2>5, <2>6, <2>7, <2>8, <2>9, <2>10 DEF Step
<1> QED
  BY <1>3, <1>4 DEF DeleteInv

LEMMA DeleteKept ==
    ASSUME NEW w \in Session, OneKeeper(w)
    PROVE  Spec => []DeleteInv
<1>1. Init => DeleteInv
  BY DEF Init, DeleteInv, Checked, Visited, NoReq
<1>2. TypeOK /\ Shapes /\ DeleteInv /\ [Next]_vars => DeleteInv'
  <2> SUFFICES ASSUME TypeOK, Shapes, DeleteInv, [Next]_vars
               PROVE  DeleteInv'
    OBVIOUS
  <2>1. CASE UNCHANGED vars
    BY <2>1 DEF vars, local, jobs, DeleteInv, Checked, Visited
  <2>2. CASE Next
    BY <2>2, DeleteStep DEF Next
  <2> QED
    BY <2>1, <2>2
<1> QED
  BY <1>1, <1>2, TypeCorrect, ShapesKept, PTL DEF Spec

(* A job that runs is not deleted by the step of any session.              *)
LEMMA RunningUndeleted ==
    ASSUME TypeOK, Shapes, DeleteInv,
           NEW s \in Session, Begin(s) \/ Step(s) \/ Crash(s),
           NEW j \in Job, jobState[j] = "running"
    PROVE  jobState'[j] # "deleted"
<1> USE DEF TypeOK, jobs
<1>1. Checked(s) /\ Visited(s)
  BY DEF DeleteInv
<1>2. CASE DeleteRow(s)
  BY <1>1, <1>2 DEF DeleteRow, DropRows, Checked, Closed
<1>3. CASE DeleteQueue(s)
  <2>1. req[s].op = "delete_queue"
    BY <1>3 DEF DeleteQueue, Shapes, Shape
  <2> QED
    BY <1>1, <1>3, <2>1 DEF DeleteQueue, DropRows, Visited
<1>4. CASE Begin(s)
  BY <1>4
  DEF Begin, BeginEnqueue, BeginFlush, BeginDeleteEmptyQueue,
      BeginDeleteJobs, BeginRepeat, BeginDeleteJob, BeginOutput,
      BeginReconcile, BeginRecount, BeginAssign
<1>5. CASE \/ LockTimeout(s) \/ ReleaseLock(s) \/ EnqueueForeignKey(s)
           \/ UnlinkNoQueue(s) \/ WriteOutputNoQueue(s) \/ RowGone(s)
           \/ ReadynetConflict(s) \/ Crash(s) \/ GetLock(s)
  BY <1>5
  DEF LockTimeout, ReleaseLock, EnqueueForeignKey, UnlinkNoQueue, GetLock,
      WriteOutputNoQueue, RowGone, ReadynetConflict, RaiseLocked, Crash
<1>6. CASE \/ Enqueue(s) \/ Flush(s) \/ Recount(s) \/ Unlink(s)
           \/ NextJob(s) \/ NoNextJob(s) \/ RemoveDir(s)
           \/ SelectQueue(s) \/ PopTarget(s) \/ HeatmapPut(s)
           \/ EndOfGroup(s) \/ WriteOutput(s) \/ Reload(s)
  BY <1>6
  DEF Enqueue, Flush, Recount, Unlink, NextJob, NoNextJob, RemoveDir,
      SelectQueue, PopTarget, HeatmapPut, EndOfGroup, WriteOutput, Reload
<1>7. CASE CreateJob(s)
  BY <1>7 DEF CreateJob, Rows
<1>8. CASE HeatmapPop(s) \/ Reconcile(s) \/ Finish(s)
  BY <1>8 DEF HeatmapPop, Reconcile, PopFirst, Finish
<1> QED
  BY <1>2, <1>3, <1>4, <1>5, <1>6, <1>7, <1>8 DEF Step

(* Where one process assigns jobs and deletes queues, no running job is    *)
(* deleted (core.py:100-134, 521-524), whoever prunes, drains and deletes  *)
(* single jobs meanwhile: between the check of a queue's jobs and the      *)
(* cascade of its row no job of it can start.                              *)
THEOREM RunningJobsKept ==
    ASSUME NEW w \in Session, OneKeeper(w)
    PROVE  Spec => RunningKept
<1>1. TypeOK /\ Shapes /\ DeleteInv /\ [Next]_vars =>
        [\A j \in Job : jobState[j] = "running"
            => jobState'[j] # "deleted"]_vars
  BY RunningUndeleted DEF Next
<1> QED
  BY <1>1, TypeCorrect, ShapesKept, DeleteKept, PTL DEF Spec, RunningKept

-----------------------------------------------------------------------------
(* The heatmap drifts by kills and vanished rows only *)

(* No job and no assignment has more targets than the largest group; a     *)
(* job without a row has none.                                             *)
GroupInv ==
    /\ \A j \in Job :
          jobState[j] = "running" => Len(jobTargets[j]) <= MaxGroup
    /\ \A s \in Session : req[s].op = "assign" => Len(todo[s]) <= MaxGroup
    /\ \A j \in Job : ~Exists(j) => jobTargets[j] = <<>>

LEMMA GroupStep ==
    ASSUME TypeOK, Shapes, GroupInv, NEW s \in Session,
           Begin(s) \/ Step(s) \/ Crash(s)
    PROVE  GroupInv'
<1> USE DEF TypeOK
<1>1. ASSUME NEW j \in Job, jobState'[j] = "running"
      PROVE  Len(jobTargets'[j]) <= MaxGroup
  <2>1. CASE JobSame(j)
    BY <1>1, <2>1 DEF JobSame, GroupInv
  <2>2. CASE JobCreated(s, j)
    <3>1. req[s].op = "assign" /\ jobTargets'[j] = todo[s]
      BY <2>2 DEF JobCreated, CreateJob, Shapes, Shape, AssignSteps
    <3> QED
      BY <3>1 DEF GroupInv
  <2> QED
    BY <1>1, <2>1, <2>2, JobRows DEF JobDropped, JobClosed
<1>2. ASSUME NEW z \in Session, z # s, req'[z].op = "assign"
      PROVE  Len(todo'[z]) <= MaxGroup
  BY <1>2, Alone DEF GroupInv
<1>3. ASSUME req'[s].op = "assign"
      PROVE  Len(todo'[s]) <= MaxGroup
  <2> USE DEF Goto
  <2>1. ASSUME todo' = todo, req'[s].op = req[s].op
        PROVE  Len(todo'[s]) <= MaxGroup
    BY <1>3, <2>1 DEF GroupInv
  <2>2. ASSUME todo'[s] = <<>>
        PROVE  Len(todo'[s]) <= MaxGroup
    BY <2>2, BoundsAssumption
  <2>3. ~Return(s)
    BY <1>3 DEF Return, NoReq
  <2>4. CASE Begin(s)
    <3>1. BeginAssign(s)
      BY <1>3, <2>4
      DEF Begin, BeginEnqueue, BeginFlush, BeginDeleteEmptyQueue,
          BeginDeleteJobs, BeginRepeat, BeginDeleteJob, BeginOutput,
          BeginReconcile, BeginRecount, Call
    <3>2. todo'[s] = <<>>
      BY <3>1 DEF BeginAssign, Call, Shapes, Shape
    <3> QED
      BY <2>2, <3>2
  <2>5. CASE PopTarget(s)
    <3>1. /\ Len(todo[s]) < MaxGroup /\ todo[s] \in Seq(Target)
          /\ \/ todo' = todo
             \/ \E t \in Target : todo' = [todo EXCEPT ![s] = Append(@, t)]
      BY <2>5 DEF PopTarget, Candidates
    <3>2. CASE todo' = todo
      BY <3>1, <3>2, BoundsAssumption
    <3>3. CASE \E t \in Target : todo' = [todo EXCEPT ![s] = Append(@, t)]
      <4>1. PICK t \in Target : todo' = [todo EXCEPT ![s] = Append(@, t)]
        BY <3>3
      <4>2. Len(todo'[s]) = Len(todo[s]) + 1
        BY <3>1, <4>1, AppendProperties
      <4> QED
        BY <3>1, <4>2, BoundsAssumption
    <3> QED
      BY <3>1, <3>2, <3>3
  <2>6. CASE CreateJob(s)
    BY <2>2, <2>6 DEF CreateJob
  <2>7. CASE SelectQueue(s)
    <3>1. todo' = todo /\ req'[s].op = req[s].op
      BY <2>7, RequestOp DEF SelectQueue
    <3> QED
      BY <2>1, <3>1
  <2>8. CASE NextJob(s)
    <3>1. todo' = todo /\ \E j : req' = [req EXCEPT ![s].job = j]
      BY <2>3, <2>8 DEF NextJob
    <3> QED
      BY <2>1, <3>1, RequestOp
  <2>9. CASE \/ LockTimeout(s) \/ ReleaseLock(s) \/ EnqueueForeignKey(s)
             \/ UnlinkNoQueue(s) \/ WriteOutputNoQueue(s) \/ RowGone(s)
             \/ ReadynetConflict(s) \/ Crash(s)
    BY <2>3, <2>9
    DEF LockTimeout, ReleaseLock, EnqueueForeignKey, UnlinkNoQueue,
        WriteOutputNoQueue, RowGone, ReadynetConflict, RaiseLocked, Crash
  <2>10. CASE \/ GetLock(s) \/ Enqueue(s) \/ Flush(s) \/ Recount(s)
              \/ Unlink(s) \/ DeleteRow(s) \/ NoNextJob(s) \/ RemoveDir(s)
              \/ DeleteQueue(s) \/ HeatmapPut(s) \/ EndOfGroup(s)
              \/ WriteOutput(s) \/ Finish(s)
    BY <2>1, <2>3, <2>10
    DEF GetLock, Enqueue, Flush, Recount, Unlink, DeleteRow, NoNextJob,
        RemoveDir, DeleteQueue, HeatmapPut, EndOfGroup, WriteOutput, Finish
  <2>11. CASE Reload(s) \/ HeatmapPop(s) \/ Reconcile(s)
    BY <1>3, <2>11
    DEF Reload, HeatmapPop, Reconcile, PopFirst, Shapes, Shape, OutputSteps
  <2> QED
    BY <2>4, <2>5, <2>6, <2>7, <2>8, <2>9, <2>10, <2>11 DEF Step
<1>4. ASSUME NEW j \in Job, ~Exists(j)'
      PROVE  jobTargets'[j] = <<>>
  BY <1>4, JobRows
  DEF GroupInv, JobSame, JobDropped, JobCreated, JobClosed, Exists
<1> QED
  BY <1>1, <1>2, <1>3, <1>4 DEF GroupInv

LEMMA GroupKept == Spec => []GroupInv
<1>1. Init => GroupInv
  BY DEF Init, GroupInv, NoReq, Exists
<1>2. TypeOK /\ Shapes /\ GroupInv /\ [Next]_vars => GroupInv'
  <2> SUFFICES ASSUME TypeOK, Shapes, GroupInv, [Next]_vars
               PROVE  GroupInv'
    OBVIOUS
  <2>1. CASE UNCHANGED vars
    BY <2>1 DEF vars, local, jobs, GroupInv, Exists
  <2>2. CASE Next
    BY <2>2, GroupStep DEF Next
  <2> QED
    BY <2>1, <2>2
<1> QED
  BY <1>1, <1>2, TypeCorrect, ShapesKept, PTL DEF Spec

(* While no readynet is hot, a pop finds no row that it would insert again *)
(* (core.py:441-443).                                                      *)
LEMMA NoConflict ==
    ASSUME TypeOK, WorkInv, LockHeld, Shapes, OpenJobs, CoverInv, CoolInv,
           NEW s \in Session, pc[s] = "heatmap_pop"
    PROVE  ~ReadynetConflict(s)
<1> DEFINE h == hashval[todo[s][1]]
<1>1. h \in DOMAIN heatmap
  BY PoppedCounted
<1> HIDE DEF h
<1>2. heatmap[h] \in Int
  BY <1>1 DEF TypeOK
<1>3. Decremented(heatmap, h)[h] = heatmap[h] - 1
  BY <1>1 DEF Decremented, Upsert
<1>4. Cools(h) => Hot(Count(heatmap, h))
  BY <1>1, <1>2, <1>3, HotLevelAssumption DEF Cools, Hot, Count
<1>5. ASSUME NEW q, <<q, h>> \in readynet
      PROVE  ~Hot(Count(heatmap, h))
  BY <1>5 DEF CoolInv, ReadynetCool
<1>6. ~Conflict(h)
  BY <1>4, <1>5 DEF Conflict
<1> QED
  BY <1>6 DEF ReadynetConflict, h

(* The rows of jobs go by the deletion of a job or of its queue only.      *)
LEMMA RowsDropped ==
    ASSUME TypeOK, NEW s \in Session, Begin(s) \/ Step(s) \/ Crash(s),
           NEW j \in Job, JobDropped(j)
    PROVE  (DeleteRow(s) /\ req[s].job = j) \/ DeleteQueue(s)
<1> USE DEF TypeOK, jobs, JobDropped, Exists
<1>1. CASE DeleteRow(s)
  BY <1>1 DEF DeleteRow, DropRows
<1>2. CASE Begin(s)
  BY <1>2
  DEF Begin, BeginEnqueue, BeginFlush, BeginDeleteEmptyQueue,
      BeginDeleteJobs, BeginRepeat, BeginDeleteJob, BeginOutput,
      BeginReconcile, BeginRecount, BeginAssign
<1>3. CASE \/ LockTimeout(s) \/ ReleaseLock(s) \/ EnqueueForeignKey(s)
           \/ UnlinkNoQueue(s) \/ WriteOutputNoQueue(s) \/ RowGone(s)
           \/ ReadynetConflict(s) \/ Crash(s) \/ GetLock(s)
  BY <1>3
  DEF LockTimeout, ReleaseLock, EnqueueForeignKey, UnlinkNoQueue, GetLock,
      WriteOutputNoQueue, RowGone, ReadynetConflict, RaiseLocked, Crash
<1>4. CASE \/ Enqueue(s) \/ Flush(s) \/ Recount(s) \/ Unlink(s)
           \/ NextJob(s) \/ NoNextJob(s) \/ RemoveDir(s)
           \/ SelectQueue(s) \/ PopTarget(s) \/ HeatmapPut(s)
           \/ EndOfGroup(s) \/ WriteOutput(s) \/ Reload(s)
  BY <1>4
  DEF Enqueue, Flush, Recount, Unlink, NextJob, NoNextJob, RemoveDir,
      SelectQueue, PopTarget, HeatmapPut, EndOfGroup, WriteOutput, Reload
<1>5. CASE CreateJob(s)
  BY <1>5 DEF CreateJob
<1>6. CASE HeatmapPop(s) \/ Reconcile(s) \/ Finish(s)
  BY <1>6 DEF HeatmapPop, Reconcile, PopFirst, Finish
<1> QED
  BY <1>1, <1>2, <1>3, <1>4, <1>5, <1>6 DEF Step

(* A step that moves no target leaves the heat, the lock of others and     *)
(* empty hands alone; but for a kill, hands that hold something do not let *)
(* go of it.                                                               *)
LEMMA Standing ==
    ASSUME TypeOK, WorkInv, LockHeld, Shapes, OpenJobs, CoverInv, CoolInv,
           GroupInv, Shapes', NEW s \in Session,
           Begin(s) \/ Step(s) \/ Crash(s), ~Moving(s)
    PROVE  /\ heatmap' = heatmap
           /\ lock' = lock \/ {lock, lock'} \subseteq {s, NoSession}
           /\ \/ Held(s) = <<>> /\ Held(s)' = <<>>
              \/ Crash(s) /\ pc[s] \in Locked
<1> USE DEF tables, locking, Carrying, Goto
<1>1. pc \in [Session -> Labels] /\ lock \in Session \cup {NoSession}
  BY DEF TypeOK
<1>2. pc[s] \notin Carrying => Held(s) = <<>>
  BY DEF Held, Shapes, Shape, AssignSteps
<1>3. pc'[s] \notin Carrying => Held(s)' = <<>>
  BY DEF Held, Shapes, Shape, AssignSteps
<1>4. CASE Begin(s)
  BY <1>1, <1>2, <1>3, <1>4
  DEF Begin, BeginEnqueue, BeginFlush, BeginDeleteEmptyQueue,
      BeginDeleteJobs, BeginRepeat, BeginDeleteJob, BeginOutput,
      BeginReconcile, BeginRecount, BeginAssign, Call
<1>5. CASE Crash(s)
  BY <1>1, <1>2, <1>3, <1>5 DEF Crash, Return, Locked
<1>6. CASE \/ LockTimeout(s) \/ EnqueueForeignKey(s) \/ UnlinkNoQueue(s)
           \/ WriteOutputNoQueue(s)
  BY <1>1, <1>2, <1>3, <1>6
  DEF LockTimeout, EnqueueForeignKey, UnlinkNoQueue, WriteOutputNoQueue,
      RaiseLocked, Return
<1>7. CASE ReleaseLock(s)
  <2>1. lock = s
    BY <1>7 DEF ReleaseLock, LockHeld, Locked
  <2> QED
    BY <1>1, <1>2, <1>3, <1>7, <2>1 DEF ReleaseLock, OwnerAfter, Return
<1>8. CASE RowGone(s)
  <2>1. pc[s] = "reload" => Held(s) = <<>>
    BY <1>8 DEF RowGone, WorkInv, HasWork, GroupInv, Held, Shapes, Shape,
                OutputSteps
  <2> QED
    BY <1>1, <1>2, <1>3, <1>8, <2>1 DEF RowGone, RaiseLocked, Return
<1>9. CASE ReadynetConflict(s)
  <2>1. pc[s] # "heatmap_pop"
    BY <1>9, NoConflict
  <2> QED
    BY <1>1, <1>2, <1>3, <1>9, <2>1 DEF ReadynetConflict, RaiseLocked, Return
<1>10. CASE GetLock(s)
  BY <1>1, <1>2, <1>3, <1>10 DEF GetLock, CanLock, FirstStep
<1>11. CASE \/ Enqueue(s) \/ Flush(s) \/ Recount(s) \/ Unlink(s)
            \/ DeleteRow(s) \/ NextJob(s) \/ NoNextJob(s) \/ RemoveDir(s)
            \/ DeleteQueue(s) \/ WriteOutput(s)
  BY <1>1, <1>2, <1>3, <1>11
  DEF Enqueue, Flush, Recount, Unlink, DeleteRow, NextJob, NoNextJob,
      RemoveDir, DeleteQueue, WriteOutput, Return
<1> QED
  BY <1>4, <1>5, <1>6, <1>7, <1>8, <1>9, <1>10, <1>11 DEF Step, Moving

(* What the owner of the lock holds shrinks by a kill or with a job's row. *)
LEMMA HandShrinks ==
    ASSUME TypeOK, WorkInv, LockHeld, Shapes, OpenJobs, CoverInv, CoolInv,
           GroupInv, Shapes', NEW s \in Session,
           Begin(s) \/ Step(s) \/ Crash(s), ~Moving(s), NEW h \in Net
    PROVE  \/ HandAt(h)' = HandAt(h)
           \/ HandAt(h)' = {} /\ (KilledAtWork \/ RowGoes)
<1>1. /\ lock' = lock \/ {lock, lock'} \subseteq {s, NoSession}
      /\ \/ Held(s) = <<>> /\ Held(s)' = <<>>
         \/ Crash(s) /\ pc[s] \in Locked
  BY Standing
<1>2. lock \in Session \cup {NoSession} /\ NoSession \notin Session
  BY SentinelAssumption DEF TypeOK
<1>3. CASE Crash(s) /\ pc[s] \in Locked
  <2>1. lock = s /\ lock' = NoSession
    BY <1>3 DEF LockHeld, Crash
  <2>2. HandAt(h)' = {}
    BY <1>2, <2>1 DEF HandAt
  <2>3. KilledAtWork
    BY <1>3 DEF KilledAtWork
  <2> QED
    BY <2>2, <2>3
<1>4. CASE Held(s) = <<>> /\ Held(s)' = <<>>
  <2>1. HeldAt(s, h) = {} /\ HeldAt(s, h)' = {}
    BY <1>4 DEF HeldAt, Places
  <2>2. CASE lock \notin Session \ {s}
    <3>1. {lock, lock'} \subseteq {s, NoSession}
      BY <1>1, <1>2, <2>2
    <3>2. HandAt(h) = {} /\ HandAt(h)' = {}
      BY <1>2, <2>1, <3>1 DEF HandAt
    <3> QED
      BY <3>2
  <2>3. CASE lock \in Session \ {s}
    <3> DEFINE z == lock
               j == req[z].job
    <3>1. lock' = lock /\ z \in Session /\ z # s
      BY <1>1, <1>2, <2>3
    <3>2. pc'[z] = pc[z] /\ req'[z] = req[z] /\ todo'[z] = todo[z]
      BY <3>1, Alone
    <3>3. CASE Held(z)' = Held(z)
      <4>1. HeldAt(z, h)' = HeldAt(z, h)
        BY <3>1, <3>2, <3>3 DEF HeldAt
      <4> QED
        BY <3>1, <4>1 DEF HandAt
    <3>4. CASE Held(z)' # Held(z)
      <4>1. /\ pc[z] = "reload" /\ Held(z) = jobTargets[j]
            /\ Held(z)' = jobTargets'[j]
        BY <3>1, <3>2, <3>4 DEF Held
      <4>2. j \in Job
        BY <3>1, <4>1 DEF WorkInv, HasWork
      <4>3. JobDropped(j)
        <5>1. ~JobCreated(s, j)
          BY DEF JobCreated, Moving
        <5>2. jobTargets'[j] # jobTargets[j]
          BY <3>4, <4>1
        <5> QED
          BY <4>2, <5>1, <5>2, JobRows DEF JobSame, JobClosed
      <4>4. ~DeleteQueue(s)
        BY <3>1 DEF DeleteQueue, LockHeld, Locked
      <4>5. DeleteRow(s) /\ req[s].job = j
        BY <4>2, <4>3, <4>4, RowsDropped
      <4>6. RowGoes
        BY <3>1, <4>1, <4>5 DEF RowGoes
      <4>7. HeldAt(z, h)' = {}
        BY <3>1, <4>1, <4>3 DEF HeldAt, Places, JobDropped
      <4>8. HandAt(h)' = {}
        BY <3>1, <4>7 DEF HandAt
      <4> QED
        BY <4>6, <4>8
    <3> QED
      BY <3>3, <3>4
  <2> QED
    BY <2>2, <2>3
<1> QED
  BY <1>1, <1>3, <1>4

(* the count of a network less what is open and in hand, over one step     *)
LEMMA GapDrifts ==
    ASSUME TypeOK, WorkInv, LockHeld, Shapes, OpenJobs, CoverInv, CoolInv,
           DeleteInv, GroupInv, Shapes', NEW s \in Session,
           Begin(s) \/ Step(s) \/ Crash(s), NEW h \in Net, Gap(h)' # Gap(h)
    PROVE  Gap(h)' > Gap(h) /\ (KilledAtWork \/ RowGoes)
<1>1. ~Moving(s)
  BY GapKept
<1>2. OpenAt(h)' = OpenAt(h)
  <2>1. \A j \in Job : jobState'[j] = "running" => JobSame(j)
    BY <1>1, JobRows DEF JobDropped, JobCreated, JobClosed, Moving
  <2>2. \A j \in Job : jobState[j] = "running" => JobSame(j)
    BY <1>1, JobRows, RunningUndeleted
    DEF JobDropped, JobCreated, JobClosed, Moving
  <2> QED
    BY <2>1, <2>2 DEF OpenAt, JobSame
<1>3. heatmap' = heatmap
  BY <1>1, Standing
<1>4. HandAt(h)' # HandAt(h)
  BY <1>2, <1>3 DEF Gap
<1>5. HandAt(h)' = {} /\ (KilledAtWork \/ RowGoes)
  BY <1>1, <1>4, HandShrinks
<1> DEFINE H == HandAt(h)
           O == Cardinality(OpenAt(h))
           c == Count(heatmap, h)
<1>6. IsFiniteSet(H) /\ H # {}
  BY <1>4, <1>5, HandFinite
<1>7. O \in Nat /\ c \in Int
  BY CountInt, FS_CardinalityType DEF CoverInv
<1>8. Gap(h) = c - (O + Cardinality(H)) /\ Gap(h)' = c - (O + Cardinality({}))
  BY <1>2, <1>3, <1>5 DEF Gap
<1> HIDE DEF H, O, c
<1>9. Cardinality(H) \in Nat \ {0} /\ Cardinality({}) = 0
  BY <1>6, FS_CardinalityType, FS_EmptySet
<1> QED
  BY <1>5, <1>7, <1>8, <1>9

(* no running job has a target beyond the largest group *)
RunningIsOpen == \A h \in Net : RunningAt(h) = OpenAt(h)

LEMMA RunningOpen ==
    ASSUME TypeOK, GroupInv
    PROVE  RunningIsOpen
<1> SUFFICES ASSUME NEW h \in Net
             PROVE  RunningAt(h) = OpenAt(h)
  BY DEF RunningIsOpen
<1>1. \A j \in Job : /\ jobTargets[j] \in Seq(Target)
                     /\ jobState[j] = "running"
                          => Len(jobTargets[j]) <= MaxGroup
  BY DEF TypeOK, GroupInv
<1>2. \A j \in Job, i \in Nat :
         jobState[j] = "running" /\ i \in DOMAIN jobTargets[j]
           => i \in 1..MaxGroup
  BY <1>1, BoundsAssumption
<1>3. \A i : i \in 1..MaxGroup => i \in Nat
  BY BoundsAssumption
<1> QED
  BY <1>2, <1>3 DEF RunningAt, OpenAt, Places

(* Where one process closes jobs and one assigns and deletes queues, the   *)
(* heatmap drifts from the work it stands for (heatmap_check,              *)
(* core.py:616-650) only by a kill between two commits of a handler or by  *)
(* the deletion of a job whose output is being taken in, and only upwards, *)
(* with exceptions, waits, drains by the planner and prunes beside it.     *)
THEOREM HeatDriftsOnly ==
    ASSUME NEW w \in Session, OneCloser(w), OneKeeper(w)
    PROVE  Spec => HeatDrifts
<1>1. TypeOK /\ GroupInv => RunningIsOpen
  BY RunningOpen
<1>2. /\ TypeOK /\ WorkInv /\ LockHeld /\ Shapes /\ OpenJobs /\ CoverInv
      /\ CoolInv /\ DeleteInv /\ GroupInv /\ RunningIsOpen /\ [Next]_vars
      /\ Shapes' /\ RunningIsOpen'
      => [\A h \in Net : Drift(h)' # Drift(h)
            => Drift(h)' > Drift(h) /\ (KilledAtWork \/ RowGoes)]_vars
  <2> SUFFICES ASSUME TypeOK, WorkInv, LockHeld, Shapes, OpenJobs, CoverInv,
                      CoolInv, DeleteInv, GroupInv, RunningIsOpen, Next,
                      Shapes', RunningIsOpen', NEW h \in Net,
                      Drift(h)' # Drift(h)
               PROVE  Drift(h)' > Drift(h) /\ (KilledAtWork \/ RowGoes)
    OBVIOUS
  <2>1. Drift(h) = Gap(h) /\ Drift(h)' = Gap(h)'
    BY DEF RunningIsOpen, Drift, Gap
  <2>2. PICK s \in Session : Begin(s) \/ Step(s) \/ Crash(s)
    BY DEF Next
  <2> QED
    BY <2>1, <2>2, GapDrifts
<1> QED
  BY <1>1, <1>2, TypeCorrect, MutualExclusion, ShapesKept, OpenKept,
     CoverKept, CoolAlways, DeleteKept, GroupKept, PTL
  DEF Spec, HeatDrifts

-----------------------------------------------------------------------------
(* The output of a finished job is on disk *)

(* no process that deletes jobs is killed *)
DeletersLive ==
    \A s \in Mortal : Ops[s] \cap {"delete_job", "prune", "delete_queue"} = {}

Deleting(j) == \E z \in Session : pc[z] = "delete_row" /\ req[z].job = j

OnDisk(q, j) == <<q, j>> \in files \/ Deleting(j)

(* a job that a handler works on, in the queue it works with *)
Member(s, j) ==
    /\ j \in Job /\ jobState[j] # "unused"
    /\ Exists(j) => jobQueue[j] = req[s].queue

(* A handler that deletes jobs or stores an output computes the path of    *)
(* the job's own output file.                                              *)
Filed(s) ==
    /\ req[s].op = "output" \/ pc[s] \in {"unlink", "delete_row"}
          => Member(s, req[s].job)
    /\ \A j \in left[s] : Member(s, j)
    /\ left[s] # {} => req[s].op \in {"prune", "delete_queue"}

(* What is about to be recorded as finished has been written.              *)
Written(s) ==
    pc[s] = "finish" /\ Exists(req[s].job) => OnDisk(req[s].queue, req[s].job)

OutputInv == OutputKept /\ \A s \in Session : Filed(s) /\ Written(s)

(* A file goes away only with a handler that then deletes the job's row.   *)
LEMMA DiskKept ==
    ASSUME TypeOK, Shapes, DeletersLive,
           NEW s \in Session, Begin(s) \/ Step(s) \/ Crash(s),
           NEW q, NEW j \in Job, OnDisk(q, j), Exists(j)'
    PROVE  OnDisk(q, j)'
<1> USE DEF TypeOK
<1>1. CASE <<q, j>> \in files
  <2>1. CASE Unlink(s)
    <3>1. /\ files' = files \ {<<req[s].queue, req[s].job>>}
          /\ pc'[s] = "delete_row" /\ req' = req
      BY <2>1 DEF Unlink, OutputPath, Goto
    <3> QED
      BY <1>1, <3>1 DEF OnDisk, Deleting
  <2>2. CASE ~Unlink(s)
    <3>1. files \subseteq files'
      <4>1. CASE Begin(s)
        BY <4>1
        DEF Begin, BeginEnqueue, BeginFlush, BeginDeleteEmptyQueue,
            BeginDeleteJobs, BeginRepeat, BeginDeleteJob, BeginOutput,
            BeginReconcile, BeginRecount, BeginAssign
      <4>2. CASE \/ LockTimeout(s) \/ ReleaseLock(s) \/ EnqueueForeignKey(s)
                 \/ UnlinkNoQueue(s) \/ WriteOutputNoQueue(s) \/ RowGone(s)
                 \/ ReadynetConflict(s) \/ Crash(s) \/ GetLock(s)
        BY <4>2
        DEF LockTimeout, ReleaseLock, EnqueueForeignKey, UnlinkNoQueue,
            GetLock, WriteOutputNoQueue, RowGone, ReadynetConflict,
            RaiseLocked, Crash
      <4>3. CASE \/ Enqueue(s) \/ Flush(s) \/ Recount(s)
                 \/ DeleteRow(s) \/ DeleteQueue(s)
                 \/ NextJob(s) \/ NoNextJob(s) \/ RemoveDir(s)
                 \/ SelectQueue(s) \/ PopTarget(s) \/ HeatmapPut(s)
                 \/ EndOfGroup(s) \/ CreateJob(s) \/ Reload(s)
        BY <4>3
        DEF Enqueue, Flush, Recount, DeleteRow, DeleteQueue, NextJob,
            NoNextJob, RemoveDir, SelectQueue, PopTarget, HeatmapPut,
            EndOfGroup, CreateJob, Reload
      <4>4. CASE \/ HeatmapPop(s) \/ Reconcile(s) \/ Finish(s)
                 \/ WriteOutput(s)
        BY <4>4 DEF HeatmapPop, Reconcile, PopFirst, Finish, WriteOutput
      <4> QED
        BY <2>2, <4>1, <4>2, <4>3, <4>4 DEF Step
    <3> QED
      BY <1>1, <3>1 DEF OnDisk
  <2> QED
    BY <2>1, <2>2
<1>2. CASE Deleting(j)
  <2>1. PICK z \in Session : pc[z] = "delete_row" /\ req[z].job = j
    BY <1>2 DEF Deleting
  <2>2. CASE z # s
    BY <2>1, <2>2, Alone DEF OnDisk, Deleting
  <2>3. CASE z = s
    <3>1. pc[s] = "delete_row" /\ req[s].job = j
      BY <2>1, <2>3
    <3>2. ~Crash(s)
      BY <3>1 DEF Crash, DeletersLive, Shapes, Shape
    <3>3. ~Begin(s)
      BY <3>1
      DEF Begin, BeginEnqueue, BeginFlush, BeginDeleteEmptyQueue,
          BeginDeleteJobs, BeginRepeat, BeginDeleteJob, BeginOutput,
          BeginReconcile, BeginRecount, BeginAssign, Call
    <3>4. DeleteRow(s)
      BY <3>1, <3>2, <3>3
      DEF Step, GetLock, LockTimeout, ReleaseLock, Enqueue, EnqueueForeignKey,
          Flush, Recount, Unlink, UnlinkNoQueue, NextJob, NoNextJob,
          RemoveDir, DeleteQueue, SelectQueue, PopTarget, HeatmapPut,
          EndOfGroup, CreateJob, WriteOutput, WriteOutputNoQueue, Finish,
          Reload, HeatmapPop, Reconcile, RowGone, ReadynetConflict
    <3>5. ~Exists(j)'
      BY <3>1, <3>4 DEF DeleteRow, DropRows, Exists
    <3> QED
      BY <3>5
  <2> QED
    BY <2>2, <2>3
<1> QED
  BY <1>1, <1>2 DEF OnDisk

(* A handler's job stays a member of its queue. *)
LEMMA MemberKept ==
    ASSUME TypeOK, NEW s \in Session, Begin(s) \/ Step(s) \/ Crash(s),
           NEW z \in Session, req'[z].queue = req[z].queue,
           NEW j, Member(z, j)
    PROVE  Member(z, j)'
<1>1. j \in Job /\ jobState[j] # "unused"
  BY DEF Member
<1>2. jobState'[j] # "unused"
  BY <1>1, JobRows DEF JobSame, JobDropped, JobCreated, JobClosed, TypeOK,
                       Exists
<1>3. Exists(j)' => Exists(j) /\ jobQueue'[j] = jobQueue[j]
  BY <1>1, JobQueues
<1> QED
  BY <1>1, <1>2, <1>3 DEF Member

LEMMA OutputStep ==
    ASSUME TypeOK, Shapes, DeletersLive, OutputInv,
           NEW s \in Session, Begin(s) \/ Step(s) \/ Crash(s)
    PROVE  OutputInv'
<1> USE DEF TypeOK
<1>1. \A z \in Session : Filed(z) /\ Written(z)
  BY DEF OutputInv
<1>2. ASSUME NEW z \in Session, z # s
      PROVE  Filed(z)' /\ Written(z)'
  <2>1. pc'[z] = pc[z] /\ req'[z] = req[z] /\ left'[z] = left[z]
    BY <1>2, Alone, LeftAlone
  <2>2. \A j : Member(z, j) => Member(z, j)'
    BY <2>1, MemberKept
  <2>3. Filed(z)'
    BY <1>1, <2>1, <2>2 DEF Filed
  <2>4. Written(z)'
    <3> SUFFICES ASSUME NEW q, NEW j, q = req[z].queue, j = req[z].job,
                        pc[z] = "finish", Exists(j)'
                 PROVE  OnDisk(q, j)'
      BY <2>1 DEF Written
    <3>1. req[z].op = "output"
      BY DEF Shapes, Shape, OutputSteps
    <3>2. /\ j \in Job /\ jobState[j] # "unused"
      BY <1>1, <3>1 DEF Filed, Member
    <3>3. Exists(j)
      BY <3>2, JobQueues
    <3>4. OnDisk(q, j)
      BY <1>1, <3>3 DEF Written
    <3> QED
      BY <3>2, <3>4, DiskKept
  <2> QED
    BY <2>3, <2>4
<1>3. ASSUME Return(s)
      PROVE  Filed(s)' /\ Written(s)'
  BY <1>3 DEF Return, Goto, NoReq, Filed, Written
<1>4. ASSUME req' = req, left'[s] \subseteq left[s], pc'[s] # "finish",
             pc'[s] \in {"unlink", "delete_row"}
                 => pc[s] \in {"unlink", "delete_row"}
      PROVE  Filed(s)' /\ Written(s)'
  <2>1. \A j : Member(s, j) => Member(s, j)'
    BY <1>4, MemberKept
  <2> QED
    BY <1>1, <1>4, <2>1 DEF Filed, Written
<1>5. Filed(s)' /\ Written(s)'
  <2>1. CASE Begin(s)
    <3>1. pc[s] = "idle" /\ req[s].op = "none" /\ left[s] = {}
      BY <1>1, <2>1
      DEF Begin, BeginEnqueue, BeginFlush, BeginDeleteEmptyQueue,
          BeginDeleteJobs, BeginRepeat, BeginDeleteJob, BeginOutput,
          BeginReconcile, BeginRecount, BeginAssign, Call, Shapes, Shape,
          Filed
    <3> USE DEF Goto, Call, Filed, Written, Member, Exists
    <3>2. CASE \E q \in Queue, ts \in Batch : BeginEnqueue(s, q, ts)
      BY <3>1, <3>2 DEF BeginEnqueue
    <3>3. CASE \E q \in Queue : BeginFlush(s, q) \/ BeginDeleteEmptyQueue(s, q)
      BY <3>1, <3>3 DEF BeginFlush, BeginDeleteEmptyQueue
    <3>4. CASE \E q \in Queue, op \in Op : BeginDeleteJobs(s, q, op)
      BY <3>1, <3>4 DEF BeginDeleteJobs, jobs
    <3>5. CASE \E j \in Job : BeginDeleteJob(s, j)
      BY <3>1, <3>5 DEF BeginDeleteJob, jobs
    <3>6. CASE \E j \in Job : BeginRepeat(s, j)
      BY <3>1, <3>6 DEF BeginRepeat
    <3>7. CASE \E j \in Job : BeginOutput(s, j) \/ BeginReconcile(s, j)
      BY <3>1, <3>7 DEF BeginOutput, BeginReconcile, jobs
    <3>8. CASE BeginRecount(s) \/ BeginAssign(s)
      BY <3>1, <3>8 DEF BeginRecount, BeginAssign
    <3> QED
      BY <2>1, <3>2, <3>3, <3>4, <3>5, <3>6, <3>7, <3>8 DEF Begin
  <2>2. CASE \/ Crash(s) \/ LockTimeout(s) \/ ReleaseLock(s)
             \/ EnqueueForeignKey(s) \/ UnlinkNoQueue(s)
             \/ WriteOutputNoQueue(s) \/ RowGone(s) \/ ReadynetConflict(s)
    BY <1>3, <2>2
    DEF Crash, LockTimeout, ReleaseLock, EnqueueForeignKey, UnlinkNoQueue,
        WriteOutputNoQueue, RowGone, ReadynetConflict, RaiseLocked
  <2>3. CASE GetLock(s)
    BY <1>4, <2>3 DEF GetLock, Goto, FirstStep
  <2>4. CASE Unlink(s)
    BY <1>4, <2>4 DEF Unlink, Goto
  <2>5. CASE DeleteRow(s) \/ NoNextJob(s) \/ RemoveDir(s)
    <3>1. CASE Return(s)
      BY <1>3, <3>1
    <3>2. CASE ~Return(s)
      BY <1>4, <2>5, <3>2 DEF DeleteRow, NoNextJob, RemoveDir, Goto
    <3> QED
      BY <3>1, <3>2
  <2>6. CASE NextJob(s)
    <3>1. PICK j \in left[s] :
             IF jobState[j] \in {"finished", "reconciled"}
             THEN /\ req' = [req EXCEPT ![s].job = j]
                  /\ left' = [left EXCEPT ![s] = @ \ {j}]
                  /\ Goto(s, "unlink")
                  /\ UNCHANGED todo
             ELSE Return(s)
      BY <2>6 DEF NextJob
    <3>2. CASE jobState[j] \in {"finished", "reconciled"}
      <4>1. req'[s] = [req[s] EXCEPT !.job = j]
        BY <3>1, <3>2
      <4>2. req'[s].op = req[s].op /\ req'[s].queue = req[s].queue
            /\ req'[s].job = j
        BY <4>1 DEF Request
      <4>3. pc'[s] = "unlink" /\ left'[s] = left[s] \ {j}
        BY <3>1, <3>2 DEF Goto
      <4>4. \A i \in left[s] : Member(s, i)'
        BY <1>1, <4>2, MemberKept DEF Filed
      <4> QED
        BY <1>1, <4>2, <4>3, <4>4 DEF Filed, Written
    <3> QED
      BY <1>3, <3>1, <3>2
  <2>7. CASE SelectQueue(s) \/ PopTarget(s) \/ CreateJob(s)
    <3>1. req[s].op = "assign" /\ left' = left
      BY <2>7 DEF SelectQueue, PopTarget, CreateJob, Shapes, Shape, AssignSteps
    <3>2. req'[s].op = req[s].op
      BY <2>7, RequestOp DEF SelectQueue, CreateJob, PopTarget
    <3>3. pc'[s] \notin {"unlink", "delete_row", "finish"}
      BY <2>7 DEF SelectQueue, PopTarget, CreateJob, Goto
    <3> QED
      BY <1>1, <3>1, <3>2, <3>3 DEF Filed, Written
  <2>8. CASE WriteOutput(s)
    <3>1. /\ UNCHANGED <<req, left>> /\ pc'[s] = "finish"
          /\ pc[s] = "write"
          /\ <<req[s].queue, req[s].job>> \in files'
      BY <2>8 DEF WriteOutput, Goto, OutputPath
    <3>2. \A j : Member(s, j) => Member(s, j)'
      BY <3>1, MemberKept
    <3> QED
      BY <1>1, <3>1, <3>2 DEF Filed, Written, OnDisk
  <2>9. CASE \/ Enqueue(s) \/ Flush(s) \/ Recount(s) \/ DeleteQueue(s)
             \/ HeatmapPut(s) \/ EndOfGroup(s)
             \/ Finish(s) \/ Reload(s) \/ HeatmapPop(s) \/ Reconcile(s)
    <3>1. /\ UNCHANGED <<req, left>>
          /\ pc'[s] \in {"release_lock", "pop_target", "create",
                         "reload", "heatmap_pop"}
      BY <2>9
      DEF Enqueue, Flush, Recount, DeleteQueue, HeatmapPut, EndOfGroup,
          Finish, Reload, HeatmapPop, Reconcile, PopFirst, Goto
    <3> QED
      BY <1>4, <3>1
  <2> QED
    BY <2>1, <2>2, <2>3, <2>4, <2>5, <2>6, <2>7, <2>8, <2>9 DEF Step
<1>6. ASSUME NEW j \in Job, jobState'[j] = "finished"
      PROVE  OnDisk(jobQueue[j], j)'
  <2> SUFFICES ASSUME NEW q, q = jobQueue'[j]
               PROVE  OnDisk(q, j)'
    OBVIOUS
  <2>1. jobState[j] # "unused"
    BY <1>6, JobRows
    DEF JobSame, JobDropped, JobCreated, JobClosed, Exists
  <2>2. Exists(j) /\ jobQueue[j] = q /\ Exists(j)'
    BY <1>6, <2>1, JobQueues DEF Exists
  <2>3. OnDisk(q, j)
    <3>1. CASE jobState[j] = "finished"
      BY <2>2, <3>1 DEF OutputInv, OutputKept, OnDisk, Deleting
    <3>2. CASE jobState[j] # "finished"
      <4>1. JobClosed(s, j)
        BY <1>6, <3>2, JobRows DEF JobSame, JobDropped, JobCreated
      <4>2. Finish(s) /\ j = req[s].job
        BY <1>6, <4>1 DEF JobClosed, Reconcile
      <4>3. pc[s] = "finish" /\ req[s].op = "output"
        BY <4>2 DEF Finish, Shapes, Shape, OutputSteps
      <4> QED
        BY <1>1, <2>2, <4>2, <4>3 DEF Filed, Member, Written
    <3> QED
      BY <3>1, <3>2
  <2> QED
    BY <2>2, <2>3, DiskKept
<1>7. OutputKept'
  BY <1>6 DEF OutputKept, OnDisk, Deleting
<1> QED
  BY <1>2, <1>5, <1>7 DEF OutputInv

(* If no process that deletes jobs is killed, the output of a finished job *)
(* is on disk for the planner until a handler deletes the row as well      *)
(* (core.py:556-575, 521-534), for any number of workers, repeated         *)
(* outputs, drains and operators at once.                                  *)
THEOREM OutputsKept ==
    ASSUME DeletersLive
    PROVE  Spec => []OutputKept
<1>1. Init => OutputInv
  BY DEF Init, OutputInv, OutputKept, Filed, Written, NoReq
<1>2. TypeOK /\ Shapes /\ OutputInv /\ [Next]_vars => OutputInv'
  <2> SUFFICES ASSUME TypeOK, Shapes, OutputInv, [Next]_vars
               PROVE  OutputInv'
    OBVIOUS
  <2>1. CASE UNCHANGED vars
    BY <2>1
    DEF vars, local, jobs, OutputInv, OutputKept, Filed, Written, Member,
        OnDisk, Deleting, Exists
  <2>2. CASE Next
    BY <2>2, OutputStep DEF Next
  <2> QED
    BY <2>1, <2>2
<1>3. OutputInv => OutputKept
  BY DEF OutputInv
<1> QED
  BY <1>1, <1>2, <1>3, TypeCorrect, ShapesKept, PTL DEF Spec

=============================================================================
