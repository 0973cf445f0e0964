------------------------------ MODULE Scheduler ------------------------------
(***************************************************************************)
(* The rate-limiting job scheduler (sner/server/scheduler/core.py) and the *)
(* routes and commands that call it.                                       *)
(*                                                                         *)
(* A session is one process with its own database connection: a web       *)
(* worker, the planner, or a command line run.  It executes one handler at *)
(* a time; a handler is a sequence of database transactions, and one       *)
(* action below is one transaction (or one file operation, or one unlocked *)
(* read).  The handlers serialise on one session-level advisory lock,      *)
(* which the database keeps until it is unlocked or the connection closes: *)
(* an exception between get_lock and release_lock leaves it held.          *)
(***************************************************************************)
EXTENDS Integers, Sequences, FiniteSets

CONSTANTS
    Queue,          \* queue ids
    Target,         \* target strings
    Net,            \* heatmap hash values
    hashval,        \* [Target -> Net], the network a target is rate-limited by
    Excluded,       \* targets matched by SNER_EXCLUSIONS
    HotLevel,       \* SNER_HEATMAP_HOT_LEVEL, 0 switches rate limiting off
    Job,            \* uuids a run may draw; bounds the number of jobs
    Session,        \* processes with a database connection
    Ops,            \* [Session -> handlers the process runs]
    Mortal,         \* sessions that may be killed at any point
    Batch,          \* inputs of enqueue, as sequences of targets
    MaxGroup,       \* largest group_size of a queue
    MaxCopies,      \* bound: no new enqueue of a target queued that often
    NoQueue, NoJob, NoSession

Op == {"enqueue", "repeat", "flush", "prune", "delete_queue", "recount",
       "assign", "output", "reconcile", "delete_job"}

ASSUME HashvalAssumption == hashval \in [Target -> Net]
ASSUME HotLevelAssumption == HotLevel \in Nat
ASSUME BoundsAssumption == MaxGroup \in Nat \ {0} /\ MaxCopies \in Nat \ {0}
ASSUME BatchAssumption == Batch \subseteq Seq(Target) \ {<<>>}
ASSUME OpsAssumption == Ops \in [Session -> SUBSET Op]
ASSUME SentinelAssumption ==
    NoQueue \notin Queue /\ NoJob \notin Job /\ NoSession \notin Session

VARIABLES
    queues,      \* rows of table queue
    targets,     \* table target, as a bag: [Queue -> [Target -> Nat]]
    readynet,    \* table readynet, pairs <<queue, network>>
    heatmap,     \* table heatmap, a function on the networks that have a row
    jobState,    \* table job: no row yet, retval NULL, >= 0, -1, or row deleted
    jobQueue, jobTargets,     \* its queue_id and assignment['targets']
    files,       \* job output files, pairs <<queue, job>>
    issued,      \* jobs whose assignment has been answered to an agent
    lock,        \* owner of the advisory lock
    leaked,      \* an earlier handler of the owner died without release_lock
    pc,          \* where the handler of a session is
    req,         \* what it was called with
    todo,        \* targets to enqueue, being assigned, or still to pop
    left         \* jobs a prune or a queue delete has still to visit

tables == <<queues, targets, readynet, heatmap>>
jobs == <<jobState, jobQueue, jobTargets>>
locking == <<lock, leaked>>
local == <<pc, req, todo, left>>
vars == <<tables, jobs, files, issued, locking, local>>

-----------------------------------------------------------------------------
(* Table operations *)

(* value of a heatmap row; a missing row counts nothing *)
Count(hm, h) == IF h \in DOMAIN hm THEN hm[h] ELSE 0

HotAbove(c) == HotLevel > 0 /\ c > HotLevel       \* mutant: > for >=
Hot(c) == HotLevel > 0 /\ c >= HotLevel

(* INSERT ... ON CONFLICT DO UPDATE *)
Upsert(hm, h, c) ==
    [g \in DOMAIN hm \cup {h} |-> IF g = h THEN c ELSE hm[g]]

Incremented(hm, h) == Upsert(hm, h, Count(hm, h) + 1)

(* the insert half of the decrement also writes 1 *)
Decremented(hm, h) ==
    Upsert(hm, h, IF h \in DOMAIN hm THEN hm[h] - 1 ELSE 1)

(* the garbage collector removes every row that counts 0 *)
Collected(hm) == [h \in {g \in DOMAIN hm : hm[g] # 0} |-> hm[h]]

(* SELECT DISTINCT queue_id FROM target WHERE hashval = h *)
HoldersEver(h) == Queue                           \* mutant: no target counted
Holders(h) ==
    {q \in Queue : \E t \in Target : hashval[t] = h /\ targets[q][t] > 0}

Occurrences(ts, t) == Cardinality({i \in DOMAIN ts : ts[i] = t})
NetsOf(ts) == {hashval[ts[i]] : i \in DOMAIN ts}
NoTargets == [t \in Target |-> 0]
CoolNetsAll(ts) == NetsOf(ts)                     \* mutant: heat not looked at
CoolNets(ts) == {h \in NetsOf(ts) : ~Hot(Count(heatmap, h))}
ReadynetOf(q) == {r \in readynet : r[1] = q}
Rows(state) == {j \in Job : jobState[j] \in state}
Exists(j) == jobState[j] \in {"running", "finished", "reconciled"}

-----------------------------------------------------------------------------
(* Sessions: calls, lock, returns *)

NoReq == [op |-> "none", queue |-> NoQueue, job |-> NoJob]

Goto(s, label) == pc' = [pc EXCEPT ![s] = label]

Call(s, op, q, j, label) ==
    /\ pc[s] = "idle"
    /\ op \in Ops[s]
    /\ Goto(s, label)
    /\ req' = [req EXCEPT ![s] = [op |-> op, queue |-> q, job |-> j]]

Return(s) ==
    /\ Goto(s, "idle")
    /\ req' = [req EXCEPT ![s] = NoReq]
    /\ todo' = [todo EXCEPT ![s] = <<>>]
    /\ left' = [left EXCEPT ![s] = {}]

(* An exception inside the locked part ends the request, not the session:  *)
(* the transaction is rolled back, the advisory lock stays.                *)
RaiseLocked(s) ==
    /\ Return(s)
    /\ leaked' = TRUE
    /\ UNCHANGED <<tables, jobs, files, issued, lock>>

FirstStep(op) ==
    CASE op = "enqueue" -> "enqueue"
      [] op = "repeat" -> "enqueue"
      [] op = "flush" -> "flush"
      [] op = "delete_queue" -> "delete_queue"
      [] op = "recount" -> "recount"
      [] op = "assign" -> "select"
      [] op = "output" -> "write"
      [] op = "reconcile" -> "reconcile"
      [] OTHER -> "idle"

(* the lock is re-entrant: the owner's later handlers get it again *)
CanLockAlways(s) == TRUE                          \* mutant: timeout ignored
CanLock(s) == lock \in {NoSession, s}

GetLock(s) ==
    /\ pc[s] = "get_lock"
    /\ CanLock(s)
    /\ lock' = s
    /\ Goto(s, FirstStep(req[s].op))
    /\ UNCHANGED <<tables, jobs, files, issued, leaked, req, todo, left>>

(* only assign (answers 'no work') and output (answers 429) set a timeout *)
LockTimeout(s) ==
    /\ pc[s] = "get_lock"
    /\ ~CanLock(s)
    /\ req[s].op \in {"assign", "output"}
    /\ Return(s)
    /\ UNCHANGED <<tables, jobs, files, issued, locking>>

(* mutant: the early return of 'no work' forgets to unlock *)
OwnerAfterNoWork(s) ==
    IF leaked \/ (req[s].op = "assign" /\ req[s].job = NoJob)
    THEN s ELSE NoSession
OwnerAfter(s) == IF leaked THEN s ELSE NoSession

(* the answer of an assign leaves the server after the unlock *)
ReleaseLock(s) ==
    /\ pc[s] = "release_lock"
    /\ lock' = OwnerAfter(s)
    /\ issued' = IF req[s].op = "assign" /\ req[s].job # NoJob
                 THEN issued \cup {req[s].job} ELSE issued
    /\ Return(s)
    /\ UNCHANGED <<tables, jobs, files, leaked>>

-----------------------------------------------------------------------------
(* Queues *)

BeginEnqueue(s, q, ts) ==
    /\ q \in queues
    /\ \A t \in Target : targets[q][t] < MaxCopies \/ Occurrences(ts, t) = 0
    /\ Call(s, "enqueue", q, NoJob, "get_lock")
    /\ todo' = [todo EXCEPT ![s] = ts]
    /\ UNCHANGED <<tables, jobs, files, issued, locking, left>>

(* nothing stops the repetition of a job that still runs *)
BeginRepeat(s, j) ==
    /\ Exists(j)
    /\ \A t \in Target :
          \/ targets[jobQueue[j]][t] < MaxCopies
          \/ Occurrences(jobTargets[j], t) = 0
    /\ Call(s, "repeat", jobQueue[j], j, "get_lock")
    /\ todo' = [todo EXCEPT ![s] = jobTargets[j]]
    /\ UNCHANGED <<tables, jobs, files, issued, locking, left>>

(* One transaction; the foreign key fails it when the queue was deleted    *)
(* while the handler waited for the lock.                                  *)
Enqueue(s) ==
    LET q == req[s].queue IN
    /\ pc[s] = "enqueue"
    /\ q \in queues
    /\ targets' = [targets EXCEPT ![q] =
                      [t \in Target |-> @[t] + Occurrences(todo[s], t)]]
    /\ readynet' = readynet \cup ({q} \X CoolNets(todo[s]))
    /\ Goto(s, "release_lock")
    /\ UNCHANGED <<queues, heatmap, jobs, files, issued, locking,
                   req, todo, left>>

EnqueueForeignKey(s) ==
    /\ pc[s] = "enqueue"
    /\ req[s].queue \notin queues
    /\ RaiseLocked(s)

BeginFlush(s, q) ==
    /\ q \in queues
    /\ Call(s, "flush", q, NoJob, "get_lock")
    /\ UNCHANGED <<tables, jobs, files, issued, locking, todo, left>>

Flush(s) ==
    LET q == req[s].queue IN
    /\ pc[s] = "flush"
    /\ targets' = [targets EXCEPT ![q] = NoTargets]
    /\ readynet' = readynet \ ReadynetOf(q)
    /\ Goto(s, "release_lock")
    /\ UNCHANGED <<queues, heatmap, jobs, files, issued, locking,
                   req, todo, left>>

BeginRecount(s) ==
    /\ Call(s, "recount", NoQueue, NoJob, "get_lock")
    /\ UNCHANGED <<tables, jobs, files, issued, locking, todo, left>>

Recount(s) ==
    LET hot == {h \in Net : Hot(Count(heatmap, h))} IN
    /\ pc[s] = "recount"
    /\ readynet' = {r \in readynet : r[2] \notin hot}
                   \cup {r \in Queue \X (Net \ hot) : r[1] \in Holders(r[2])}
    /\ Goto(s, "release_lock")
    /\ UNCHANGED <<queues, targets, heatmap, jobs, files, issued, locking,
                   req, todo, left>>

-----------------------------------------------------------------------------
(* Deleting jobs and queues.  JobManager.delete takes no lock: it checks   *)
(* retval, unlinks the output, then deletes the row.                       *)

BeginDeleteJobUnchecked(s, j) ==                  \* mutant: retval not checked
    /\ Exists(j)
    /\ Call(s, "delete_job", jobQueue[j], j, "unlink")
    /\ UNCHANGED <<tables, jobs, files, issued, locking, todo, left>>

BeginDeleteJob(s, j) ==
    /\ jobState[j] \in {"finished", "reconciled"}
    /\ Call(s, "delete_job", jobQueue[j], j, "unlink")
    /\ UNCHANGED <<tables, jobs, files, issued, locking, todo, left>>

(* queue.jobs is loaded once; the first job is checked at once *)
BeginDeleteJobs(s, q, op) ==
    LET members == {j \in Job : Exists(j) /\ jobQueue[j] = q} IN
    /\ op \in {"prune", "delete_queue"}
    /\ q \in queues
    /\ \E j \in members :
          /\ jobState[j] # "running"
          /\ Call(s, op, q, j, "unlink")
          /\ left' = [left EXCEPT ![s] = members \ {j}]
    /\ UNCHANGED <<tables, jobs, files, issued, locking, todo>>

BeginDeleteEmptyQueue(s, q) ==
    /\ q \in queues
    /\ \A j \in Job : ~(Exists(j) /\ jobQueue[j] = q)
    /\ Call(s, "delete_queue", q, NoJob, "rmdir")
    /\ UNCHANGED <<tables, jobs, files, issued, locking, todo, left>>

OutputDir(s) == {f \in files : f[1] = req[s].queue}  \* mutant: whole directory
OutputPath(s) == {<<req[s].queue, req[s].job>>}

Unlink(s) ==
    /\ pc[s] = "unlink"
    /\ files' = files \ OutputPath(s)
    /\ Goto(s, "delete_row")
    /\ UNCHANGED <<tables, jobs, issued, locking, req, todo, left>>

(* the path of the output of a single job needs its queue row *)
UnlinkNoQueue(s) ==
    /\ pc[s] = "unlink"
    /\ req[s].op = "delete_job"
    /\ req[s].queue \notin queues
    /\ Return(s)
    /\ UNCHANGED <<tables, jobs, files, issued, locking>>

DropRows(js) ==
    /\ jobState' = [j \in Job |-> IF j \in js THEN "deleted" ELSE jobState[j]]
    /\ jobQueue' = [j \in Job |-> IF j \in js THEN NoQueue ELSE jobQueue[j]]
    /\ jobTargets' = [j \in Job |-> IF j \in js THEN <<>> ELSE jobTargets[j]]

(* deleting a row that is gone already is only a warning *)
DeleteRow(s) ==
    /\ pc[s] = "delete_row"
    /\ DropRows({req[s].job} \cap {j \in Job : Exists(j)})
    /\ IF req[s].op = "delete_job"
       THEN Return(s)
       ELSE Goto(s, "next_job") /\ UNCHANGED <<req, todo, left>>
    /\ UNCHANGED <<tables, files, issued, locking>>

(* later jobs are reloaded; one that was deleted or runs ends the loop *)
NextJob(s) ==
    /\ pc[s] = "next_job"
    /\ \E j \in left[s] :
          IF jobState[j] \in {"finished", "reconciled"}
          THEN /\ req' = [req EXCEPT ![s].job = j]
               /\ left' = [left EXCEPT ![s] = @ \ {j}]
               /\ Goto(s, "unlink")
               /\ UNCHANGED todo
          ELSE Return(s)
    /\ UNCHANGED <<tables, jobs, files, issued, locking>>

NoNextJob(s) ==
    /\ pc[s] = "next_job"
    /\ left[s] = {}
    /\ IF req[s].op = "prune"
       THEN Return(s)
       ELSE Goto(s, "rmdir") /\ UNCHANGED <<req, todo, left>>
    /\ UNCHANGED <<tables, jobs, files, issued, locking>>

(* rmdir fails on a directory that still holds an output file *)
RemoveDir(s) ==
    /\ pc[s] = "rmdir"
    /\ IF \E f \in files : f[1] = req[s].queue
       THEN Return(s)
       ELSE Goto(s, "get_lock") /\ UNCHANGED <<req, todo, left>>
    /\ UNCHANGED <<tables, jobs, files, issued, locking>>

(* the database cascades to targets, readynets and every job of the queue *)
DeleteQueue(s) ==
    LET q == req[s].queue IN
    /\ pc[s] = "delete_queue"
    /\ queues' = queues \ {q}
    /\ targets' = [targets EXCEPT ![q] = NoTargets]
    /\ readynet' = readynet \ ReadynetOf(q)
    /\ DropRows({j \in Job : Exists(j) /\ jobQueue[j] = q})
    /\ Goto(s, "release_lock")
    /\ UNCHANGED <<heatmap, files, issued, locking, req, todo, left>>

-----------------------------------------------------------------------------
(* Assignment *)

(* bound: one unused uuid for every assign that is under way *)
BeginAssign(s) ==
    /\ Cardinality({z \in Session : req[z].op = "assign"})
          < Cardinality(Rows({"unused"}))
    /\ Call(s, "assign", NoQueue, NoJob, "get_lock")
    /\ UNCHANGED <<tables, jobs, files, issued, locking, todo, left>>

(* The request's name and capabilities and the queues' active, reqs and    *)
(* priority decide which queue it is; here any queue with a readynet.      *)
SelectQueue(s) ==
    /\ pc[s] = "select"
    /\ \/ \E q \in queues :
             /\ ReadynetOf(q) # {}
             /\ req' = [req EXCEPT ![s].queue = q]
             /\ Goto(s, "pop_target")
       \/ Goto(s, "release_lock") /\ UNCHANGED req
    /\ UNCHANGED <<tables, jobs, files, issued, locking, todo, left>>

(* targets of the queue in a network that is offered *)
CandidatesAny(q) ==                               \* mutant: queue_id not filtered
    {t \in Target : <<q, hashval[t]>> \in readynet}
Candidates(q) ==
    {t \in Target : <<q, hashval[t]>> \in readynet /\ targets[q][t] > 0}

(* One transaction: a readynet of the queue, a target in it, the target's  *)
(* row deleted, the readynet too when that was its last target.            *)
PopTarget(s) ==
    LET q == req[s].queue IN
    /\ pc[s] = "pop_target"
    /\ Len(todo[s]) < MaxGroup
    /\ \E t \in Candidates(q) :
          LET h == hashval[t] IN
          /\ targets' = [targets EXCEPT ![q][t] = @ - 1]
          /\ readynet' = IF q \in Holders(h)'
                         THEN readynet ELSE readynet \ {<<q, h>>}
          /\ IF t \in Excluded
             THEN UNCHANGED <<todo, pc>>
             ELSE /\ todo' = [todo EXCEPT ![s] = Append(@, t)]
                  /\ Goto(s, "heatmap_put")
    /\ UNCHANGED <<queues, heatmap, jobs, files, issued, locking, req, left>>

HeatmapPut(s) ==
    LET h == hashval[todo[s][Len(todo[s])]] IN
    /\ pc[s] = "heatmap_put"
    /\ heatmap' = Incremented(heatmap, h)
    /\ readynet' = IF Hot(heatmap'[h])
                   THEN {r \in readynet : r[2] # h} ELSE readynet
    /\ Goto(s, "pop_target")
    /\ UNCHANGED <<queues, targets, jobs, files, issued, locking,
                   req, todo, left>>

(* The loop ends when the queue has no readynet left or group_size targets *)
(* are taken; group_size is any number up to MaxGroup, operators edit it.  *)
EndOfGroup(s) ==
    /\ pc[s] = "pop_target"
    /\ ReadynetOf(req[s].queue) = {} \/ todo[s] # <<>>
    /\ Goto(s, IF todo[s] = <<>> THEN "release_lock" ELSE "create")
    /\ UNCHANGED <<tables, jobs, files, issued, locking, req, todo, left>>

CreateJob(s) ==
    /\ pc[s] = "create"
    /\ \E j \in Rows({"unused"}) :
          /\ jobState' = [jobState EXCEPT ![j] = "running"]
          /\ jobQueue' = [jobQueue EXCEPT ![j] = req[s].queue]
          /\ jobTargets' = [jobTargets EXCEPT ![j] = todo[s]]
          /\ req' = [req EXCEPT ![s].job = j]
    /\ todo' = [todo EXCEPT ![s] = <<>>]
    /\ Goto(s, "release_lock")
    /\ UNCHANGED <<tables, files, issued, locking, left>>

-----------------------------------------------------------------------------
(* Output and reconcile *)

(* An agent may post the output of a job it was given any number of times; *)
(* the route discards it unless retval is NULL, before it takes the lock.  *)
BeginOutputAgain(s, j) ==                         \* mutant: retval not filtered
    /\ j \in issued
    /\ Exists(j)
    /\ Call(s, "output", jobQueue[j], j, "get_lock")
    /\ UNCHANGED <<tables, jobs, files, issued, locking, todo, left>>

BeginOutput(s, j) ==
    /\ j \in issued
    /\ jobState[j] = "running"
    /\ Call(s, "output", jobQueue[j], j, "get_lock")
    /\ UNCHANGED <<tables, jobs, files, issued, locking, todo, left>>

WriteOutput(s) ==
    /\ pc[s] = "write"
    /\ req[s].queue \in queues
    /\ files' = files \cup OutputPath(s)
    /\ Goto(s, "finish")
    /\ UNCHANGED <<tables, jobs, issued, locking, req, todo, left>>

WriteOutputNoQueue(s) ==
    /\ pc[s] = "write"
    /\ req[s].queue \notin queues
    /\ RaiseLocked(s)

(* retval is written without reading it again *)
Finish(s) ==
    /\ pc[s] = "finish"
    /\ Exists(req[s].job)
    /\ jobState' = [jobState EXCEPT ![req[s].job] = "finished"]
    /\ Goto(s, "reload")
    /\ UNCHANGED <<tables, jobQueue, jobTargets, files, issued, locking,
                   req, todo, left>>

(* the commit has expired the job: job.assignment is read again *)
Reload(s) ==
    /\ pc[s] = "reload"
    /\ Exists(req[s].job)
    /\ todo' = [todo EXCEPT ![s] = jobTargets[req[s].job]]
    /\ Goto(s, "heatmap_pop")
    /\ UNCHANGED <<tables, jobs, files, issued, locking, req, left>>

(* UPDATE or SELECT of a job whose row is gone *)
RowGone(s) ==
    /\ pc[s] \in {"finish", "reload", "reconcile"}
    /\ ~Exists(req[s].job)
    /\ RaiseLocked(s)

BeginReconcileAgain(s, j) ==                      \* mutant: retval not checked
    /\ Exists(j)
    /\ Call(s, "reconcile", jobQueue[j], j, "get_lock")
    /\ todo' = [todo EXCEPT ![s] = jobTargets[j]]
    /\ UNCHANGED <<tables, jobs, files, issued, locking, left>>

BeginReconcile(s, j) ==
    /\ jobState[j] = "running"
    /\ Call(s, "reconcile", jobQueue[j], j, "get_lock")
    /\ todo' = [todo EXCEPT ![s] = jobTargets[j]]
    /\ UNCHANGED <<tables, jobs, files, issued, locking, left>>

(* the pop that brings a network back under the hot level *)
CoolsLate(h) ==                                   \* mutant: off by one
    HotLevel > 0 /\ Decremented(heatmap, h)[h] = HotLevel
Cools(h) == HotLevel > 0 /\ Decremented(heatmap, h)[h] + 1 = HotLevel

(* its plain INSERT of readynets fails on a row that is there *)
Conflict(h) == Cools(h) /\ \E q \in Holders(h) : <<q, h>> \in readynet

(* heatmap_pop(hashval) of the first target to do, one transaction *)
PopFirst(s) ==
    LET h == hashval[todo[s][1]]
        after == Decremented(heatmap, h) IN
    /\ ~Conflict(h)
    /\ heatmap' \in {after, Collected(after)}
    /\ readynet' = IF Cools(h) THEN readynet \cup (Holders(h) \X {h})
                               ELSE readynet
    /\ todo' = [todo EXCEPT ![s] = Tail(@)]
    /\ Goto(s, IF Len(todo[s]) = 1 THEN "release_lock" ELSE "heatmap_pop")
    /\ UNCHANGED <<queues, targets, jobQueue, jobTargets, files, issued,
                   locking, req, left>>

HeatmapPop(s) ==
    /\ pc[s] = "heatmap_pop"
    /\ PopFirst(s)
    /\ UNCHANGED jobState

(* retval = -1 goes out with the commit of the first heatmap_pop *)
Reconcile(s) ==
    /\ pc[s] = "reconcile"
    /\ Exists(req[s].job)
    /\ PopFirst(s)
    /\ jobState' = [jobState EXCEPT ![req[s].job] = "reconciled"]

ReadynetConflict(s) ==
    /\ pc[s] \in {"heatmap_pop", "reconcile"}
    /\ Conflict(hashval[todo[s][1]])
    /\ RaiseLocked(s)

-----------------------------------------------------------------------------
(* The process is killed and restarted; its connection closes. *)
Crash(s) ==
    /\ s \in Mortal
    /\ pc[s] # "idle" \/ lock = s
    /\ Return(s)
    /\ lock' = IF lock = s THEN NoSession ELSE lock
    /\ leaked' = IF lock = s THEN FALSE ELSE leaked
    /\ UNCHANGED <<tables, jobs, files, issued>>

Init ==
    /\ queues = Queue
    /\ targets = [q \in Queue |-> NoTargets]
    /\ readynet = {}
    /\ heatmap = [h \in {} |-> 0]
    /\ jobState = [j \in Job |-> "unused"]
    /\ jobQueue = [j \in Job |-> NoQueue]
    /\ jobTargets = [j \in Job |-> <<>>]
    /\ files = {} /\ issued = {}
    /\ lock = NoSession /\ leaked = FALSE
    /\ pc = [s \in Session |-> "idle"]
    /\ req = [s \in Session |-> NoReq]
    /\ todo = [s \in Session |-> <<>>]
    /\ left = [s \in Session |-> {}]

(* a request or a command arrives *)
Begin(s) ==
    \/ \E q \in Queue, ts \in Batch : BeginEnqueue(s, q, ts)
    \/ \E q \in Queue : BeginFlush(s, q) \/ BeginDeleteEmptyQueue(s, q)
    \/ \E q \in Queue, op \in Op : BeginDeleteJobs(s, q, op)
    \/ \E j \in Job : \/ BeginRepeat(s, j) \/ BeginDeleteJob(s, j)
                      \/ BeginOutput(s, j) \/ BeginReconcile(s, j)
    \/ BeginRecount(s)
    \/ BeginAssign(s)

(* the handler of a session goes on *)
Step(s) ==
    \/ GetLock(s) \/ LockTimeout(s) \/ ReleaseLock(s)
    \/ Enqueue(s) \/ EnqueueForeignKey(s) \/ Flush(s) \/ Recount(s)
    \/ Unlink(s) \/ UnlinkNoQueue(s) \/ DeleteRow(s)
    \/ NextJob(s) \/ NoNextJob(s) \/ RemoveDir(s) \/ DeleteQueue(s)
    \/ SelectQueue(s) \/ PopTarget(s) \/ HeatmapPut(s) \/ EndOfGroup(s)
    \/ CreateJob(s)
    \/ WriteOutput(s) \/ WriteOutputNoQueue(s) \/ Finish(s) \/ Reload(s)
    \/ HeatmapPop(s) \/ Reconcile(s) \/ RowGone(s) \/ ReadynetConflict(s)

Next == \E s \in Session : Begin(s) \/ Step(s) \/ Crash(s)

Spec == Init /\ [][Next]_vars

=============================================================================
