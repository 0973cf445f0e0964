---------------------------- MODULE SchedulerProps ----------------------------
(* What the scheduler promises. *)
EXTENDS Scheduler

Labels == {"idle", "get_lock", "release_lock", "enqueue", "flush", "recount",
           "unlink", "delete_row", "next_job", "rmdir", "delete_queue",
           "select", "pop_target", "heatmap_put", "create",
           "write", "finish", "reload", "heatmap_pop", "reconcile"}

(* steps between get_lock and release_lock *)
Locked == {"release_lock", "enqueue", "flush", "recount", "delete_queue",
           "select", "pop_target", "heatmap_put", "create",
           "write", "finish", "reload", "heatmap_pop", "reconcile"}

Request == [op : Op \cup {"none"},
            queue : Queue \cup {NoQueue},
            job : Job \cup {NoJob}]

(* Every table, file and handler variable keeps its type; heatmap stays a  *)
(* table keyed by network.                                                 *)
TypeOK ==
    /\ queues \subseteq Queue
    /\ targets \in [Queue -> [Target -> Nat]]
    /\ readynet \subseteq Queue \X Net
    /\ DOMAIN heatmap \subseteq Net
    /\ heatmap \in [DOMAIN heatmap -> Int]
    /\ jobState \in
         [Job -> {"unused", "running", "finished", "reconciled", "deleted"}]
    /\ jobQueue \in [Job -> Queue \cup {NoQueue}]
    /\ jobTargets \in [Job -> Seq(Target)]
    /\ files \subseteq (Queue \cup {NoQueue}) \X (Job \cup {NoJob})
    /\ issued \subseteq Job
    /\ lock \in Session \cup {NoSession}
    /\ leaked \in BOOLEAN
    /\ pc \in [Session -> Labels]
    /\ req \in [Session -> Request]
    /\ todo \in [Session -> Seq(Target)]
    /\ left \in [Session -> SUBSET Job]

-----------------------------------------------------------------------------
(* The lock *)

(* A handler between get_lock and release_lock owns the advisory lock, so  *)
(* two handlers are never there together, whatever exceptions leave it     *)
(* held and whichever process is killed (core.py:365-383).                 *)
LockHeld == \A s \in Session : pc[s] \in Locked => lock = s

(* A handler that waits for the lock gets it or gives up (get_lock: "wait  *)
(* for database lock or raise exception").                                 *)
LockGranted ==
    \A s \in Session : (pc[s] = "get_lock") ~> (pc[s] # "get_lock")

(* Every handler that a request or a command starts comes to an end: no    *)
(* session waits for the lock forever.                                     *)
HandlersEnd == \A s \in Session : (pc[s] # "idle") ~> (pc[s] = "idle")

-----------------------------------------------------------------------------
(* readynet, the precomputed answer to 'what may be assigned now' *)

(* A readynet always stands for a queued target, so job_assign finds one   *)
(* for every readynet it draws (the unpacking in _pop_random_target).      *)
ReadynetBacked ==
    \A r \in readynet :
        \E t \in Target : hashval[t] = r[2] /\ targets[r[1]][t] > 0

(* A queued target whose network is not hot is always offered: nothing     *)
(* that happens between two transactions strands it in its queue.          *)
ReadynetComplete ==
    \A q \in Queue, t \in Target :
        targets[q][t] > 0 /\ ~Hot(Count(heatmap, hashval[t]))
            => <<q, hashval[t]>> \in readynet

(* A network that reached the hot level is offered by no queue. *)
ReadynetCool == \A r \in readynet : ~Hot(Count(heatmap, r[2]))

-----------------------------------------------------------------------------
(* Heat: how many targets of a network are being worked on *)

RunningAt(h) ==
    {p \in Job \X (1..MaxGroup) :
        /\ jobState[p[1]] = "running"
        /\ p[2] \in DOMAIN jobTargets[p[1]]
        /\ hashval[jobTargets[p[1]][p[2]]] = h}

(* targets an assign has put into the heatmap but not yet into a job *)
TakenAt(h) ==
    {p \in Session \X (1..MaxGroup) :
        /\ req[p[1]].op = "assign"
        /\ p[2] \in DOMAIN todo[p[1]]
        /\ p[2] = Len(todo[p[1]]) => pc[p[1]] # "heatmap_put"
        /\ hashval[todo[p[1]][p[2]]] = h}

InFlight(h) == Cardinality(RunningAt(h)) + Cardinality(TakenAt(h))

(* At most SNER_HEATMAP_HOT_LEVEL targets of a network are in the hands of *)
(* agents, counting the assignment being put together.                     *)
RateLimit == HotLevel > 0 => \A h \in Net : InFlight(h) <= HotLevel

(* The heatmap never counts less than what is in flight. *)
HeatCovers == \A h \in Net : InFlight(h) <= Count(heatmap, h)

(* what heatmap_check answers *)
HeatmapCheck ==
    \A h \in Net : Count(heatmap, h) = Cardinality(RunningAt(h))

(* Whenever the scheduler is at rest, the heatmap is exactly the count of  *)
(* the targets of running jobs (heatmap_check would say so).               *)
HeatAccounted ==
    (\A s \in Session : pc[s] \notin Locked) => HeatmapCheck

(* the places of a list that hold a target of a network *)
Places(ts, h) == {i \in DOMAIN ts : hashval[ts[i]] = h}

(* What a handler has in hand: targets counted for an assignment that is   *)
(* not a job yet, and those of a job just closed whose heat is still to    *)
(* be taken down.                                                          *)
Held(s) ==
    IF req[s].op = "assign" \/ pc[s] = "heatmap_pop" THEN todo[s]
    ELSE IF pc[s] = "reload" THEN jobTargets[req[s].job]
    ELSE <<>>

HeldAt(s, h) ==
    {i \in Places(Held(s), h) : pc[s] = "heatmap_put" => i # Len(Held(s))}

HandAt(h) == IF lock \in Session THEN HeldAt(lock, h) ELSE {}

(* heat that neither a running job nor the owner of the lock answers for *)
Drift(h) ==
    Count(heatmap, h) - (Cardinality(RunningAt(h)) + Cardinality(HandAt(h)))

(* a handler is killed between two of its commits *)
KilledAtWork == \E s \in Session : pc[s] \in Locked /\ Crash(s)

(* the row of a job goes between the commit of its output and the read of  *)
(* job.assignment after it (core.py:577-578)                               *)
RowGoes ==
    \E s, z \in Session :
        pc[s] = "reload" /\ DeleteRow(z) /\ req[z].job = req[s].job

(* The heatmap drifts from the work it stands for by nothing but these     *)
(* two, and only upwards: no interleaving, exception or other kill makes   *)
(* heatmap_check fail, and no heat is ever missing.                        *)
HeatDrifts ==
    [][\A h \in Net : Drift(h)' # Drift(h)
          => Drift(h)' > Drift(h) /\ (KilledAtWork \/ RowGoes)]_vars

-----------------------------------------------------------------------------
(* Jobs and their outputs *)

(* A job is closed once: after an output or a reconcile has set retval,    *)
(* nothing but the deletion of the row changes it.                         *)
ClosedOnce ==
    [][\A j \in Job :
          jobState[j] \in {"finished", "reconciled"}
              => jobState'[j] \in {jobState[j], "deleted"}]_vars

(* A running job is never deleted (JobManager.delete: "deleting running    *)
(* job would corrupt heatmap").                                            *)
RunningKept ==
    [][\A j \in Job :
          jobState[j] = "running" => jobState'[j] # "deleted"]_vars

(* The output of a finished job is on disk, for the planner to parse,      *)
(* unless a handler is about to delete the row as well.                    *)
OutputKept ==
    \A j \in Job : jobState[j] = "finished" =>
        \/ <<jobQueue[j], j>> \in files
        \/ \E s \in Session : pc[s] = "delete_row" /\ req[s].job = j

-----------------------------------------------------------------------------
(* Fairness: a handler that can go on does; PostgreSQL queues the waiters  *)
(* of an advisory lock, so one for which the lock is free again and again  *)
(* gets it.  Requests and crashes need not happen.                         *)
FairSpec ==
    /\ Spec
    /\ \A s \in Session : WF_vars(Step(s)) /\ SF_vars(GetLock(s))

(* the implementation of the rate limit of RateLimiter *)
Limiter == INSTANCE RateLimiter WITH inflight <- [h \in Net |-> InFlight(h)]
LimiterSpec == Limiter!Spec

=============================================================================
