----------------------------- MODULE MCScheduler -----------------------------
(* Small instances of the scheduler for TLC. *)
EXTENDS SchedulerProps, TLC

CONSTANTS q1, q2,         \* queues
          a1, a2, b1,     \* targets of the networks A and B
          A, B,
          web, web2,      \* web workers
          planner,        \* planner and command line
          j1, j2

HashvalAB == [t \in Target |-> IF t = b1 THEN B ELSE A]

(* inputs of enqueue *)
BatchOne == {<<a1, a2>>}
BatchSingle == {<<a1>>}

(* handlers of sner/server/api and sner/server/scheduler/views *)
WebOps == Op \ {"recount"}

(* handlers of the planner and of sner/server/scheduler/commands.py *)
BackOps == {"enqueue", "flush", "prune", "recount", "delete_job"}

(* the handlers of two workers that meet at jobs *)
PoolOps == {"enqueue", "assign", "output", "reconcile", "delete_job",
            "delete_queue"}

OpsWeb == [s \in Session |-> WebOps]
OpsShipped == [s \in Session |-> IF s = web THEN WebOps ELSE BackOps]
OpsPool == [s \in Session |-> PoolOps]

(* beside the worker only handlers that cannot cause an exception in its   *)
(* locked part, and in whose locked part it cannot cause one               *)
OpsSafe == [s \in Session |-> IF s = web THEN WebOps ELSE {"flush", "recount"}]

(* agents, and a planner that enqueues and drains *)
OpsDrain == [s \in Session |->
    IF s = web THEN {"assign", "output"} ELSE {"enqueue", "delete_job"}]

SymmetricJobs == Permutations(Job)
SymmetricWorkers == Permutations(Session) \cup Permutations(Job)

=============================================================================
