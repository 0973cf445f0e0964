-------------------------------- MODULE Agent --------------------------------
(***************************************************************************)
(* Agents that fetch, work and upload jobs (sner/agent/core.py) over a     *)
(* network that loses and delays requests and answers, against the two     *)
(* routes of the server (sner/server/api/views.py).  A request is a POST   *)
(* on a connection of its own: when the agent gives up on one, its answer  *)
(* is gone, but the server may still serve the request later.              *)
(***************************************************************************)
EXTENDS Naturals, FiniteSets

CONSTANTS
    Agent,
    Job,        \* uuids a run may draw; bounds the number of jobs
    Oneshot,    \* agents started with --oneshot
    Mortal,     \* agents that may die at any point
    Nobody, NoJob

(* retval of a worked job: 0 or not *)
Result == {"zero", "nonzero"}

ASSUME AgentAssumption ==
    Nobody \notin Agent /\ NoJob \notin Job /\ Oneshot \subseteq Agent

VARIABLES
    at,         \* where run() of an agent is
    job,        \* its assignment, NoJob outside
    result,     \* retval of that assignment
    loop,       \* self.loop
    signal,     \* last signal it got
    zips,       \* pairs <<agent, job>>: {id}.zip in its directory
    wire,       \* its connection: no request, one on the way, or the answer
    offer,      \* job in an answer on its way
    stale,      \* requests given up by their agent, not yet by the network
    row,        \* table job: no row, retval NULL, >= 0, -1, row deleted
    record,     \* retval that was stored last
    holder,     \* agent whose request made the job
    produced,   \* result of the work on a job
    orphans     \* jobs whose answer was lost or whose agent died

agents == <<at, job, result, loop, signal, zips>>
network == <<wire, offer, stale>>
server == <<row, record, holder>>
vars == <<agents, network, server, produced, orphans>>

-----------------------------------------------------------------------------
Alive(a) == at[a] \notin {"exit", "dead"}

(* what an agent sends: an assign names no job, an output names its job *)
Request(a) == [from |-> a, job |-> job[a], result |-> result[a]]
NoRequest(a) == [from |-> a, job |-> NoJob, result |-> "none"]

Goto(a, label) == at' = [at EXCEPT ![a] = label]
Wire(a, what, j) ==
    /\ wire' = [wire EXCEPT ![a] = what]
    /\ offer' = [offer EXCEPT ![a] = j]

Init ==
    /\ at = [a \in Agent |-> "fetch"]
    /\ job = [a \in Agent |-> NoJob]
    /\ result = [a \in Agent |-> "none"]
    /\ loop = [a \in Agent |-> TRUE]
    /\ signal = [a \in Agent |-> "none"]
    /\ zips = {}
    /\ wire = [a \in Agent |-> "idle"]
    /\ offer = [a \in Agent |-> NoJob]
    /\ stale = {}
    /\ row = [j \in Job |-> "none"]
    /\ record = [j \in Job |-> "none"]
    /\ holder = [j \in Job |-> Nobody]
    /\ produced = [j \in Job |-> "none"]
    /\ orphans = {}

-----------------------------------------------------------------------------
(* The agent *)

SendAlways(a) ==                                  \* mutant: loop not looked at
    /\ wire[a] = "idle"
    /\ at[a] \in {"fetch", "upload"}
    /\ Wire(a, "request", NoJob)
    /\ UNCHANGED <<agents, stale, server, produced, orphans>>

(* both loops send their next request; only get_assignment looks at loop *)
Send(a) ==
    /\ wire[a] = "idle"
    /\ \/ at[a] = "fetch" /\ loop[a]
       \/ at[a] = "upload"
    /\ Wire(a, "request", NoJob)
    /\ UNCHANGED <<agents, stale, server, produced, orphans>>

(* the loop of run() ends between two assignments *)
Exit(a) ==
    /\ at[a] = "fetch"
    /\ wire[a] = "idle"
    /\ ~loop[a]
    /\ Goto(a, "exit")
    /\ UNCHANGED <<job, result, loop, signal, zips, network, server, produced, orphans>>

(* mutant: loop is looked at after the answer, before the work *)
ReceiveJobIfLooping(a) ==
    /\ wire[a] = "assigned"
    /\ job' = [job EXCEPT ![a] = IF loop[a] THEN offer[a] ELSE NoJob]
    /\ Goto(a, IF loop[a] THEN "work" ELSE "fetch")
    /\ Wire(a, "idle", NoJob)
    /\ UNCHANGED <<result, loop, signal, zips, stale, server, produced, orphans>>

ReceiveJob(a) ==
    /\ wire[a] = "assigned"
    /\ job' = [job EXCEPT ![a] = offer[a]]
    /\ Goto(a, "work")
    /\ Wire(a, "idle", NoJob)
    /\ UNCHANGED <<result, loop, signal, zips, stale, server, produced, orphans>>


(* no work: sleep and ask again, or leave *)
ReceiveNoWork(a) ==
    /\ wire[a] = "nowork"
    /\ Wire(a, "idle", NoJob)
    /\ Goto(a, IF a \in Oneshot THEN "exit" ELSE "fetch")
    /\ UNCHANGED <<job, result, loop, signal, zips, stale, server, produced, orphans>>

(* mutant: the zip removed with the working directory *)
WorkUnpacked(a) ==
    /\ at[a] = "work"
    /\ \E r \in Result :
           /\ result' = [result EXCEPT ![a] = r]
           /\ produced' = [produced EXCEPT ![job[a]] = r]
    /\ Goto(a, "upload")
    /\ UNCHANGED <<job, loop, signal, zips, network, server, orphans>>

(* the module returns or raises; output directory packed and removed *)
Work(a) ==
    /\ at[a] = "work"
    /\ \E r \in Result :
           /\ result' = [result EXCEPT ![a] = r]
           /\ produced' = [produced EXCEPT ![job[a]] = r]
    /\ zips' = zips \cup {<<a, job[a]>>}
    /\ Goto(a, "upload")
    /\ UNCHANGED <<job, loop, signal, network, server, orphans>>

Uploaded(a) ==
    /\ wire[a] = "ok"
    /\ Wire(a, "idle", NoJob)
    /\ Goto(a, "remove")
    /\ UNCHANGED <<job, result, loop, signal, zips, stale, server, produced, orphans>>

Remove(a) ==
    /\ at[a] = "remove"
    /\ zips' = zips \ {<<a, job[a]>>}
    /\ job' = [job EXCEPT ![a] = NoJob]
    /\ result' = [result EXCEPT ![a] = "none"]
    /\ Goto(a, IF a \in Oneshot THEN "exit" ELSE "fetch")
    /\ UNCHANGED <<loop, signal, network, server, produced, orphans>>

(* a RequestException: what the two loops do about it *)
RepeatGivesUp(a) ==                               \* mutant: upload tried once
    Goto(a, CASE at[a] = "upload" -> "remove"
              [] a \in Oneshot -> "exit"
              [] OTHER -> "fetch")
Repeat(a) ==
    Goto(a, IF at[a] = "fetch" /\ a \in Oneshot THEN "exit" ELSE at[a])

(* error status, or an answer that is no assignment *)
ReceiveError(a) ==
    /\ wire[a] = "error"
    /\ Repeat(a)
    /\ Wire(a, "idle", NoJob)
    /\ UNCHANGED <<job, result, loop, signal, zips, stale, server, produced, orphans>>

(* SIGUSR1; SIGTERM and SIGINT, which also end the running module early *)
Signal(a) ==
    /\ Alive(a)
    /\ loop' = [loop EXCEPT ![a] = FALSE]
    /\ \E s \in {"shutdown", "terminate"} : signal' = [signal EXCEPT ![a] = s]
    /\ UNCHANGED <<at, job, result, zips, network, server, produced, orphans>>

(* killed, or an exception outside every try: a full disk under makedirs *)
Die(a) ==
    /\ a \in Mortal
    /\ Alive(a)
    /\ Goto(a, "dead")
    /\ Wire(a, "idle", NoJob)
    /\ stale' = IF wire[a] = "request" THEN stale \cup {Request(a)} ELSE stale
    /\ orphans' = orphans \cup ({job[a], offer[a]} \ {NoJob})
    /\ UNCHANGED <<job, result, loop, signal, zips, server, produced>>

-----------------------------------------------------------------------------
(* The network *)

(* refused, or dropped before the server reads it *)
LoseRequest(a) ==
    /\ wire[a] = "request"
    /\ Repeat(a)
    /\ Wire(a, "idle", NoJob)
    /\ UNCHANGED <<job, result, loop, signal, zips, stale, server, produced, orphans>>

(* NET_TIMEOUT, with the request still in the server's backlog *)
Timeout(a) ==
    /\ wire[a] = "request"
    /\ Repeat(a)
    /\ Wire(a, "idle", NoJob)
    /\ stale' = stale \cup {Request(a)}
    /\ UNCHANGED <<job, result, loop, signal, zips, server, produced, orphans>>

(* served, but the answer is lost, late, or replaced by a 500 after commit *)
LoseAnswer(a) ==
    /\ wire[a] \in {"assigned", "nowork", "ok"}
    /\ Repeat(a)
    /\ Wire(a, "idle", NoJob)
    /\ orphans' = orphans \cup ({offer[a]} \ {NoJob})
    /\ UNCHANGED <<job, result, loop, signal, zips, stale, server, produced>>

-----------------------------------------------------------------------------
(* The server *)

(* job_assign for a request of agent a: a new row *)
Create(a, j) ==
    /\ row[j] = "none"
    /\ row' = [row EXCEPT ![j] = "running"]
    /\ holder' = [holder EXCEPT ![j] = a]
    /\ UNCHANGED record

(* the output route: a job that is closed or gone is silently discarded *)
StoreAlways(r) ==                                 \* mutant: retval not looked at
    /\ row' = [row EXCEPT ![r.job] = "finished"]
    /\ record' = [record EXCEPT ![r.job] = r.result]
    /\ UNCHANGED holder
Store(r) ==
    \/ /\ row[r.job] = "running"
       /\ row' = [row EXCEPT ![r.job] = "finished"]
       /\ record' = [record EXCEPT ![r.job] = r.result]
       /\ UNCHANGED holder
    \/ /\ row[r.job] # "running"
       /\ UNCHANGED server

Assign(a) ==
    /\ wire[a] = "request" /\ at[a] = "fetch"
    /\ \E j \in Job : Create(a, j) /\ Wire(a, "assigned", j)
    /\ UNCHANGED <<agents, stale, produced, orphans>>

(* maintenance, a busy scheduler, no queue, only excluded targets *)
NoWork(a) ==
    /\ wire[a] = "request" /\ at[a] = "fetch"
    /\ Wire(a, "nowork", NoJob)
    /\ UNCHANGED <<agents, stale, server, produced, orphans>>

Output(a) ==
    /\ wire[a] = "request" /\ at[a] = "upload"
    /\ Store(Request(a))
    /\ Wire(a, "ok", NoJob)
    /\ UNCHANGED <<agents, stale, produced, orphans>>

(* 429 on a busy scheduler, 401 on a revoked key, 500 before the commit *)
Refuse(a) ==
    /\ wire[a] = "request"
    /\ Wire(a, "error", NoJob)
    /\ UNCHANGED <<agents, stale, server, produced, orphans>>

(* a request served after its agent has given it up, or dropped at last *)
AssignLate(r) ==
    /\ r.job = NoJob
    /\ \E j \in Job : Create(r.from, j) /\ orphans' = orphans \cup {j}
    /\ stale' = stale \ {r}
    /\ UNCHANGED <<agents, wire, offer, produced>>

OutputLate(r) ==
    /\ r.job # NoJob
    /\ Store(r)
    /\ stale' = stale \ {r}
    /\ UNCHANGED <<agents, wire, offer, produced, orphans>>

DropLate(r) ==
    /\ stale' = stale \ {r}
    /\ UNCHANGED <<agents, wire, offer, server, produced, orphans>>

(* an operator fails a running job; closed jobs are drained or deleted *)
Reconcile(j) ==
    /\ row[j] = "running"
    /\ row' = [row EXCEPT ![j] = "reconciled"]
    /\ record' = [record EXCEPT ![j] = "failed"]
    /\ UNCHANGED <<agents, network, holder, produced, orphans>>

Delete(j) ==
    /\ row[j] \in {"finished", "reconciled"}
    /\ row' = [row EXCEPT ![j] = "deleted"]
    /\ UNCHANGED <<agents, network, record, holder, produced, orphans>>

-----------------------------------------------------------------------------
Step(a) ==
    \/ Send(a) \/ Exit(a)
    \/ ReceiveJob(a) \/ ReceiveNoWork(a) \/ ReceiveError(a)
    \/ Work(a) \/ Uploaded(a) \/ Remove(a)

Network(a) == LoseRequest(a) \/ Timeout(a) \/ LoseAnswer(a)

Serve(a) == Assign(a) \/ NoWork(a) \/ Output(a) \/ Refuse(a)

Late(r) == AssignLate(r) \/ OutputLate(r) \/ DropLate(r)

Next ==
    \/ \E a \in Agent : Step(a) \/ Signal(a) \/ Die(a) \/ Network(a) \/ Serve(a)
    \/ \E r \in stale : Late(r)
    \/ \E j \in Job : Reconcile(j) \/ Delete(j)

Spec == Init /\ [][Next]_vars
=============================================================================
