----------------------------- MODULE AgentProps -----------------------------
(***************************************************************************)
(* What agents, the network and the two routes keep between them.          *)
(***************************************************************************)
EXTENDS Agent

AgentAt == {"fetch", "work", "upload", "remove", "exit", "dead"}
Requests == [from : Agent, job : Job \cup {NoJob}, result : Result \cup {"none"}]

(* Types: every variable keeps the shape the code gives it. *)
TypeOK ==
    /\ at \in [Agent -> AgentAt]
    /\ job \in [Agent -> Job \cup {NoJob}]
    /\ result \in [Agent -> Result \cup {"none"}]
    /\ loop \in [Agent -> BOOLEAN]
    /\ signal \in [Agent -> {"none", "shutdown", "terminate"}]
    /\ zips \subseteq Agent \X Job
    /\ wire \in [Agent -> {"idle", "request", "assigned", "nowork", "ok", "error"}]
    /\ offer \in [Agent -> Job \cup {NoJob}]
    /\ stale \subseteq Requests
    /\ row \in [Job -> {"none", "running", "finished", "reconciled", "deleted"}]
    /\ record \in [Job -> Result \cup {"none", "failed"}]
    /\ holder \in [Job -> Agent \cup {Nobody}]
    /\ produced \in [Job -> Result \cup {"none"}]
    /\ orphans \subseteq Job

(* A running job has somebody who will close it: it is in an answer on its  *)
(* way or in the hands of the agent it was created for, unless the answer   *)
(* was lost or the agent died (core.py:192-257).  No order of signals,      *)
(* retries and late answers makes an agent forget an assignment.            *)
Attended(j) ==
    \E a \in Agent :
        /\ holder[j] = a
        /\ \/ wire[a] = "assigned" /\ offer[a] = j
           \/ at[a] \in {"work", "upload"} /\ job[a] = j
NoneForgotten ==
    \A j \in Job : row[j] = "running" => Attended(j) \/ j \in orphans

(* The zip of a worked job stays on the agent's disk for as long as the     *)
(* server waits for it: core.py:250-251 removes it after the upload, and    *)
(* the route answers 'discard job' only when it will never take the output. *)
WorkKept ==
    \A j \in Job :
        row[j] = "running" /\ produced[j] # "none" => <<holder[j], j>> \in zips

(* Whatever is lost, late, repeated or reconciled, a job is worked by the   *)
(* one agent it was created for, and what the server stores for it is what  *)
(* that agent produced or the operator's failure, once and for ever.        *)
Promise == INSTANCE Assignment WITH
    Nothing <- "none", WrittenOff <- "failed"
AssignmentSpec == Promise!Spec

-----------------------------------------------------------------------------
(* An agent is a process that runs until it waits for an answer, and every  *)
(* request ends within NET_TIMEOUT; tools end.  Nothing is asked of the     *)
(* server.                                                                  *)
FairAgents ==
    \A a \in Agent : WF_vars(Step(a)) /\ WF_vars(Network(a) \/ Serve(a))

(* A server that is not down for ever: a request that is sent again and     *)
(* again is served at last, and so is its answer delivered.                 *)
FairServer ==
    \A a \in Agent : SF_vars(Output(a)) /\ SF_vars(Uploaded(a))

AgentSpec == Spec /\ FairAgents
FairSpec == AgentSpec /\ FairServer

(* An agent that has taken a job closes it, or finds it closed, unless it   *)
(* dies: upload_output (core.py:219-231) never gives up.                    *)
TakenIsClosed ==
    \A a \in Agent, j \in Job :
        job[a] = j ~> row[j] # "running" \/ at[a] = "dead"

(* An agent asked to stop exits, after the assignment in hand: "wait for    *)
(* current assignment to finish" (core.py:171-175).                         *)
ShutdownEnds == \A a \in Agent : ~loop[a] ~> ~Alive(a)

(* "request immediate termination" (core.py:287), "terminate at once"       *)
(* (core.py:115): a terminated agent exits, whatever the server does.       *)
TerminateEnds == \A a \in Agent : signal[a] = "terminate" ~> ~Alive(a)
=============================================================================
