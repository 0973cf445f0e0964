----------------------------- MODULE AgentProofs -----------------------------
(***************************************************************************)
(* Theorems about Agent, for any number of agents and jobs, whatever the   *)
(* network loses or delays, with signals, deaths and operators.            *)
(***************************************************************************)
EXTENDS AgentProps, TLAPS

(* Agent a will close job j, or still be told of it.                       *)
Attends(a, j) ==
    \/ wire[a] = "assigned" /\ offer[a] = j
    \/ at[a] \in {"work", "upload"} /\ job[a] = j

(* What the place in run() says about assignment, connection and server.   *)
InHand(a) ==
    /\ at[a] = "fetch" =>
          job[a] = NoJob /\ wire[a] \in {"idle", "request", "assigned", "nowork", "error"}
    /\ at[a] = "work" =>
          job[a] \in Job /\ wire[a] = "idle" /\ produced[job[a]] = "none"
    /\ at[a] = "upload" =>
          /\ job[a] \in Job /\ wire[a] \in {"idle", "request", "ok", "error"}
          /\ result[a] \in Result /\ result[a] = produced[job[a]]
    /\ at[a] = "remove" =>
          job[a] \in Job /\ wire[a] = "idle" /\ row[job[a]] # "running"
    /\ at[a] \in {"exit", "dead"} => wire[a] = "idle"
    /\ wire[a] = "ok" => row[job[a]] # "running"
    /\ job[a] # NoJob => holder[job[a]] = a
    /\ wire[a] = "assigned" =>
          /\ offer[a] \in Job
          /\ holder[offer[a]] = a /\ produced[offer[a]] = "none"
    /\ wire[a] # "assigned" => offer[a] = NoJob

(* A row is made with its holder and closed with its record.               *)
InTable(j) ==
    /\ row[j] = "none" <=> holder[j] = Nobody
    /\ row[j] = "none" => produced[j] = "none"
    /\ record[j] = "none" <=> row[j] \in {"none", "running"}

(* A late upload carries what the work on its job produced.                *)
InBacklog(r) ==
    r.job # NoJob => r.result \in Result /\ r.result = produced[r.job]

Places == \A a \in Agent : InHand(a)
Tables == \A j \in Job : InTable(j)
Backlog == \A r \in stale : InBacklog(r)

AgentInv == TypeOK /\ Places /\ Tables /\ Backlog /\ NoneForgotten /\ WorkKept

LEMMA InitInv ==
    ASSUME Init
    PROVE  AgentInv
<1>1. TypeOK
  BY DEF Init, TypeOK, AgentAt
<1>2. Places
  BY AgentAssumption DEF Init, Places, InHand
<1>3. Tables
  BY DEF Init, Tables, InTable
<1> QED
  BY <1>1, <1>2, <1>3 DEF AgentInv, Init, Backlog, NoneForgotten, WorkKept

-----------------------------------------------------------------------------
(* A step of one agent and its connection that the server takes no part in *)
(* keeps the invariant if it forgets no job and drops no zip that is       *)
(* waited for.                                                             *)
LEMMA AgentMoves ==
    ASSUME AgentInv, NEW a \in Agent,
           TypeOK', InHand(a)',
           UNCHANGED <<server, produced>>,
           \A b \in Agent \ {a} :
               /\ at'[b] = at[b] /\ job'[b] = job[b] /\ result'[b] = result[b]
               /\ wire'[b] = wire[b] /\ offer'[b] = offer[b],
           \A r \in stale' : r \in stale \/ (r = Request(a) /\ wire[a] = "request"),
           orphans \subseteq orphans',
           \A j \in Job : row[j] = "running" /\ Attends(a, j) =>
               Attends(a, j)' \/ j \in orphans',
           \A j \in Job : row[j] = "running" /\ <<holder[j], j>> \in zips =>
               <<holder[j], j>> \in zips'
    PROVE  AgentInv'
<1>1. Places'
  <2> SUFFICES ASSUME NEW b \in Agent, b # a
               PROVE  InHand(b)'
    BY DEF Places
  <2> QED
    BY DEF AgentInv, Places, InHand, server
<1>2. Tables'
  BY DEF AgentInv, Tables, InTable, server
<1>3. Backlog'
  <2> SUFFICES ASSUME NEW r \in stale'
               PROVE  InBacklog(r)'
    BY DEF Backlog
  <2>1. CASE r \in stale
    BY <2>1 DEF AgentInv, Backlog, InBacklog
  <2>2. CASE r = Request(a) /\ wire[a] = "request"
    <3>1. r.job = job[a] /\ r.result = result[a]
      BY <2>2 DEF Request
    <3>2. InHand(a) /\ at[a] \in AgentAt
      BY DEF AgentInv, Places, TypeOK
    <3> QED
      BY <2>2, <3>1, <3>2 DEF InHand, InBacklog, AgentAt
  <2> QED
    BY <2>1, <2>2
<1>4. NoneForgotten'
  <2> SUFFICES ASSUME NEW j \in Job, row'[j] = "running", j \notin orphans'
               PROVE  Attended(j)'
    BY DEF NoneForgotten
  <2>1. row[j] = "running" /\ j \notin orphans
    BY DEF server
  <2>2. PICK b \in Agent : holder[j] = b /\ Attends(b, j)
    BY <2>1 DEF AgentInv, NoneForgotten, Attended, Attends
  <2>3. Attends(b, j)'
    BY <2>1, <2>2 DEF Attends
  <2> QED
    BY <2>2, <2>3 DEF Attended, Attends, server
<1>5. WorkKept'
  BY DEF AgentInv, WorkKept, server
<1> QED
  BY <1>1, <1>2, <1>3, <1>4, <1>5 DEF AgentInv

(* Where an agent is when its place does not exclude it.                   *)
LEMMA AtPlace ==
    ASSUME AgentInv, NEW a \in Agent
    PROVE  TypeOK /\ InHand(a) /\ at[a] \in AgentAt
BY DEF AgentInv, Places, TypeOK

LEMMA SendKeeps ==
    ASSUME AgentInv, NEW a \in Agent, Send(a)
    PROVE  AgentInv'
<1> USE AgentAssumption
<1> USE DEF Send, Goto, Wire, agents, network, server
<1>1. TypeOK /\ InHand(a) /\ at[a] \in AgentAt
  BY AtPlace
<1>2. TypeOK'
  BY <1>1 DEF TypeOK, AgentAt, InHand, Requests
<1>3. InHand(a)'
  BY <1>1 DEF TypeOK, AgentAt, InHand
<1>4. \A j \in Job : row[j] = "running" /\ Attends(a, j) =>
          Attends(a, j)' \/ j \in orphans'
  BY <1>1 DEF TypeOK, AgentAt, InHand, Attends
<1>5. \A j \in Job : row[j] = "running" /\ <<holder[j], j>> \in zips =>
          <<holder[j], j>> \in zips'
  BY <1>1 DEF InHand
<1> QED
  BY <1>1, <1>2, <1>3, <1>4, <1>5, AgentMoves DEF TypeOK

LEMMA ExitKeeps ==
    ASSUME AgentInv, NEW a \in Agent, Exit(a)
    PROVE  AgentInv'
<1> USE AgentAssumption
<1> USE DEF Exit, Goto, Wire, agents, network, server
<1>1. TypeOK /\ InHand(a) /\ at[a] \in AgentAt
  BY AtPlace
<1>2. TypeOK'
  BY <1>1 DEF TypeOK, AgentAt, InHand, Requests
<1>3. InHand(a)'
  BY <1>1 DEF TypeOK, AgentAt, InHand
<1>4. \A j \in Job : row[j] = "running" /\ Attends(a, j) =>
          Attends(a, j)' \/ j \in orphans'
  BY <1>1 DEF TypeOK, AgentAt, InHand, Attends
<1>5. \A j \in Job : row[j] = "running" /\ <<holder[j], j>> \in zips =>
          <<holder[j], j>> \in zips'
  BY <1>1 DEF InHand
<1> QED
  BY <1>1, <1>2, <1>3, <1>4, <1>5, AgentMoves DEF TypeOK

LEMMA ReceiveJobKeeps ==
    ASSUME AgentInv, NEW a \in Agent, ReceiveJob(a)
    PROVE  AgentInv'
<1> USE AgentAssumption
<1> USE DEF ReceiveJob, Goto, Wire, agents, network, server
<1>1. TypeOK /\ InHand(a) /\ at[a] \in AgentAt
  BY AtPlace
<1>2. TypeOK'
  BY <1>1 DEF TypeOK, AgentAt, InHand, Requests
<1>3. InHand(a)'
  BY <1>1 DEF TypeOK, AgentAt, InHand
<1>4. \A j \in Job : row[j] = "running" /\ Attends(a, j) =>
          Attends(a, j)' \/ j \in orphans'
  BY <1>1 DEF TypeOK, AgentAt, InHand, Attends
<1>5. \A j \in Job : row[j] = "running" /\ <<holder[j], j>> \in zips =>
          <<holder[j], j>> \in zips'
  BY <1>1 DEF InHand
<1> QED
  BY <1>1, <1>2, <1>3, <1>4, <1>5, AgentMoves DEF TypeOK

LEMMA ReceiveNoWorkKeeps ==
    ASSUME AgentInv, NEW a \in Agent, ReceiveNoWork(a)
    PROVE  AgentInv'
<1> USE AgentAssumption
<1> USE DEF ReceiveNoWork, Goto, Wire, agents, network, server
<1>1. TypeOK /\ InHand(a) /\ at[a] \in AgentAt
  BY AtPlace
<1>2. TypeOK'
  BY <1>1 DEF TypeOK, AgentAt, InHand, Requests
<1>3. InHand(a)'
  BY <1>1 DEF TypeOK, AgentAt, InHand
<1>4. \A j \in Job : row[j] = "running" /\ Attends(a, j) =>
          Attends(a, j)' \/ j \in orphans'
  BY <1>1 DEF TypeOK, AgentAt, InHand, Attends
<1>5. \A j \in Job : row[j] = "running" /\ <<holder[j], j>> \in zips =>
          <<holder[j], j>> \in zips'
  BY <1>1 DEF InHand
<1> QED
  BY <1>1, <1>2, <1>3, <1>4, <1>5, AgentMoves DEF TypeOK

LEMMA ReceiveErrorKeeps ==
    ASSUME AgentInv, NEW a \in Agent, ReceiveError(a)
    PROVE  AgentInv'
<1> USE AgentAssumption
<1> USE DEF ReceiveError, Repeat, Goto, Wire, agents, network, server
<1>1. TypeOK /\ InHand(a) /\ at[a] \in AgentAt
  BY AtPlace
<1>2. TypeOK'
  BY <1>1 DEF TypeOK, AgentAt, InHand, Requests
<1>3. InHand(a)'
  BY <1>1 DEF TypeOK, AgentAt, InHand
<1>4. \A j \in Job : row[j] = "running" /\ Attends(a, j) =>
          Attends(a, j)' \/ j \in orphans'
  BY <1>1 DEF TypeOK, AgentAt, InHand, Attends
<1>5. \A j \in Job : row[j] = "running" /\ <<holder[j], j>> \in zips =>
          <<holder[j], j>> \in zips'
  BY <1>1 DEF InHand
<1> QED
  BY <1>1, <1>2, <1>3, <1>4, <1>5, AgentMoves DEF TypeOK

LEMMA UploadedKeeps ==
    ASSUME AgentInv, NEW a \in Agent, Uploaded(a)
    PROVE  AgentInv'
<1> USE AgentAssumption
<1> USE DEF Uploaded, Goto, Wire, agents, network, server
<1>1. TypeOK /\ InHand(a) /\ at[a] \in AgentAt
  BY AtPlace
<1>2. TypeOK'
  BY <1>1 DEF TypeOK, AgentAt, InHand, Requests
<1>3. InHand(a)'
  BY <1>1 DEF TypeOK, AgentAt, InHand
<1>4. \A j \in Job : row[j] = "running" /\ Attends(a, j) =>
          Attends(a, j)' \/ j \in orphans'
  BY <1>1 DEF TypeOK, AgentAt, InHand, Attends
<1>5. \A j \in Job : row[j] = "running" /\ <<holder[j], j>> \in zips =>
          <<holder[j], j>> \in zips'
  BY <1>1 DEF InHand
<1> QED
  BY <1>1, <1>2, <1>3, <1>4, <1>5, AgentMoves DEF TypeOK

LEMMA RemoveKeeps ==
    ASSUME AgentInv, NEW a \in Agent, Remove(a)
    PROVE  AgentInv'
<1> USE AgentAssumption
<1> USE DEF Remove, Goto, Wire, agents, network, server
<1>1. TypeOK /\ InHand(a) /\ at[a] \in AgentAt
  BY AtPlace
<1>2. TypeOK'
  BY <1>1 DEF TypeOK, AgentAt, InHand, Requests
<1>3. InHand(a)'
  BY <1>1 DEF TypeOK, AgentAt, InHand
<1>4. \A j \in Job : row[j] = "running" /\ Attends(a, j) =>
          Attends(a, j)' \/ j \in orphans'
  BY <1>1 DEF TypeOK, AgentAt, InHand, Attends
<1>5. \A j \in Job : row[j] = "running" /\ <<holder[j], j>> \in zips =>
          <<holder[j], j>> \in zips'
  BY <1>1 DEF InHand
<1> QED
  BY <1>1, <1>2, <1>3, <1>4, <1>5, AgentMoves DEF TypeOK

LEMMA SignalKeeps ==
    ASSUME AgentInv, NEW a \in Agent, Signal(a)
    PROVE  AgentInv'
<1> USE AgentAssumption
<1> USE DEF Signal, Alive, Goto, Wire, agents, network, server
<1>1. TypeOK /\ InHand(a) /\ at[a] \in AgentAt
  BY AtPlace
<1>2. TypeOK'
  BY <1>1 DEF TypeOK, AgentAt, InHand, Requests
<1>3. InHand(a)'
  BY <1>1 DEF TypeOK, AgentAt, InHand
<1>4. \A j \in Job : row[j] = "running" /\ Attends(a, j) =>
          Attends(a, j)' \/ j \in orphans'
  BY <1>1 DEF TypeOK, AgentAt, InHand, Attends
<1>5. \A j \in Job : row[j] = "running" /\ <<holder[j], j>> \in zips =>
          <<holder[j], j>> \in zips'
  BY <1>1 DEF InHand
<1> QED
  BY <1>1, <1>2, <1>3, <1>4, <1>5, AgentMoves DEF TypeOK

LEMMA DieKeeps ==
    ASSUME AgentInv, NEW a \in Agent, Die(a)
    PROVE  AgentInv'
<1> USE AgentAssumption
<1> USE DEF Die, Alive, Request, Goto, Wire, agents, network, server
<1>1. TypeOK /\ InHand(a) /\ at[a] \in AgentAt
  BY AtPlace
<1>2. TypeOK'
  BY <1>1 DEF TypeOK, AgentAt, InHand, Requests
<1>3. InHand(a)'
  BY <1>1 DEF TypeOK, AgentAt, InHand
<1>4. \A j \in Job : row[j] = "running" /\ Attends(a, j) =>
          Attends(a, j)' \/ j \in orphans'
  BY <1>1 DEF TypeOK, AgentAt, InHand, Attends
<1>5. \A j \in Job : row[j] = "running" /\ <<holder[j], j>> \in zips =>
          <<holder[j], j>> \in zips'
  BY <1>1 DEF InHand
<1> QED
  BY <1>1, <1>2, <1>3, <1>4, <1>5, AgentMoves DEF TypeOK

LEMMA LoseRequestKeeps ==
    ASSUME AgentInv, NEW a \in Agent, LoseRequest(a)
    PROVE  AgentInv'
<1> USE AgentAssumption
<1> USE DEF LoseRequest, Repeat, Goto, Wire, agents, network, server
<1>1. TypeOK /\ InHand(a) /\ at[a] \in AgentAt
  BY AtPlace
<1>2. TypeOK'
  BY <1>1 DEF TypeOK, AgentAt, InHand, Requests
<1>3. InHand(a)'
  BY <1>1 DEF TypeOK, AgentAt, InHand
<1>4. \A j \in Job : row[j] = "running" /\ Attends(a, j) =>
          Attends(a, j)' \/ j \in orphans'
  BY <1>1 DEF TypeOK, AgentAt, InHand, Attends
<1>5. \A j \in Job : row[j] = "running" /\ <<holder[j], j>> \in zips =>
          <<holder[j], j>> \in zips'
  BY <1>1 DEF InHand
<1> QED
  BY <1>1, <1>2, <1>3, <1>4, <1>5, AgentMoves DEF TypeOK

LEMMA TimeoutKeeps ==
    ASSUME AgentInv, NEW a \in Agent, Timeout(a)
    PROVE  AgentInv'
<1> USE AgentAssumption
<1> USE DEF Timeout, Repeat, Request, Goto, Wire, agents, network, server
<1>1. TypeOK /\ InHand(a) /\ at[a] \in AgentAt
  BY AtPlace
<1>2. TypeOK'
  BY <1>1 DEF TypeOK, AgentAt, InHand, Requests
<1>3. InHand(a)'
  BY <1>1 DEF TypeOK, AgentAt, InHand
<1>4. \A j \in Job : row[j] = "running" /\ Attends(a, j) =>
          Attends(a, j)' \/ j \in orphans'
  BY <1>1 DEF TypeOK, AgentAt, InHand, Attends
<1>5. \A j \in Job : row[j] = "running" /\ <<holder[j], j>> \in zips =>
          <<holder[j], j>> \in zips'
  BY <1>1 DEF InHand
<1> QED
  BY <1>1, <1>2, <1>3, <1>4, <1>5, AgentMoves DEF TypeOK

LEMMA LoseAnswerKeeps ==
    ASSUME AgentInv, NEW a \in Agent, LoseAnswer(a)
    PROVE  AgentInv'
<1> USE AgentAssumption
<1> USE DEF LoseAnswer, Repeat, Goto, Wire, agents, network, server
<1>1. TypeOK /\ InHand(a) /\ at[a] \in AgentAt
  BY AtPlace
<1>2. TypeOK'
  BY <1>1 DEF TypeOK, AgentAt, InHand, Requests
<1>3. InHand(a)'
  BY <1>1 DEF TypeOK, AgentAt, InHand
<1>4. \A j \in Job : row[j] = "running" /\ Attends(a, j) =>
          Attends(a, j)' \/ j \in orphans'
  BY <1>1 DEF TypeOK, AgentAt, InHand, Attends
<1>5. \A j \in Job : row[j] = "running" /\ <<holder[j], j>> \in zips =>
          <<holder[j], j>> \in zips'
  BY <1>1 DEF InHand
<1> QED
  BY <1>1, <1>2, <1>3, <1>4, <1>5, AgentMoves DEF TypeOK

LEMMA NoWorkKeeps ==
    ASSUME AgentInv, NEW a \in Agent, NoWork(a)
    PROVE  AgentInv'
<1> USE AgentAssumption
<1> USE DEF NoWork, Goto, Wire, agents, network, server
<1>1. TypeOK /\ InHand(a) /\ at[a] \in AgentAt
  BY AtPlace
<1>2. TypeOK'
  BY <1>1 DEF TypeOK, AgentAt, InHand, Requests
<1>3. InHand(a)'
  BY <1>1 DEF TypeOK, AgentAt, InHand
<1>4. \A j \in Job : row[j] = "running" /\ Attends(a, j) =>
          Attends(a, j)' \/ j \in orphans'
  BY <1>1 DEF TypeOK, AgentAt, InHand, Attends
<1>5. \A j \in Job : row[j] = "running" /\ <<holder[j], j>> \in zips =>
          <<holder[j], j>> \in zips'
  BY <1>1 DEF InHand
<1> QED
  BY <1>1, <1>2, <1>3, <1>4, <1>5, AgentMoves DEF TypeOK

LEMMA RefuseKeeps ==
    ASSUME AgentInv, NEW a \in Agent, Refuse(a)
    PROVE  AgentInv'
<1> USE AgentAssumption
<1> USE DEF Refuse, Goto, Wire, agents, network, server
<1>1. TypeOK /\ InHand(a) /\ at[a] \in AgentAt
  BY AtPlace
<1>2. TypeOK'
  BY <1>1 DEF TypeOK, AgentAt, InHand, Requests
<1>3. InHand(a)'
  BY <1>1 DEF TypeOK, AgentAt, InHand
<1>4. \A j \in Job : row[j] = "running" /\ Attends(a, j) =>
          Attends(a, j)' \/ j \in orphans'
  BY <1>1 DEF TypeOK, AgentAt, InHand, Attends
<1>5. \A j \in Job : row[j] = "running" /\ <<holder[j], j>> \in zips =>
          <<holder[j], j>> \in zips'
  BY <1>1 DEF InHand
<1> QED
  BY <1>1, <1>2, <1>3, <1>4, <1>5, AgentMoves DEF TypeOK

-----------------------------------------------------------------------------
(* The work: what a job produces is fixed by its one agent, and packed.    *)
LEMMA WorkKeeps ==
    ASSUME AgentInv, NEW a \in Agent, Work(a)
    PROVE  AgentInv'
<1> USE AgentAssumption DEF Goto, network, server
<1>1. PICK r \in Result :
          /\ result' = [result EXCEPT ![a] = r]
          /\ produced' = [produced EXCEPT ![job[a]] = r]
          /\ at' = [at EXCEPT ![a] = "upload"]
          /\ zips' = zips \cup {<<a, job[a]>>}
          /\ UNCHANGED <<job, loop, signal, network, server, orphans>>
  BY DEF Work
<1>2. at[a] = "work" /\ job[a] \in Job /\ wire[a] = "idle"
      /\ produced[job[a]] = "none" /\ holder[job[a]] = a /\ offer[a] = NoJob
  BY AtPlace DEF Work, InHand
<1>3. TypeOK
  BY AtPlace
<1>4. TypeOK'
  BY <1>1, <1>2, <1>3 DEF TypeOK, AgentAt
<1>5. Places'
  <2> SUFFICES ASSUME NEW b \in Agent
               PROVE  InHand(b)'
    BY DEF Places
  <2>1. InHand(b) /\ at[b] \in AgentAt
    BY AtPlace
  <2>2. CASE b = a
    BY <1>1, <1>2, <1>3, <2>1, <2>2 DEF InHand, TypeOK, AgentAt, Result
  <2>3. CASE b # a
    BY <1>1, <1>2, <1>3, <2>1, <2>3 DEF InHand, TypeOK, AgentAt
  <2> QED
    BY <2>2, <2>3
<1>6. Tables'
  BY <1>1, <1>2, <1>3 DEF AgentInv, Tables, InTable, TypeOK
<1>7. Backlog'
  BY <1>1, <1>2, <1>3 DEF AgentInv, Backlog, InBacklog, TypeOK, Result, Requests
<1>8. NoneForgotten'
  BY <1>1, <1>2, <1>3 DEF AgentInv, NoneForgotten, Attended, TypeOK
<1>9. WorkKept'
  BY <1>1, <1>2, <1>3 DEF AgentInv, WorkKept, TypeOK
<1> QED
  BY <1>4, <1>5, <1>6, <1>7, <1>8, <1>9 DEF AgentInv

-----------------------------------------------------------------------------
(* A job is made for one agent.  Nobody had it in hand before.             *)
LEMMA CreateKeeps ==
    ASSUME AgentInv, NEW a \in Agent, NEW j \in Job, Create(a, j),
           UNCHANGED <<at, job, result, zips, produced>>,
           stale' \subseteq stale, TypeOK',
           \A b \in Agent \ {a} : wire'[b] = wire[b] /\ offer'[b] = offer[b],
           InHand(a)',
           orphans \subseteq orphans',
           j \in orphans' \/ Attends(a, j)',
           \A i \in Job : Attends(a, i) => Attends(a, i)'
    PROVE  AgentInv'
<1>1. /\ row[j] = "none" /\ holder[j] = Nobody /\ produced[j] = "none"
      /\ row' = [row EXCEPT ![j] = "running"]
      /\ holder' = [holder EXCEPT ![j] = a]
      /\ UNCHANGED record
  BY DEF Create, AgentInv, Tables, InTable
<1>2. TypeOK
  BY DEF AgentInv
<1>3. Places'
  <2> SUFFICES ASSUME NEW b \in Agent, b # a
               PROVE  InHand(b)'
    BY DEF Places
  <2>1. InHand(b) /\ at[b] \in AgentAt
    BY AtPlace
  <2> QED
    BY <1>1, <1>2, <2>1, AgentAssumption DEF InHand, TypeOK, AgentAt
<1>4. Tables'
  BY <1>1, <1>2, AgentAssumption DEF AgentInv, Tables, InTable, TypeOK
<1>5. Backlog'
  BY DEF AgentInv, Backlog, InBacklog
<1>6. NoneForgotten'
  <2> SUFFICES ASSUME NEW i \in Job, row'[i] = "running", i \notin orphans'
               PROVE  Attended(i)'
    BY DEF NoneForgotten
  <2>1. CASE i = j
    BY <1>1, <1>2, <2>1 DEF Attended, Attends, TypeOK
  <2>2. CASE i # j
    <3>1. row[i] = "running" /\ i \notin orphans /\ holder'[i] = holder[i]
      BY <1>1, <1>2, <2>2 DEF TypeOK
    <3>2. PICK b \in Agent : holder[i] = b /\ Attends(b, i)
      BY <3>1 DEF AgentInv, NoneForgotten, Attended, Attends
    <3>3. Attends(b, i)'
      BY <3>2 DEF Attends
    <3> QED
      BY <3>1, <3>2, <3>3 DEF Attended, Attends
  <2> QED
    BY <2>1, <2>2
<1>7. WorkKept'
  BY <1>1, <1>2 DEF AgentInv, WorkKept, TypeOK
<1> QED
  BY <1>3, <1>4, <1>5, <1>6, <1>7 DEF AgentInv

LEMMA AssignKeeps ==
    ASSUME AgentInv, NEW a \in Agent, Assign(a)
    PROVE  AgentInv'
<1>1. PICK j \in Job : Create(a, j) /\ Wire(a, "assigned", j)
  BY DEF Assign
<1>2. TypeOK /\ InHand(a) /\ at[a] = "fetch" /\ wire[a] = "request"
  BY AtPlace DEF Assign
<1>3. UNCHANGED <<agents, stale, produced, orphans>>
  BY DEF Assign
<1>4. produced[j] = "none"
  BY <1>1 DEF Create, AgentInv, Tables, InTable
<1>5. TypeOK'
  BY <1>1, <1>2, <1>3 DEF TypeOK, Create, Wire, agents, network, server
<1>6. InHand(a)'
  BY <1>1, <1>2, <1>3, <1>4, AgentAssumption DEF InHand, TypeOK, Create, Wire, agents
<1>7. Attends(a, j)'
  BY <1>1, <1>2 DEF Attends, Wire, TypeOK
<1>8. \A i \in Job : ~Attends(a, i)
  BY <1>2 DEF Attends
<1> QED
  BY <1>1, <1>2, <1>3, <1>5, <1>6, <1>7, <1>8, CreateKeeps DEF agents, Wire, TypeOK

LEMMA AssignLateKeeps ==
    ASSUME AgentInv, NEW r \in stale, AssignLate(r)
    PROVE  AgentInv'
<1>1. r.from \in Agent /\ TypeOK
  BY DEF AgentInv, TypeOK, Requests
<1>2. PICK j \in Job : Create(r.from, j) /\ orphans' = orphans \cup {j}
  BY DEF AssignLate
<1>3. UNCHANGED <<agents, wire, offer, produced>> /\ stale' = stale \ {r}
  BY DEF AssignLate
<1>4. TypeOK'
  BY <1>1, <1>2, <1>3 DEF TypeOK, Create, agents
<1>5. InHand(r.from)'
  <2>1. InHand(r.from) /\ at[r.from] \in AgentAt
    BY <1>1, AtPlace
  <2>2. holder[j] = Nobody
    BY <1>2 DEF Create, AgentInv, Tables, InTable
  <2> QED
    BY <1>1, <1>2, <1>3, <2>1, <2>2, AgentAssumption
    DEF InHand, TypeOK, Create, agents, AgentAt
<1> QED
  BY <1>1, <1>2, <1>3, <1>4, <1>5, CreateKeeps DEF agents, Attends

-----------------------------------------------------------------------------
(* A row that is closed or deleted: nobody waits for its output any more.  *)
LEMMA CloseKeeps ==
    ASSUME AgentInv, NEW j \in Job,
           row[j] # "none", row'[j] \notin {"none", "running"},
           record'[j] # "none",
           \A i \in Job \ {j} : row'[i] = row[i] /\ record'[i] = record[i],
           UNCHANGED <<agents, holder, produced, orphans>>,
           stale' \subseteq stale, TypeOK',
           \A a \in Agent :
               \/ wire'[a] = wire[a] /\ offer'[a] = offer[a]
               \/ /\ at[a] = "upload" /\ job[a] = j
                  /\ wire'[a] = "ok" /\ offer'[a] = NoJob
    PROVE  AgentInv'
<1>1. Places'
  <2> SUFFICES ASSUME NEW a \in Agent
               PROVE  InHand(a)'
    BY DEF Places
  <2>1. InHand(a) /\ at[a] \in AgentAt
    BY AtPlace
  <2> QED
    BY <2>1 DEF InHand, agents, AgentAt
<1>2. Tables'
  BY DEF AgentInv, Tables, InTable
<1>3. Backlog'
  BY DEF AgentInv, Backlog, InBacklog
<1>4. NoneForgotten'
  <2> SUFFICES ASSUME NEW i \in Job, row'[i] = "running", i \notin orphans'
               PROVE  Attended(i)'
    BY DEF NoneForgotten
  <2>1. i # j /\ row[i] = "running"
    OBVIOUS
  <2>2. PICK a \in Agent : holder[i] = a /\ Attends(a, i)
    BY <2>1 DEF AgentInv, NoneForgotten, Attended, Attends
  <2>3. Attends(a, i)'
    <3>1. InHand(a)
      BY AtPlace
    <3> QED
      BY <2>1, <2>2, <3>1 DEF Attends, agents, InHand
  <2> QED
    BY <2>2, <2>3 DEF Attended, Attends
<1>5. WorkKept'
  BY DEF AgentInv, WorkKept, agents
<1> QED
  BY <1>1, <1>2, <1>3, <1>4, <1>5 DEF AgentInv

(* An output that is not taken, or a request that is dropped.              *)
LEMMA DiscardKeeps ==
    ASSUME AgentInv, UNCHANGED <<agents, wire, offer, server, produced, orphans>>,
           stale' \subseteq stale
    PROVE  AgentInv'
BY DEF AgentInv, TypeOK, Places, InHand, Tables, InTable, Backlog, InBacklog,
   NoneForgotten, Attended, WorkKept, agents, server

LEMMA OutputKeeps ==
    ASSUME AgentInv, NEW a \in Agent, Output(a)
    PROVE  AgentInv'
<1>1. /\ TypeOK /\ InHand(a)
      /\ wire[a] = "request" /\ at[a] = "upload" /\ Wire(a, "ok", NoJob)
      /\ UNCHANGED <<agents, stale, produced, orphans>>
  BY AtPlace DEF Output
<1>2. Request(a).job = job[a] /\ Request(a).result = result[a]
  BY DEF Request
<1>3. job[a] \in Job /\ result[a] \in Result /\ holder[job[a]] = a
  BY <1>1, AgentAssumption DEF InHand
<1>4. row[job[a]] # "none"
  BY <1>3, AgentAssumption DEF AgentInv, Tables, InTable
<1>5. CASE /\ row[job[a]] = "running"
           /\ row' = [row EXCEPT ![job[a]] = "finished"]
           /\ record' = [record EXCEPT ![job[a]] = result[a]]
           /\ UNCHANGED holder
  <2>1. TypeOK'
    BY <1>1, <1>3, <1>5 DEF TypeOK, Wire, agents
  <2>2. /\ row'[job[a]] = "finished" /\ record'[job[a]] = result[a]
        /\ \A i \in Job \ {job[a]} : row'[i] = row[i] /\ record'[i] = record[i]
    BY <1>1, <1>3, <1>5 DEF TypeOK
  <2>3. \A b \in Agent :
            \/ wire'[b] = wire[b] /\ offer'[b] = offer[b]
            \/ /\ at[b] = "upload" /\ job[b] = job[a]
               /\ wire'[b] = "ok" /\ offer'[b] = NoJob
    BY <1>1 DEF Wire, TypeOK
  <2> QED
    BY <1>1, <1>3, <1>4, <1>5, <2>1, <2>2, <2>3, CloseKeeps DEF Result
<1>6. CASE row[job[a]] # "running" /\ UNCHANGED server
  <2>1. TypeOK'
    BY <1>1, <1>6 DEF TypeOK, Wire, agents, server
  <2>2. InHand(a)'
    BY <1>1, <1>6 DEF InHand, TypeOK, Wire, agents, server
  <2>3. \A j \in Job : Attends(a, j) => Attends(a, j)'
    BY <1>1 DEF Attends, agents
  <2> QED
    BY <1>1, <1>6, <2>1, <2>2, <2>3, AgentMoves DEF TypeOK, Wire, agents, server
<1> QED
  BY <1>2, <1>5, <1>6 DEF Output, Store

LEMMA OutputLateKeeps ==
    ASSUME AgentInv, NEW r \in stale, OutputLate(r)
    PROVE  AgentInv'
<1>1. /\ TypeOK /\ r.job \in Job /\ r.result \in Result
      /\ UNCHANGED <<agents, wire, offer, produced, orphans>>
      /\ stale' = stale \ {r}
  BY DEF OutputLate, AgentInv, TypeOK, Requests, Backlog, InBacklog
<1>2. CASE /\ row[r.job] = "running"
           /\ row' = [row EXCEPT ![r.job] = "finished"]
           /\ record' = [record EXCEPT ![r.job] = r.result]
           /\ UNCHANGED holder
  <2>1. TypeOK'
    BY <1>1, <1>2 DEF TypeOK, agents
  <2>2. /\ row'[r.job] = "finished" /\ record'[r.job] = r.result
        /\ \A i \in Job \ {r.job} : row'[i] = row[i] /\ record'[i] = record[i]
    BY <1>1, <1>2 DEF TypeOK
  <2> QED
    BY <1>1, <1>2, <2>1, <2>2, CloseKeeps DEF Result
<1>3. CASE UNCHANGED server
  BY <1>1, <1>3, DiscardKeeps
<1> QED
  BY <1>2, <1>3 DEF OutputLate, Store

LEMMA ReconcileKeeps ==
    ASSUME AgentInv, NEW j \in Job, Reconcile(j)
    PROVE  AgentInv'
<1>1. TypeOK /\ TypeOK'
  BY DEF Reconcile, AgentInv, TypeOK, agents, network
<1>2. /\ row'[j] = "reconciled" /\ record'[j] = "failed"
      /\ \A i \in Job \ {j} : row'[i] = row[i] /\ record'[i] = record[i]
  BY <1>1 DEF Reconcile, TypeOK
<1> QED
  BY <1>1, <1>2, CloseKeeps DEF Reconcile, network

LEMMA DeleteKeeps ==
    ASSUME AgentInv, NEW j \in Job, Delete(j)
    PROVE  AgentInv'
<1>1. TypeOK /\ TypeOK'
  BY DEF Delete, AgentInv, TypeOK, agents, network
<1>2. /\ row'[j] = "deleted"
      /\ \A i \in Job \ {j} : row'[i] = row[i] /\ record'[i] = record[i]
  BY <1>1 DEF Delete, TypeOK
<1>3. record'[j] # "none"
  BY DEF Delete, AgentInv, Tables, InTable
<1> QED
  BY <1>1, <1>2, <1>3, CloseKeeps DEF Delete, network

-----------------------------------------------------------------------------
(* Every step of agents, network, server and operators.                    *)
LEMMA AgentStep ==
    ASSUME AgentInv, [Next]_vars
    PROVE  AgentInv'
<1>1. CASE \E a \in Agent : Step(a)
  BY <1>1, SendKeeps, ExitKeeps, ReceiveJobKeeps, ReceiveNoWorkKeeps,
     ReceiveErrorKeeps, WorkKeeps, UploadedKeeps, RemoveKeeps DEF Step
<1>2. CASE \E a \in Agent : Signal(a) \/ Die(a)
  BY <1>2, SignalKeeps, DieKeeps
<1>3. CASE \E a \in Agent : Network(a)
  BY <1>3, LoseRequestKeeps, TimeoutKeeps, LoseAnswerKeeps DEF Network
<1>4. CASE \E a \in Agent : Serve(a)
  BY <1>4, AssignKeeps, NoWorkKeeps, OutputKeeps, RefuseKeeps DEF Serve
<1>5. CASE \E r \in stale : AssignLate(r)
  BY <1>5, AssignLateKeeps
<1>6. CASE \E r \in stale : OutputLate(r)
  BY <1>6, OutputLateKeeps
<1>7. CASE \E r \in stale : DropLate(r)
  BY <1>7, DiscardKeeps DEF DropLate
<1>8. CASE \E j \in Job : Reconcile(j) \/ Delete(j)
  BY <1>8, ReconcileKeeps, DeleteKeeps
<1>9. CASE UNCHANGED vars
  BY <1>9, DiscardKeeps DEF vars, network
<1> QED
  BY <1>1, <1>2, <1>3, <1>4, <1>5, <1>6, <1>7, <1>8, <1>9 DEF Next, Late

LEMMA AgentInvariant == Spec => []AgentInv
<1>1. Init => AgentInv
  BY InitInv
<1>2. AgentInv /\ [Next]_vars => AgentInv'
  BY AgentStep
<1> QED
  BY <1>1, <1>2, PTL DEF Spec

(* Types, for any number of agents and jobs (sner/agent/core.py,            *)
(* sner/server/api/views.py).                                               *)
THEOREM AgentTypes == Spec => []TypeOK
<1>1. AgentInv => TypeOK
  BY DEF AgentInv
<1> QED
  BY <1>1, AgentInvariant, PTL

(* A running job is in an answer on its way or in the hands of the agent it *)
(* was created for, or was orphaned by a lost answer or a death             *)
(* (core.py:192-257).                                                       *)
THEOREM NoAssignmentForgotten == Spec => []NoneForgotten
<1>1. AgentInv => NoneForgotten
  BY DEF AgentInv
<1> QED
  BY <1>1, AgentInvariant, PTL

(* The zip of a worked job is on its agent's disk while the server waits    *)
(* for it (core.py:250-251).                                                *)
THEOREM OutputNeverDropped == Spec => []WorkKept
<1>1. AgentInv => WorkKept
  BY DEF AgentInv
<1> QED
  BY <1>1, AgentInvariant, PTL

-----------------------------------------------------------------------------
(* The steps that the refinement maps to Give, Record and GiveUpOn.         *)
LEMMA CreateGives ==
    ASSUME AgentInv, NEW a \in Agent, NEW j \in Job, Create(a, j),
           UNCHANGED produced
    PROVE  Promise!Give(j)
BY DEF Create, AgentInv, Tables, InTable, Promise!Give

LEMMA StoreRecords ==
    ASSUME AgentInv, NEW r, r.job \in Job, r.result \in Result,
           r.result = produced[r.job], Store(r), UNCHANGED produced
    PROVE  Promise!Record(r.job) \/ UNCHANGED <<holder, produced, record>>
BY DEF Store, AgentInv, Tables, InTable, Promise!Record, Result, server

LEMMA WorkProduces ==
    ASSUME AgentInv, NEW a \in Agent, Work(a)
    PROVE  job[a] \in Job /\ Promise!Produce(job[a])
<1>1. /\ job[a] \in Job /\ produced[job[a]] = "none" /\ holder[job[a]] = a
  BY AtPlace, AgentAssumption DEF Work, InHand
<1> QED
  BY <1>1, AgentAssumption DEF Work, Promise!Produce, server

LEMMA ReconcileGivesUp ==
    ASSUME AgentInv, NEW j \in Job, Reconcile(j)
    PROVE  Promise!GiveUpOn(j)
BY DEF Reconcile, AgentInv, Tables, InTable, Promise!GiveUpOn

(* Agents and server implement Assignment (sner/agent/core.py:192-257,      *)
(* sner/server/api/views.py:39-82): each job is given to one agent, worked  *)
(* at most once, and recorded once, by what was produced or as failed.      *)
THEOREM AssignmentKept == Spec => AssignmentSpec
<1>1. Init => Promise!Init
  BY DEF Init, Promise!Init
<1>2. ASSUME AgentInv, [Next]_vars
      PROVE  [Promise!Next]_Promise!vars
  <2> USE <1>2 DEF Promise!vars
  <2>1. CASE \E a \in Agent : Work(a)
    BY <2>1, WorkProduces DEF Promise!Next
  <2>2. CASE \E a \in Agent : Assign(a)
    BY <2>2, CreateGives DEF Assign, Promise!Next
  <2>3. CASE \E r \in stale : AssignLate(r)
    <3>1. \A r \in stale : r.from \in Agent
      BY DEF AgentInv, TypeOK, Requests
    <3> QED
      BY <2>3, <3>1, CreateGives DEF AssignLate, Promise!Next
  <2>4. CASE \E a \in Agent : Output(a)
    <3>1. PICK a \in Agent : Output(a)
      BY <2>4
    <3>2. InHand(a) /\ at[a] = "upload"
      BY <3>1, AtPlace DEF Output
    <3>3. Request(a).job = job[a] /\ Request(a).result = result[a]
      BY DEF Request
    <3> QED
      BY <3>1, <3>2, <3>3, StoreRecords DEF Output, InHand, Promise!Next
  <2>5. CASE \E r \in stale : OutputLate(r)
    <3>1. PICK r \in stale : OutputLate(r)
      BY <2>5
    <3>2. r.job \in Job /\ r.result \in Result /\ r.result = produced[r.job]
      BY <3>1 DEF OutputLate, AgentInv, TypeOK, Requests, Backlog, InBacklog
    <3> QED
      BY <3>1, <3>2, StoreRecords DEF OutputLate, Promise!Next
  <2>6. CASE \E j \in Job : Reconcile(j)
    BY <2>6, ReconcileGivesUp DEF Promise!Next
  <2>7. CASE \/ \E a \in Agent :
                    \/ Send(a) \/ Exit(a) \/ ReceiveJob(a) \/ ReceiveNoWork(a)
                    \/ ReceiveError(a) \/ Uploaded(a) \/ Remove(a)
                    \/ Signal(a) \/ Die(a) \/ Network(a) \/ NoWork(a) \/ Refuse(a)
             \/ \E r \in stale : DropLate(r)
             \/ \E j \in Job : Delete(j)
             \/ UNCHANGED vars
    <3>1. UNCHANGED <<holder, produced, record>>
      BY <2>7 DEF Send, Exit, ReceiveJob, ReceiveNoWork, ReceiveError, Uploaded,
         Remove, Signal, Die, Network, LoseRequest, Timeout, LoseAnswer, NoWork,
         Refuse, DropLate, Delete, server, vars
    <3> QED
      BY <3>1
  <2> QED
    BY <2>1, <2>2, <2>3, <2>4, <2>5, <2>6, <2>7 DEF Next, Step, Serve, Late
<1> QED
  BY <1>1, <1>2, AgentInvariant, PTL DEF Spec, AssignmentSpec, Promise!Spec
=============================================================================
