----------------------------- MODULE Assignment -----------------------------
(***************************************************************************)
(* What agents and server promise together about a job: it is given to one *)
(* agent, worked by it at most once, and its record, once made, is what    *)
(* that agent produced or the failure an operator wrote, and never changes.*)
(***************************************************************************)
CONSTANTS Agent, Job, Result, Nobody, Nothing, WrittenOff

VARIABLES holder, produced, record

vars == <<holder, produced, record>>

Init ==
    /\ holder = [j \in Job |-> Nobody]
    /\ produced = [j \in Job |-> Nothing]
    /\ record = [j \in Job |-> Nothing]

Give(j) ==
    /\ holder[j] = Nobody
    /\ \E a \in Agent : holder' = [holder EXCEPT ![j] = a]
    /\ UNCHANGED <<produced, record>>

Produce(j) ==
    /\ holder[j] # Nobody
    /\ produced[j] = Nothing
    /\ \E r \in Result : produced' = [produced EXCEPT ![j] = r]
    /\ UNCHANGED <<holder, record>>

Record(j) ==
    /\ produced[j] # Nothing
    /\ record[j] = Nothing
    /\ record' = [record EXCEPT ![j] = produced[j]]
    /\ UNCHANGED <<holder, produced>>

GiveUpOn(j) ==
    /\ holder[j] # Nobody
    /\ record[j] = Nothing
    /\ record' = [record EXCEPT ![j] = WrittenOff]
    /\ UNCHANGED <<holder, produced>>

Next == \E j \in Job : Give(j) \/ Produce(j) \/ Record(j) \/ GiveUpOn(j)

Spec == Init /\ [][Next]_vars
=============================================================================
