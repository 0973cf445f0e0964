-------------------------- MODULE AgentModuleProofs --------------------------
(***************************************************************************)
(* Theorems about one run of an agent module, for assignments of any       *)
(* length and a SIGTERM between any two steps.                             *)
(***************************************************************************)
EXTENDS AgentModule, TLAPS

(* Types, and a tool is started for a usable batch only.                   *)
Types == TypeOK /\ (at \in {"popen", "wait"} => i \in usable)

(* What a module does without a SIGTERM: batches are worked in order, and  *)
(* none is left out, as long as loop is set.                               *)
InOrder ==
    ~terminated =>
        /\ loop
        /\ tool # "killed"
        /\ at \in {"popen", "wait"} =>
              \A b \in usable : b \in scanned <=> b < i
        /\ at \in {"next", "test"} => \A b \in usable : b \in scanned <=> b <= i
        /\ at = "done" /\ retval = "zero" => scanned = usable

(* A failure is in ret until it is in retval.                              *)
Collected ==
    Accumulates(module) /\ bad =>
        IF at = "done" THEN retval = "nonzero" ELSE ret

(* The tool started after the signal is the last: the flag is looked at    *)
(* before the next one, or there is no next one.                           *)
LastTool ==
    /\ terminated /\ ClearsLoop(module) => ~loop
    /\ after > 0 /\ ~SkipsTest(module) =>
          /\ terminated /\ after = 1 /\ at # "popen"
          /\ at = "next" => TestsBefore(module) \/ i = Batches(module)
          /\ at \in {"wait", "test"} =>
                TestsBefore(module) \/ TestsAfter(module) \/ i = Batches(module)

LEMMA BatchesNat ==
    ASSUME NEW m \in Module
    PROVE  Batches(m) \in Nat \ {0} /\ m \in AnyModule
BY ModuleAssumption, BatchesAssumption DEF Batches, AnyModule

-----------------------------------------------------------------------------
LEMMA TypesKept ==
    ASSUME Types, [Next]_vars
    PROVE  Types'
<1> USE BatchesNat DEF Types, TypeOK
<1>1. CASE Take
  BY <1>1 DEF Take
<1>2. CASE AllTaken
  BY <1>2 DEF AllTaken, Return
<1>3. CASE Popen
  BY <1>3 DEF Popen
<1>4. CASE ToolEnds
  BY <1>4 DEF ToolEnds, Ret
<1>5. CASE Test
  BY <1>5 DEF Test, Return
<1>6. CASE Raise
  BY <1>6 DEF Raise
<1>7. CASE Terminate
  BY <1>7 DEF Terminate
<1>8. CASE UNCHANGED vars
  BY <1>8 DEF vars
<1> QED
  BY <1>1, <1>2, <1>3, <1>4, <1>5, <1>6, <1>7, <1>8 DEF Next

LEMMA InOrderKept ==
    ASSUME Types, InOrder, [Next]_vars
    PROVE  InOrder'
<1> USE BatchesNat DEF Types, TypeOK, InOrder, TestsBefore, Batches
<1>1. CASE Take
  BY <1>1 DEF Take
<1>2. CASE AllTaken
  BY <1>2 DEF AllTaken, Return
<1>3. CASE Popen
  BY <1>3 DEF Popen
<1>4. CASE ToolEnds
  BY <1>4 DEF ToolEnds, Ret
<1>5. CASE Test
  BY <1>5 DEF Test, Return
<1>6. CASE Raise
  BY <1>6 DEF Raise
<1>7. CASE Terminate
  BY <1>7 DEF Terminate
<1>8. CASE UNCHANGED vars
  BY <1>8 DEF vars
<1> QED
  BY <1>1, <1>2, <1>3, <1>4, <1>5, <1>6, <1>7, <1>8 DEF Next

LEMMA CollectedKept ==
    ASSUME Types, Collected, [Next]_vars
    PROVE  Collected'
<1> USE BatchesNat DEF Types, TypeOK, Collected, Accumulates
<1>1. CASE Take
  BY <1>1 DEF Take
<1>2. CASE AllTaken
  BY <1>2 DEF AllTaken, Return
<1>3. CASE Popen
  BY <1>3 DEF Popen
<1>4. CASE ToolEnds
  BY <1>4 DEF ToolEnds, Ret
<1>5. CASE Test
  BY <1>5 DEF Test, Return
<1>6. CASE Raise
  BY <1>6 DEF Raise
<1>7. CASE Terminate
  BY <1>7 DEF Terminate
<1>8. CASE UNCHANGED vars
  BY <1>8 DEF vars
<1> QED
  BY <1>1, <1>2, <1>3, <1>4, <1>5, <1>6, <1>7, <1>8 DEF Next

LEMMA LastToolKept ==
    ASSUME Types, LastTool, [Next]_vars
    PROVE  LastTool'
<1> USE BatchesNat DEF Types, TypeOK, LastTool, ClearsLoop, SkipsTest, TestsBefore, TestsAfter, Batches, AnyModule
<1>1. CASE Take
  BY <1>1 DEF Take
<1>2. CASE AllTaken
  BY <1>2 DEF AllTaken, Return
<1>3. CASE Popen
  BY <1>3 DEF Popen
<1>4. CASE ToolEnds
  BY <1>4 DEF ToolEnds, Ret
<1>5. CASE Test
  BY <1>5 DEF Test, Return
<1>6. CASE Raise
  BY <1>6 DEF Raise
<1>7. CASE Terminate
  BY <1>7 DEF Terminate
<1>8. CASE UNCHANGED vars
  BY <1>8 DEF vars
<1> QED
  BY <1>1, <1>2, <1>3, <1>4, <1>5, <1>6, <1>7, <1>8 DEF Next

LEMMA ModuleTypes == Spec => []Types
<1>1. Init => Types
  <2> SUFFICES ASSUME Init
               PROVE  Types
    OBVIOUS
  <2>1. loop \in BOOLEAN
    BY Zenon DEF Init, LoopAtStart
  <2>2. module \in Module /\ Batches(module) \in Nat
    BY BatchesNat DEF Init
  <2>3. TypeOK
    <3>1. usable \subseteq 1..Batches(module) /\ i \in 0..Batches(module)
      BY <2>2 DEF Init
    <3>2. module \in Module
      BY <2>2
    <3>3. /\ ret \in BOOLEAN /\ terminated \in BOOLEAN /\ bad \in BOOLEAN
          /\ scanned \subseteq usable /\ after \in Nat
          /\ at = "next" /\ tool = "none" /\ retval = "none"
      BY DEF Init
    <3> QED
      BY <2>1, <3>1, <3>2, <3>3 DEF TypeOK
  <2> QED
    BY <2>3 DEF Init, Types
<1> QED
  BY <1>1, TypesKept, PTL DEF Spec

-----------------------------------------------------------------------------
(* A module that returns 0 with nobody terminating the agent has worked     *)
(* every usable target (planner/core.py:173 takes it so), for any length    *)
(* of the assignment and every module that starts with its flag set: all    *)
(* but screenshot_web (screenshot_web/agent.py:34).                         *)
THEOREM EveryTargetWorked ==
    ASSUME "screenshot_web" \notin Module
    PROVE  Spec => []Complete
<1>1. Init => InOrder
  <2> SUFFICES ASSUME Init
               PROVE  InOrder
    OBVIOUS
  <2>1. loop
    BY Zenon DEF Init, LoopAtStart
  <2>2. \A b \in usable : b \notin scanned /\ ~(b <= i)
    BY BatchesNat DEF Init
  <2> QED
    BY <2>1, <2>2 DEF Init, InOrder
<1>2. Types /\ InOrder => Complete
  BY DEF InOrder, Complete
<1> QED
  BY <1>1, <1>2, InOrderKept, ModuleTypes, PTL DEF Spec

(* A tool that failed or was killed shows in the retval of the modules that *)
(* collect return codes, wherever it was in the list (manymap/agent.py:47). *)
THEOREM FailuresShow == Spec => []FailureShows
<1>1. Init => Collected
  BY DEF Init, Collected
<1>2. Collected => FailureShows
  BY DEF Collected, FailureShows
<1> QED
  BY <1>1, <1>2, CollectedKept, ModuleTypes, PTL DEF Spec

(* After a SIGTERM at most one more tool is started, whichever two steps it *)
(* falls between (agent/modules.py:72-79).                                  *)
THEOREM OneMoreTool == Spec => []AtMostOneMore
<1>1. Init => LastTool
  BY DEF Init, LastTool
<1>2. Types /\ LastTool => AtMostOneMore
  BY DEF LastTool, AtMostOneMore, Types, TypeOK
<1> QED
  BY <1>1, <1>2, LastToolKept, ModuleTypes, PTL DEF Spec
=============================================================================
