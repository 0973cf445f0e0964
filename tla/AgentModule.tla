---------------------------- MODULE AgentModule ----------------------------
(***************************************************************************)
(* One run of an agent module over the targets of an assignment            *)
(* (sner/plugin/*/agent.py, sner/agent/modules.py), with a SIGTERM that    *)
(* may come between any two of its steps.  A batch is what one tool is     *)
(* started for: a target, for nmap the IPv4 or the IPv6 targets, for       *)
(* nuclei all of them.                                                     *)
(***************************************************************************)
EXTENDS Naturals, FiniteSets

CONSTANTS
    Module,       \* modules a run looks at
    MaxBatches    \* bound: batches of an assignment

AnyModule == {"jarm", "manymap", "nmap", "nuclei", "screenshot_web",
              "six_dns_discover", "six_enum_discover", "testssl"}

ASSUME ModuleAssumption == Module \subseteq AnyModule
ASSUME BatchesAssumption == MaxBatches \in Nat \ {0}

VARIABLES
    module,      \* the module of the assignment
    usable,      \* batches that are not skipped: valid, right protocol, not empty
    at,          \* where run() is
    i,           \* batches taken from the list
    tool,        \* self.process: none, running, or sent a SIGTERM
    loop,        \* self.loop
    ret,         \* ret, TRUE when not 0
    retval,      \* what run() returned
    scanned,     \* batches whose tool has run to its end
    terminated,  \* terminate() was called
    bad,         \* a tool failed or was killed
    after        \* tools started after terminate()

vars == <<module, usable, at, i, tool, loop, ret, retval, scanned, terminated, bad, after>>

-----------------------------------------------------------------------------
(* What tells the modules apart *)

Batches(m) == CASE m = "nuclei" -> 1 [] m = "nmap" -> 2 [] OTHER -> MaxBatches

(* self.loop as set by the constructor *)
LoopAtStartNone(m) == FALSE                       \* mutant: the flag never set
LoopAtStart(m) == m # "screenshot_web"

(* if not self.loop: break, after each tool *)
TestsAfterNone(m) == FALSE                        \* mutant: the flag not looked at
TestsAfter(m) == m \notin {"nmap", "nuclei"}

(* except OSError: continue, past the test *)
SkipsTest(m) == m = "six_dns_discover"

(* if targets and self.loop, before each tool *)
TestsBefore(m) == m = "nmap"

(* terminate() clears the flag; it sends a SIGTERM to the tool *)
ClearsLoop(m) == m # "nuclei"
Kills(m) == m # "six_dns_discover"

(* ret |= retval of the tool, or always return 0 *)
Accumulates(m) == m \in {"jarm", "manymap", "nmap", "six_enum_discover"}

(* mutant: ret = for ret |= *)
RetLast(failed) == failed
Ret(failed) == ret \/ failed

-----------------------------------------------------------------------------
Init ==
    /\ module \in Module
    /\ usable \in SUBSET (1..Batches(module))
    /\ at = "next"
    /\ i = 0
    /\ tool = "none"
    /\ loop = LoopAtStart(module)
    /\ ret = FALSE
    /\ retval = "none"
    /\ scanned = {}
    /\ terminated = FALSE
    /\ bad = FALSE
    /\ after = 0

Return ==
    /\ at' = "done"
    /\ retval' = IF Accumulates(module) /\ ret THEN "nonzero" ELSE "zero"


Take ==
    /\ at = "next"
    /\ i < Batches(module)
    /\ i' = i + 1
    /\ at' = IF i + 1 \in usable /\ (TestsBefore(module) => loop)
             THEN "popen" ELSE "next"
    /\ UNCHANGED <<module, usable, tool, loop, ret, retval, scanned, terminated, bad, after>>

AllTaken ==
    /\ at = "next"
    /\ i = Batches(module)
    /\ Return
    /\ UNCHANGED <<module, usable, i, tool, loop, ret, scanned, terminated, bad, after>>

(* self.process is set when Popen returns: a signal before finds no process *)
Popen ==
    /\ at = "popen"
    /\ at' = "wait"
    /\ tool' = "running"
    /\ after' = IF terminated THEN after + 1 ELSE after
    /\ UNCHANGED <<module, usable, i, loop, ret, retval, scanned, terminated, bad>>

ToolEnds ==
    /\ at = "wait"
    /\ \E failed \in BOOLEAN :
           /\ tool = "killed" => failed
           /\ ret' = Ret(failed)
           /\ bad' = (bad \/ failed)
           /\ at' = IF TestsAfter(module) /\ ~(failed /\ SkipsTest(module))
                    THEN "test" ELSE "next"
    /\ scanned' = IF tool = "killed" THEN scanned ELSE scanned \cup {i}
    /\ tool' = "none"
    /\ UNCHANGED <<module, usable, i, loop, retval, terminated, after>>

(* after the delay *)
Test ==
    /\ at = "test"
    /\ \/ loop /\ at' = "next" /\ UNCHANGED retval
       \/ ~loop /\ Return
    /\ UNCHANGED <<module, usable, i, tool, loop, ret, scanned, terminated, bad, after>>

(* no such tool, bad configuration: process_assignment returns 1 *)
Raise ==
    /\ at \in {"next", "popen", "test"}
    /\ at' = "done"
    /\ retval' = "nonzero"
    /\ UNCHANGED <<module, usable, i, tool, loop, ret, scanned, terminated, bad, after>>

Terminate ==
    /\ at # "done"
    /\ terminated' = TRUE
    /\ loop' = (loop /\ ~ClearsLoop(module))
    /\ tool' = IF tool = "running" /\ Kills(module) THEN "killed" ELSE tool
    /\ UNCHANGED <<module, usable, at, i, ret, retval, scanned, bad, after>>

Next == Take \/ AllTaken \/ Popen \/ ToolEnds \/ Test \/ Raise \/ Terminate

Spec == Init /\ [][Next]_vars

-----------------------------------------------------------------------------
(* Types: the variables keep their shape. *)
TypeOK ==
    /\ module \in Module
    /\ usable \subseteq 1..Batches(module)
    /\ at \in {"next", "popen", "wait", "test", "done"}
    /\ i \in 0..Batches(module)
    /\ tool \in {"none", "running", "killed"}
    /\ loop \in BOOLEAN /\ ret \in BOOLEAN /\ terminated \in BOOLEAN /\ bad \in BOOLEAN
    /\ retval \in {"none", "zero", "nonzero"}
    /\ scanned \subseteq usable
    /\ after \in Nat

(* A retval of 0 makes the planner drain the job and delete it              *)
(* (planner/core.py:173): if nobody terminated the agent, every usable      *)
(* target of the assignment was worked.                                     *)
Complete ==
    at = "done" /\ retval = "zero" /\ ~terminated => scanned = usable

(* In the modules that collect the return codes of their tools, a tool that *)
(* failed or was killed shows in the retval, wherever in the list it was,   *)
(* so that the planner leaves the partial output alone.                     *)
FailureShows ==
    at = "done" /\ Accumulates(module) /\ bad => retval = "nonzero"

(* Terminating a module ends it with the tool in hand: whichever two steps  *)
(* the signal falls between, at most one more tool is started.  Not in      *)
(* six_dns_discover: an address that does not resolve skips the test.       *)
AtMostOneMore == SkipsTest(module) \/ after <= 1
=============================================================================
