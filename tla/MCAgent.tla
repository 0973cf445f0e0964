------------------------------- MODULE MCAgent -------------------------------
(* Small instances of Agent for TLC. *)
EXTENDS AgentProps, TLC

CONSTANTS a1, a2, j1, j2

SymmetricJobs == Permutations(Job)
=============================================================================
