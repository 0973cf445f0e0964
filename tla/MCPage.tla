------------------------------- MODULE MCPage -------------------------------
(* One or two rows, a tag or two, for TLC. *)
EXTENDS PageProps, TLC

CONSTANTS a, b, todo, Todo, silent, said

Lowered == [t \in Tags |-> IF t = Todo THEN todo ELSE t]
Untagged == {[tags |-> {}, comment |-> silent]}
Tagged == {[tags |-> {todo}, comment |-> silent]}
Both == Untagged \cup Tagged
=============================================================================
