----------------------------- MODULE RateLimiter -----------------------------
(***************************************************************************)
(* What the scheduler promises to the scanned networks, without queues,    *)
(* readynets, heatmap or locks: targets of a network are handed out one at *)
(* a time, never more than HotLevel of them at once, and come back in any  *)
(* number.                                                                 *)
(***************************************************************************)
EXTENDS Integers

CONSTANTS Net, HotLevel

VARIABLE inflight       \* [Net -> number of its targets handed out]

Init == inflight = [h \in Net |-> 0]

Take(h) ==
    /\ HotLevel > 0 => inflight[h] < HotLevel
    /\ inflight' = [inflight EXCEPT ![h] = @ + 1]

GiveBack ==
    /\ DOMAIN inflight' = Net
    /\ \A h \in Net : inflight'[h] \in 0..inflight[h]

Next == GiveBack \/ \E h \in Net : Take(h)

Spec == Init /\ [][Next]_inflight

=============================================================================
