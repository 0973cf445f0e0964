---------------------------- MODULE MCParsedItems ----------------------------
(* Two hosts and two ports for TLC. *)
EXTENDS ParsedItemsProps, TLC

CONSTANTS a1, a2, p1, p2, n1, open, closed

=============================================================================
