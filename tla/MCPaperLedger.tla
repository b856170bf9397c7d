--------------------------- MODULE MCPaperLedger ---------------------------
(***************************************************************************)
(* Two processes and three idempotency keys with two payloads: enough for  *)
(* a conflicting retry, a process that numbers its event before another    *)
(* one appends, and a third event after the collision.                     *)
(***************************************************************************)
EXTENDS PaperLedger

CONSTANTS p, q, k, l, m, x, y

=============================================================================
