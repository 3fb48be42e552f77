----------------------------- MODULE MCWsServer -----------------------------
(* A text in up to three units, the first part of a message, a close. *)
EXTENDS WsServer

MCFrame ==
  {[op |-> "TEXT", fin |-> TRUE, len |-> 3], [op |-> "BIN", fin |-> FALSE, len |-> 1],
   [op |-> "CLOSE", fin |-> TRUE, len |-> 1]}
=============================================================================
