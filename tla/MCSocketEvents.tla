--------------------------- MODULE MCSocketEvents ---------------------------
(* An instance of SocketEvents for TLC: one observer, which leaves its old   *)
(* connection open when it subscribes again.                                *)
EXTENDS SocketEvents
=============================================================================
