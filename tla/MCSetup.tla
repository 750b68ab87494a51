------------------------------ MODULE MCSetup -------------------------------
(***************************************************************************)
(* Setup with a process per publisher, named after it; the subscribers     *)
(* share the process of one of the publishers, and so its registry.        *)
(***************************************************************************)
EXTENDS Setup

Mixed == [c \in Clients |-> IF c \in Pubs THEN c ELSE CHOOSE p \in Pubs : TRUE]
=============================================================================
