------------------------------ MODULE MCPollLoop ------------------------------
(* PollLoop on small instances. *)
EXTENDS PollLoop
=============================================================================
