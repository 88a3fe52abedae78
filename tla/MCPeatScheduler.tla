-------------------------- MODULE MCPeatScheduler --------------------------
(* A one-shot that may overlap itself, and a recurring job that is disabled *)
(* when it keeps failing.                                                   *)
EXTENDS PeatScheduler
CONSTANTS once, every
=============================================================================
