---------------------------- MODULE MCScheduler ----------------------------
(***************************************************************************)
(* Instance of Scheduler for TLC: three requests over three blocks of two  *)
(* tokens and one state slot, two running at once.  Requests need one, two *)
(* or three blocks, so that a pool can be full, a large request can be     *)
(* skipped for a smaller one behind it, and a prompt of three takes two    *)
(* chunks.                                                                 *)
(***************************************************************************)
EXTENDS Scheduler

MCSeqIds == 0 .. 2

=============================================================================
