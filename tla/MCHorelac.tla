----------------------------- MODULE MCHorelac -----------------------------
(***************************************************************************)
(* The instance of Horelac for TLC: the workloads of MCService, served     *)
(* between starts.                                                         *)
(***************************************************************************)
EXTENDS Horelac, MCService
=============================================================================
