----------------------------- MODULE MCRunExec -----------------------------
(***************************************************************************)
(* A small instance of RunExec for TLC: see RunExec_runs.cfg.              *)
(***************************************************************************)
EXTENDS RunExec, TLC
=============================================================================
