-------------------------- MODULE MC_BindSupervisor --------------------------
(***************************************************************************)
(* Instances of BindSupervisor for TLC.                                     *)
(***************************************************************************)
EXTENDS BindSupervisor
=============================================================================
