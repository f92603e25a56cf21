---------------------------- MODULE MCUserSpace ----------------------------
(***************************************************************************)
(* The system as it boots: init, idle and two user processes at a time,    *)
(* which make the system calls that the configuration names.               *)
(***************************************************************************)
EXTENDS UserSpace
=============================================================================
