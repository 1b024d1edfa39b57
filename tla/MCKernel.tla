------------------------------ MODULE MCKernel ------------------------------
(***************************************************************************)
(* OSApplications for TLC, with the threads and priorities of MCScheduler. *)
(***************************************************************************)
EXTENDS MCScheduler, OSApplications
=============================================================================
