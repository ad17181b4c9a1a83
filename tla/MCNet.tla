------------------------------- MODULE MCNet --------------------------------
(***************************************************************************)
(* A small instance of Net.                                                *)
(***************************************************************************)
EXTENDS Net
=============================================================================
