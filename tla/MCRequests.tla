------------------------------ MODULE MCRequests ------------------------------
(* SyncsRequests for TLC.  The configuration gives all constants their values. *)
EXTENDS SyncsRequests
===============================================================================
