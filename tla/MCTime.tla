-------------------------------- MODULE MCTime --------------------------------
(* SyncsTime for TLC.  The configuration gives all constants their values.     *)
EXTENDS SyncsTime
===============================================================================
