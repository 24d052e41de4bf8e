------------------------------ MODULE MCSession ------------------------------
(* SyncsSession for TLC: bounds on the calls of a TCP and of a UDP session.   *)
EXTENDS SyncsSession

OneCall == [t \in Transports |-> 1]
ThreeCalls == [t \in Transports |-> IF t = "tcp" THEN 3 ELSE 2]
==============================================================================
