------------------------------- MODULE MCStream -------------------------------
(* SyncsStream for TLC: packets without data, with plain data, and one in      *)
(* which a second header seems to begin at the second byte.                    *)
EXTENDS SyncsStream

MCPackets == {[id |-> 0, data |-> << >>],
              [id |-> 0, data |-> <<0, 0, 0>>],
              [id |-> Magic, data |-> <<MagicData>>]}
===============================================================================
