------------------------------ MODULE MCServer ------------------------------
(* Instances of SyncsServer for TLC. *)
EXTENDS SyncsServer, TLC

MCPayloads == {<<1, 1>>}
NoPayloads == {}
Names == Permutations(EventIds) \cup Permutations(ChannelIds)
=============================================================================
