----------------------------- MODULE MCDelivery -----------------------------
(* Instances of SyncsDelivery for TLC. *)
EXTENDS SyncsDelivery, TLC

MCPayloads == {<<1, 1>>, << >>}
=============================================================================
