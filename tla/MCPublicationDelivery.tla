------------------------ MODULE MCPublicationDelivery ------------------------
(* Finite instances of PublicationDelivery.                                *)
EXTENDS PublicationDelivery, TLC

DeliverySymmetry == Permutations(Processes)
=============================================================================
