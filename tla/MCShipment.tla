----------------------------- MODULE MCShipment -----------------------------
(* Instances of Shipment for TLC.                                           *)
EXTENDS Shipment, TLC

AdminSymmetry == Permutations(Admins)
=============================================================================
