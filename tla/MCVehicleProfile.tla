-------------------------- MODULE MCVehicleProfile --------------------------
(***************************************************************************)
(* Instances of VehicleProfile for TLC.  All ids and plates are model      *)
(* values and interchangeable.                                             *)
(***************************************************************************)
EXTENDS VehicleProfile, TLC

Symmetric == Permutations(Vehicles) \cup Permutations(Drivers)
               \cup Permutations(Requests) \cup Permutations(Handlers)
               \cup Permutations(Plates) \cup Permutations(Details)
=============================================================================
