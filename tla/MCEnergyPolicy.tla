-------------------------- MODULE MCEnergyPolicy --------------------------
(* Small instances of EnergyPolicy: two modules and the controller. *)
EXTENDS EnergyPolicy

MCModuleOrder == <<"m0", "m1">>
=============================================================================
