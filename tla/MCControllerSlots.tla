------------------------- MODULE MCControllerSlots -------------------------
(* A small instance of ControllerSlots: two slot numbers of the backplane. *)
EXTENDS ControllerSlots

MCStorageSlots == {4, 5}
MCSignpost == {NoSlot}
=============================================================================
