---------------------------- MODULE MCIsolation ----------------------------
(* Small instances of Isolation: a module that starts at address 0 in slot  *)
(* 0, and either another one in slot 1 or the storage master, at 0x21, in   *)
(* slot 4.                                                                  *)
EXTENDS Isolation

MCSlots == {0, 1}
MCNoFixedAddress == [s \in MCSlots |-> 0]
MCStorageSlots == {0, 4}
MCStorageAddress == [s \in MCStorageSlots |-> IF s = 4 THEN 33 ELSE 0]
MCSignpost == {NoSlot}
MCOneSlot == {0}
MCOneAddress == [s \in MCOneSlot |-> 0]
=============================================================================
