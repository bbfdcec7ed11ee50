---------------------------- MODULE MCSignbusIo ----------------------------
(* Small instances of SignbusIo: packets of two units, and messages of one *)
(* packet (a short and a long one) or of two.                              *)
EXTENDS SignbusIo

MCSenders == {1, 2}
MCOnePacket == {1, 2}
MCTwoPackets == {1, 3}
=============================================================================
