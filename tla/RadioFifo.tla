----------------------------- MODULE RadioFifo ------------------------------
(***************************************************************************)
(* What the radio module promises to those who publish: packets leave in   *)
(* the order they were accepted, a transmission carries the oldest ones,   *)
(* and a packet is dropped only when the transmission that carried it was  *)
(* confirmed, or when the watchdog restarts the module. A transmission     *)
(* whose confirmation is lost is made again, so a packet may arrive twice. *)
(***************************************************************************)
EXTENDS Naturals, Sequences

CONSTANTS Packets, Capacity

VARIABLES
  waiting,   \* the packets accepted and not yet confirmed
  inAir,     \* the packets of the transmission in progress
  expired    \* the watchdog's time is over; when that happens is left open

fifoVars == <<waiting, inAir, expired>>

FifoInit == waiting = <<>> /\ inAir = <<>> /\ ~expired

Accept ==
  /\ Len(waiting) < Capacity
  /\ \E p \in Packets : waiting' = Append(waiting, p)
  /\ UNCHANGED inAir

Transmit ==
  /\ inAir = <<>>
  /\ \E k \in 1 .. Len(waiting) : inAir' = SubSeq(waiting, 1, k)
  /\ UNCHANGED waiting

Confirm ==
  /\ inAir # <<>>
  /\ waiting = inAir \o waiting'
  /\ inAir' = <<>>

GiveUp == inAir' = <<>> /\ UNCHANGED waiting

Wait == UNCHANGED <<waiting, inAir>>

Crash == expired /\ waiting' = <<>> /\ inAir' = <<>>

FifoNext == Accept \/ Transmit \/ Confirm \/ GiveUp \/ Wait \/ Crash

FifoSpec == FifoInit /\ [][FifoNext]_fifoVars
=============================================================================
