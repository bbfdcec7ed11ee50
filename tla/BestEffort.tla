----------------------------- MODULE BestEffort -----------------------------
(***************************************************************************)
(* What the message layer promises its users (libsignpost): a receiver is  *)
(* given whole messages, each as coming from the module that sent it, and  *)
(* those of one module in the order it sent them.  Messages may be lost,   *)
(* and the last one of a module may be given to the handler again.         *)
(***************************************************************************)
EXTENDS Naturals

CONSTANTS Senders

VARIABLES
  sent,       \* how many messages each sender has begun to send
  received    \* the number of the last one the receiver handled, 0 for none

channelVars == <<sent, received>>

Init ==
  /\ sent = [s \in Senders |-> 0]
  /\ received = [s \in Senders |-> 0]

Send(s) ==
  /\ sent' = [sent EXCEPT ![s] = @ + 1]
  /\ UNCHANGED received

Deliver(s) ==
  /\ \E n \in received[s]..sent[s] : n > 0 /\ received' = [received EXCEPT ![s] = n]
  /\ UNCHANGED sent

Next == \E s \in Senders : Send(s) \/ Deliver(s)

Spec == Init /\ [][Next]_channelVars

=============================================================================
