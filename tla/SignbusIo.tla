------------------------------ MODULE SignbusIo ------------------------------
(***************************************************************************)
(* Reception of messages from the shared bus: the fragments that arrive in *)
(* the I2C driver's buffer (libsignpost/signbus_io_interface.c), the hash  *)
(* over the assembled message (signbus_protocol_layer.c) and the shared    *)
(* receive that calls the handlers (signpost_api.c).                       *)
(*                                                                         *)
(* One module receives; "Senders" are the others.  A message is a number   *)
(* of units; a packet carries up to FragmentUnits of them.  The unit is    *)
(* as fine as the properties need: a message, a full packet and the rest   *)
(* of a message can have different lengths.                                *)
(*                                                                         *)
(* Execution model.  A callback runs until it yields: in get_message while *)
(* it waits for the next packet, and in every send while it waits for the  *)
(* I2C write.  In those places other callbacks run, nested; "stack" holds  *)
(* the ones that wait, innermost last, and only the last can continue.     *)
(***************************************************************************)
EXTENDS Integers, Sequences, FiniteSets

CONSTANTS
  Senders,        \* the other modules on the bus
  FragmentUnits,  \* MAX_DATA_LEN, in units
  Lengths,        \* lengths of the messages, in units
  BufferUnits,    \* length of the receive buffer; no message is longer
  MaxMessages,    \* bound: messages sent by each module
  MaxSends        \* bound: the application's sends in progress, nested

ASSUME UnitsAssumption ==
  /\ FragmentUnits \in Nat \ {0}
  /\ BufferUnits \in Nat \ {0}
  /\ Lengths \subseteq 1..BufferUnits
ASSUME BoundsAssumption == MaxMessages \in Nat /\ MaxSends \in Nat

VARIABLES
  sender,         \* per sender: the message it is sending and how far it is
  slaveWriteBuf,  \* slave_write_buf: the last packet the driver received
  upcalls,        \* lengths of the packets whose callback has not run yet
  packetBuf,      \* packet_buf
  newpkt,         \* newpkt
  asyncActive,    \* async_active
  asyncCallback,  \* async_callback # NULL
  recvBuf,        \* incoming_protocol_buffer, shared by all receptions
  source,         \* incoming_source_address
  stack,          \* callbacks that wait, innermost last
  handled         \* per apparent sender: the last message handed over

ioVars == <<slaveWriteBuf, upcalls, packetBuf, newpkt>>
asyncVars == <<asyncActive, asyncCallback>>
messageVars == <<recvBuf, source, handled>>
vars == <<sender, ioVars, asyncVars, messageVars, stack>>

-----------------------------------------------------------------------------
Nobody == 0
ASSUME SendersAssumption == Senders \subseteq Nat \ {Nobody}

Sequence == 0..MaxMessages

\* The content of one unit: which one of which message.
Unit == [src : Senders \cup {Nobody}, sequence : Sequence,
         length : Lengths \cup {0}, at : 0..BufferUnits]
Blank == [src |-> Nobody, sequence |-> 0, length |-> 0, at |-> 0]

\* A packet's header and its data, stale data after its end included.
PacketOf(src, sequence, offset, more, data) ==
  [src |-> src, sequence |-> sequence, offset |-> offset, more |-> more, data |-> data]
NoPacket == PacketOf(Nobody, 0, 0, FALSE, [i \in 1..FragmentUnits |-> Blank])
Packet == [src : Senders \cup {Nobody}, sequence : Sequence, offset : 0..BufferUnits,
           more : BOOLEAN, data : [1..FragmentUnits -> Unit]]

\* receive: get_message waits; send: the application sends; reply: a handler does.
Frame == [call : {"receive", "send", "reply"}, src : Senders \cup {Nobody},
          sequence : Sequence, received : Nat]
Waiting(call) == [call |-> call, src |-> Nobody, sequence |-> 0, received |-> 0]

Top == stack[Len(stack)]
Below == SubSeq(stack, 1, Len(stack) - 1)
Calls(call) == {k \in 1..Len(stack) : stack[k].call = call}

\* get_message goes on before anything else runs.
HasPacket == stack # <<>> /\ Top.call = "receive" /\ newpkt.new
Yielding == ~HasPacket

IoTypeOK ==
  /\ sender \in [Senders -> [sequence : Sequence, length : Lengths \cup {0},
                             toSend : 0..BufferUnits]]
  /\ \A s \in Senders : sender[s].toSend <= sender[s].length
  /\ slaveWriteBuf \in Packet
  /\ upcalls \in Seq(1..FragmentUnits)
  /\ packetBuf \in Packet
  /\ newpkt \in [new : BOOLEAN, len : 0..FragmentUnits]
  /\ asyncActive \in BOOLEAN
  /\ asyncCallback \in BOOLEAN
  /\ recvBuf \in [0..(BufferUnits - 1) -> Unit]
  /\ source \in Senders \cup {Nobody}
  /\ stack \in Seq(Frame)
  /\ handled \in [Senders -> [src : Senders \cup {Nobody}, sequence : Sequence]]

\* The first receive has been started by the initialization.
Init ==
  /\ sender = [s \in Senders |-> [sequence |-> 0, length |-> 0, toSend |-> 0]]
  /\ slaveWriteBuf = NoPacket
  /\ upcalls = <<>>
  /\ packetBuf = NoPacket
  /\ newpkt = [new |-> FALSE, len |-> 0]
  /\ asyncActive = TRUE
  /\ asyncCallback = TRUE
  /\ recvBuf = [u \in 0..(BufferUnits - 1) |-> Blank]
  /\ source = Nobody
  /\ stack = <<>>
  /\ handled = [s \in Senders |-> [src |-> s, sequence |-> 0]]

-----------------------------------------------------------------------------
(***************************************************************************)
(* signbus_io_send, at the other modules.                                  *)
(***************************************************************************)
Begin(s) ==
  /\ sender[s].toSend = 0
  /\ sender[s].sequence < MaxMessages
  /\ \E length \in Lengths :
       sender' = [sender EXCEPT ![s] = [sequence |-> @.sequence + 1,
                                        length |-> length, toSend |-> length]]
  /\ UNCHANGED <<ioVars, asyncVars, messageVars, stack>>

\* What memcpy leaves of "old" when it copies the first n units of "new".
Overwrite(old, new, n) == [i \in 1..FragmentUnits |-> IF i <= n THEN new[i] ELSE old[i]]

More(toSend) == toSend > FragmentUnits
\* Mutant of PacketUnits: the last packet counts as a full one.
PacketUnitsFull(toSend) == FragmentUnits
PacketUnits(toSend) == IF More(toSend) THEN FragmentUnits ELSE toSend

\* The driver stores the packet over the last one and queues a callback.
SendPacket(s) ==
  LET m == sender[s]
      more == More(m.toSend)
      n == PacketUnits(m.toSend)
      offset == m.length - m.toSend
      data == [i \in 1..FragmentUnits |->
                 [src |-> s, sequence |-> m.sequence, length |-> m.length,
                  at |-> offset + i - 1]]
  IN /\ m.toSend > 0
     /\ sender' = [sender EXCEPT ![s].toSend = @ - n]
     /\ slaveWriteBuf' = PacketOf(s, m.sequence, offset, more,
                                  Overwrite(slaveWriteBuf.data, data, n))
     /\ upcalls' = Append(upcalls, n)
     /\ UNCHANGED <<packetBuf, newpkt, asyncVars, messageVars, stack>>

\* The write fails: the rest of the message is not sent.
SendFails(s) ==
  /\ sender[s].toSend > 0
  /\ sender' = [sender EXCEPT ![s].toSend = 0]
  /\ UNCHANGED <<ioVars, asyncVars, messageVars, stack>>

-----------------------------------------------------------------------------
(***************************************************************************)
(* signbus_io_slave_write_callback.  The length is that of the packet the  *)
(* callback was queued for, the bytes are those of the last packet.        *)
(***************************************************************************)
SlaveWriteCallback ==
  /\ Yielding
  /\ upcalls # <<>>
  /\ upcalls' = Tail(upcalls)
  /\ packetBuf' = [slaveWriteBuf EXCEPT
       !.data = Overwrite(packetBuf.data, slaveWriteBuf.data, Head(upcalls))]
  /\ newpkt' = [new |-> TRUE, len |-> Head(upcalls)]
  /\ \/ /\ asyncActive
        /\ asyncActive' = FALSE
        /\ stack' = Append(stack, Waiting("receive"))
     \/ /\ ~asyncActive
        /\ UNCHANGED <<asyncActive, stack>>
  /\ UNCHANGED <<sender, slaveWriteBuf, asyncCallback, messageVars>>

\* signpost_api_start_new_async_recv
StartNewAsyncRecv == asyncActive' = TRUE /\ asyncCallback' = TRUE

\* The packet belongs to another message than the one being assembled.
IsOther(frame) ==
  /\ frame.received # 0
  /\ \/ packetBuf.sequence # frame.sequence
     \/ packetBuf.src # frame.src

\* A fragment is copied whole, the last packet as far as its length says.
Taken == IF packetBuf.more THEN FragmentUnits ELSE newpkt.len
Copied ==
  [u \in 0..(BufferUnits - 1) |->
     LET i == u - packetBuf.offset + 1
     IN IF i \in 1..Taken THEN packetBuf.data[i] ELSE recvBuf[u]]

DropPacket ==
  /\ HasPacket
  /\ IsOther(Top)
  /\ newpkt' = [newpkt EXCEPT !.new = FALSE]
  /\ UNCHANGED <<sender, slaveWriteBuf, upcalls, packetBuf, asyncVars,
                 messageVars, stack>>

TakePacket ==
  /\ HasPacket
  /\ ~IsOther(Top)
  /\ newpkt' = [newpkt EXCEPT !.new = FALSE]
  /\ source' = packetBuf.src
  /\ recvBuf' = Copied
  /\ UNCHANGED <<sender, slaveWriteBuf, upcalls, packetBuf>>

TakeFragment ==
  /\ TakePacket
  /\ packetBuf.more
  /\ stack' = Append(Below, [call |-> "receive", src |-> packetBuf.src,
                             sequence |-> packetBuf.sequence,
                             received |-> Top.received + Taken])
  /\ UNCHANGED <<asyncVars, handled>>

\* The first "length" units are those of one message, and all of it.
Whole(buffer, length) ==
  /\ length <= BufferUnits
  /\ \A u \in 0..(length - 1) :
       buffer[u] = [buffer[0] EXCEPT !.length = length, !.at = u]
Content(buffer, length) ==
  IF Whole(buffer, length)
  THEN [src |-> buffer[0].src, sequence |-> buffer[0].sequence]
  ELSE [src |-> Nobody, sequence |-> 0]

\* Mutant of HashMatches: the hash is not compared.
HashIgnored(buffer, length) == TRUE
\* The hash at the end is that of what precedes it: no other bytes collide.
HashMatches(buffer, length) == Whole(buffer, length)

\* get_message is done.
Assembled == Top.received + Taken
TakeLast ==
  /\ TakePacket
  /\ ~packetBuf.more

\* The one callback has been used by the receive around this one, which was
\* started in its handler: the message is dropped.
NobodyToCall ==
  /\ TakeLast
  /\ ~asyncCallback
  /\ stack' = Below
  /\ UNCHANGED <<asyncVars, handled>>

\* Mutant of RefuseMessage: no new receive is started.
RefuseMessageForGood ==
  /\ TakeLast
  /\ asyncCallback
  /\ ~HashMatches(Copied, Assembled)
  /\ asyncCallback' = FALSE
  /\ stack' = Below
  /\ UNCHANGED <<asyncActive, handled>>

\* signpost_api_recv_callback with an error: the message is dropped.
RefuseMessage ==
  /\ TakeLast
  /\ asyncCallback
  /\ ~HashMatches(Copied, Assembled)
  /\ StartNewAsyncRecv
  /\ stack' = Below
  /\ UNCHANGED handled

\* signpost_api_recv_callback hands the message over; its handler may reply.
HandleMessage ==
  /\ TakeLast
  /\ asyncCallback
  /\ HashMatches(Copied, Assembled)
  /\ handled' = [handled EXCEPT ![packetBuf.src] = Content(Copied, Assembled)]
  /\ \/ /\ StartNewAsyncRecv
        /\ stack' = Below
     \/ /\ asyncCallback' = FALSE
        /\ stack' = Append(Below, Waiting("reply"))
        /\ UNCHANGED asyncActive

-----------------------------------------------------------------------------
(***************************************************************************)
(* signpost_api_send, from a timer of the application or from a handler.   *)
(* The timer's period is far longer than an I2C write: when it fires, the  *)
(* application's last send is over, or a receive waits inside it.          *)
(***************************************************************************)
AppSend ==
  /\ Yielding
  /\ stack # <<>> => Top.call # "send"
  /\ Cardinality(Calls("send")) < MaxSends
  /\ stack' = Append(stack, Waiting("send"))
  /\ UNCHANGED <<sender, ioVars, asyncVars, messageVars>>

\* Mutant of SendDone: a send does not start a receive.
SendDoneDeaf ==
  /\ stack # <<>>
  /\ Top.call \in {"send", "reply"}
  /\ stack' = Below
  /\ UNCHANGED <<sender, ioVars, asyncVars, messageVars>>

\* The write is over: receive again, and a handler returns and does the same.
SendDone ==
  /\ stack # <<>>
  /\ Top.call \in {"send", "reply"}
  /\ stack' = Below
  /\ StartNewAsyncRecv
  /\ UNCHANGED <<sender, ioVars, messageVars>>

Receiver ==
  \/ SlaveWriteCallback
  \/ DropPacket
  \/ TakeFragment
  \/ NobodyToCall
  \/ RefuseMessage
  \/ HandleMessage
  \/ AppSend
  \/ SendDone

Next ==
  \/ Receiver
  \/ \E s \in Senders : Begin(s) \/ SendPacket(s) \/ SendFails(s)

Spec == Init /\ [][Next]_vars

\* Callbacks that are queued run, I2C writes end, and the application's
\* timer makes it send again and again, from within an earlier send that is
\* stuck if need be, but not so often that a reply's write never ends (hence
\* the strong fairness).  The bus promises nothing.
Fairness ==
  /\ WF_vars(SlaveWriteCallback)
  /\ WF_vars(DropPacket \/ TakeFragment \/ NobodyToCall \/ RefuseMessage
             \/ HandleMessage)
  /\ WF_vars(SendDone)
  /\ SF_vars(SendDone /\ Top.call = "reply")
  /\ WF_vars(AppSend)

FairSpec == Spec /\ Fairness

-----------------------------------------------------------------------------
(***************************************************************************)
(* Properties                                                              *)
(***************************************************************************)

(* When no callback is suspended, the next packet starts a receive that    *)
(* has a callback: every way out of a receive, of a nested one and of a    *)
(* refused message has started a new one (signpost_api.c).                       *)
IdleReceives == stack = <<>> => asyncActive /\ asyncCallback

(* The receiver does not stay deaf: after a message whose end was lost it  *)
(* starts a new receive, thanks to its own next send (signpost_api_send).  *)
ReceivesAgain == []<>asyncActive

(* MessageFormat.md, "The 7 bit source address of the device sending this  *)
(* message": what a handler gets with a source address comes from there.   *)
FromItsSource == \A s \in Senders : handled[s].src = s

(* The implementation of BestEffort: while every message fits in a packet, *)
(* whole messages, of the right sender, in its order, however packets and  *)
(* callbacks overlap.                                                      *)
Channel == INSTANCE BestEffort WITH
  sent <- [s \in Senders |-> sender[s].sequence],
  received <- [s \in Senders |->
    IF handled[s].src = s THEN handled[s].sequence ELSE MaxMessages + 1]

ImplementsBestEffort == Channel!Spec

=============================================================================
