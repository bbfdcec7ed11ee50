--------------------------- MODULE SignbusIoProofs ---------------------------
(***************************************************************************)
(* The message layer's types; IdleReceives: a module that waits for        *)
(* nothing receives; and, for messages of one packet, the refinement of    *)
(* BestEffort.  For all senders, lengths of messages and depths of nested  *)
(* receives and sends.                                                     *)
(***************************************************************************)
EXTENDS SignbusIo, StackLemmas, TLAPS

(* The innermost callback and those below it are frames (get_message, and  *)
(* signpost_api_send), and the latter stay when it ends.                   *)
LEMMA EndFrame ==
  ASSUME stack \in Seq(Frame), stack # <<>>
  PROVE  /\ Below \in Seq(Frame)
         /\ Len(Below) = Len(stack) - 1
         /\ \A k \in 1..Len(Below) : Below[k] = stack[k]
         /\ Len(stack) \in Nat \ {0}
         /\ Top \in Frame
<1>. DEFINE front == SubSeq(stack, 1, Len(stack) - 1)
<1>1. /\ front \in Seq(Frame)
      /\ Len(front) = Len(stack) - 1
      /\ \A k \in 1..(Len(stack) - 1) : front[k] = stack[k]
      /\ Len(stack) \in Nat \ {0}
      /\ stack[Len(stack)] \in Frame
  BY PopFrame, Zenon
<1>2. Below = front /\ Top = stack[Len(stack)]
  BY DEF Below, Top
<1>. QED  BY <1>1, <1>2

(* What is suspended in a wait is a frame (get_message, signpost_api_send).*)
LEMMA WaitingIsFrame ==
  ASSUME NEW call \in {"receive", "send", "reply"} PROVE Waiting(call) \in Frame
  BY BoundsAssumption DEF Waiting, Frame, Sequence

(* What is copied from one packet's data to another's has the type of data *)
(* (memcpy in signbus_io_slave_write_callback).                            *)
LEMMA OverwriteType ==
  ASSUME NEW old \in [1..FragmentUnits -> Unit], NEW n \in Nat, NEW new,
         \A i \in 1..FragmentUnits : i <= n => new[i] \in Unit
  PROVE  Overwrite(old, new, n) \in [1..FragmentUnits -> Unit]
  BY DEF Overwrite

(* The receive buffer keeps its type, whatever offset the packet has.      *)
LEMMA CopiedType ==
  ASSUME IoTypeOK PROVE Copied \in [0..(BufferUnits - 1) -> Unit]
<1>1. Taken \in 0..FragmentUnits
  BY UnitsAssumption DEF Taken, IoTypeOK, Packet
<1>2. packetBuf.data \in [1..FragmentUnits -> Unit] /\ packetBuf.offset \in Nat
  BY UnitsAssumption DEF IoTypeOK, Packet
<1>3. ASSUME NEW u \in 0..(BufferUnits - 1), u - packetBuf.offset + 1 \in 1..Taken
      PROVE  packetBuf.data[u - packetBuf.offset + 1] \in Unit
  <2>1. u - packetBuf.offset + 1 \in 1..FragmentUnits
    BY <1>1, <1>2, <1>3, UnitsAssumption
  <2>. QED  BY <1>2, <2>1
<1>4. \A u \in 0..(BufferUnits - 1) : recvBuf[u] \in Unit
  BY DEF IoTypeOK
<1>. QED  BY <1>3, <1>4 DEF Copied

(* A sender's packet has a type the driver's buffer can hold: the offset   *)
(* and the units it carries lie within the message (signbus_io_send).      *)
LEMMA SendPacketTypes ==
  ASSUME IoTypeOK, NEW s \in Senders, SendPacket(s) PROVE IoTypeOK'
<1>. DEFINE m == sender[s]
            n == PacketUnits(m.toSend)
            offset == m.length - m.toSend
            data == [i \in 1..FragmentUnits |->
                      [src |-> s, sequence |-> m.sequence, length |-> m.length,
                       at |-> offset + i - 1]]
<1>1. /\ m \in [sequence : Sequence, length : Lengths \cup {0}, toSend : 0..BufferUnits]
      /\ m.toSend <= m.length
      /\ m.toSend > 0
  BY DEF IoTypeOK, SendPacket
<1>2. /\ m.length \in Lengths /\ m.length \in 1..BufferUnits
      /\ n \in 1..FragmentUnits /\ n <= m.toSend
      /\ offset \in 0..BufferUnits /\ offset + n <= m.length
  <2>. HIDE DEF m, n
  <2>5. m.length \in Lengths \cup {0} /\ m.toSend \in Nat
    BY <1>1, UnitsAssumption
  <2>6. \A x \in Lengths \cup {0} : x \in Nat
    BY UnitsAssumption
  <2>1. m.length \in Nat /\ m.toSend \in Nat /\ m.length # 0
    BY <1>1, <2>5, <2>6
  <2>2. m.length \in Lengths /\ m.length \in 1..BufferUnits
    BY <1>1, <2>1, UnitsAssumption
  <2>3. n \in 1..FragmentUnits /\ n <= m.toSend
    BY <1>1, <2>1, UnitsAssumption DEF n, PacketUnits, More
  <2>4. offset \in 0..BufferUnits /\ offset + n <= m.length
    BY <1>1, <2>1, <2>2, <2>3, UnitsAssumption
  <2>. QED  BY <2>2, <2>3, <2>4
<1>3. sender' = [sender EXCEPT ![s].toSend = @ - n]
  BY DEF SendPacket
<1>4. /\ sender' \in [Senders -> [sequence : Sequence, length : Lengths \cup {0},
                                  toSend : 0..BufferUnits]]
      /\ \A t \in Senders : sender'[t].toSend <= sender'[t].length
  <2>. HIDE DEF n
  <2>1. /\ m.toSend - n \in 0..BufferUnits
        /\ m.toSend - n <= m.length
    BY <1>1, <1>2, UnitsAssumption
  <2>2. sender' = [sender EXCEPT ![s] = [m EXCEPT !.toSend = m.toSend - n]]
    BY <1>3
  <2>3. [m EXCEPT !.toSend = m.toSend - n] \in
          [sequence : Sequence, length : Lengths \cup {0}, toSend : 0..BufferUnits]
    BY <1>1, <2>1
  <2>4. [m EXCEPT !.toSend = m.toSend - n].toSend <= [m EXCEPT !.toSend = m.toSend - n].length
    BY <1>1, <2>1
  <2>. HIDE DEF m
  <2>. QED  BY <2>2, <2>3, <2>4 DEF IoTypeOK
<1>5. ASSUME NEW i \in 1..FragmentUnits, i <= n PROVE data[i] \in Unit
  <2>1. offset + i - 1 \in 0..BufferUnits
    BY <1>2, <1>5, UnitsAssumption
  <2>. QED  BY <1>1, <1>2, <2>1 DEF Unit
<1>6. Overwrite(slaveWriteBuf.data, data, n) \in [1..FragmentUnits -> Unit]
  <2>. HIDE DEF data, n
  <2>1. slaveWriteBuf.data \in [1..FragmentUnits -> Unit] /\ n \in Nat
    BY <1>2, UnitsAssumption DEF IoTypeOK, Packet
  <2>. QED  BY <1>5, <2>1, OverwriteType
<1>7. slaveWriteBuf' = PacketOf(s, m.sequence, offset, More(m.toSend),
                                Overwrite(slaveWriteBuf.data, data, n))
  BY DEF SendPacket
<1>8. slaveWriteBuf' \in Packet
  <2>. HIDE DEF data, n, offset
  <2>. QED  BY <1>1, <1>2, <1>6, <1>7 DEF PacketOf, Packet, More
<1>9. upcalls' \in Seq(1..FragmentUnits)
  <2>1. upcalls' = Append(upcalls, n)
    BY DEF SendPacket
  <2>. QED  BY <1>2, <2>1 DEF IoTypeOK
<1>. QED  BY <1>4, <1>8, <1>9
          DEF IoTypeOK, SendPacket, asyncVars, messageVars

(* The callback for a packet keeps the types, whatever lies in the buffer  *)
(* by the time it runs (signbus_io_slave_write_callback).                  *)
LEMMA CallbackTypes ==
  ASSUME IoTypeOK, SlaveWriteCallback PROVE IoTypeOK'
<1>1. /\ Head(upcalls) \in 1..FragmentUnits
      /\ Tail(upcalls) \in Seq(1..FragmentUnits)
  <2>1. upcalls \in Seq(1..FragmentUnits) /\ upcalls # <<>>
    BY DEF IoTypeOK, SlaveWriteCallback
  <2>. QED  BY <2>1, HeadTailProperties
<1>2. slaveWriteBuf.data \in [1..FragmentUnits -> Unit]
      /\ packetBuf.data \in [1..FragmentUnits -> Unit]
  BY DEF IoTypeOK, Packet
<1>3. Overwrite(packetBuf.data, slaveWriteBuf.data, Head(upcalls))
        \in [1..FragmentUnits -> Unit]
  BY <1>1, <1>2, UnitsAssumption, OverwriteType
<1>4. packetBuf' \in Packet
  BY <1>3 DEF SlaveWriteCallback, IoTypeOK, Packet
<1>5. newpkt' \in [new : BOOLEAN, len : 0..FragmentUnits]
  BY <1>1, UnitsAssumption DEF SlaveWriteCallback
<1>6. asyncActive' \in BOOLEAN /\ stack' \in Seq(Frame)
  <2>1. Append(stack, Waiting("receive")) \in Seq(Frame)
    BY WaitingIsFrame, PushFrame DEF IoTypeOK
  <2>. QED  BY <2>1 DEF SlaveWriteCallback, IoTypeOK
<1>. QED  BY <1>1, <1>4, <1>5, <1>6 DEF SlaveWriteCallback, IoTypeOK, messageVars

(* Whatever get_message makes of a packet keeps the types.                 *)
LEMMA TakeTypes ==
  ASSUME IoTypeOK,
         TakeFragment \/ NobodyToCall \/ RefuseMessage \/ HandleMessage
  PROVE  IoTypeOK'
<1>1. TakePacket
  BY DEF TakeFragment, NobodyToCall, RefuseMessage, HandleMessage, TakeLast
<1>2. /\ newpkt' \in [new : BOOLEAN, len : 0..FragmentUnits]
      /\ source' \in Senders \cup {Nobody}
      /\ recvBuf' \in [0..(BufferUnits - 1) -> Unit]
      /\ UNCHANGED <<sender, slaveWriteBuf, upcalls, packetBuf>>
  BY <1>1, CopiedType DEF TakePacket, IoTypeOK, Packet
<1>3. Below \in Seq(Frame) /\ Top \in Frame
  BY <1>1, EndFrame DEF TakePacket, HasPacket, IoTypeOK
<1>4. CASE TakeFragment
  <2>. DEFINE f == [call |-> "receive", src |-> packetBuf.src,
                    sequence |-> packetBuf.sequence,
                    received |-> Top.received + Taken]
  <2>1. packetBuf.src \in Senders \cup {Nobody} /\ packetBuf.sequence \in Sequence
    BY DEF IoTypeOK, Packet
  <2>2. Top.received + Taken \in Nat
    BY <1>3, UnitsAssumption DEF Frame, Taken, IoTypeOK, Packet
  <2>3. f \in Frame
    BY <2>1, <2>2 DEF Frame
  <2>4. stack' = Append(Below, f)
    BY <1>4 DEF TakeFragment
  <2>5. stack' \in Seq(Frame)
    BY <1>3, <2>3, <2>4, PushFrame
  <2>. QED  BY <1>2, <1>4, <2>5 DEF TakeFragment, IoTypeOK, asyncVars
<1>5. CASE NobodyToCall
  BY <1>2, <1>3, <1>5 DEF NobodyToCall, IoTypeOK, asyncVars
<1>6. CASE RefuseMessage
  BY <1>2, <1>3, <1>6 DEF RefuseMessage, StartNewAsyncRecv, IoTypeOK
<1>7. CASE HandleMessage
  <2>1. Content(Copied, Assembled) \in [src : Senders \cup {Nobody}, sequence : Sequence]
    <3>1. Copied[0] \in Unit
      BY CopiedType, UnitsAssumption
    <3>. QED  BY <3>1, BoundsAssumption DEF Content, Unit, Sequence
  <2>2. handled' \in [Senders -> [src : Senders \cup {Nobody}, sequence : Sequence]]
    BY <1>7, <2>1 DEF HandleMessage, IoTypeOK
  <2>3. Append(Below, Waiting("reply")) \in Seq(Frame)
    BY <1>3, WaitingIsFrame, PushFrame
  <2>4. /\ stack' \in Seq(Frame)
        /\ asyncActive' \in BOOLEAN
        /\ asyncCallback' \in BOOLEAN
    BY <1>3, <1>7, <2>3 DEF HandleMessage, StartNewAsyncRecv, IoTypeOK
  <2>. QED  BY <1>2, <2>2, <2>4 DEF IoTypeOK
<1>. QED  BY <1>4, <1>5, <1>6, <1>7

(* Every step keeps the types, the nesting of receives and sends included. *)
LEMMA IoTypeStep == IoTypeOK /\ [Next]_vars => IoTypeOK'
<1>. SUFFICES ASSUME IoTypeOK, [Next]_vars PROVE IoTypeOK'
  OBVIOUS
<1>1. CASE UNCHANGED vars
  BY <1>1 DEF IoTypeOK, vars, ioVars, asyncVars, messageVars
<1>2. ASSUME NEW s \in Senders, Begin(s) PROVE IoTypeOK'
  <2>1. PICK length \in Lengths :
          sender' = [sender EXCEPT ![s] = [sequence |-> sender[s].sequence + 1,
                                           length |-> length, toSend |-> length]]
    BY <1>2 DEF Begin
  <2>. DEFINE m == [sequence |-> sender[s].sequence + 1,
                    length |-> length, toSend |-> length]
  <2>2. sender[s].sequence + 1 \in Sequence
    BY <1>2, BoundsAssumption DEF Begin, IoTypeOK, Sequence
  <2>3. length \in 0..BufferUnits /\ length <= length
    BY UnitsAssumption
  <2>4. m \in [sequence : Sequence, length : Lengths \cup {0}, toSend : 0..BufferUnits]
    BY <2>2, <2>3
  <2>5. m.toSend <= m.length
    BY <2>3
  <2>6. sender' = [sender EXCEPT ![s] = m]
    BY <2>1
  <2>. HIDE DEF m
  <2>7. sender' \in [Senders -> [sequence : Sequence, length : Lengths \cup {0},
                                 toSend : 0..BufferUnits]]
    BY <2>4, <2>6 DEF IoTypeOK
  <2>8. \A t \in Senders : sender'[t].toSend <= sender'[t].length
    BY <2>5, <2>6 DEF IoTypeOK
  <2>. QED  BY <1>2, <2>7, <2>8 DEF Begin, IoTypeOK, ioVars, asyncVars, messageVars
<1>3. ASSUME NEW s \in Senders, SendFails(s) PROVE IoTypeOK'
  <2>1. sender' = [sender EXCEPT ![s] = [sender[s] EXCEPT !.toSend = 0]]
    BY <1>3 DEF SendFails
  <2>. DEFINE m == [sender[s] EXCEPT !.toSend = 0]
  <2>5. sender[s] \in [sequence : Sequence, length : Lengths \cup {0},
                       toSend : 0..BufferUnits]
    BY DEF IoTypeOK
  <2>6. sender[s].length \in Nat
    BY <2>5, UnitsAssumption
  <2>2. m \in [sequence : Sequence, length : Lengths \cup {0}, toSend : 0..BufferUnits]
    BY <2>5, UnitsAssumption
  <2>3. m.toSend <= m.length
    BY <2>5, <2>6
  <2>. HIDE DEF m
  <2>4. /\ sender' \in [Senders -> [sequence : Sequence, length : Lengths \cup {0},
                                    toSend : 0..BufferUnits]]
        /\ \A t \in Senders : sender'[t].toSend <= sender'[t].length
    BY <2>1, <2>2, <2>3 DEF IoTypeOK, m
  <2>. QED  BY <1>3, <2>4 DEF SendFails, IoTypeOK, ioVars, asyncVars, messageVars
<1>4. CASE DropPacket
  BY <1>4 DEF DropPacket, IoTypeOK, asyncVars, messageVars
<1>5. CASE AppSend
  <2>1. stack' \in Seq(Frame)
    BY <1>5, WaitingIsFrame, PushFrame DEF AppSend, IoTypeOK
  <2>. QED  BY <1>5, <2>1 DEF AppSend, IoTypeOK, ioVars, asyncVars, messageVars
<1>6. CASE SendDone
  <2>1. stack' \in Seq(Frame)
    BY <1>6, EndFrame DEF SendDone, IoTypeOK
  <2>. QED  BY <1>6, <2>1 DEF SendDone, StartNewAsyncRecv, IoTypeOK, ioVars, messageVars
<1>. QED  BY <1>1, <1>2, <1>3, <1>4, <1>5, <1>6, SendPacketTypes, CallbackTypes, TakeTypes
          DEF Next, Receiver

(* The first receive has been started, and every buffer is blank           *)
(* (signpost_initialization_common).                                       *)
LEMMA IoTypeInit == Init => IoTypeOK
<1>. SUFFICES ASSUME Init PROVE IoTypeOK
  OBVIOUS
<1>1. 0 \in Sequence /\ 0 \in 0..BufferUnits /\ 0 <= 0
  BY UnitsAssumption, BoundsAssumption DEF Sequence
<1>2. sender \in [Senders -> [sequence : Sequence, length : Lengths \cup {0},
                              toSend : 0..BufferUnits]]
  BY <1>1 DEF Init
<1>3. \A s \in Senders : sender[s].toSend <= sender[s].length
  BY <1>1 DEF Init
<1>4. Blank \in Unit
  BY <1>1 DEF Blank, Unit
<1>5. NoPacket \in Packet
  BY <1>1, <1>4 DEF NoPacket, PacketOf, Packet
<1>6. newpkt \in [new : BOOLEAN, len : 0..FragmentUnits]
  BY UnitsAssumption DEF Init
<1>7. recvBuf \in [0..(BufferUnits - 1) -> Unit]
  BY <1>4 DEF Init
<1>8. handled \in [Senders -> [src : Senders \cup {Nobody}, sequence : Sequence]]
  BY <1>1 DEF Init
<1>9. upcalls \in Seq(1..FragmentUnits) /\ stack \in Seq(Frame)
  BY DEF Init
<1>. QED  BY <1>2, <1>3, <1>5, <1>6, <1>7, <1>8, <1>9 DEF Init, IoTypeOK

(* The buffers, the packets and the stack of waiting receives and sends    *)
(* have their types in every state (signbus_io_interface.c): the fragments *)
(* a sender cuts a message into lie within it.                             *)
THEOREM IoTypeCorrect == Spec => []IoTypeOK
BY IoTypeInit, IoTypeStep, PTL DEF Spec

-----------------------------------------------------------------------------
(***************************************************************************)
(* The inductive invariant for IdleReceives.  A receive that finds nobody  *)
(* to call ends without starting a new one; that it cannot be the last one *)
(* suspended is because the callback is only missing while a handler sends *)
(* its reply, below it on the stack.                                       *)
(***************************************************************************)
Replying == \E k \in 1..Len(stack) : stack[k].call = "reply"

Rearmed ==
  /\ ~asyncCallback => Replying
  /\ ~asyncActive => stack # <<>>

(* A callback that waits on top of the others disturbs nothing, though the *)
(* receive it belongs to may be the one that was active.                   *)
LEMMA PushKeepsRearmed ==
  ASSUME IoTypeOK, Rearmed, NEW f \in Frame, stack' = Append(stack, f),
         UNCHANGED asyncCallback
  PROVE  Rearmed'
<1>1. /\ stack' \in Seq(Frame)
      /\ Len(stack') = Len(stack) + 1
      /\ Len(stack) \in Nat
      /\ \A k \in 1..Len(stack) : stack'[k] = stack[k]
  BY PushFrame DEF IoTypeOK
<1>2. stack' # <<>>
  BY <1>1
<1>3. Replying => Replying'
  BY <1>1 DEF Replying
<1>. QED  BY <1>2, <1>3 DEF Rearmed

(* When a receive ends, a handler that is replying is still there.         *)
LEMMA ReplyStays ==
  ASSUME IoTypeOK, HasPacket, NEW k \in 1..Len(stack), stack[k].call = "reply"
  PROVE  k \in 1..Len(Below) /\ Below[k] = stack[k]
<1>1. /\ Len(Below) = Len(stack) - 1
      /\ \A j \in 1..Len(Below) : Below[j] = stack[j]
      /\ Len(stack) \in Nat \ {0}
  BY EndFrame DEF IoTypeOK, HasPacket
<1>2. k # Len(stack)
  BY DEF HasPacket, Top
<1>. QED  BY <1>1, <1>2

(* Every step keeps the invariant: each way out of a receive either starts *)
(* a new one or leaves a handler on the stack that will                    *)
(* (signpost_api_recv_callback, signpost_api_send).                        *)
LEMMA RearmedStep == IoTypeOK /\ Rearmed /\ [Next]_vars => Rearmed'
<1>. SUFFICES ASSUME IoTypeOK, Rearmed, [Next]_vars PROVE Rearmed'
  OBVIOUS
<1>1. ASSUME UNCHANGED <<asyncVars, stack>> PROVE Rearmed'
  BY <1>1 DEF Rearmed, Replying, asyncVars
<1>2. ASSUME StartNewAsyncRecv PROVE Rearmed'
  BY <1>2 DEF Rearmed, StartNewAsyncRecv
<1>3. CASE UNCHANGED vars
  BY <1>1, <1>3 DEF vars
<1>4. ASSUME NEW s \in Senders, Begin(s) \/ SendPacket(s) \/ SendFails(s) PROVE Rearmed'
  BY <1>1, <1>4 DEF Begin, SendPacket, SendFails
<1>5. CASE SlaveWriteCallback
  <2>1. CASE asyncActive
    BY <1>5, <2>1, WaitingIsFrame, PushKeepsRearmed DEF SlaveWriteCallback
  <2>2. CASE ~asyncActive
    BY <1>1, <1>5, <2>2 DEF SlaveWriteCallback, asyncVars
  <2>. QED  BY <2>1, <2>2
<1>6. CASE DropPacket
  BY <1>1, <1>6 DEF DropPacket
<1>7. CASE TakeFragment
  <2>. DEFINE f == [call |-> "receive", src |-> packetBuf.src,
                    sequence |-> packetBuf.sequence,
                    received |-> Top.received + Taken]
  <2>1. HasPacket /\ stack' = Append(Below, f) /\ UNCHANGED asyncVars
    BY <1>7 DEF TakeFragment, TakePacket
  <2>2. Below \in Seq(Frame) /\ stack' \in Seq(Frame)
    BY <1>7, <2>1, IoTypeStep, EndFrame DEF Next, Receiver, IoTypeOK, HasPacket
  <2>3. /\ Len(stack') = Len(Below) + 1
        /\ \A k \in 1..Len(Below) : stack'[k] = Below[k]
        /\ Len(Below) \in Nat
    <3>. HIDE DEF f
    <3>. QED  BY <2>1, <2>2, AppendProperties, LenProperties
  <2>4. stack' # <<>>
    BY <2>2, <2>3
  <2>5. Replying => Replying'
    BY <2>1, <2>3, ReplyStays DEF Replying
  <2>. QED  BY <2>1, <2>4, <2>5 DEF Rearmed, asyncVars
<1>8. CASE NobodyToCall
  <2>1. HasPacket /\ stack' = Below /\ ~asyncCallback /\ UNCHANGED asyncVars
    BY <1>8 DEF NobodyToCall, TakeLast, TakePacket
  <2>2. PICK k \in 1..Len(stack) : stack[k].call = "reply"
    BY <2>1 DEF Rearmed, Replying
  <2>3. k \in 1..Len(stack') /\ stack'[k].call = "reply"
    BY <2>1, <2>2, ReplyStays
  <2>4. Replying' /\ stack' # <<>>
    BY <2>3 DEF Replying
  <2>. QED  BY <2>4 DEF Rearmed
<1>9. CASE RefuseMessage
  BY <1>2, <1>9 DEF RefuseMessage
<1>10. CASE HandleMessage
  <2>1. CASE StartNewAsyncRecv
    BY <1>2, <2>1
  <2>2. CASE stack' = Append(Below, Waiting("reply"))
    <3>1. Below \in Seq(Frame) /\ Waiting("reply") \in Frame
      BY <1>10, EndFrame, WaitingIsFrame
         DEF HandleMessage, TakeLast, TakePacket, HasPacket, IoTypeOK
    <3>2. /\ Len(stack') = Len(Below) + 1
          /\ stack'[Len(Below) + 1] = Waiting("reply")
          /\ Len(Below) \in Nat
      BY <2>2, <3>1, PushFrame
    <3>3. Len(Below) + 1 \in 1..Len(stack') /\ stack' # <<>>
      BY <3>2
    <3>4. Replying'
      BY <3>2, <3>3 DEF Replying, Waiting
    <3>. QED  BY <3>3, <3>4 DEF Rearmed
  <2>. QED  BY <1>10, <2>1, <2>2 DEF HandleMessage
<1>11. CASE AppSend
  <2>1. stack' = Append(stack, Waiting("send")) /\ UNCHANGED asyncVars
    BY <1>11 DEF AppSend
  <2>. QED  BY <2>1, WaitingIsFrame, PushKeepsRearmed DEF asyncVars
<1>12. CASE SendDone
  BY <1>2, <1>12 DEF SendDone
<1>. QED  BY <1>3, <1>4, <1>5, <1>6, <1>7, <1>8, <1>9, <1>10, <1>11, <1>12
          DEF Next, Receiver

(* When nothing is suspended the next packet starts a receive that has a   *)
(* callback, however deep receives and sends were nested before            *)
(* (async_active and async_callback, signpost_api_start_new_async_recv).   *)
THEOREM IdleAlwaysReceives == Spec => []IdleReceives
<1>1. Init => Rearmed
  BY DEF Init, Rearmed
<1>2. IoTypeOK /\ Rearmed => IdleReceives
  BY DEF Rearmed, Replying, IdleReceives, IoTypeOK
<1>. QED  BY <1>1, <1>2, IoTypeCorrect, RearmedStep, PTL DEF Spec

-----------------------------------------------------------------------------
(***************************************************************************)
(* SignbusIo implements BestEffort while every message fits in a packet.   *)
(* A callback may run late, on a packet that came after its own, and with  *)
(* the length of the earlier one; the invariant says that the header is    *)
(* all the same that of the first unit, and that what lies in the driver's *)
(* buffer, in packet_buf and at the handlers is ever older.                *)
(***************************************************************************)
OnePacket == \A length \in Lengths : length <= FragmentUnits

(* A packet is a whole message, and its first unit is of the message that  *)
(* the header names.                                                       *)
HeaderFits(p) ==
  /\ p.offset = 0 /\ p.more = FALSE
  /\ p.data[1].src = p.src /\ p.data[1].sequence = p.sequence

(* The last message of s that was handed over, its packet in packet_buf,   *)
(* its packet in slave_write_buf and the message it sends now, if any, are *)
(* in the order in which s began them.                                     *)
Ordered(s) ==
  /\ handled[s].src = s
  /\ handled[s].sequence <= sender[s].sequence
  /\ sender[s].toSend > 0 => sender[s].sequence > 0 /\ sender[s].toSend = sender[s].length
  /\ slaveWriteBuf.src = s =>
       /\ slaveWriteBuf.sequence \in 1..sender[s].sequence
       /\ handled[s].sequence <= slaveWriteBuf.sequence
  /\ packetBuf.src = s =>
       /\ packetBuf.sequence \in 1..sender[s].sequence
       /\ handled[s].sequence <= packetBuf.sequence
  /\ packetBuf.src = s /\ slaveWriteBuf.src = s => packetBuf.sequence <= slaveWriteBuf.sequence

(* The inductive invariant of the refinement.                              *)
InOrder ==
  /\ HeaderFits(slaveWriteBuf) /\ HeaderFits(packetBuf)
  /\ newpkt.new => newpkt.len > 0
  /\ \A s \in Senders : Ordered(s)

(* The numbers of messages are numbers.                                    *)
LEMMA Sequences ==
  ASSUME IoTypeOK
  PROVE  /\ \A s \in Senders : /\ sender[s].sequence \in Nat /\ sender[s].toSend \in Nat
                               /\ sender[s].length \in Nat /\ handled[s].sequence \in Nat
         /\ slaveWriteBuf.sequence \in Nat /\ packetBuf.sequence \in Nat
<1>1. \A n \in Sequence : n \in Nat
  BY BoundsAssumption DEF Sequence
<1>2. \A l \in Lengths \cup {0} : l \in Nat
  BY UnitsAssumption
<1>3. \A n \in 0..BufferUnits : n \in Nat
  BY UnitsAssumption
<1>4. \A s \in Senders :
        /\ sender[s].sequence \in Sequence /\ sender[s].length \in Lengths \cup {0}
        /\ sender[s].toSend \in 0..BufferUnits /\ handled[s].sequence \in Sequence
  BY DEF IoTypeOK
<1>5. slaveWriteBuf.sequence \in Sequence /\ packetBuf.sequence \in Sequence
  BY DEF IoTypeOK, Packet
<1>. QED  BY <1>1, <1>2, <1>3, <1>4, <1>5

(* At the start the buffers are blank and nothing is sent or handled.      *)
LEMMA OrderedInit == Init => InOrder
<1>. SUFFICES ASSUME Init PROVE InOrder
  OBVIOUS
<1>1. 1 \in 1..FragmentUnits
  BY UnitsAssumption
<1>2. HeaderFits(NoPacket)
  BY <1>1 DEF HeaderFits, NoPacket, PacketOf, Blank
<1>3. NoPacket.src = Nobody
  BY DEF NoPacket, PacketOf
<1>4. ASSUME NEW s \in Senders PROVE Ordered(s)
  <2>1. s # Nobody
    BY SendersAssumption
  <2>2. /\ handled[s] = [src |-> s, sequence |-> 0]
        /\ sender[s] = [sequence |-> 0, length |-> 0, toSend |-> 0]
    BY DEF Init
  <2>. QED  BY <1>3, <2>1, <2>2 DEF Ordered, Init
<1>. QED  BY <1>2, <1>4 DEF InOrder, Init

(* What get_message hands over is the message that packet_buf's header     *)
(* names: the first unit of the packet is the first of the buffer.         *)
LEMMA HandedOver ==
  ASSUME IoTypeOK, InOrder, HandleMessage
  PROVE  Content(Copied, Assembled) = [src |-> packetBuf.src, sequence |-> packetBuf.sequence]
<1>1. HasPacket /\ Whole(Copied, Assembled) /\ packetBuf.more = FALSE
  BY DEF HandleMessage, TakeLast, TakePacket, HashMatches, InOrder, HeaderFits
<1>2. newpkt.len \in Nat \ {0} /\ Taken = newpkt.len
  BY <1>1, UnitsAssumption DEF Taken, HasPacket, InOrder, IoTypeOK
<1>3. Copied[0] = packetBuf.data[1]
  <2>1. 0 \in 0..(BufferUnits - 1)
    BY UnitsAssumption
  <2>2. packetBuf.offset = 0 /\ 0 - packetBuf.offset + 1 = 1
    BY DEF InOrder, HeaderFits
  <2>3. 1 \in 1..Taken
    BY <1>2
  <2>. QED  BY <2>1, <2>2, <2>3 DEF Copied
<1>. QED  BY <1>1, <1>3 DEF Content, InOrder, HeaderFits

(* A sender's step: a new message is younger than all that is under way,   *)
(* and its packet the youngest of its packets.                             *)
LEMMA SenderKeepsOrder ==
  ASSUME OnePacket, IoTypeOK, InOrder, NEW s \in Senders,
         Begin(s) \/ SendPacket(s) \/ SendFails(s)
  PROVE  InOrder'
<1>0. /\ UNCHANGED <<packetBuf, newpkt, handled>>
      /\ \A t \in Senders \ {s} : sender'[t] = sender[t]
  BY DEF Begin, SendPacket, SendFails, ioVars, messageVars, IoTypeOK
<1>1. CASE Begin(s)
  <2>1. PICK length \in Lengths :
          sender' = [sender EXCEPT ![s] = [sequence |-> sender[s].sequence + 1,
                                           length |-> length, toSend |-> length]]
    BY <1>1 DEF Begin
  <2>2. sender'[s] = [sequence |-> sender[s].sequence + 1, length |-> length, toSend |-> length]
    BY <2>1 DEF IoTypeOK
  <2>3. UNCHANGED slaveWriteBuf
    BY <1>1 DEF Begin, ioVars
  <2>4. Ordered(s)'
    BY <1>0, <2>2, <2>3, Sequences DEF InOrder, Ordered
  <2>5. \A t \in Senders \ {s} : Ordered(t)'
    BY <1>0, <2>3 DEF InOrder, Ordered
  <2>. QED  BY <1>0, <2>3, <2>4, <2>5 DEF InOrder, HeaderFits
<1>2. CASE SendFails(s)
  <2>1. PICK m : m = [sender[s] EXCEPT !.toSend = 0]
    OBVIOUS
  <2>2. sender'[s] = m
    BY <1>2, <2>1 DEF SendFails, IoTypeOK
  <2>3. m.sequence = sender[s].sequence /\ m.toSend = 0
    BY <2>1 DEF IoTypeOK
  <2>4. UNCHANGED slaveWriteBuf
    BY <1>2 DEF SendFails, ioVars
  <2>5. Ordered(s)'
    BY <1>0, <2>2, <2>3, <2>4 DEF InOrder, Ordered
  <2>6. \A t \in Senders \ {s} : Ordered(t)'
    BY <1>0, <2>4 DEF InOrder, Ordered
  <2>. QED  BY <1>0, <2>4, <2>5, <2>6 DEF InOrder, HeaderFits
<1>3. CASE SendPacket(s)
  <2>1. PICK q : q = sender[s]
    OBVIOUS
  <2>2. /\ q.toSend > 0 /\ q.toSend = q.length /\ q.sequence > 0
        /\ q.sequence \in Nat /\ q.length \in Nat
    BY <1>3, <2>1, Sequences DEF SendPacket, InOrder, Ordered
  <2>3. q.length \in Lengths
    BY <2>1, <2>2 DEF IoTypeOK
  <2>4. ~More(q.toSend) /\ PacketUnits(q.toSend) = q.toSend /\ q.length - q.toSend = 0
    BY <2>2, <2>3, UnitsAssumption DEF OnePacket, More, PacketUnits
  <2>5. PICK data : data = [i \in 1..FragmentUnits |->
                   [src |-> s, sequence |-> q.sequence, length |-> q.length,
                    at |-> (q.length - q.toSend) + i - 1]]
    OBVIOUS
  <2>6. /\ sender' = [sender EXCEPT ![s].toSend = @ - q.toSend]
        /\ slaveWriteBuf' = PacketOf(s, q.sequence, 0, FALSE,
                                     Overwrite(slaveWriteBuf.data, data, q.toSend))
    <3>1. /\ sender' = [sender EXCEPT ![s].toSend = @ - PacketUnits(q.toSend)]
          /\ slaveWriteBuf' = PacketOf(s, q.sequence, q.length - q.toSend, More(q.toSend),
                                 Overwrite(slaveWriteBuf.data, data, PacketUnits(q.toSend)))
      BY <1>3, <2>1, <2>5, Zenon DEF SendPacket
    <3>2. More(q.toSend) = FALSE
      BY <2>4 DEF More
    <3>. QED  BY <2>4, <3>1, <3>2, Zenon
  <2>7. PICK m : m = [sender[s] EXCEPT !.toSend = @ - q.toSend]
    OBVIOUS
  <2>8. sender'[s] = m
    BY <2>6, <2>7 DEF IoTypeOK
  <2>9. m.sequence = q.sequence /\ m.toSend = 0
    BY <2>1, <2>2, <2>7 DEF IoTypeOK
  <2>10. PICK p : p = slaveWriteBuf'
    OBVIOUS
  <2>11. /\ p.src = s /\ p.sequence = q.sequence /\ p.offset = 0 /\ p.more = FALSE
         /\ p.data = Overwrite(slaveWriteBuf.data, data, q.toSend)
    BY <2>6, <2>10 DEF PacketOf
  <2>12. p.data[1] = data[1] /\ data[1].src = s /\ data[1].sequence = q.sequence
    <3>1. 1 \in 1..FragmentUnits /\ 1 <= q.toSend
      BY <2>2, UnitsAssumption
    <3>. QED  BY <2>5, <2>11, <3>1 DEF Overwrite
  <2>13. HeaderFits(slaveWriteBuf)'
    BY <2>10, <2>11, <2>12 DEF HeaderFits
  <2>14. Ordered(s)'
    <3>1. handled'[s] = handled[s] /\ sender'[s].sequence = sender[s].sequence
          /\ sender'[s].toSend = 0
      BY <1>0, <2>1, <2>8, <2>9
    <3>2. slaveWriteBuf'.src = s /\ slaveWriteBuf'.sequence = sender[s].sequence
      BY <2>1, <2>10, <2>11
    <3>. QED  BY <1>0, <2>1, <2>2, <3>1, <3>2, Sequences DEF InOrder, Ordered
  <2>15. ASSUME NEW t \in Senders \ {s} PROVE Ordered(t)'
    <3>1. slaveWriteBuf'.src # t
      BY <2>10, <2>11
    <3>2. sender'[t] = sender[t] /\ UNCHANGED <<packetBuf, handled>>
      BY <1>0
    <3>. QED  BY <3>1, <3>2 DEF InOrder, Ordered
  <2>. QED  BY <1>0, <2>13, <2>14, <2>15 DEF InOrder, HeaderFits
<1>. QED  BY <1>1, <1>2, <1>3

(* The callback copies the header and at least the first unit of the       *)
(* driver's buffer, whichever packet it was queued for.                    *)
LEMMA CallbackKeepsOrder ==
  ASSUME IoTypeOK, InOrder, SlaveWriteCallback
  PROVE  InOrder'
<1>1. Head(upcalls) \in 1..FragmentUnits
  BY HeadTailProperties DEF IoTypeOK, SlaveWriteCallback
<1>2. PICK n \in Nat \ {0} : n = Head(upcalls)
  BY <1>1, UnitsAssumption
<1>3. PICK d : d = Overwrite(packetBuf.data, slaveWriteBuf.data, n)
  OBVIOUS
<1>4. d[1] = slaveWriteBuf.data[1]
  <2>1. 1 \in 1..FragmentUnits /\ 1 <= n
    BY <1>2, UnitsAssumption
  <2>. QED  BY <1>3, <2>1 DEF Overwrite
<1>5. PICK p : p = packetBuf'
  OBVIOUS
<1>6. /\ p = [slaveWriteBuf EXCEPT !.data = d]
      /\ newpkt' = [new |-> TRUE, len |-> n]
      /\ UNCHANGED <<sender, slaveWriteBuf, handled>>
  BY <1>2, <1>3, <1>5 DEF SlaveWriteCallback, messageVars
<1>7. /\ p.src = slaveWriteBuf.src /\ p.sequence = slaveWriteBuf.sequence
      /\ p.offset = slaveWriteBuf.offset /\ p.more = slaveWriteBuf.more /\ p.data = d
  BY <1>6 DEF IoTypeOK, Packet
<1>8. HeaderFits(packetBuf)' /\ HeaderFits(slaveWriteBuf)'
  BY <1>4, <1>5, <1>6, <1>7 DEF InOrder, HeaderFits
<1>9. ASSUME NEW s \in Senders PROVE Ordered(s)'
  BY <1>5, <1>6, <1>7, Sequences DEF InOrder, Ordered
<1>10. newpkt'.len > 0
  BY <1>6
<1>. QED  BY <1>8, <1>9, <1>10 DEF InOrder

(* Handing a message over makes it the last one of its sender; the one in  *)
(* slave_write_buf is not older.                                           *)
LEMMA HandlingKeepsOrder ==
  ASSUME IoTypeOK, InOrder, HandleMessage
  PROVE  InOrder'
<1>1. /\ handled' = [handled EXCEPT ![packetBuf.src] =
                       [src |-> packetBuf.src, sequence |-> packetBuf.sequence]]
      /\ newpkt' = [newpkt EXCEPT !.new = FALSE]
      /\ UNCHANGED <<sender, slaveWriteBuf, packetBuf>>
  BY HandedOver DEF HandleMessage, TakeLast, TakePacket
<1>2. ASSUME NEW s \in Senders PROVE Ordered(s)'
  <2>1. CASE packetBuf.src = s
    <3>1. handled'[s] = [src |-> s, sequence |-> packetBuf.sequence]
      BY <1>1, <2>1 DEF IoTypeOK
    <3>. QED  BY <1>1, <2>1, <3>1, Sequences DEF InOrder, Ordered
  <2>2. CASE packetBuf.src # s
    <3>1. handled'[s] = handled[s]
      BY <1>1, <2>2 DEF IoTypeOK
    <3>. QED  BY <1>1, <2>2, <3>1 DEF InOrder, Ordered
  <2>. QED  BY <2>1, <2>2
<1>3. newpkt'.new = FALSE
  BY <1>1 DEF IoTypeOK
<1>. QED  BY <1>1, <1>2, <1>3 DEF InOrder, HeaderFits

(* Every step keeps the order.                                             *)
LEMMA OrderedStep ==
  ASSUME OnePacket, IoTypeOK, InOrder, [Next]_vars
  PROVE  InOrder'
<1>1. ASSUME UNCHANGED <<sender, slaveWriteBuf, packetBuf, handled>>,
             newpkt' = newpkt \/ newpkt' = [newpkt EXCEPT !.new = FALSE]
      PROVE  InOrder'
  <2>1. newpkt'.new => newpkt'.len > 0
    <3>1. CASE newpkt' = newpkt
      BY <3>1 DEF InOrder
    <3>2. CASE newpkt' = [newpkt EXCEPT !.new = FALSE]
      <4>1. newpkt'.new = FALSE
        BY <3>2 DEF IoTypeOK
      <4>. QED  BY <4>1
    <3>. QED  BY <1>1, <3>1, <3>2
  <2>2. \A s \in Senders : Ordered(s)'
    BY <1>1 DEF InOrder, Ordered
  <2>. QED  BY <1>1, <2>1, <2>2 DEF InOrder, HeaderFits
<1>2. CASE UNCHANGED vars
  BY <1>1, <1>2 DEF vars, ioVars, messageVars
<1>3. CASE DropPacket
  BY <1>1, <1>3 DEF DropPacket, messageVars
<1>4. CASE TakeFragment \/ NobodyToCall \/ RefuseMessage
  BY <1>1, <1>4 DEF TakeFragment, NobodyToCall, RefuseMessage, TakeLast, TakePacket
<1>5. CASE AppSend \/ SendDone
  BY <1>1, <1>5 DEF AppSend, SendDone, ioVars, messageVars
<1>. QED  BY <1>2, <1>3, <1>4, <1>5, SenderKeepsOrder, CallbackKeepsOrder, HandlingKeepsOrder
          DEF Next, Receiver

(* Steps of the channel: a new message is a Send, a message handed over a  *)
(* Deliver, and nothing else shows.                                        *)
LEMMA ChannelStep ==
  ASSUME IoTypeOK, InOrder, InOrder', [Next]_vars
  PROVE  [Channel!Next]_(Channel!channelVars)
<1>. DEFINE sent == [s \in Senders |-> sender[s].sequence]
            received == [s \in Senders |-> IF handled[s].src = s THEN handled[s].sequence
                                           ELSE MaxMessages + 1]
<1>1. \A s \in Senders : /\ received[s] = handled[s].sequence
                         /\ received'[s] = handled'[s].sequence
  BY DEF InOrder, Ordered
<1>2. ASSUME sent' = sent, received' = received PROVE [Channel!Next]_(Channel!channelVars)
  BY <1>2 DEF Channel!channelVars
<1>3. ASSUME UNCHANGED handled, \A s \in Senders : sender'[s].sequence = sender[s].sequence
      PROVE  [Channel!Next]_(Channel!channelVars)
  <2>1. sent' = sent /\ received' = received
    BY <1>3
  <2>. HIDE DEF sent, received
  <2>. QED  BY <1>2, <2>1
<1>4. ASSUME UNCHANGED <<sender, handled>> PROVE [Channel!Next]_(Channel!channelVars)
  BY <1>3, <1>4
<1>5. ASSUME NEW s \in Senders, Begin(s) PROVE [Channel!Next]_(Channel!channelVars)
  <2>1. UNCHANGED handled
    BY <1>5 DEF Begin, messageVars
  <2>2. received' = received
    BY <2>1
  <2>3. PICK length \in Lengths :
          sender' = [sender EXCEPT ![s] = [sequence |-> sender[s].sequence + 1,
                                           length |-> length, toSend |-> length]]
    BY <1>5 DEF Begin
  <2>4. /\ sender'[s].sequence = sender[s].sequence + 1
        /\ \A t \in Senders \ {s} : sender'[t] = sender[t]
    BY <2>3 DEF IoTypeOK
  <2>5. sent' = [sent EXCEPT ![s] = @ + 1]
    BY <2>4
  <2>. HIDE DEF sent, received
  <2>6. Channel!Send(s)
    BY <2>2, <2>5 DEF Channel!Send, sent, received
  <2>. QED  BY <2>6 DEF Channel!Next
<1>6. ASSUME NEW s \in Senders, SendPacket(s) \/ SendFails(s)
      PROVE  [Channel!Next]_(Channel!channelVars)
  <2>1. UNCHANGED handled
    BY <1>6 DEF SendPacket, SendFails, messageVars
  <2>2. PICK n : sender' = [sender EXCEPT ![s].toSend = n]
    BY <1>6 DEF SendPacket, SendFails
  <2>3. ASSUME NEW t \in Senders PROVE sender'[t].sequence = sender[t].sequence
    <3>1. PICK m : m = [sender[s] EXCEPT !.toSend = n]
      OBVIOUS
    <3>2. m.sequence = sender[s].sequence
      BY <3>1 DEF IoTypeOK
    <3>3. sender'[s] = m /\ (t # s => sender'[t] = sender[t])
      BY <2>2, <3>1 DEF IoTypeOK
    <3>. QED  BY <3>2, <3>3
  <2>. QED  BY <1>3, <2>1, <2>3
<1>7. CASE HandleMessage
  <2>1. /\ handled' = [handled EXCEPT ![packetBuf.src] =
                         [src |-> packetBuf.src, sequence |-> packetBuf.sequence]]
        /\ UNCHANGED sender
    BY <1>7, HandedOver DEF HandleMessage, TakeLast, TakePacket
  <2>2. CASE packetBuf.src \notin Senders
    <3>1. UNCHANGED handled
      BY <2>1, <2>2 DEF IoTypeOK
    <3>. QED  BY <1>4, <2>1, <3>1
  <2>3. CASE packetBuf.src \in Senders
    <3>1. PICK s \in Senders : s = packetBuf.src
      BY <2>3
    <3>2. PICK n \in Nat : n = packetBuf.sequence
      BY Sequences
    <3>3. /\ n \in 1..sender[s].sequence /\ handled[s].sequence <= n
          /\ handled[s].sequence \in Nat
      BY <3>1, <3>2, Sequences DEF InOrder, Ordered
    <3>4. /\ handled'[s].sequence = n
          /\ \A t \in Senders \ {s} : handled'[t] = handled[t]
      BY <2>1, <3>1, <3>2 DEF IoTypeOK
    <3>5. n \in received[s]..sent[s] /\ n > 0
      BY <1>1, <3>3, Sequences
    <3>6. \A t \in Senders : received'[t] = IF t = s THEN n ELSE received[t]
      BY <1>1, <3>4
    <3>7. received' = [received EXCEPT ![s] = n] /\ sent' = sent
      <4>1. PICK r, R : r = received /\ R = received'
        OBVIOUS
      <4>2. r = [t \in Senders |-> r[t]] /\ R = [t \in Senders |-> R[t]]
        BY <4>1
      <4>. HIDE DEF received
      <4>3. R = [r EXCEPT ![s] = n]
        BY <3>6, <4>1, <4>2
      <4>. QED  BY <2>1, <4>1, <4>3
    <3>. HIDE DEF sent, received
    <3>8. Channel!Deliver(s)
      BY <3>5, <3>7 DEF Channel!Deliver, sent, received
    <3>. QED  BY <3>8 DEF Channel!Next
  <2>. QED  BY <2>2, <2>3
<1>8. CASE UNCHANGED vars
  BY <1>4, <1>8 DEF vars, messageVars
<1>9. CASE SlaveWriteCallback \/ DropPacket \/ AppSend \/ SendDone
  BY <1>4, <1>9 DEF SlaveWriteCallback, DropPacket, AppSend, SendDone, messageVars
<1>10. CASE TakeFragment \/ NobodyToCall \/ RefuseMessage
  BY <1>4, <1>10 DEF TakeFragment, NobodyToCall, RefuseMessage, TakeLast, TakePacket
<1>. QED  BY <1>5, <1>6, <1>7, <1>8, <1>9, <1>10 DEF Next, Receiver

(* The invariant holds in every state.                                     *)
LEMMA OrderedAlways ==
  ASSUME OnePacket
  PROVE  Spec => []InOrder
<1>1. IoTypeOK /\ InOrder /\ [Next]_vars => InOrder'
  BY OrderedStep
<1>. QED  BY <1>1, OrderedInit, IoTypeCorrect, PTL DEF Spec

(* While messages fit in a packet the message layer is the channel of      *)
(* BestEffort, for all senders and depths of nesting: whole messages, each *)
(* as from its sender, in its order.  Without the hypothesis the packets   *)
(* of two messages can be mixed.                                           *)
THEOREM OnePacketImplementsBestEffort ==
  ASSUME OnePacket
  PROVE  Spec => ImplementsBestEffort
<1>1. Init => Channel!Init
  BY DEF Init, Channel!Init
<1>2. IoTypeOK /\ InOrder /\ InOrder' /\ [Next]_vars => [Channel!Next]_(Channel!channelVars)
  BY ChannelStep
<1>. QED  BY <1>1, <1>2, OrderedAlways, IoTypeCorrect, PTL
          DEF Spec, ImplementsBestEffort, Channel!Spec

(* While messages fit in a packet a handler's source address is the        *)
(* sender's: the nested receives and the late callbacks, which are there   *)
(* all the same, cannot break it, only the assembly of fragments can.      *)
THEOREM OnePacketFromItsSource ==
  ASSUME OnePacket
  PROVE  Spec => []FromItsSource
<1>1. InOrder => FromItsSource
  BY DEF InOrder, Ordered, FromItsSource
<1>. QED  BY <1>1, OrderedAlways, PTL

=============================================================================
