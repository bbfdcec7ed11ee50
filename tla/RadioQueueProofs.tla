-------------------------- MODULE RadioQueueProofs --------------------------
(***************************************************************************)
(* The radio module's types, FlagIsSending, XdotForOne, and that its ring  *)
(* buffer implements the queue of RadioFifo, for every size of the queue,  *)
(* the post and the table of modules.                                      *)
(*                                                                         *)
(* The inductive invariant says what the packets of a transmission are:    *)
(* the oldest ones of the queue, still where they were when they were      *)
(* packed.  XdotForOne needs that the network is not joined while main     *)
(* joins it and is joined while a callback uses it.                        *)
(***************************************************************************)
EXTENDS RadioQueue, SequenceTheorems, TLAPS

XdotInv ==
  /\ joining => lora_state = "error"
  /\ send \in {"lora", "receive"} => lora_state = "joined"

Carrying == send \in {"pack", "post", "response", "lora"}

AirInv ==
  /\ ~Carrying => air = <<>>
  /\ send \notin {"pack", "post", "response"} => used = 0
  /\ send \in {"check", "checkAgain"} => queue_head # queue_tail
  /\ Carrying => /\ Len(air) <= calc_queue_length
                 /\ \A j \in 1 .. Len(air) : air[j] = data_address[Slot(j - 1)]
  /\ send \in {"post", "response", "lora"} => air # <<>>
  /\ send = "lora" => Len(air) = 1
  /\ send = "pack" => Len(air) < calc_queue_length /\ (air = <<>> => used = 0)

RadioInv == RadioTypeOK /\ FlagIsSending /\ XdotInv /\ AirInv

-----------------------------------------------------------------------------
QueueTypes ==
  /\ data_address \in [Slots -> Addresses]
  /\ queue_head \in Slots /\ queue_tail \in Slots

(* The ring buffer's arithmetic: calc_queue_length counts the packets from *)
(* queue_head to queue_tail, one slot is always free.                      *)
LEMMA Ring ==
  ASSUME QueueTypes
  PROVE  /\ calc_queue_length \in 0 .. QUEUE_SIZE - 1
         /\ \A k \in 0 .. QUEUE_SIZE - 1 : Slot(k) \in Slots
         /\ calc_queue_length = 0 <=> queue_head = queue_tail
         /\ IsFull <=> calc_queue_length = QUEUE_SIZE - 1
         /\ Slot(calc_queue_length) = queue_tail
         /\ \A k \in 0 .. calc_queue_length - 1 : Slot(k) # queue_tail
         /\ Slot(0) = queue_head
         /\ \A k \in 0 .. QUEUE_SIZE - 2 : increment_queue_pointer(Slot(k)) = Slot(k + 1)
  BY QueueAssumption DEF QueueTypes, Slots, calc_queue_length, Slot, IsFull, increment_queue_pointer

(* add_buffer_to_queue puts a packet behind those that are queued, or      *)
(* leaves the queue alone.                                                 *)
LEMMA Added ==
  ASSUME QueueTypes, NEW a \in Addresses, add_buffer_to_queue(a)
  PROVE  /\ QueueTypes' /\ queue_head' = queue_head
         /\ \A k : Slot(k)' = Slot(k)
         /\ \A k \in 0 .. calc_queue_length - 1 : data_address'[Slot(k)] = data_address[Slot(k)]
         /\ \/ UNCHANGED queueVars /\ calc_queue_length' = calc_queue_length
            \/ /\ calc_queue_length < QUEUE_SIZE - 1
               /\ calc_queue_length' = calc_queue_length + 1
               /\ data_address'[Slot(calc_queue_length)] = a
               /\ queue_head' # queue_tail'
<1>1. CASE IsFull
  BY <1>1 DEF add_buffer_to_queue, queueVars, QueueTypes, Slot, calc_queue_length
<1>2. CASE ~IsFull
  <2>1. /\ data_address' = [data_address EXCEPT ![queue_tail] = a]
        /\ queue_tail' = increment_queue_pointer(queue_tail) /\ queue_head' = queue_head
    BY <1>2 DEF add_buffer_to_queue
  <2>2. QueueTypes' /\ (\A k : Slot(k)' = Slot(k))
    BY <2>1, QueueAssumption DEF QueueTypes, Slots, increment_queue_pointer, Slot
  <2>3. /\ calc_queue_length < QUEUE_SIZE - 1
        /\ calc_queue_length' = calc_queue_length + 1
    BY <1>2, <2>1, QueueAssumption DEF QueueTypes, Slots, increment_queue_pointer, IsFull, calc_queue_length
  <2>4. /\ \A k \in 0 .. calc_queue_length - 1 : data_address'[Slot(k)] = data_address[Slot(k)]
        /\ data_address'[Slot(calc_queue_length)] = a
    BY <2>1, Ring, QueueAssumption DEF QueueTypes
  <2>5. queue_head' # queue_tail'
    BY <1>2, <2>1 DEF IsFull
  <2>. QED  BY <2>1, <2>2, <2>3, <2>4, <2>5
<1>. QED  BY <1>1, <1>2

(* When queue_head moves by k, the first k packets leave the queue.        *)
LEMMA Removed ==
  ASSUME QueueTypes, NEW k \in 0 .. calc_queue_length, queue_head' = Slot(k),
         UNCHANGED <<data_address, queue_tail>>
  PROVE  /\ QueueTypes'
         /\ calc_queue_length' = calc_queue_length - k
         /\ \A j \in 0 .. calc_queue_length - k - 1 : Slot(j)' = Slot(k + j)
  BY QueueAssumption DEF QueueTypes, Slots, calc_queue_length, Slot

CountTypes ==
  /\ known \in Seq(Addresses) /\ Len(known) <= NUMBER_OF_MODULES
  /\ \A i, j \in DOMAIN known : known[i] = known[j] => i = j
  /\ count \in Seq(0 .. CountWrap - 1) /\ Len(count) = Len(known)

(* count_module_packet enters a module once, and keeps to the table.       *)
LEMMA Counted ==
  ASSUME CountTypes, NEW a \in Addresses, count_module_packet(a)
  PROVE  CountTypes'
<1>1. /\ Len(known) \in Nat /\ DOMAIN known = 1 .. Len(known) /\ DOMAIN count = 1 .. Len(known)
      /\ \A i \in DOMAIN count : count[i] \in 0 .. CountWrap - 1
  BY LenProperties, ElementOfSeq DEF CountTypes
<1>2. \A n \in Nat : n % CountWrap \in 0 .. CountWrap - 1
  BY ReportAssumption
<1>3. CASE \E i \in DOMAIN known : /\ known[i] = a
                                   /\ count' = [count EXCEPT ![i] = (@ + 1) % CountWrap]
                                   /\ UNCHANGED known
  <2>1. PICK i \in DOMAIN known : /\ count' = [count EXCEPT ![i] = (@ + 1) % CountWrap]
                                  /\ UNCHANGED known
    BY <1>3
  <2>. DEFINE n == (count[i] + 1) % CountWrap
  <2>2. n \in 0 .. CountWrap - 1
    <3>1. count[i] + 1 \in Nat
      BY <1>1
    <3>. QED  BY <1>2, <3>1
  <2>3. count' = [count EXCEPT ![i] = n]
    BY <2>1
  <2>. HIDE DEF n
  <2>4. count' \in Seq(0 .. CountWrap - 1) /\ Len(count') = Len(count)
    BY <1>1, <2>2, <2>3, ExceptSeq DEF CountTypes
  <2>. QED  BY <2>1, <2>4 DEF CountTypes
<1>4. CASE /\ \A i \in DOMAIN known : known[i] # a
           /\ Len(known) < NUMBER_OF_MODULES
           /\ known' = Append(known, a) /\ count' = Append(count, 1 % CountWrap)
  <2>. DEFINE n == 1 % CountWrap
  <2>1. n \in 0 .. CountWrap - 1
    BY <1>2
  <2>. HIDE DEF n
  <2>2. count' = Append(count, n)
    BY <1>4 DEF n
  <2>3. /\ count' \in Seq(0 .. CountWrap - 1) /\ Len(count') = Len(count) + 1
        /\ known' \in Seq(Addresses) /\ Len(known') = Len(known) + 1
        /\ DOMAIN known' = 1 .. Len(known) + 1
        /\ \A i \in 1 .. Len(known) : known'[i] = known[i]
        /\ known'[Len(known) + 1] = a
    BY <1>1, <1>4, <2>1, <2>2, AppendProperties DEF CountTypes
  <2>4. \A i, j \in DOMAIN known' : known'[i] = known'[j] => i = j
    BY <1>1, <1>4, <2>3 DEF CountTypes
  <2>. QED  BY <1>1, <1>4, <2>3, <2>4, ReportAssumption DEF CountTypes
<1>5. CASE UNCHANGED countVars
  BY <1>5 DEF countVars, CountTypes
<1>. QED  BY <1>3, <1>4, <1>5 DEF count_module_packet

RestTypes ==
  /\ used \in Nat
  /\ cellular_state \in {"service", "none"}
  /\ lora_state \in {"joined", "error"} /\ joining \in BOOLEAN
  /\ fail_counter \in 0 .. HardAt + 1
  /\ send_counter \in 0 .. CounterWrap - 1
  /\ report \in {"none", "query", "report", "reset"}
  /\ quiet \in 0 .. WatchdogTicks

SendTypes ==
  /\ currently_sending \in BOOLEAN
  /\ send \in {"none", "check", "checkAgain", "pack", "post", "response", "lora", "receive"}
  /\ air \in Seq(Addresses)

(* The type invariant, by the variables its parts are about.               *)
LEMMA TypeParts == RadioTypeOK <=> QueueTypes /\ CountTypes /\ RestTypes /\ SendTypes
  BY DEF RadioTypeOK, QueueTypes, CountTypes, RestTypes, SendTypes

(* The end of timer_callback keeps the counters' types.                    *)
LEMMA CallbackEnds ==
  ASSUME RestTypes, NEW q \in 0 .. WatchdogTicks, EndCallback(q)
  PROVE  /\ send_counter' \in 0 .. CounterWrap - 1 /\ quiet' \in 0 .. WatchdogTicks
         /\ report' \in {"none", "query", "report", "reset"}
<1>1. (send_counter + 1) % CounterWrap \in 0 .. CounterWrap - 1
  BY ReportAssumption DEF RestTypes
<1>. QED  BY <1>1, ResetAssumption DEF EndCallback, RestTypes

(* ChooseRadio leaves what is sent, if anything, at the head of the queue. *)
LEMMA Chosen ==
  ASSUME QueueTypes, CountTypes, RestTypes, SendTypes, air = <<>>, used = 0,
         queue_head # queue_tail, NEW cell, NEW q \in 0 .. WatchdogTicks, ChooseRadio(cell, q),
         UNCHANGED queueVars
  PROVE  /\ CountTypes' /\ SendTypes' /\ FlagIsSending' /\ AirInv' /\ used' = 0
         /\ send_counter' \in 0 .. CounterWrap - 1 /\ quiet' \in 0 .. WatchdogTicks
         /\ report' \in {"none", "query", "report", "reset"}
         /\ send' \in {"checkAgain", "lora", "none"}
         /\ send' = "lora" => lora_state = "joined" /\ air' = <<data_address[queue_head]>>
         /\ send' # "lora" => air' = <<>>
<1>1. QueueTypes' /\ (\A k : Slot(k)' = Slot(k)) /\ calc_queue_length' = calc_queue_length
  BY DEF queueVars, QueueTypes, Slot, calc_queue_length
<1>2. calc_queue_length \in Nat /\ calc_queue_length >= 1 /\ Slot(0) = queue_head
  BY Ring, QueueAssumption
<1>3. CASE calc_queue_length > Long /\ cell = "service"
  <2>1. /\ currently_sending' = TRUE /\ send' = "checkAgain" /\ quiet' = q
        /\ UNCHANGED <<send_counter, report, air, used, known, count>>
    BY <1>3 DEF ChooseRadio, StillSending, countVars
  <2>2. CountTypes'
    BY <2>1 DEF CountTypes
  <2>3. AirInv'
    BY <2>1 DEF AirInv, Carrying, queueVars
  <2>. QED  BY <2>1, <2>2, <2>3 DEF SendTypes, FlagIsSending, RestTypes
<1>4. CASE ~(calc_queue_length > Long /\ cell = "service") /\ lora_state = "joined"
  <2>1. /\ currently_sending' = TRUE /\ send' = "lora" /\ quiet' = q
        /\ air' = <<data_address[queue_head]>>
        /\ count_module_packet(data_address[queue_head])
        /\ UNCHANGED <<send_counter, report, used>>
    BY <1>4 DEF ChooseRadio, StillSending
  <2>2. data_address[queue_head] \in Addresses
    BY DEF QueueTypes
  <2>3. CountTypes'
    BY <2>1, <2>2, Counted
  <2>4. air' \in Seq(Addresses) /\ Len(air') = 1 /\ air'[1] = data_address[queue_head] /\ air' # <<>>
    BY <2>1, <2>2
  <2>5. AirInv'
    BY <2>1, <2>4, <1>1, <1>2 DEF AirInv, Carrying, queueVars
  <2>. QED  BY <2>1, <2>3, <2>4, <2>5, <1>4 DEF SendTypes, FlagIsSending, RestTypes
<1>5. CASE ~(calc_queue_length > Long /\ cell = "service") /\ lora_state # "joined"
  <2>1. /\ currently_sending' = FALSE /\ send' = "none" /\ air' = <<>> /\ used' = 0
        /\ EndCallback(q) /\ UNCHANGED <<known, count>>
    BY <1>5 DEF ChooseRadio, DoneSending, countVars
  <2>2. CountTypes'
    BY <2>1 DEF CountTypes
  <2>3. AirInv'
    BY <2>1 DEF AirInv, Carrying
  <2>. QED  BY <2>1, <2>2, <2>3, CallbackEnds DEF SendTypes, FlagIsSending
<1>. QED  BY <1>3, <1>4, <1>5 DEF ChooseRadio

(* A callback that ends has nothing on its way.                            *)
LEMMA Ended ==
  ASSUME RestTypes, DoneSending
  PROVE  SendTypes' /\ FlagIsSending' /\ AirInv' /\ used' = 0 /\ InAir' = <<>> /\ send' = "none"
  BY EmptySeq DEF DoneSending, SendTypes, FlagIsSending, AirInv, Carrying, InAir

(* A packet that is queued while others are on their way does not disturb  *)
(* them (add_buffer_to_queue).                                             *)
LEMMA AirStays ==
  ASSUME QueueTypes, SendTypes, AirInv, send # "pack", NEW a \in Addresses, add_buffer_to_queue(a),
         UNCHANGED sendVars
  PROVE  AirInv'
<1>1. /\ QueueTypes' /\ queue_head' = queue_head
      /\ \A k : Slot(k)' = Slot(k)
      /\ \A k \in 0 .. calc_queue_length - 1 : data_address'[Slot(k)] = data_address[Slot(k)]
      /\ \/ UNCHANGED queueVars /\ calc_queue_length' = calc_queue_length
         \/ calc_queue_length' = calc_queue_length + 1 /\ queue_head' # queue_tail'
  BY Added
<1>2. calc_queue_length \in Nat /\ Len(air) \in Nat
  BY Ring, LenProperties, QueueAssumption DEF SendTypes
<1>3. UNCHANGED <<currently_sending, send, air, used>>
  BY DEF sendVars
<1>4. queue_head # queue_tail => queue_head' # queue_tail'
  BY <1>1 DEF queueVars
<1>5. Carrying => /\ Len(air) <= calc_queue_length'
                  /\ \A j \in 1 .. Len(air) : air[j] = data_address'[Slot(j - 1)]
  BY <1>1, <1>2 DEF AirInv
<1>. QED  BY <1>1, <1>3, <1>4, <1>5 DEF AirInv, Carrying

(* Every callback, and main, keeps the invariant.                          *)
LEMMA RadioStep ==
  ASSUME RadioInv, Next \/ UNCHANGED vars
  PROVE  RadioInv'
<1>. USE QueueAssumption, ReportAssumption, ResetAssumption
<1>t. QueueTypes /\ CountTypes /\ RestTypes /\ SendTypes /\ FlagIsSending /\ XdotInv /\ AirInv
  BY TypeParts DEF RadioInv
<1>i. SUFFICES QueueTypes' /\ CountTypes' /\ RestTypes' /\ SendTypes' /\ FlagIsSending' /\ XdotInv' /\ AirInv'
  BY TypeParts, PTL DEF RadioInv
<1>z. 0 \in 0 .. HardAt + 1 /\ 0 \in 0 .. WatchdogTicks /\ 0 \in 0 .. CounterWrap - 1
  OBVIOUS
<1>q. ASSUME UNCHANGED queueVars PROVE QueueTypes' /\ (\A k : Slot(k)' = Slot(k)) /\ calc_queue_length' = calc_queue_length
  BY <1>q, <1>t DEF queueVars, QueueTypes, Slot, calc_queue_length
<1>c. ASSUME UNCHANGED countVars PROVE CountTypes'
  BY <1>c, <1>t DEF countVars, CountTypes
<1>s. ASSUME UNCHANGED queueVars, UNCHANGED sendVars PROVE SendTypes' /\ FlagIsSending' /\ AirInv'
  BY <1>s, <1>t, <1>q DEF sendVars, queueVars, SendTypes, FlagIsSending, AirInv, Carrying
<1>1. CASE TickReturns
  <2>1. UNCHANGED <<queueVars, sendVars, cellular_state, loraVars, countVars, send_counter, report>>
        /\ quiet' \in 0 .. WatchdogTicks
    BY <1>1, <1>t DEF TickReturns, RestTypes
  <2>. QED  BY <2>1, <1>t, <1>q, <1>c, <1>s DEF RestTypes, XdotInv, loraVars, sendVars
<1>2. CASE TickIdle
  <2>1. UNCHANGED <<queueVars, sendVars, cellular_state, loraVars, countVars>> /\ EndCallback(quiet + 1)
        /\ quiet + 1 \in 0 .. WatchdogTicks
    BY <1>2, <1>t DEF TickIdle, RestTypes
  <2>2. RestTypes'
    BY <2>1, <1>t, CallbackEnds DEF RestTypes, loraVars, sendVars
  <2>. QED  BY <2>1, <2>2, <1>t, <1>q, <1>c, <1>s DEF XdotInv, loraVars, sendVars
<1>3. CASE TickSends
  <2>1. /\ UNCHANGED <<queueVars, cellular_state, loraVars>> /\ quiet + 1 \in 0 .. WatchdogTicks
        /\ queue_head # queue_tail /\ send = "none" /\ air = <<>> /\ used = 0
    BY <1>3, <1>t DEF TickSends, RestTypes, FlagIsSending, AirInv, Carrying
  <2>2. CASE StillSending("check", quiet + 1) /\ UNCHANGED <<air, used, countVars>>
    <3>1. /\ currently_sending' = TRUE /\ send' = "check" /\ quiet' = quiet + 1
          /\ UNCHANGED <<send_counter, report, air, used, countVars>>
      BY <2>2 DEF StillSending
    <3>2. AirInv'
      BY <2>1, <3>1 DEF AirInv, Carrying, queueVars
    <3>. QED  BY <2>1, <3>1, <3>2, <1>t, <1>q, <1>c DEF RestTypes, SendTypes, FlagIsSending, XdotInv, loraVars
  <2>3. CASE ChooseRadio("service", quiet + 1)
    <3>1. /\ CountTypes' /\ SendTypes' /\ FlagIsSending' /\ AirInv' /\ used' = 0
          /\ send_counter' \in 0 .. CounterWrap - 1 /\ quiet' \in 0 .. WatchdogTicks
          /\ report' \in {"none", "query", "report", "reset"}
          /\ send' \in {"checkAgain", "lora", "none"}
          /\ send' = "lora" => lora_state = "joined"
      BY <2>1, <2>3, <1>t, Chosen
    <3>. QED  BY <2>1, <3>1, <1>t, <1>q DEF RestTypes, XdotInv, loraVars
  <2>. QED  BY <1>3, <2>2, <2>3 DEF TickSends
<1>4. ASSUME NEW cell \in {"service", "none"}, CellChecked(cell)
      PROVE  QueueTypes' /\ CountTypes' /\ RestTypes' /\ SendTypes' /\ FlagIsSending' /\ XdotInv' /\ AirInv'
  <2>1. /\ UNCHANGED <<queueVars, loraVars>> /\ quiet \in 0 .. WatchdogTicks /\ cellular_state' = cell
        /\ queue_head # queue_tail /\ air = <<>> /\ used = 0 /\ ChooseRadio(cell, quiet)
    BY <1>4, <1>t DEF CellChecked, RestTypes, AirInv, Carrying
  <2>2. /\ CountTypes' /\ SendTypes' /\ FlagIsSending' /\ AirInv' /\ used' = 0
        /\ send_counter' \in 0 .. CounterWrap - 1 /\ quiet' \in 0 .. WatchdogTicks
        /\ report' \in {"none", "query", "report", "reset"}
        /\ send' \in {"checkAgain", "lora", "none"}
        /\ send' = "lora" => lora_state = "joined"
    BY <2>1, <1>t, Chosen
  <2>. QED  BY <2>1, <2>2, <1>t, <1>q DEF RestTypes, XdotInv, loraVars
<1>5. CASE CellLost
  <2>1. /\ UNCHANGED <<queueVars, loraVars, countVars, send_counter, report, quiet>>
        /\ cellular_state' = "none" /\ DoneSending
    BY <1>5 DEF CellLost
  <2>. QED  BY <2>1, <1>t, <1>q, <1>c, Ended DEF RestTypes, XdotInv, loraVars
<1>6. CASE CellFound
  <2>1. /\ UNCHANGED <<air, used, queueVars, cellular_state, loraVars, countVars, send_counter, report>>
        /\ currently_sending' = TRUE /\ send' = "pack" /\ quiet' = quiet /\ send = "checkAgain"
    BY <1>6 DEF CellFound, StillSending
  <2>2. air = <<>> /\ used = 0 /\ calc_queue_length \in Nat \ {0} /\ Len(air) = 0
    BY <2>1, <1>t, Ring DEF AirInv, Carrying
  <2>3. AirInv'
    BY <2>1, <2>2, <1>q DEF AirInv, Carrying
  <2>. QED  BY <2>1, <2>3, <1>t, <1>q, <1>c DEF RestTypes, SendTypes, FlagIsSending, XdotInv, loraVars
<1>7. CASE PackPacket
  <2>. DEFINE a == data_address[temp_head]
              n == Len(air)
  <2>1. /\ UNCHANGED <<queueVars, cellular_state, loraVars, send_counter, report, quiet>>
        /\ air' = Append(air, a) /\ used' = used + LengthOf[a] /\ count_module_packet(a)
        /\ currently_sending' = TRUE /\ send = "pack"
        /\ send' = IF increment_queue_pointer(temp_head) = queue_tail THEN "post" ELSE "pack"
    BY <1>7 DEF PackPacket, StillSending
  <2>2. /\ n \in Nat /\ n < calc_queue_length /\ temp_head = Slot(n)
        /\ \A j \in 1 .. n : air[j] = data_address[Slot(j - 1)]
    BY <2>1, <1>t, LenProperties DEF AirInv, Carrying, SendTypes, temp_head
  <2>3. /\ calc_queue_length \in 0 .. QUEUE_SIZE - 1 /\ temp_head \in Slots
        /\ increment_queue_pointer(temp_head) = Slot(n + 1)
        /\ Slot(n + 1) # queue_tail => n + 1 < calc_queue_length
    BY <2>2, <1>t, Ring
  <2>4. a \in Addresses /\ LengthOf[a] \in Nat
    BY <2>3, <1>t DEF QueueTypes
  <2>. HIDE DEF a
  <2>5. /\ air' \in Seq(Addresses) /\ Len(air') = n + 1 /\ air' # <<>>
        /\ \A j \in 1 .. n : air'[j] = air[j]
        /\ air'[n + 1] = a
    BY <2>1, <2>4, <1>t, AppendProperties DEF SendTypes
  <2>6. \A j \in 1 .. Len(air') : air'[j] = data_address[Slot(j - 1)]
    <3>1. a = data_address[Slot(n)]
      BY <2>2 DEF a
    <3>. HIDE DEF n
    <3>2. \A j \in 1 .. n + 1 : j \in 1 .. n \/ j = n + 1
      BY <2>2
    <3>3. \A j \in 1 .. n : air'[j] = data_address[Slot(j - 1)]
      BY <2>2, <2>5
    <3>4. air'[n + 1] = data_address[Slot(n)]
      BY <2>5, <3>1
    <3>5. Len(air') = n + 1
      BY <2>5
    <3>6. ASSUME NEW j \in 1 .. n + 1  PROVE air'[j] = data_address[Slot(j - 1)]
      <4>1. CASE j \in 1 .. n
        BY <4>1, <3>3
      <4>2. CASE j = n + 1
        <5>1. j - 1 = n
          BY <4>2, <2>2
        <5>2. air'[j] = data_address[Slot(n)]
          BY <4>2, <3>4
        <5>. QED  BY <5>1, <5>2
      <4>. QED  BY <3>2, <4>1, <4>2
    <3>. QED  BY <3>5, <3>6
  <2>. HIDE DEF n
  <2>7. AirInv'
    BY <2>1, <2>2, <2>3, <2>5, <2>6, <1>q DEF AirInv, Carrying, queueVars
  <2>8. CountTypes'
    BY <2>1, <2>4, <1>t, Counted
  <2>. QED  BY <2>1, <2>4, <2>5, <2>7, <2>8, <1>t, <1>q DEF RestTypes, SendTypes, FlagIsSending, XdotInv, loraVars
<1>8. CASE PackDone
  <2>1. /\ UNCHANGED <<air, used, queueVars, cellular_state, loraVars, countVars, send_counter, report>>
        /\ currently_sending' = TRUE /\ send' = "post" /\ quiet' = quiet /\ send = "pack" /\ ~HasRoom
    BY <1>8 DEF PackDone, StillSending
  <2>2. air # <<>>
    <3>1. LengthOf[data_address[queue_head]] \in Nat /\ LengthOf[data_address[queue_head]] < CELL_POST_SIZE
      BY <1>t DEF QueueTypes
    <3>. QED  BY <2>1, <3>1, <1>t DEF AirInv, HasRoom
  <2>3. AirInv'
    BY <2>1, <2>2, <1>q, <1>t, LenProperties, Ring DEF AirInv, Carrying, queueVars, SendTypes
  <2>. QED  BY <2>1, <2>3, <1>t, <1>q, <1>c DEF RestTypes, SendTypes, FlagIsSending, XdotInv, loraVars
<1>9. CASE CellPosted
  <2>1. /\ UNCHANGED <<air, used, queueVars, cellular_state, loraVars, countVars, send_counter, report>>
        /\ currently_sending' = TRUE /\ send' = "response" /\ quiet' = quiet /\ send = "post"
    BY <1>9 DEF CellPosted, StillSending
  <2>2. AirInv'
    BY <2>1, <1>q, <1>t DEF AirInv, Carrying, queueVars
  <2>. QED  BY <2>1, <2>2, <1>t, <1>q, <1>c DEF RestTypes, SendTypes, FlagIsSending, XdotInv, loraVars
<1>e. ASSUME DoneSending, EndCallback(quiet), UNCHANGED cellular_state,
             lora_state' \in {"joined", "error"}, joining' \in BOOLEAN, fail_counter' \in 0 .. HardAt + 1
      PROVE  RestTypes' /\ SendTypes' /\ FlagIsSending' /\ AirInv' /\ send' = "none"
  <2>1. /\ send_counter' \in 0 .. CounterWrap - 1 /\ quiet' \in 0 .. WatchdogTicks
        /\ report' \in {"none", "query", "report", "reset"}
    BY <1>e, <1>t, CallbackEnds DEF RestTypes
  <2>2. SendTypes' /\ FlagIsSending' /\ AirInv' /\ used' = 0 /\ send' = "none"
    BY <1>e, <1>t, Ended
  <2>. QED  BY <1>e, <2>1, <2>2, <1>t DEF RestTypes
<1>10. CASE CellFailed
  <2>1. UNCHANGED <<queueVars, cellular_state, loraVars, countVars>> /\ DoneSending /\ EndCallback(quiet)
    BY <1>10 DEF CellFailed
  <2>. QED  BY <2>1, <1>t, <1>q, <1>c, <1>e DEF RestTypes, XdotInv, loraVars
<1>11. CASE CellConfirmed
  <2>1. /\ UNCHANGED <<data_address, queue_tail, cellular_state, loraVars, countVars>>
        /\ DoneSending /\ EndCallback(quiet) /\ queue_head' = Slot(Len(air)) /\ send = "response"
    BY <1>11 DEF CellConfirmed, temp_head
  <2>2. Len(air) \in 0 .. calc_queue_length
    BY <2>1, <1>t, LenProperties, Ring DEF AirInv, Carrying, SendTypes
  <2>3. QueueTypes'
    BY <2>1, <2>2, <1>t, Removed
  <2>. QED  BY <2>1, <2>3, <1>t, <1>c, <1>e DEF RestTypes, XdotInv, loraVars
<1>12. CASE LoraFailed
  <2>1. UNCHANGED <<joining, queueVars, cellular_state, countVars>> /\ DoneSending /\ EndCallback(quiet)
        /\ track_failures
    BY <1>12 DEF LoraFailed
  <2>2. fail_counter' \in 0 .. HardAt + 1 /\ lora_state' \in {lora_state, "error"}
    BY <2>1, <1>t DEF track_failures, RestTypes
  <2>. QED  BY <2>1, <2>2, <1>t, <1>q, <1>c, <1>e DEF RestTypes, XdotInv
<1>13. CASE LoraSent
  <2>1. /\ UNCHANGED <<data_address, queue_tail, cellular_state, lora_state, joining, countVars, used,
                       send_counter, report, quiet>>
        /\ fail_counter' = 0 /\ air' = <<>> /\ currently_sending' = TRUE /\ send' = "receive"
        /\ queue_head' = increment_queue_pointer(queue_head) /\ send = "lora"
    BY <1>13 DEF LoraSent, StillSending
  <2>2. QueueTypes'
    BY <2>1, <1>t DEF QueueTypes, increment_queue_pointer, Slots
  <2>3. AirInv'
    BY <2>1, <1>t DEF AirInv, Carrying
  <2>. QED  BY <2>1, <2>2, <2>3, <1>t, <1>c DEF RestTypes, SendTypes, FlagIsSending, XdotInv
<1>14. CASE LoraReceived
  <2>1. UNCHANGED <<queueVars, cellular_state, loraVars, countVars>> /\ DoneSending /\ EndCallback(quiet)
    BY <1>14 DEF LoraReceived
  <2>. QED  BY <2>1, <1>t, <1>q, <1>c, <1>e DEF RestTypes, XdotInv, loraVars
<1>a. ASSUME NEW a \in Addresses, add_buffer_to_queue(a), UNCHANGED sendVars, send # "pack"
      PROVE  QueueTypes' /\ SendTypes' /\ FlagIsSending' /\ AirInv'
  BY <1>a, <1>t, Added, AirStays DEF sendVars, SendTypes, FlagIsSending
<1>f. ASSUME FinishReport, UNCHANGED <<sendVars, cellular_state, loraVars>>, ~currently_sending
      PROVE  QueueTypes' /\ SendTypes' /\ FlagIsSending' /\ AirInv' /\ RestTypes' /\ XdotInv'
  <2>1. QueueTypes' /\ SendTypes' /\ FlagIsSending' /\ AirInv'
    BY <1>f, <1>t, <1>a DEF FinishReport, Addresses, FlagIsSending
  <2>. QED  BY <1>f, <2>1, <1>t DEF FinishReport, RestTypes, XdotInv, loraVars, sendVars
<1>15. CASE ReportFailed
  BY <1>15, <1>f, <1>c DEF ReportFailed, Reporting
<1>16. CASE ReportGoesOn
  <2>1. /\ UNCHANGED <<queueVars, sendVars, cellular_state, loraVars, countVars, send_counter, quiet>>
        /\ report' \in {"report", "reset"}
    BY <1>16 DEF ReportGoesOn
  <2>. QED  BY <2>1, <1>t, <1>q, <1>c, <1>s DEF RestTypes, XdotInv, loraVars, sendVars
<1>17. CASE ReportDone
  <2>1. CountTypes'
    <3>1. count' = [i \in 1 .. Len(known) |-> 0] /\ known' = known /\ Len(known) \in Nat
      BY <1>17, <1>t, LenProperties DEF ReportDone, CountTypes
    <3>2. count' \in Seq(0 .. CountWrap - 1) /\ Len(count') = Len(known)
      BY <3>1
    <3>. QED  BY <3>1, <3>2, <1>t DEF CountTypes
  <2>. QED  BY <1>17, <2>1, <1>f DEF ReportDone, Reporting
<1>18. ASSUME NEW a \in Publishers, Publish(a)
       PROVE  QueueTypes' /\ CountTypes' /\ RestTypes' /\ SendTypes' /\ FlagIsSending' /\ XdotInv' /\ AirInv'
  <2>1. /\ UNCHANGED <<sendVars, cellular_state, loraVars, countVars, send_counter, report, quiet>>
        /\ add_buffer_to_queue(a) /\ send # "pack" /\ a \in Addresses
    BY <1>18 DEF Publish, Yielding, Addresses
  <2>2. QueueTypes' /\ SendTypes' /\ FlagIsSending' /\ AirInv'
    BY <2>1, <1>a
  <2>. QED  BY <2>1, <2>2, <1>t, <1>c DEF RestTypes, XdotInv, loraVars, sendVars
<1>19. CASE StartJoin
  <2>1. UNCHANGED <<lora_state, fail_counter, queueVars, sendVars, cellular_state, countVars, send_counter,
                    report, quiet>> /\ joining' = TRUE /\ lora_state # "joined"
    BY <1>19 DEF StartJoin
  <2>. QED  BY <2>1, <1>t, <1>q, <1>c, <1>s DEF RestTypes, XdotInv, sendVars
<1>20. CASE JoinFails
  <2>1. UNCHANGED <<joining, queueVars, sendVars, cellular_state, countVars, send_counter, report>>
        /\ quiet' = 0 /\ track_failures /\ send = "none"
    BY <1>20, <1>t DEF JoinFails, InMain, FlagIsSending
  <2>2. fail_counter' \in 0 .. HardAt + 1 /\ lora_state' \in {lora_state, "error"}
    BY <2>1, <1>t DEF track_failures, RestTypes
  <2>. QED  BY <2>1, <2>2, <1>t, <1>q, <1>c, <1>s DEF RestTypes, XdotInv, sendVars
<1>21. CASE JoinSucceeds
  <2>1. UNCHANGED <<queueVars, sendVars, cellular_state, countVars, send_counter, report>>
        /\ quiet' = 0 /\ joining' = FALSE /\ lora_state' = "joined" /\ fail_counter' = 0
    BY <1>21 DEF JoinSucceeds
  <2>2. RestTypes'
    BY <2>1, <1>t, <1>z DEF RestTypes, sendVars
  <2>3. XdotInv'
    BY <2>1 DEF XdotInv
  <2>. QED  BY <2>1, <2>2, <2>3, <1>q, <1>c, <1>s
<1>22. CASE Watchdog
  <2>1. QueueTypes'
    BY <1>22 DEF Watchdog, QueueTypes, Slots, Addresses
  <2>2. CountTypes'
    <3>1. known' = <<>> /\ count' = <<>>
      BY <1>22 DEF Watchdog
    <3>. QED  BY <3>1, EmptySeq DEF CountTypes
  <2>3. RestTypes'
    <3>1. /\ used' = 0 /\ cellular_state' = "none" /\ lora_state' = "error" /\ joining' = FALSE
          /\ fail_counter' = 0 /\ send_counter' = 0 /\ report' = "none" /\ quiet' = 0
      BY <1>22 DEF Watchdog
    <3>. QED  BY <3>1, <1>z DEF RestTypes
  <2>4. DoneSending /\ joining' = FALSE /\ send' = "none"
    BY <1>22 DEF Watchdog, DoneSending
  <2>. QED  BY <2>1, <2>2, <2>3, <2>4, <1>t, Ended DEF XdotInv
<1>23. CASE UNCHANGED vars
  BY <1>23, <1>t, <1>q, <1>c, <1>s DEF vars, RestTypes, XdotInv, loraVars, sendVars
<1>. QED
  BY <1>1, <1>2, <1>3, <1>4, <1>5, <1>6, <1>7, <1>8, <1>9, <1>10, <1>11, <1>12, <1>13, <1>14, <1>15,
     <1>16, <1>17, <1>18, <1>19, <1>20, <1>21, <1>22, <1>23 DEF Next, Tick, SendStep, ReportStep, MainStep

(* main starts with an empty queue and no transmission.                    *)
LEMMA RadioStart == Init => RadioInv
<1>. SUFFICES ASSUME Init PROVE RadioInv
  OBVIOUS
<1>. USE QueueAssumption, ReportAssumption, ResetAssumption
<1>1. QueueTypes
  BY DEF Init, QueueTypes, Slots, Addresses
<1>2. CountTypes
  <2>1. known = <<>> /\ count = <<>>
    BY DEF Init
  <2>. QED  BY <2>1, EmptySeq DEF CountTypes
<1>3. RestTypes
  <2>1. 0 \in 0 .. HardAt + 1 /\ 0 \in 0 .. WatchdogTicks /\ 0 \in 0 .. CounterWrap - 1
    OBVIOUS
  <2>2. /\ used = 0 /\ cellular_state = "none" /\ lora_state = "error" /\ joining = FALSE
        /\ fail_counter = 0 /\ send_counter = 0 /\ report = "none" /\ quiet = 0
    BY DEF Init
  <2>. QED  BY <2>1, <2>2 DEF RestTypes
<1>4. /\ currently_sending = FALSE /\ send = "none" /\ air = <<>> /\ used = 0 /\ joining = FALSE
  BY DEF Init
<1>5. SendTypes /\ FlagIsSending /\ XdotInv /\ AirInv
  BY <1>4, EmptySeq DEF SendTypes, FlagIsSending, XdotInv, AirInv, Carrying
<1>. QED  BY <1>1, <1>2, <1>3, <1>5, TypeParts DEF RadioInv

(* The inductive invariant holds throughout.                               *)
LEMMA RadioInvariant == Spec => []RadioInv
<1>1. RadioInv /\ [Next]_vars => RadioInv'
  BY RadioStep
<1>. QED  BY RadioStart, <1>1, PTL DEF Spec

(* The type invariant: the timer callback, the publishing callback and the *)
(* join keep the queue's pointers in the buffer and the table of modules   *)
(* in its bounds, whatever the sizes are.                                  *)
THEOREM RadioTypeCorrect == Spec => []RadioTypeOK
<1>1. RadioInv => RadioTypeOK
  BY DEF RadioInv
<1>. QED  BY RadioInvariant, <1>1, PTL

(* currently_sending is set exactly while a timer callback sends.          *)
THEOREM FlagTracksSending == Spec => []FlagIsSending
<1>1. RadioInv => FlagIsSending
  BY DEF RadioInv
<1>. QED  BY RadioInvariant, <1>1, PTL

(* join_lora_network and xdot_send never run together.                     *)
THEOREM XdotIsExclusive == Spec => []XdotForOne
<1>1. RadioInv => XdotForOne
  BY DEF RadioInv, XdotInv, XdotForOne
<1>. QED  BY RadioInvariant, <1>1, PTL

-----------------------------------------------------------------------------
(* The packets of the queue, as a sequence.                                *)
LEMMA QueuedSeq ==
  QueueTypes => /\ Queued \in Seq(Addresses) /\ Len(Queued) = calc_queue_length
                /\ calc_queue_length \in Nat
                /\ \A i \in 1 .. calc_queue_length : Queued[i] = data_address[Slot(i - 1)]
<1>. SUFFICES ASSUME QueueTypes
              PROVE  /\ Queued \in Seq(Addresses) /\ Len(Queued) = calc_queue_length
                     /\ calc_queue_length \in Nat
                     /\ \A i \in 1 .. calc_queue_length : Queued[i] = data_address[Slot(i - 1)]
  OBVIOUS
<1>1. calc_queue_length \in Nat /\ calc_queue_length <= QUEUE_SIZE - 1
  BY Ring, QueueAssumption
<1>2. \A i \in 1 .. calc_queue_length : data_address[Slot(i - 1)] \in Addresses
  <2>1. \A i \in 1 .. calc_queue_length : i - 1 \in 0 .. QUEUE_SIZE - 1
    BY <1>1, QueueAssumption
  <2>. QED  BY <2>1, Ring DEF QueueTypes
<1>. QED  BY <1>1, <1>2 DEF Queued

(* What the steps of RadioFifo are, in terms of the ring buffer.           *)
LEMMA FifoSteps ==
  ASSUME \/ Queued' = Queued /\ InAir' = InAir
         \/ /\ Len(Queued) < QUEUE_SIZE - 1 /\ InAir' = InAir
            /\ \E p \in Addresses : Queued' = Append(Queued, p)
         \/ /\ InAir = <<>> /\ Queued' = Queued
            /\ \E k \in 1 .. Len(Queued) : InAir' = SubSeq(Queued, 1, k)
         \/ InAir # <<>> /\ Queued = InAir \o Queued' /\ InAir' = <<>>
         \/ Queued' = Queued /\ InAir' = <<>>
         \/ quiet = WatchdogTicks /\ Queued' = <<>> /\ InAir' = <<>>
  PROVE  Fifo!FifoNext
  BY DEF Fifo!FifoNext, Fifo!Accept, Fifo!Transmit, Fifo!Confirm, Fifo!GiveUp, Fifo!Wait, Fifo!Crash

(* A transmission starts with the oldest packets: those of AirInv.         *)
LEMMA Transmits ==
  ASSUME RadioInv, RadioInv', UNCHANGED queueVars, InAir = <<>>
  PROVE  Fifo!FifoNext
<1>1. Queued' = Queued /\ calc_queue_length' = calc_queue_length /\ (\A k : Slot(k)' = Slot(k))
  BY DEF queueVars, Queued, calc_queue_length, Slot
<1>2. CASE InAir' = <<>>
  BY <1>1, <1>2, FifoSteps
<1>3. CASE InAir' # <<>>
  <2>1. send' \in {"post", "response", "lora"} /\ InAir' = air'
    BY <1>3 DEF InAir
  <2>2. QueueTypes /\ AirInv' /\ air' \in Seq(Addresses)
    BY TypeParts DEF RadioInv, RadioTypeOK
  <2>. DEFINE k == Len(air')
  <2>3. /\ air' # <<>> /\ k <= calc_queue_length
        /\ \A j \in 1 .. k : air'[j] = data_address[Slot(j - 1)]
    BY <2>1, <2>2, <1>1 DEF AirInv, Carrying, queueVars
  <2>4. k \in Nat /\ k # 0
    BY <2>2, <2>3, LenProperties, EmptySeq
  <2>5. /\ Queued \in Seq(Addresses) /\ Len(Queued) = calc_queue_length /\ calc_queue_length \in Nat
        /\ \A i \in 1 .. calc_queue_length : Queued[i] = data_address[Slot(i - 1)]
    BY <2>2, QueuedSeq
  <2>6. k \in 1 .. Len(Queued)
    BY <2>3, <2>4, <2>5
  <2>7. /\ SubSeq(Queued, 1, k) \in Seq(Addresses) /\ Len(SubSeq(Queued, 1, k)) = k
        /\ \A i \in 1 .. k : SubSeq(Queued, 1, k)[i] = Queued[i]
    BY <2>4, <2>5, <2>6
  <2>8. air' = SubSeq(Queued, 1, k)
    <3>1. \A i \in 1 .. k : i \in 1 .. calc_queue_length
      BY <2>3, <2>4, <2>5
    <3>2. \A i \in 1 .. k : air'[i] = SubSeq(Queued, 1, k)[i]
      BY <2>3, <2>5, <2>7, <3>1
    <3>. QED  BY <2>2, <2>7, <3>2, SeqEqual
  <2>. QED  BY <1>1, <2>1, <2>6, <2>8, FifoSteps
<1>. QED  BY <1>2, <1>3

(* A packet that is queued leaves the transmission alone, or is refused.   *)
LEMMA Accepts ==
  ASSUME RadioInv, NEW a \in Addresses, add_buffer_to_queue(a), UNCHANGED sendVars
  PROVE  Fifo!FifoNext
<1>1. QueueTypes
  BY TypeParts DEF RadioInv
<1>2. InAir' = InAir
  BY DEF sendVars, InAir
<1>3. /\ QueueTypes' /\ \A k : Slot(k)' = Slot(k)
      /\ \A k \in 0 .. calc_queue_length - 1 : data_address'[Slot(k)] = data_address[Slot(k)]
      /\ \/ UNCHANGED queueVars
         \/ /\ calc_queue_length < QUEUE_SIZE - 1
            /\ calc_queue_length' = calc_queue_length + 1
            /\ data_address'[Slot(calc_queue_length)] = a
  BY <1>1, Added
<1>4. CASE UNCHANGED queueVars
  <2>1. Queued' = Queued
    BY <1>4 DEF queueVars, Queued, calc_queue_length, Slot
  <2>. QED  BY <1>2, <2>1, FifoSteps
<1>5. CASE /\ calc_queue_length < QUEUE_SIZE - 1
           /\ calc_queue_length' = calc_queue_length + 1
           /\ data_address'[Slot(calc_queue_length)] = a
  <2>. DEFINE n == calc_queue_length
  <2>1. /\ Queued \in Seq(Addresses) /\ Len(Queued) = n /\ n \in Nat
        /\ \A i \in 1 .. n : Queued[i] = data_address[Slot(i - 1)]
    BY <1>1, QueuedSeq
  <2>2. /\ Queued' \in Seq(Addresses) /\ Len(Queued') = n + 1
        /\ \A i \in 1 .. n + 1 : Queued'[i] = data_address'[Slot(i - 1)']
    <3>1. /\ (Queued \in Seq(Addresses) /\ Len(Queued) = calc_queue_length)'
          /\ (\A i \in 1 .. calc_queue_length : Queued[i] = data_address[Slot(i - 1)])'
      BY <1>3, QueuedSeq, PTL
    <3>. QED  BY <1>5, <3>1
  <2>3. /\ \A k : Slot(k)' = Slot(k)
        /\ \A k \in 0 .. n - 1 : data_address'[Slot(k)] = data_address[Slot(k)]
        /\ data_address'[Slot(n)] = a /\ n < QUEUE_SIZE - 1
    BY <1>3, <1>5
  <2>. HIDE DEF n
  <2>4. \A i \in 1 .. n : Queued'[i] = Queued[i]
    <3>1. \A i \in 1 .. n : i \in 1 .. n + 1 /\ i - 1 \in 0 .. n - 1
      BY <2>1
    <3>. QED  BY <2>1, <2>2, <2>3, <3>1
  <2>5. Queued'[n + 1] = a
    <3>1. n + 1 \in 1 .. n + 1 /\ (n + 1) - 1 = n
      BY <2>1
    <3>2. \A i \in 1 .. n + 1 : Queued'[i] = data_address'[Slot(i - 1)]
      BY <2>2, <2>3
    <3>3. Queued'[n + 1] = data_address'[Slot((n + 1) - 1)]
      BY <3>1, <3>2
    <3>. QED  BY <2>3, <3>1, <3>3
  <2>6. /\ Append(Queued, a) \in Seq(Addresses) /\ Len(Append(Queued, a)) = n + 1
        /\ \A i \in 1 .. n : Append(Queued, a)[i] = Queued[i]
        /\ Append(Queued, a)[n + 1] = a
    BY <2>1, AppendProperties
  <2>7. Queued' = Append(Queued, a)
    <3>1. \A i \in 1 .. n + 1 : i \in 1 .. n \/ i = n + 1
      BY <2>1
    <3>2. \A i \in 1 .. n + 1 : Queued'[i] = Append(Queued, a)[i]
      BY <2>4, <2>5, <2>6, <3>1
    <3>. QED  BY <2>2, <2>6, <3>2, SeqEqual
  <2>. QED  BY <1>2, <2>1, <2>3, <2>7, FifoSteps
<1>. QED  BY <1>3, <1>4, <1>5

(* A confirmation takes out of the queue what the transmission carried,    *)
(* although packets were queued in the meantime.                           *)
LEMMA Confirms ==
  ASSUME RadioInv, send \in {"response", "lora"}, queue_head' = Slot(Len(air)),
         UNCHANGED <<data_address, queue_tail>>, InAir' = <<>>
  PROVE  Fifo!FifoNext
<1>. DEFINE k == Len(air)
            n == calc_queue_length
<1>1. /\ QueueTypes /\ air \in Seq(Addresses) /\ air # <<>> /\ InAir = air /\ k <= n
      /\ \A j \in 1 .. k : air[j] = data_address[Slot(j - 1)]
  BY TypeParts DEF RadioInv, RadioTypeOK, AirInv, Carrying, InAir
<1>2. /\ Queued \in Seq(Addresses) /\ Len(Queued) = n /\ n \in Nat
      /\ \A i \in 1 .. n : Queued[i] = data_address[Slot(i - 1)]
  BY <1>1, QueuedSeq
<1>3. k \in Nat
  BY <1>1, LenProperties
<1>4. /\ QueueTypes' /\ calc_queue_length' = n - k
      /\ \A j \in 0 .. n - k - 1 : Slot(j)' = Slot(k + j)
  <2>1. k \in 0 .. n
    BY <1>1, <1>2, <1>3
  <2>. QED  BY <1>1, <2>1, Removed
<1>5. /\ Queued' \in Seq(Addresses) /\ Len(Queued') = n - k
      /\ \A i \in 1 .. n - k : Queued'[i] = data_address'[Slot(i - 1)']
  <2>1. /\ (Queued \in Seq(Addresses) /\ Len(Queued) = calc_queue_length)'
        /\ (\A i \in 1 .. calc_queue_length : Queued[i] = data_address[Slot(i - 1)])'
    BY <1>4, QueuedSeq, PTL
  <2>. QED  BY <1>4, <2>1
<1>. HIDE DEF n, k
<1>6. \A i \in 1 .. n - k : Queued'[i] = data_address[Slot(k + (i - 1))]
  <2>1. \A i \in 1 .. n - k : i - 1 \in 0 .. n - k - 1
    BY <1>2, <1>3
  <2>. QED  BY <1>4, <1>5, <2>1
<1>7. /\ air \o Queued' \in Seq(Addresses) /\ Len(air \o Queued') = n
      /\ \A i \in 1 .. n : (air \o Queued')[i] = IF i <= k THEN air[i] ELSE Queued'[i - k]
  <2>1. /\ air \o Queued' \in Seq(Addresses) /\ Len(air \o Queued') = k + (n - k)
        /\ \A i \in 1 .. k + (n - k) : (air \o Queued')[i] = IF i <= k THEN air[i] ELSE Queued'[i - k]
    <3>1. /\ air \o Queued' \in Seq(Addresses) /\ Len(air \o Queued') = Len(air) + Len(Queued')
          /\ \A i \in 1 .. Len(air) + Len(Queued') :
                (air \o Queued')[i] = IF i <= Len(air) THEN air[i] ELSE Queued'[i - Len(air)]
      BY <1>1, <1>5, ConcatProperties
    <3>2. Len(air) = k
      BY DEF k
    <3>. QED  BY <1>5, <3>1, <3>2
  <2>2. k + (n - k) = n
    BY <1>2, <1>3
  <2>. QED  BY <2>1, <2>2
<1>8. ASSUME NEW i \in 1 .. n PROVE Queued[i] = (air \o Queued')[i]
  <2>1. CASE i <= k
    <3>1. i \in 1 .. k
      BY <2>1, <1>3
    <3>. QED  BY <2>1, <3>1, <1>1, <1>2, <1>7 DEF k
  <2>2. CASE ~(i <= k)
    <3>1. i - k \in 1 .. n - k /\ k + ((i - k) - 1) = i - 1
      BY <2>2, <1>2, <1>3
    <3>2. Queued'[i - k] = data_address[Slot(k + ((i - k) - 1))]
      BY <3>1, <1>6
    <3>3. Queued'[i - k] = data_address[Slot(i - 1)]
      BY <3>1, <3>2
    <3>. QED  BY <2>2, <3>3, <1>2, <1>7
  <2>. QED  BY <2>1, <2>2
<1>9. Queued = air \o Queued'
  BY <1>2, <1>7, <1>8, SeqEqual
<1>. QED  BY <1>1, <1>9, FifoSteps

(* Every step of the application is a step of the queue.                   *)
LEMMA FifoStep ==
  ASSUME RadioInv, RadioInv', Next \/ UNCHANGED vars
  PROVE  Fifo!FifoNext
<1>t. /\ QueueTypes /\ SendTypes /\ FlagIsSending /\ AirInv
      /\ send # "none" => currently_sending
  BY TypeParts DEF RadioInv, FlagIsSending
<1>q. ASSUME UNCHANGED queueVars, UNCHANGED sendVars PROVE Fifo!FifoNext
  <2>1. Queued' = Queued /\ InAir' = InAir
    BY <1>q DEF queueVars, sendVars, Queued, calc_queue_length, Slot, InAir
  <2>. QED  BY <2>1, FifoSteps
<1>e. ASSUME UNCHANGED queueVars, DoneSending PROVE Fifo!FifoNext
  <2>1. Queued' = Queued /\ InAir' = <<>>
    BY <1>e DEF queueVars, DoneSending, Queued, calc_queue_length, Slot, InAir
  <2>. QED  BY <2>1, FifoSteps
<1>1. CASE TickReturns \/ TickIdle \/ ReportGoesOn \/ StartJoin \/ JoinFails \/ JoinSucceeds \/ UNCHANGED vars
  BY <1>1, <1>q DEF TickReturns, TickIdle, ReportGoesOn, StartJoin, JoinFails, JoinSucceeds, vars
<1>2. CASE TickSends
  <2>1. InAir = <<>> /\ UNCHANGED queueVars
    BY <1>2, <1>t DEF TickSends, InAir
  <2>. QED  BY <2>1, Transmits
<1>3. CASE \E cell \in {"service", "none"} : CellChecked(cell)
  <2>1. InAir = <<>> /\ UNCHANGED queueVars
    BY <1>3 DEF CellChecked, InAir
  <2>. QED  BY <2>1, Transmits
<1>4. CASE CellLost \/ CellFound \/ PackPacket \/ PackDone \/ LoraReceived
  <2>1. InAir = <<>> /\ UNCHANGED queueVars
    BY <1>4 DEF CellLost, CellFound, PackPacket, PackDone, LoraReceived, InAir
  <2>. QED  BY <2>1, Transmits
<1>5. CASE CellPosted
  <2>1. Queued' = Queued /\ InAir' = InAir
    BY <1>5 DEF CellPosted, StillSending, queueVars, Queued, calc_queue_length, Slot, InAir
  <2>. QED  BY <2>1, FifoSteps
<1>6. CASE CellFailed \/ LoraFailed
  BY <1>6, <1>e DEF CellFailed, LoraFailed
<1>7. CASE CellConfirmed
  <2>1. InAir' = <<>> /\ send \in {"response", "lora"} /\ queue_head' = Slot(Len(air))
        /\ UNCHANGED <<data_address, queue_tail>>
    BY <1>7 DEF CellConfirmed, DoneSending, InAir, temp_head
  <2>. QED  BY <2>1, Confirms
<1>8. CASE LoraSent
  <2>1. /\ InAir' = <<>> /\ send = "lora" /\ queue_head' = increment_queue_pointer(queue_head)
        /\ UNCHANGED <<data_address, queue_tail>>
    BY <1>8 DEF LoraSent, StillSending, InAir
  <2>2. Len(air) = 1
    BY <2>1, <1>t DEF AirInv
  <2>3. increment_queue_pointer(queue_head) = Slot(1)
    BY <1>t, QueueAssumption DEF QueueTypes, Slots, increment_queue_pointer, Slot
  <2>. QED  BY <2>1, <2>2, <2>3, Confirms
<1>9. CASE ReportFailed \/ ReportDone
  <2>1. add_buffer_to_queue(Status) /\ UNCHANGED sendVars /\ Status \in Addresses
    BY <1>9 DEF ReportFailed, ReportDone, FinishReport, Addresses
  <2>. QED  BY <2>1, Accepts
<1>10. CASE \E a \in Publishers : Publish(a)
  BY <1>10, Accepts DEF Publish, Addresses
<1>11. CASE Watchdog
  <2>1. quiet = WatchdogTicks /\ InAir' = <<>> /\ calc_queue_length' = 0
    BY <1>11 DEF Watchdog, InAir, calc_queue_length
  <2>2. Queued' = <<>>
    <3>1. QueueTypes'
      BY TypeParts, PTL DEF RadioInv
    <3>2. (Queued \in Seq(Addresses) /\ Len(Queued) = calc_queue_length)'
      BY <3>1, QueuedSeq, PTL
    <3>. QED  BY <2>1, <3>2, EmptySeq
  <2>. QED  BY <2>1, <2>2, FifoSteps
<1>. QED
  BY <1>1, <1>2, <1>3, <1>4, <1>5, <1>6, <1>7, <1>8, <1>9, <1>10, <1>11
     DEF Next, Tick, SendStep, ReportStep, MainStep

(* The ring buffer implements the queue of RadioFifo: what the timer       *)
(* callback confirms is what it sent, and only the watchdog loses packets. *)
THEOREM QueueImplementsFifo == Spec => QueueIsFifo
<1>1. Init => Fifo!FifoInit
  <2>. SUFFICES ASSUME Init PROVE Fifo!FifoInit
    OBVIOUS
  <2>1. QueueTypes
    BY RadioStart, TypeParts DEF RadioInv
  <2>2. calc_queue_length = 0 /\ InAir = <<>> /\ quiet # WatchdogTicks
    BY ResetAssumption DEF Init, calc_queue_length, InAir
  <2>3. Queued = <<>>
    BY <2>1, <2>2, QueuedSeq, EmptySeq
  <2>. QED  BY <2>2, <2>3 DEF Fifo!FifoInit
<1>2. RadioInv /\ RadioInv' /\ [Next]_vars => [Fifo!FifoNext]_(Fifo!fifoVars)
  BY FifoStep
<1>. QED  BY RadioInvariant, <1>1, <1>2, PTL DEF Spec, QueueIsFifo, Fifo!FifoSpec
=============================================================================
