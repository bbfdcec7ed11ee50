----------------------------- MODULE RadioQueue -----------------------------
(***************************************************************************)
(* The radio module's application (radio_module/radio_app/main.c): the     *)
(* packets that modules publish wait in a ring buffer, a timer callback    *)
(* sends the oldest one over LoRa or, when the queue is long, a batch over *)
(* the cellular modem, and every ReportEvery-th callback bills the modules *)
(* for the energy of their packets and queues a status packet.             *)
(*                                                                         *)
(* Execution model.  The application is one thread whose callbacks run     *)
(* where it yields: in every call to a modem and every call of the         *)
(* signpost API.  A timer callback may therefore run on top of another     *)
(* one: while that one sends it returns at once (currently_sending), while *)
(* it reports it sends.  So there are at most a sending callback on top of *)
(* a reporting one on top of main, which joins the LoRa network.           *)
(*                                                                         *)
(* The kernel resets the processor when no callback and no attempt to join *)
(* has tickled its watchdog for WatchdogTicks timer periods.               *)
(*                                                                         *)
(* A packet is the address it came from, which also fixes its length.      *)
(* Left out: the serial number, the packet's bytes, LEDs, the downlink's   *)
(* contents (a downlink is a call during which the callback yields).       *)
(***************************************************************************)
EXTENDS Integers, Sequences

CONSTANTS
  Publishers,       \* modules that publish
  Status,           \* the address of status packets (0x22)
  LengthOf,         \* the length of an address' packets, with their header
  QUEUE_SIZE,
  Long,             \* the queue is long above this length (0.66 * QUEUE_SIZE)
  CELL_POST_SIZE,
  NUMBER_OF_MODULES,
  CountWrap,        \* width of module_packet_count (2^8)
  ReportEvery,      \* 30
  CounterWrap,      \* width of send_counter (2^8)
  SoftAt, HardAt,   \* failures in a row that reset the xdot (10, 40)
  WatchdogTicks,    \* watchdog timeout in timer periods (30)
  ReportTicks       \* bound: timer periods that one report can last

Addresses == Publishers \cup {Status}
Slots == 0 .. QUEUE_SIZE - 1

ASSUME QueueAssumption ==
  /\ QUEUE_SIZE \in Nat \ {0, 1} /\ Long \in Nat
  /\ LengthOf \in [Addresses -> Nat] /\ CELL_POST_SIZE \in Nat
  /\ \A a \in Addresses : LengthOf[a] < CELL_POST_SIZE
ASSUME ReportAssumption ==
  /\ NUMBER_OF_MODULES \in Nat \ {0} /\ CountWrap \in Nat \ {0} /\ ReportTicks \in Nat
  /\ ReportEvery \in Nat \ {0} /\ CounterWrap \in Nat /\ ReportEvery + ReportTicks < CounterWrap
ASSUME ResetAssumption ==
  /\ SoftAt \in Nat \ {0} /\ HardAt \in Nat /\ SoftAt < HardAt
  /\ WatchdogTicks \in Nat \ {0}

VARIABLES
  data_address,       \* the ring buffer
  queue_head,
  queue_tail,
  currently_sending,
  send,               \* the call in which the sending callback waits, or "none"
  air,                \* the packets of the transmission, from queue_head to temp_head
  used,               \* the length of those in cell_buffer
  cellular_state,     \* "service" or "none"
  lora_state,         \* "joined" or "error"
  joining,            \* main is in join_lora_network
  fail_counter,
  known,              \* module_num_map up to its first 0
  count,              \* module_packet_count
  send_counter,
  report,             \* the call in which the reporting callback waits, or "none"
  quiet               \* timer periods since the watchdog was tickled

queueVars == <<data_address, queue_head, queue_tail>>
sendVars == <<currently_sending, send, air, used>>
loraVars == <<lora_state, joining, fail_counter>>
countVars == <<known, count>>
vars == <<queueVars, sendVars, cellular_state, loraVars, countVars, send_counter, report,
          quiet>>

Init ==
  /\ data_address = [i \in Slots |-> Status]
  /\ queue_head = 0 /\ queue_tail = 0
  /\ currently_sending = FALSE /\ send = "none" /\ air = <<>> /\ used = 0
  /\ cellular_state = "none"
  /\ lora_state = "error" /\ joining = FALSE /\ fail_counter = 0
  /\ known = <<>> /\ count = <<>>
  /\ send_counter = 0
  /\ report = "none"
  /\ quiet = 0

-----------------------------------------------------------------------------
\* The ring buffer

increment_queue_pointer(p) == IF p = QUEUE_SIZE - 1 THEN 0 ELSE p + 1

calc_queue_length == IF queue_tail >= queue_head THEN queue_tail - queue_head
                     ELSE QUEUE_SIZE - (queue_head - queue_tail)

\* The slot k places behind the head; temp_head is the one behind the packed packets.
Slot(k) == IF queue_head + k < QUEUE_SIZE THEN queue_head + k ELSE queue_head + k - QUEUE_SIZE
temp_head == Slot(Len(air))

\* The queue's packets, oldest first.
Queued == [i \in 1 .. calc_queue_length |-> data_address[Slot(i - 1)]]

IsFull == increment_queue_pointer(queue_tail) = queue_head

\* A packet that does not fit is refused.
add_buffer_to_queue(addr) ==
  IF IsFull THEN UNCHANGED queueVars
  ELSE /\ data_address' = [data_address EXCEPT ![queue_tail] = addr]
       /\ queue_tail' = increment_queue_pointer(queue_tail)
       /\ UNCHANGED queue_head

\* Mutant of count_module_packet: a module that is known is entered again.
CountAsNew(a) ==
  IF Len(known) < NUMBER_OF_MODULES
  THEN known' = Append(known, a) /\ count' = Append(count, 1 % CountWrap)
  ELSE UNCHANGED countVars

\* A module is entered in the table with its first packet, as long as there is room.
count_module_packet(a) ==
  \/ \E i \in DOMAIN known : /\ known[i] = a
                             /\ count' = [count EXCEPT ![i] = (@ + 1) % CountWrap]
                             /\ UNCHANGED known
  \/ /\ \A i \in DOMAIN known : known[i] # a
     /\ IF Len(known) < NUMBER_OF_MODULES
        THEN known' = Append(known, a) /\ count' = Append(count, 1 % CountWrap)
        ELSE UNCHANGED countVars

-----------------------------------------------------------------------------
\* The timer callback

\* Other callbacks run only where the application yields, which the packing does not.
Yielding == send # "pack"

\* track_failures; only its comparisons with SoftAt and HardAt matter, so that the
\* counter stops behind the second of them.
track_failures ==
  /\ fail_counter' = IF fail_counter > HardAt THEN fail_counter ELSE fail_counter + 1
  /\ lora_state' = IF fail_counter' \in {SoftAt, HardAt} THEN "error" ELSE lora_state

\* The end of a callback: it counts, starts a report when it is due, and tickles the
\* watchdog; q is the watchdog's count if it does not.  Without memory for the reports
\* the callback returns before it tickles.
EndCallback(q) ==
  /\ send_counter' = (send_counter + 1) % CounterWrap
  /\ \/ /\ send_counter' # ReportEvery
        /\ quiet' = 0
        /\ UNCHANGED report
     \/ /\ send_counter' = ReportEvery
        /\ quiet' = q
        /\ UNCHANGED report
     \/ /\ send_counter' = ReportEvery
        /\ report' = "query"
        /\ quiet' = q

StillSending(call, q) ==
  /\ currently_sending' = TRUE /\ send' = call
  /\ quiet' = q
  /\ UNCHANGED <<send_counter, report>>

DoneSending == currently_sending' = FALSE /\ send' = "none" /\ air' = <<>> /\ used' = 0

\* The choice of the radio, when the modem's state is known (cell): a long queue goes
\* over the modem, whose service is checked first; otherwise one packet over LoRa, if
\* the network is joined.
ChooseRadio(cell, q) ==
  \/ /\ calc_queue_length > Long /\ cell = "service"
     /\ StillSending("checkAgain", q)
     /\ UNCHANGED <<air, used, countVars>>
  \/ /\ ~(calc_queue_length > Long /\ cell = "service")
     /\ lora_state = "joined"
     /\ count_module_packet(data_address[queue_head])
     /\ air' = <<data_address[queue_head]>> /\ UNCHANGED used
     /\ StillSending("lora", q)
  \/ /\ ~(calc_queue_length > Long /\ cell = "service")
     /\ lora_state # "joined"
     /\ DoneSending
     /\ EndCallback(q)
     /\ UNCHANGED countVars

\* Mutant of TickReturns: the watchdog is tickled first of all.
TickReturnsTickled ==
  /\ quiet < WatchdogTicks /\ Yielding
  /\ currently_sending
  /\ quiet' = 0
  /\ UNCHANGED <<queueVars, sendVars, cellular_state, loraVars, countVars, send_counter,
                 report>>

\* timer_callback while another one sends.
TickReturns ==
  /\ quiet < WatchdogTicks /\ Yielding
  /\ currently_sending
  /\ quiet' = quiet + 1
  /\ UNCHANGED <<queueVars, sendVars, cellular_state, loraVars, countVars, send_counter,
                 report>>

\* timer_callback with an empty queue.
TickIdle ==
  /\ quiet < WatchdogTicks
  /\ report # "none" => send_counter < ReportEvery + ReportTicks
  /\ ~currently_sending /\ queue_head = queue_tail
  /\ EndCallback(quiet + 1)
  /\ UNCHANGED <<queueVars, sendVars, cellular_state, loraVars, countVars>>

\* timer_callback that sends: without service it first asks the modem.
TickSends ==
  /\ quiet < WatchdogTicks
  /\ report # "none" => send_counter < ReportEvery + ReportTicks
  /\ ~currently_sending /\ queue_head # queue_tail
  /\ \/ /\ cellular_state = "none"
        /\ StillSending("check", quiet + 1)
        /\ UNCHANGED <<air, used, countVars>>
     \/ /\ cellular_state = "service"
        /\ ChooseRadio("service", quiet + 1)
  /\ UNCHANGED <<queueVars, cellular_state, loraVars>>

\* sara_u260_check_connection, at the start of the callback.
CellChecked(cell) ==
  /\ send = "check"
  /\ cellular_state' = cell
  /\ ChooseRadio(cell, quiet)
  /\ UNCHANGED <<queueVars, loraVars>>

\* Mutant of CellLost: the early return forgets currently_sending.
CellLostSending ==
  /\ send = "checkAgain"
  /\ cellular_state' = "none"
  /\ send' = "none"
  /\ UNCHANGED <<currently_sending, air, used, queueVars, loraVars, countVars, send_counter,
                 report, quiet>>

\* The second check finds no service: the callback returns, and tickles no watchdog.
CellLost ==
  /\ send = "checkAgain"
  /\ cellular_state' = "none"
  /\ DoneSending
  /\ UNCHANGED <<queueVars, loraVars, countVars, send_counter, report, quiet>>

\* It finds service.
CellFound ==
  /\ send = "checkAgain"
  /\ StillSending("pack", quiet)
  /\ UNCHANGED <<air, used, queueVars, cellular_state, loraVars, countVars>>

\* A packet is packed and counted.  The room that is left is compared with the length
\* of the queue's first packet, not with that of the packet to be added.
HasRoom == used + LengthOf[data_address[queue_head]] < CELL_POST_SIZE

PackPacket ==
  /\ send = "pack" /\ HasRoom
  /\ air' = Append(air, data_address[temp_head])
  /\ used' = used + LengthOf[data_address[temp_head]]
  /\ count_module_packet(data_address[temp_head])
  /\ StillSending(IF increment_queue_pointer(temp_head) = queue_tail THEN "post" ELSE "pack", quiet)
  /\ UNCHANGED <<queueVars, cellular_state, loraVars>>

\* No other one fits.
PackDone ==
  /\ send = "pack" /\ ~HasRoom
  /\ StillSending("post", quiet)
  /\ UNCHANGED <<air, used, queueVars, cellular_state, loraVars, countVars>>

\* sara_u260_basic_http_post succeeds, and the response is fetched.
CellPosted ==
  /\ send = "post"
  /\ StillSending("response", quiet)
  /\ UNCHANGED <<air, used, queueVars, cellular_state, loraVars, countVars>>

\* The post fails, or its response is missing or not "200 OK": nothing leaves the queue.
CellFailed ==
  /\ send \in {"post", "response"}
  /\ DoneSending
  /\ EndCallback(quiet)
  /\ UNCHANGED <<queueVars, cellular_state, loraVars, countVars>>

\* Mutant of CellConfirmed: everything that is queued leaves, not what was packed.
CellConfirmedAll ==
  /\ send = "response"
  /\ queue_head' = queue_tail
  /\ DoneSending
  /\ EndCallback(quiet)
  /\ UNCHANGED <<data_address, queue_tail, cellular_state, loraVars, countVars>>

\* "200 OK": the head moves behind the packed packets.
CellConfirmed ==
  /\ send = "response"
  /\ queue_head' = temp_head
  /\ DoneSending
  /\ EndCallback(quiet)
  /\ UNCHANGED <<data_address, queue_tail, cellular_state, loraVars, countVars>>

\* xdot_send fails.
LoraFailed ==
  /\ send = "lora"
  /\ track_failures
  /\ DoneSending
  /\ EndCallback(quiet)
  /\ UNCHANGED <<joining, queueVars, cellular_state, countVars>>

\* xdot_send succeeds; the callback goes on to fetch and pass on a downlink message.
LoraSent ==
  /\ send = "lora"
  /\ fail_counter' = 0
  /\ queue_head' = increment_queue_pointer(queue_head)
  /\ air' = <<>> /\ UNCHANGED used
  /\ StillSending("receive", quiet)
  /\ UNCHANGED <<data_address, queue_tail, cellular_state, lora_state, joining, countVars>>

LoraReceived ==
  /\ send = "receive"
  /\ DoneSending
  /\ EndCallback(quiet)
  /\ UNCHANGED <<queueVars, cellular_state, loraVars, countVars>>

-----------------------------------------------------------------------------
\* The energy report

\* The report's callback goes on only when no other callback runs on top of it.
Reporting(call) == report = call /\ ~currently_sending

\* The status packet is queued, and the callback ends.
FinishReport ==
  /\ add_buffer_to_queue(Status)
  /\ send_counter' = 0
  /\ report' = "none"
  /\ quiet' = 0

\* signpost_energy_query or signpost_energy_report fails.
ReportFailed ==
  /\ Reporting("query") \/ Reporting("report")
  /\ FinishReport
  /\ UNCHANGED <<sendVars, cellular_state, loraVars, countVars>>

\* The query is answered, the energy shared out and the report sent; then, when the
\* controller has acknowledged the report, the module's energy is reset.
ReportGoesOn ==
  /\ \/ Reporting("query") /\ report' = "report"
     \/ Reporting("report") /\ report' = "reset"
  /\ UNCHANGED <<queueVars, sendVars, cellular_state, loraVars, countVars, send_counter,
                 quiet>>

\* signpost_energy_reset returns, with or without success: the counts start anew.
ReportDone ==
  /\ Reporting("reset")
  /\ count' = [i \in DOMAIN count |-> 0]
  /\ FinishReport
  /\ UNCHANGED <<known, sendVars, cellular_state, loraVars>>

-----------------------------------------------------------------------------
\* The other callbacks, and main

\* networking_api_callback: a module publishes.
Publish(a) ==
  /\ Yielding
  /\ add_buffer_to_queue(a)
  /\ UNCHANGED <<sendVars, cellular_state, loraVars, countVars, send_counter, report,
                 quiet>>

\* main runs when no callback does.
InMain == ~currently_sending /\ report = "none"

\* Mutant of StartJoin: the network counts as joined before it is.
StartJoinOptimistic ==
  /\ InMain /\ ~joining /\ lora_state # "joined"
  /\ joining' = TRUE /\ lora_state' = "joined"
  /\ UNCHANGED <<fail_counter, queueVars, sendVars, cellular_state, countVars, send_counter,
                 report, quiet>>

\* The loop of main finds that the network is not joined.
StartJoin ==
  /\ InMain /\ ~joining /\ lora_state # "joined"
  /\ joining' = TRUE
  /\ UNCHANGED <<lora_state, fail_counter, queueVars, sendVars, cellular_state, countVars,
                 send_counter, report, quiet>>

\* join_lora_network: every attempt tickles the watchdog.
JoinFails ==
  /\ InMain /\ joining
  /\ track_failures
  /\ quiet' = 0
  /\ UNCHANGED <<joining, queueVars, sendVars, cellular_state, countVars, send_counter,
                 report>>

JoinSucceeds ==
  /\ InMain /\ joining
  /\ joining' = FALSE /\ lora_state' = "joined" /\ fail_counter' = 0
  /\ quiet' = 0
  /\ UNCHANGED <<queueVars, sendVars, cellular_state, countVars, send_counter, report>>

\* The kernel's watchdog resets the processor: the queue and all else is lost.
Watchdog ==
  /\ quiet = WatchdogTicks /\ Yielding
  /\ data_address' = [i \in Slots |-> Status]
  /\ queue_head' = 0 /\ queue_tail' = 0
  /\ currently_sending' = FALSE /\ send' = "none" /\ air' = <<>> /\ used' = 0
  /\ cellular_state' = "none"
  /\ lora_state' = "error" /\ joining' = FALSE /\ fail_counter' = 0
  /\ known' = <<>> /\ count' = <<>>
  /\ send_counter' = 0
  /\ report' = "none"
  /\ quiet' = 0

Tick == TickReturns \/ TickIdle \/ TickSends
SendStep ==
  \/ \E cell \in {"service", "none"} : CellChecked(cell)
  \/ CellLost \/ CellFound \/ PackPacket \/ PackDone \/ CellPosted \/ CellFailed \/ CellConfirmed
  \/ LoraFailed \/ LoraSent \/ LoraReceived
ReportStep == ReportFailed \/ ReportGoesOn \/ ReportDone
MainStep == StartJoin \/ JoinFails \/ JoinSucceeds

Next == Tick \/ SendStep \/ ReportStep \/ MainStep \/ Watchdog \/ \E a \in Publishers : Publish(a)

\* The processor goes on, the timer runs and the kernel's watchdog fires.  Nothing is
\* assumed of the modems, whose drivers wait for some events without a timeout.
Fairness == WF_vars(PackPacket \/ PackDone) /\ WF_vars(Tick) /\ WF_vars(Watchdog)

Spec == Init /\ [][Next]_vars
FairSpec == Spec /\ Fairness

-----------------------------------------------------------------------------
\* Properties

\* Type invariant: in particular the queue's indices stay in the buffer, and no two
\* entries of the table of modules are for the same one.
RadioTypeOK ==
  /\ data_address \in [Slots -> Addresses]
  /\ queue_head \in Slots /\ queue_tail \in Slots
  /\ currently_sending \in BOOLEAN
  /\ send \in {"none", "check", "checkAgain", "pack", "post", "response", "lora",
               "receive"}
  /\ air \in Seq(Addresses) /\ used \in Nat
  /\ cellular_state \in {"service", "none"}
  /\ lora_state \in {"joined", "error"} /\ joining \in BOOLEAN
  /\ fail_counter \in 0 .. HardAt + 1
  /\ known \in Seq(Addresses) /\ Len(known) <= NUMBER_OF_MODULES
  /\ \A i, j \in DOMAIN known : known[i] = known[j] => i = j
  /\ count \in Seq(0 .. CountWrap - 1) /\ Len(count) = Len(known)
  /\ send_counter \in 0 .. CounterWrap - 1
  /\ report \in {"none", "query", "report", "reset"}
  /\ quiet \in 0 .. WatchdogTicks

\* The queue is a FIFO (see RadioFifo): whatever is published while a transmission is
\* on its way (172), what it confirms is what it carried (305, 336).
\* A batch that is being packed is not yet on its way.
InAir == IF send \in {"post", "response", "lora"} THEN air ELSE <<>>

Fifo == INSTANCE RadioFifo WITH Packets <- Addresses, Capacity <- QUEUE_SIZE - 1,
                                waiting <- Queued, inAir <- InAir,
                                expired <- quiet = WatchdogTicks
QueueIsFifo == Fifo!FifoSpec

\* The join and a transmission never talk to the xdot at the same time: main joins at
\* any time between callbacks (536), and these may interrupt it (225).
XdotForOne == joining => send \notin {"lora", "receive"}

\* currently_sending is set exactly while some callback sends, so that it neither lets a
\* second one in nor keeps all of them out (231).
FlagIsSending == currently_sending <=> send # "none"

\* A modem that hangs does not stop the radio for good: no callback tickles the
\* watchdog while another one sends (231), so that the kernel restarts the module.
HangIsBroken == currently_sending ~> ~currently_sending

=============================================================================
