# Signpost: TLA+ models, checks and proofs

Signpost is a modular sensing platform: a backplane *controller* (a Tock
process on a microcontroller) switches the power and the shared I2C bus of up to
eight module slots, initializes the modules, accounts for their energy and
watches over them; a *radio* module relays packets and downlink commands, a
*storage master* keeps logs, and sensor modules use their services through
*libsignpost*. This directory models the part of that code in which the order of
events matters: callbacks nested in delays and in switch calls, packets that overwrite one another,
retries, restarts, power that comes and goes.

Paths below are relative to `src/signpost/apps/` unless they start with `docs/`
or `server/` (under `src/`) or `kernel/` (under `src/signpost/`).

## 1. Inventory

| component | code | state | operations | hard behaviour |
|---|---|---|---|---|
| Controller | `libsignpost-tock/signpost_controller.c`, `controller.c` | per slot: isolation state, power and I2C switch, failures, watchdog flags; who is isolated; re-entrancy guard; watchdog tickles | 300 ms isolation check, 60 s watchdog check, 10 min energy update, energy / watchdog / initialization messages, duty-cycle timers, downlinks, restart | callbacks run inside the delays, the energy reads and the switch calls of others; commands for one slot that overlap; three power cycles of one slot; restart in the middle of isolation |
| Module initialization | `libsignpost/signpost_api.c`, the two ports | state machine, isolation flags, address, active callback, MOD_OUT | request isolation, declare, adopt an address, back off and retry | stale flags, late answers, edges of MOD_IN, everyone at address 0 |
| Message layer | `libsignpost/signbus_io_interface.c`, `signbus_protocol_layer.c`, `signpost_api.c` | the driver's buffer, the packet buffer, one asynchronous receive, one message buffer | send in fragments, receive, reassemble, check the hash, hand over, re-arm | packets overwritten before their callback runs, lost ends, receives nested in sends |
| Application layer and calls | `libsignpost/signbus_app_layer.c`, `signpost_api.c` | one active callback, one callback and data pointer per service | dispatch commands, match responses, time out | late answers, busy for ever, a callback registered after the request |
| Energy policy | `libsignpost-tock/signpost_energy_policy.c`, `..._monitors.c`, `i2c_selector.c` | remaining and used energy per slot, the coulomb counters, the selected channel, the FRAM's copy | update, distribute, report, query, reset, restart | an update that yields while queries move its selector, caps and spill-over, a failing gauge, energy that changed during a restart |
| Radio | `radio_module/radio_app*/main.c` | circular packet queue, modem states, failure counter, packet counts | enqueue, send over LoRa or cellular, join, reset modem, report energy | queue at its limit, callbacks nested in one another and in the join, modems that hang |
| Controller application | `controller/signpost_controller/main.c` | two timers | publish energy and GPS, tickle the watchdogs on success | a publish that never returns |
| Storage master | `storage_master/storage_manager/main.c`, `signpost_storage.c` | log records on a card | scan, read, write, delete | one step of several failing |
| Kernel drivers | `kernel/signpost_drivers/src` | watchdog alarms, UART and SMBus buffers | tickle, time out, transfer | two watchdogs on one timer type |
| Modem and GPS libraries | `sara_u260.c`, `xdot.c`, `gps.c`, ... | dialogue state | AT commands | blocking I/O |
| Sensor modules | `ambient_module`, `audio_module`, ... | none of their own | sample and publish | clients of the layers above |
| Server, tools, boards | `server/`, `tools/`, `kernel/boards` | none | one message in, one out | none modelled |

**How they interact.** A module asks for isolation with its MOD_OUT pin; the
controller polls these pins every 300 ms, cuts the other slots off the bus, and
answers on MOD_IN. The module then declares itself with one I2C message, gets its
address in the answer and raises MOD_OUT. All later interaction is by I2C
messages on the shared bus, every node being master and slave. Within a node
there is a single thread; callbacks run when the process yields (waits, delays,
I2C writes) and nest on one stack.

**What makes each part correct.**

- *Controller*: at most one MOD_IN low and for the slot that is booked as
  isolated; the check is not re-entered; isolation ends; afterwards every enabled
  slot is on the bus or about to be; enabled slots have power or are about to;
  slots turned off are off the bus or about to be, all of it unless two commands
  for the slot overlapped; the kernel's watchdog is tickled.
- *Module initialization*: no module ends with an address assigned to another
  one; the registry says what the modules believe; a module tries until it is
  initialized.
- *Message layer*: handlers get whole messages, from their senders, in order; a
  receiver does not stay deaf; a send returns.
- *Calls*: only a response wakes a call that waits for one; a call that returns
  does not leave the callback pointer behind; a call with a timeout returns, unless
  something nested in it never does.
- *Energy*: the accounts hold no more than the battery, until a restart goes back
  to an older copy; from there on nothing gets them further ahead of it; what is
  shared out is conserved and capped, and the sharing ends.
- *Radio*: a bounded FIFO that drops only what was confirmed; one transmission at
  a time, and none during a join; a hanging modem does not stop it for good.

## 2. Modules

| module | what it is |
|---|---|
| `ControllerSlots` | the controller's slots, isolation, watchdog, duty cycles, downlinks, restart |
| `Isolation` | `ControllerSlots` composed with the modules' state machine, the pins and the declaration on the bus |
| `SignbusIo` | one node's reception of messages sent in fragments by others, and its own sends |
| `BestEffort` | the abstract channel that `SignbusIo` implements |
| `ApiCalls` | the calls a module makes to the other modules' services, and their one callback pointer |
| `EnergyPolicy` | the energy accounts, the counters and the update that shares out the battery |
| `RadioQueue` | the radio's packet queue, its timer callback, its join and its watchdog |
| `RadioFifo` | the abstract queue that `RadioQueue` implements |
| `MCControllerSlots`, `MCIsolation`, `MCSignbusIo`, `MCApiCalls`, `MCEnergyPolicy`, `MCRadioQueue` | values of the constants for TLC |
| `StackLemmas` | what pushing and popping a frame does to a sequence |
| `ControllerSlotsProofs` | type correctness, and the isolation check is not re-entered |
| `ControllerSlotsSafety` | the invariant of the pins, and those of bus and power from their inductive invariant |
| `IsolationProofs` | the composition implements `ControllerSlots`; the invariants of modules and registry |
| `SignbusIoProofs` | type correctness of the message layer, an idle receiver is armed, and the refinement of `BestEffort` for messages of one packet |
| `ApiCallsProofs` | type correctness of the calls, and their two safety properties |
| `EnergyPolicyProofs` | sums over finite sets, type correctness of the accounts, the ledger and the spill loop, and what the finding `EnergyReset` takes |
| `RadioQueueProofs` | type correctness of the radio, its two exclusions, and the refinement of `RadioFifo` |

### ControllerSlots

Variables are the C variables (`module_state[s].isolation_state` is
`isolationState[s]`, and so on), the switches of `controller.c`, the pins, and
`stack`: the suspended callbacks, innermost last. What suspends a callback is a
delay, a read of the energy ledger, and every call of a power or I2C switch:
`controller.c:154-203` calls `gpio_async_*_sync`, which sends to a port expander
over an I2C bus and yields until it has answered. A frame is the call its callback
waits for, and only the top frame may go on (`Resume`), because a call returns to
its caller only when the callbacks nested in it are over. `ExpanderWrites` is the
expander: it carries out the write of any suspended call, once, at some time before
that call returns. A yield before the first test or assignment of a callback is
a later start of it and is left out; so is a yield that follows another one with
nothing in between.

- `check_module_init_cb` is `CheckGrant`, `CheckNobody`, `CheckReleased`,
  `CheckTimedOut`, `CheckPowerCycle` and `CheckStillIsolated`, one per path, each up
  to its first yield. `DisconnectNext`, `SignalGrant` and `FinishGrant` go on with a
  grant, slot after slot; `ReconnectNext` with `enable_all_enabled_i2c`, which tests
  each slot when its turn comes; `PowerAgain` and `FinishPowerCycle` with the power
  cycle. `CheckReleased` leaves the failures alone: the code clears those of slot
  0xff, `mod_isolated_out` being -1 by then. What that stray write hits depends on
  the linker and is taken to have no effect on these variables.
- The energy update, the duty-cycle message and its timer, and the downlinks all
  record a slot's new state, then call its power switch, then its I2C switch:
  `Command`, `SwitchBus`, and `FinishCommand` or `UpdateNext`. `UpdateFrom` reads and
  tests one slot after the other. Of the energy ledger only the sign of a slot's
  remaining energy is kept, and it may be either at each read (`EnergyLeft`); the
  storage master's entry is never credited.
- `check_watchdogs_cb` scans the slots and stops at the first silent one
  (`ScanFrom`); the rest of the loop follows its power cycle (`WatchdogNext`).
- `Reboot` is the hardware watchdog's reset after a "signpost reset" downlink.
  The storage master has no switches, so it does not notice.
- A message may be handled after its sender has been cut off or has lost power.
- `overlapped` is the model's own: the slots whose last command began while another
  callback was in the middle of switching the same slot, or while the isolation
  check was connecting it. The code has no guard against that, and such a slot
  may end with switches that contradict its state (section 3).

Assumed: each call of a switch takes effect exactly once before it returns. The code
ignores the result, and an expander that fails is not modelled. The energy update
(every 10 min) and the watchdog check (every 60 s) do not fire again inside their own
calls. The replies that a handler sends and the 50 ms pulse of the hardware watchdog
have no test or assignment of this state around them and are parts of steps; the
MOD_IN and MOD_OUT pins are plain GPIO calls that do not yield.

### Isolation

Each module's record holds the static variables of `signpost_api.c`, and `pc`
says in which wait of the loop it is; a module that has power but has not enabled
MOD_IN's interrupts yet is in `Boot`. `TracksRising` selects the port: on mbed
both edges of MOD_IN have a callback, on Tock the pin has one edge and one
callback, and the falling edge, enabled last, is the one delivered. The bus is
`inbox` (one declaration in the controller's process; a second packet overwrites
it) and each module's `reply`. Tock queues a process's callbacks in order. So the
isolation check can run at most once between a declaration's arrival and its
handling, if its timer was queued before it (`Overtake`); any number of other
callbacks and of suspended ones' steps may come before it. A module has handled the
answers that reached it before it leaves a delay (`Quiet`).

*Timing assumption (`Timely`)*: from the grant, an attempt takes 50 + 500 + 100 ms,
and the controller withdraws isolation no sooner than 1000 ms + 10 · 300 ms after
it; so MOD_IN does not rise on a powered module in its attempt. All runs use it;
power may still go at any time.

### SignbusIo

A unit of data stands for a part of a message; packets carry up to
`FragmentUnits`. The driver has one buffer (`slaveWriteBuf`), written by every
packet addressed to the node, and queues a callback with the packet's length
(`upcalls`): the callback copies that many bytes of whatever the buffer holds
then. The kernel's I2C driver writes only as many bytes as arrived, so stale
bytes stay behind them. `get_message` is a frame "receive" on the stack with what
it has received of which message; `SlaveWriteCallback`, `DropPacket`,
`TakeFragment`, and the three ends of a receive (`NobodyToCall`,
`RefuseMessage`, `HandleMessage`) are its steps. A send yields while the I2C
write goes on: frames "send" (the application's) and "reply" (a handler's); both
re-arm the receive when they end. The hash at the end of a message covers all
of it, and no two contents collide.

*Timing assumption (`AppSend`)*: the application's timer has a period far longer
than an I2C write, so when it fires the last send is over or has a receive
waiting inside it.

### ApiCalls

Seventeen calls of `signpost_api.c` send a request or wait for its answer, and
they differ in five or six details: whether they refuse when a callback is
registered, when they register their own and reset their flag (before or after
the send), whether they wait, and what they clean up when the send fails or the
wait times out. `Api` is a table of these details, one row per C function
(`StorageScan`, `EnergyReport`, ...); `Issue`, `Sent`, `SendFails`, `AfterSend`,
`Wake` and `Timeout` are the steps all of them go through. `stack` holds the
calls in progress: a call may be made from a callback that runs while another one
sends or waits. A receive, too, may begin in a call's yield and wait for the rest of a
message (`receiving`, `ReceiveBegins`, `ReceiveEnds`): until it ends the call around it
does not go on. `Respond` is `signpost_api_recv_callback`: it clears the pointer
and calls what was registered, whatever the response answers. Answers may be
late or lost (`Lose`), and their requests may be forgotten by then. The field
`heard` of a frame is the model's own; it records that a callback of the call's own
kind was given a response since the call was made.

Peculiarities kept as they are: `storage_scan` tests the send's result after the
wait, so that it always takes the path of a timeout; `storage_write` and
`storage_delete` do not wait, their wait being commented out; `energy_query`
leaves `energy_cb` set when it times out; the watchdog calls have no timeout;
`get_module_state` waits even if its send failed.

### EnergyPolicy

The update of `signpost_energy_policy.c` yields in each I2C transfer: `Select`
and `ReadCounter` (or `ResetCounter`) are separate steps, and `Query` and
`ResetUsed` run between them and move the selector. `ReadBattery`, `Apply`,
`Spill` (a round of the loop at `:417`), `Copy` and `Save` are the rest of
`update_energy_policy_cb`. Between `Apply` and `Copy` the code does not yield, so
no other action is enabled (`Computing`). `Report` moves energy between accounts.
`Restart` takes the accounts from the FRAM and the battery from the gauge; when
the gauge fails it makes both up. Energies are integers, and shares are divided
as the code divides them. One variable is the model's own: `since`, what a module
has drawn since its reset. `Select` is one step, although
`i2c_selector_select_channels_sync` sets three selectors in turn and yields at each:
the last call to come decides. Two overlapping calls can also leave two channels open
at once, and two handlers can disturb each other's transfers (`Query` and `ResetUsed`
are single steps too): neither is modelled.

### RadioQueue

`data_address`, `queue_head`, `queue_tail` and the other variables are those of
`radio_app/main.c`; a packet is represented by the address it came from, which
fixes its length. `send` says in which call to a modem the sending callback
waits, `report` in which call of the energy API the reporting one does, and
`joining` that `main` is in `join_lora_network`: these three are all that can be
nested, since a callback that finds `currently_sending` set returns
(`TickReturns`). `timer_callback` is `TickIdle` or `TickSends`, then the steps of
the cellular path (`CellChecked`, `CellLost`, `CellFound`, `PackPacket`,
`PackDone`, `CellPosted`, `CellFailed`, `CellConfirmed`) or of LoRa (`LoraFailed`,
`LoraSent`, `LoraReceived`), and its end (`EndCallback`), which starts the report
or tickles the watchdog. `Watchdog` is the kernel's (`app_watchdog.rs`): when
nothing has tickled it for `WatchdogTicks` periods, the processor is reset.

*Timing assumption*: a report, whose calls all have timeouts, lasts at most
`ReportTicks` timer periods; no receive nested in them hangs.

## 3. Runs

All passing runs are exhaustive for their bounds.

| run | shows | result |
|---|---|---|
| `CtlBus` | pins, switches and bookkeeping are consistent in all interleavings of callbacks, switch calls and delays (`TypeOK`, `CheckNotReentered`, `OneModInLow`); what is out of step is about to be switched, unless commands overlapped (`BusRestored`, `EnabledHasPower`, `OffIsDeaf`) | holds, 2.8 M states |
| `CtlLive` | isolation ends; the kernel's watchdog is tickled again and again | holds, 244 k states |
| `IsoTock` | module and storage master, downlinks, reboots: registry and modules agree (`RegistrySound`, `InitializedIsRegistered`), an attempt is made in isolation (`AttemptIsIsolated`) | holds, 310 k states |
| `IsoMbed` | two modules at address 0: no address is stolen (`NoStolenAddress`), the flag follows the pin | holds, 1.64 M states |
| `IsoLive` | a module is eventually initialized | holds, 33 k states |
| `IoPackets` | messages of one packet: implements `BestEffort` | holds, 71 k states |
| `IoFragments` | messages of several packets: an idle receiver is armed (`IdleReceives`), a deaf one hears again (`ReceivesAgain`) | holds, 15 k states |
| `ApiCalls` | all calls, nested: callbacks do not outlive their calls (`ActiveHasOwner`), only a response given to the call's own kind of callback wakes it (`WokenByAnswer`), timeouts work unless something nested blocks for ever (`TimedCallsReturn`) | holds, 449 k states |
| `EnergyShare` | until a restart the accounts hold no more than the battery (`NotOverdrawn`), and nothing but a restart gets them further ahead of it (`OverdraftNeverGrows`); the spill loop conserves it (`SpillConserves`), respects the caps (`SurplusIsCapped`) and ends (`UpdateEnds`) | holds, 0.58 M states |
| `RadioQueue` | the queue implements `RadioFifo` (`QueueIsFifo`); one transmission at a time (`FlagIsSending`), none during a join (`XdotForOne`); a hang is broken (`HangIsBroken`) | holds, 1.1 M states |
| `IoSource` | a message is handled as coming from another module | violated |
| `EnergyReset` | a module is charged with what another one has used | violated |

**Bounds, and why they are enough.**

- Two slots, one in `IsoLive`: the bookkeeping is about one slot against the others,
  and the loops over slots differ only between the first slot and a later one. In
  `CtlBus`, `CtlLive` and `IsoTock` one of the two is the storage master, which has no
  switches but can be isolated.
- `IsolationTimeout` 0 or 1 (10 in the code) and `MaxInitFailures` 0 or 1 (4 in
  the code): every path, the one above the limit included, is taken.
- `MaxUpdates`, `MaxDutyTimers`, `MaxCommands` 1 in `CtlBus`: the energy update, a
  timer of an earlier duty cycle and a suspended duty-cycle or downlink command meet
  one another, the check and its power cycle inside each of their calls, so that
  commands overlap. `IsoLive` has the update too. In `IsoMbed` one of the two modules
  is duty cycled, so that its timer connects it to the bus while the other one has
  its private channel: without that no answer could reach the wrong module. `CtlLive`
  and `IsoTock` have neither update nor commands (`MaxUpdates` 0) but reboots or a
  watchdog's power cycles, which are nested in the check and take a module's power in
  the middle of its initialization. The invariants of
  these four runs are proved in section 5 for any slots and bounds, updates and
  commands included.
- `FragmentUnits` 2 with lengths {1, 2} (a short and a full packet) or {1, 3} (a
  message of two packets, the second one shorter), two senders, `MaxMessages` 1
  or 2. Two messages of a sender are what misattribution needs (an old message
  in the buffer, then a tail). In `IoFragments` there are at most four packets,
  and `MaxSends` 5 is more than the receives that can ever be nested, so the
  bound never keeps the application from sending.
- `ApiCalls`: sixteen of the seventeen calls (`storage_delete` has the row of
  `storage_write`), two in progress at a time and three made:
  a late answer to the first, an outer call and one nested in it. The safety
  properties are proved for any nesting. The run may stop, when `MaxIssued`
  calls have been made.
- `EnergyShare`: two modules, of which one uses energy and the other queries,
  resets and reports; with limits 3 and 4 and a gauge that shows 3 or 14 the
  loop runs through rounds in which none, one and both modules are full. Two
  updates and a restart: an update starts from what the last one, an
  interrupted one or a recovery left.
- `RadioQueue`: a ring of four (three packets), so that it fills up and wraps;
  packets of two lengths, so that a post takes one, two or three of them; all
  counters have the smallest limits that keep their comparisons apart. A
  module's packet count wraps at 2.

### Disagreements found

With a run that shows them:

- `IoSource`: `get_message` accepts any packet as the first one
  (`signbus_io_interface.c:224-229`); with the bytes of an older message still at
  the start of the buffer, the tail of another sender's message makes it whole
  again, of the right length and hash, but with the other's address
  (`docs/MessageFormat.md:57`).
- `EnergyReset`: a query that is handled between the selection of a counter and
  its reading (`signpost_energy_monitors.c:48-50`) leaves the selector on its own
  module, whose consumption the update then books to two modules. The function
  that should "tell you the energy used since the last reset"
  (`signpost_energy_policy.h:50`) returns more for a module that used nothing.

Met while modelling, kept in the models as the code has them, and the reason why
some properties are not stated more strongly:

- The callbacks that switch a slot set its state and then yield in the calls that
  switch it. A command for the slot that runs in there is undone by the rest of the
  first one: when a downlink OFF (`signpost_controller.c:607-611`) arrives inside the
  energy update's `enable_power` (`:513`), the update goes on to connect a slot that
  is `ModuleDisabledOff` by now (`:514`). In the same way a slot can end enabled
  without power or bus. `BusRestored`, `EnabledHasPower` and `OffIsDeaf` leave a slot
  out from such an overlap to its next command.
- A response `MUST include a MsgId field and the provided Id MUST match the Command
  frame` (`docs/MessageFormat.md:138-139`, and `:169-172`). The code's messages have no
  such field, and `signpost_api_recv_callback` gives a response to whatever callback is
  registered (`signpost_api.c:190-195`): a late response completes the next call, of
  any kind. `WokenByAnswer` holds all the same, because it only asks that the call's
  own kind of callback was given a response.
- A restart takes the accounts saved in the FRAM whatever the gauge shows
  (`signpost_energy_policy.c:52-65`), so that the logical capacitors may hold more
  than the battery from then on. `NotOverdrawn` stops at the first restart;
  `OverdraftNeverGrows` does not.
- The radio compares the room left in `cell_buffer` with the length of the queue's
  first packet, not with that of the packet it adds (`radio_module/radio_app/main.c:275-280`):
  a long packet behind a short first one can end beyond `CELL_POST_SIZE`. `RadioQueue`
  keeps the test; the bytes behind the buffer are not modelled.
- `update_energy_policy_cb` reconnects every slot with energy
  (`signpost_controller.c:511`) although a module has its "private channel"
  (`:177`).
- `docs/Energy.md:11` says that a module with an empty virtual battery is turned
  off. An ON downlink and a duty-cycle timer set `ModuleDisabledEnergy` without
  switching anything (`signpost_controller.c:255`, `:602`), and the end of a
  watchdog cycle (`:471`) powers a slot whatever its state.
- On Tock the callback that should "reset state to request isolation if no
  longer isolated" (`signpost_api.c:262`) is replaced by the falling-edge one
  (`port_signpost_tock.c:147-171`), and the check at `signpost_api.c:455` always
  passes after the first grant. `FlagFollowsPin` is therefore stated for mbed.
- A first fragment that arrives during the I2C write of a send starts a receive
  on top of it, which waits without a timeout (`signbus_io_interface.c:212-216`),
  so that the "blocking i2c send call" of `port_signpost.h:53` does not return if
  the rest is lost.
- The storage calls share `storage_ready`, which a call that fails sets
  (`signpost_api.c:713`): an outer storage call that still waits is woken and
  returns its initial result, success. `WokenByAnswer` leaves them out.
- An energy query that timed out leaves `energy_cb` set (`signpost_api.c:1210`),
  and each later one is refused as busy until an answer comes late.
- The storage manager overwrites the result of a delete with that of the reply
  (`storage_master/storage_manager/main.c:178`), so that a delete that failed is
  reported as done.

## 4. Fairness

- `ControllerSlots`: the 300 ms timer is periodic, so the check runs again and
  again (WF of `CheckModuleInit`). A suspended callback goes on although other
  callbacks keep coming: its call returns as soon as the expander has answered or its
  alarm has fired and the nested callbacks are over, and nested callbacks keep it from
  that now and then, hence SF, at each depth of the stack (`Continues(k)`). This
  assumes that no receive nested in the yield waits for ever for the rest of a message
  (`signbus_io_interface.c:215`); one that does is left to the kernel's watchdog. The
  two other ticklers are WF: the GPS callback samples again, and the application's
  timer publishes every minute (assuming it succeeds).
- `Isolation`: additionally the module's timers and delays (WF), and SF where a
  thing tried again and again must succeed sometimes. A module that asks again and
  again is granted again and again (`CheckGrant`); one that is granted again and again
  does not have its 5 s end between every grant and the falling pin (`GrantInTime`);
  the check sees the raised pin during some 3 s backoff; a declaration and its answer
  are not always lost or late. A bus that loses every declaration initializes nobody.
- `SignbusIo`: queued callbacks run, I2C writes end (WF), and a reply's write
  ends even if the application's sends begin on top of it now and then (SF). The
  application of the controller sends twice a minute from timers that can nest,
  so it sends again even while an earlier send is stuck (WF of `AppSend`). The
  other senders have no fairness: they may stop in the middle of a message.
  `ReceivesAgain` rests on the node's own sends: the storage master, which only
  replies, stays deaf after a lost fragment.
- `ApiCalls`: the I2C driver ends every write, with success or not, and a wait that
  has a timer ends. A call cannot go on while something is nested in its yield, but
  `yield_for` tests its condition each time a callback has returned, before it runs the
  next one: a call that is free to go on again and again does (SF of `Sent`/`SendFails`
  and of `Wake`/`Timeout`). Nothing is assumed of the other modules, nor that a receive
  that has begun ends. So `TimedCallsReturn` speaks of calls that are free infinitely
  often (`[]<>~Blocked(n)`): neither a receive nor a call without a timeout stays nested
  in them for ever, and nothing else may keep them from returning.
- `EnergyPolicy`: the update goes on after each transfer (WF of `Update`). Reports,
  queries and restarts may go on as the bounds allow.
- `RadioQueue`: the processor packs, the 2 s timer fires, and the kernel's watchdog
  resets when it is due (WF each). Nothing is assumed of the modems, whose drivers
  wait for some events without a timeout: `HangIsBroken` rests on the watchdog.

## 5. Proofs

TLAPS checks these for every value of the constants. The assumptions are those of
`ControllerSlots` (`SlotsAssumption`: slots are numbers, and there is one;
`LimitsAssumption`: the limits are numbers, and at most one energy update runs; `ClientsAssumption`), of `Isolation` (`ModuleAssumption`;
`StorageAssumption`: a slot without switches holds the storage master, which is
initialized with an address of its own), of `SignbusIo` (`UnitsAssumption`:
packets and buffer hold something, no message is longer than the buffer;
`BoundsAssumption`; `SendersAssumption`: 0 is nobody's address), of `ApiCalls`
(`CallsAssumption`: the calls are rows of the table; `BoundsAssumption`), of
`EnergyPolicy` (`ModulesAssumption`: no module is read twice or is called
controller or linux, and there is one; `SharesAssumption`: the shares add up to at
most the whole, as 4 and six times 1 of 10 do in the code; `EnergiesAssumption`: the
gauge shows no negative energy; `ActorsAssumption`) and of `RadioQueue` (`QueueAssumption`: the ring has at least two slots, and each packet
fits in an empty post; `ReportAssumption`: a report is over before its counter
wraps; `ResetAssumption`).

| theorem | states |
|---|---|
| `TypeCorrect` | `Spec => []TypeOK` |
| `NotReentered` | `Spec => []CheckNotReentered` |
| `OnlyOneModInLow` | `Spec => []OneModInLow` |
| `BusIsRestored` | `Spec => []BusRestored` |
| `OffStaysDeaf` | `Spec => []OffIsDeaf` |
| `EnabledIsPowered` | `Spec => []EnabledHasPower` |
| `CompositionIsController` | `SystemSpec => Spec` |
| `ModuleTypeCorrect` | `SystemSpec => []ModTypeOK` |
| `FlagFollows` | with `TracksRising`, `SystemSpec => []FlagFollowsPin` |
| `AttemptsAreIsolated` | with `Timely`, `SystemSpec => []AttemptIsIsolated` |
| `RegistryIsSound` | with `Timely`, `SystemSpec => []RegistrySound` |
| `AddressesAreOwn` | with `Timely`, `SystemSpec => []NoStolenAddress` |
| `InitializedAreRegistered` | with `Timely`, `SystemSpec => []InitializedIsRegistered` |
| `IoTypeCorrect` | `Spec => []IoTypeOK` |
| `IdleAlwaysReceives` | `Spec => []IdleReceives` |
| `OnePacketImplementsBestEffort` | with `OnePacket`, `Spec => ImplementsBestEffort` |
| `OnePacketFromItsSource` | with `OnePacket`, `Spec => []FromItsSource` |
| `ApiTypeCorrect` | `Spec => []ApiTypeOK` |
| `CallbackHasOwner` | `Spec => []ActiveHasOwner` |
| `OnlyAnswersWake` | `Spec => []WokenByAnswer` |
| `EnergyTypeCorrect` | `Spec => []EnergyTypeOK` |
| `NeverOverdrawn` | `Spec => []NotOverdrawn` |
| `NothingIsCreated` | `Spec => OverdraftNeverGrows` |
| `SpillIsConserving` | `Spec => SpillConserves` |
| `SpillCaps` | `Spec => SurplusIsCapped` |
| `SpillLoopShrinks` | `Spec => SpillShrinks`: a round of the spill loop ends it or takes a module out of it |
| `UndisturbedUse` | `CalmSpec => []UsedSinceReset` |
| `RadioTypeCorrect` | `Spec => []RadioTypeOK` |
| `FlagTracksSending` | `Spec => []FlagIsSending` |
| `XdotIsExclusive` | `Spec => []XdotForOne` |
| `QueueImplementsFifo` | `Spec => QueueIsFifo` |

*Controller.* The type invariant bounds `isolatedCount` and the failures by their
limits plus one, and `isolated` by the slots. That is not inductive alone: while
a grant or a power cycle is suspended, `isolated` must remain a slot, and a failure
count that is above its limit must not be counted up again. This is what
`CheckNotReentered` says: at most one frame of the check is on the stack,
`checkingInit` is set while it is there, a grant's or power cycle's frame belongs to
the isolated slot and a reconnection's to nobody, and failures above the limit are
those of the slot being cycled. The inductive invariant of both first theorems is
therefore `TypeOK /\ CheckNotReentered`, proved with one lemma per action;
`OneModInLow` follows from it, with one step per action.

`BusRestored`, `EnabledHasPower` and `OffIsDeaf` say what the suspended callbacks have
promised to switch, and a promise can be broken by a callback that runs in between.
Their inductive invariant, `Consistent`, has the three of them and two more parts. By
`Shapes`, each frame is at a point of its callback. By `Faithful`, whoever is still
switching a slot on, or connecting it, does so while its state is enabled or out of
energy, and whoever is switching it off does so while it is not enabled: what is
promised never contradicts the state. A command changes the state, and
what makes `Faithful` inductive is that no other promise for the slot is then on the
stack, which is what not `overlapped` means. `Consistent` speaks of all slots that have
switches and are not `overlapped`; a slot returns to it with its next command that
overlaps with nothing. `StackLemmas` follows the frames when others are pushed and
popped.

*Module initialization.* A module's step moves at most its own MOD_OUT pin, and only
with power, so every step of the composition is a step of `ControllerSlots` or a
stutter: `CompositionIsController`, and with it all six theorems above hold of the
composition. The invariants of the addresses need `AddressInv`. Its first part,
`Sound`, follows one module through its loop: from the grant to the end of the
attempt its pin is low (hence, by `OneModInLow`, it is the isolated one); its
callback is registered only from the declaration to the end of the backoff; an
answer it receives or has received while it waits is its own address and is in
the registry. The second, `SenderIsIsolated`, says that the sender of a
declaration that the controller has not handled yet is still isolated, or nobody
is: this is why reading `mod_isolated_out` late books nothing to the wrong slot.
A step of the controller keeps `Sound` because of the deadline (`Timely`): MOD_IN
rises in an attempt only when the module restarts with it. Without `Timely` these
four are false: a module that is late by seconds could declare itself after its
isolation had ended. `FlagFollows` needs no deadline.

*Message layer.* `IdleReceives` speaks of the empty stack only. Its inductive
form, `Rearmed`, says how every way back to the empty stack passes through a
re-arming step: if the callback is used up, a handler's reply is on the stack
(its end registers it again), and if no receive is active, something is on the
stack.

The refinement of `BestEffort` has the hypothesis `OnePacket`: no message is longer
than a packet. The run `IoPackets` satisfies it, and without it the claim is false, as
`IoSource` shows. The hypothesis does not make it obvious, because a callback may
still run late, on a packet that came after its own and with the length of the
earlier one. `InOrder` says that the header in either buffer is nevertheless that
of the first unit of its data, and that the last message handed over, the packet
in `packet_buf`, the one in the driver's buffer and the message being sent are, for
each sender, in the order in which it began them. Each hand-over then is a `Deliver`
and each new message a `Send` (`ChannelStep`). `OnePacketFromItsSource` follows: what
breaks the source address in `IoSource` is the assembly of fragments, and not the
nested receives or the late callbacks.

*Calls.* The inductive invariant `ApiInv` has four parts besides the types. That a
registered callback has a call in progress (`OwnerInProgress`) must say how far
that call is: one that registers after its send must be waiting, because
otherwise its failing send would return without clearing the pointer. A call
that returns because its flag is set does not clear the pointer, so it must not
be its own callback that is registered: `RegisteredIsUnset`. `SetMeansHeard` says
that a flag that was reset is set only after a response that a callback of the
call's own kind was given, from the reset on and not only in the wait: but for the
storage calls', no two kinds of callback set the same flag. `WaitIsReset` says that a
wait comes after the reset.

*Energy.* `Total` is the library's fold over a set. What it computes would be an
induction over finite sets; the lemmas instead take a smallest counterexample
(`LeastNumber`, `LeastSet`), show that the fold's recursion has a solution
(`FoldExists`) and that it adds up the accounts in any order (`TotalIsSum`). Everything
else uses `TotalAdd`, `TotalMonotone`, `TotalConstant`, `TotalExtended` and
`TotalUpdated`. `Overdraft` is how far the accounts, with what the spill loop
has still to hand out (the surplus times the eligible modules), are ahead of the
battery at its last booking. The lemma `StepBooks` says that no step but a restart
increases it, which is `OverdraftNeverGrows`; the operator lemmas `ApplyBudget` and
`SpillBudget` hold the divisions' roundings. `NotOverdrawn` says nothing of an update
between the reading of the gauge and the copy, so it is not inductive. `LedgerInv`
follows the energy through: until the first restart there is no overdraft (`Covered`);
that booking is the battery except between gauge and `Apply` (`BatteryIsBooked`); there
is a surplus only in the loop (`SurplusInSpill`); and a module that has left the loop is
at its limit or below (`ShutOutIsFull`, for `SpillCaps`). A restart is where `Covered`
ends: the copy in the FRAM was taken against an older battery, and the code does not
compare the two.

`UsedSinceReset` is violated (`EnergyReset`), and `UndisturbedUse` says by what. In
`CalmSpec` no query and no reset is handled while an update is under way, and the
controller does not restart; reports and consumption still interleave with the
update. There the property holds: what was read of a counter is at most its value
until it is reset, and replaces it until it is booked (`ReadingStands`). Sharing the
I2C selector with the handlers, and going back to an older copy, are therefore all
that is wrong.

*Radio.* `RadioInv` is `RadioTypeOK`, `FlagIsSending`, `XdotInv` (during a join the
network is not joined, during a LoRa transmission it is: this is what makes
`XdotForOne` inductive) and `AirInv`: what is being transmitted is a non-empty
prefix of the queue, however many packets are added behind it. The refinement
`QueueImplementsFifo` maps the ring to the sequence from head to tail; `Ring`,
`Added` and `Removed` say what the pointers' arithmetic does to that sequence,
and each action then is an `Accept`, `Transmit`, `Confirm`, `GiveUp`, `Crash` or
leaves the queue alone (`FifoStep`).

Every invariant, action property and refinement of the passing runs is stated by one
of these theorems. Out of the prover's reach, and only model-checked, is liveness
under fairness: `IsolationEnds`, `KernelKeepsBeingTickled`, `EventuallyInitialized`,
`ReceivesAgain`, `TimedCallsReturn`, `UpdateEnds` and `HangIsBroken`. Of `UpdateEnds`
the safety half is proved: `SpillLoopShrinks` bounds the only loop without a fixed
number of rounds.

## 6. Not modelled

- *Controller*: a port expander that fails or a switch call that is lost; GPS, time and
  USB; a receive that hangs inside one of its calls (`SignbusIo` and `ApiCalls` have it).
- *Message layer*: encrypted messages, the synchronous `signbus_io_recv` and slave
  reads. *Application layer*: its framing, the contents of answers, the error
  replies to malformed messages.
- *Energy*: averages, times since resets, the solar counter, conversions between
  units. No other state depends on them.
- *Storage master*: its handler runs each request from start to end, since the
  receive is armed again only after it has returned, and it keeps nothing between
  requests but FatFs's files. FatFs (`support/fatfs`, most of the repository's
  lines) is vendored.
- *Radio*: `radio_app_ble`, a second application for the same board; the amounts of
  energy in a report.
- *Kernel drivers*: the UART and SMBus drivers, which keep no protocol state; of the
  two watchdogs' drivers only what `RadioQueue` and `ControllerSlots` use.
- Modem, GPS and AT-command dialogues: blocking I/O against third-party devices.
  Sensor applications: clients without protocol state. Server and tools: stateless
  transformers. Vendored code under `support/`, old board revisions, tests.

## 7. Plan

1. `ControllerSlots`, `Isolation`, `SignbusIo` with `BestEffort`, `ApiCalls`,
   `EnergyPolicy`, `RadioQueue` with `RadioFifo`, and the theorems of section 5: done.
2. `ApiCalls` composed with the watchdog service of `ControllerSlots`: a tickle whose
   answer is lost is ended by the power cycle.
