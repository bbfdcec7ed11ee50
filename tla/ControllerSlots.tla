-------------------------- MODULE ControllerSlots --------------------------
(***************************************************************************)
(* The backplane controller's slot management                              *)
(* (libsignpost-tock/signpost_controller.c): which module is isolated,     *)
(* which slots have power and a connected I2C bus, and every callback that *)
(* changes them: the 300 ms isolation check, the 10 min energy update, the *)
(* 60 s watchdog check, the duty-cycle message and its timer, the watchdog *)
(* messages, the radio's downlink commands, and a reboot.                  *)
(*                                                                         *)
(* Execution model.  The controller is one Tock process: a callback runs   *)
(* until it yields, and other callbacks run inside the yield.  What yields *)
(* here is delay_ms, every read of the energy ledger, and every call of a  *)
(* power or I2C switch: those are gpio_async_*_sync calls to a port        *)
(* expander on an I2C bus.  "stack" holds the suspended callbacks,         *)
(* innermost last; only the last can continue.  A frame is the call its    *)
(* callback is suspended in, which also says where in the callback it is.  *)
(* The expander takes the write at some time between call and return.      *)
(*                                                                         *)
(* Two yields with nothing between them are one, and a yield before the    *)
(* first test or assignment of a callback is a later start of it.          *)
(*                                                                         *)
(* Pins are 0 or 1.  modOut is driven by the modules (active low, pulled   *)
(* up when a module is unpowered), modIn by the controller.                *)
(***************************************************************************)
EXTENDS Integers, Sequences, FiniteSets

CONSTANTS
  Slots,             \* the module slots, as numbered by module_num_t
  Unswitched,        \* slots without power and I2C switches (the storage master)
  IsolationTimeout,  \* isolation_timeout_seconds, in passes of the check
  MaxInitFailures,   \* failures tolerated before a module is power cycled
  WatchdogClients,   \* slots whose module uses the watchdog service
  DutyCyclers,       \* slots whose module asks to be duty cycled
  DownlinkTargets,   \* slots that downlinks name, NoSlot: "signpost"
  OtherTicklers,     \* who tickles the kernel's watchdog besides this library
  MaxDutyTimers,     \* bound: pending duty-cycle timers of a slot
  MaxUpdates,        \* bound: energy updates suspended at once, 1 or none at all
  MaxCommands        \* bound: duty-cycle and downlink callbacks suspended at once

NoSlot == -1

ASSUME SlotsAssumption ==
  /\ Slots \subseteq Nat
  /\ Slots # {}
  /\ Unswitched \subseteq Slots
ASSUME LimitsAssumption ==
  /\ IsolationTimeout \in Nat
  /\ MaxInitFailures \in Nat
  /\ MaxDutyTimers \in Nat
  /\ MaxUpdates \in {0, 1}
  /\ MaxCommands \in Nat
ASSUME ClientsAssumption ==
  /\ WatchdogClients \subseteq Slots
  /\ DutyCyclers \subseteq Slots
  /\ DownlinkTargets \subseteq Slots \cup {NoSlot}
  /\ OtherTicklers \subseteq {"WATCH_APP_TICKLE", "WATCH_LIB_GPS"}

VARIABLES
  isolationState,   \* module_state[s].isolation_state
  power,            \* the slot's power switch is closed
  i2c,              \* the slot's I2C switch is closed
  isolated,         \* mod_isolated_out as a slot, or NoSlot
  lastIsolated,     \* last_mod_isolated_out as a slot, or NoSlot
  isolatedCount,    \* isolated_count
  failures,         \* module_state[s].module_init_failures
  lastModOut,       \* last_mod_out_state
  modIn,            \* the MOD_IN pins
  modOut,           \* the MOD_OUT pins
  checkingInit,     \* the re-entrancy guard of check_module_init_cb
  subscribed,       \* module_state[s].watchdog_subscribed
  tickled,          \* module_state[s].watchdog_tickled
  dutyTimers,       \* duty-cycle timers pending for the slot
  hardReset,        \* hard_reset: the hardware watchdog is no longer tickled
  watchdogStates,   \* watchdog_states: who tickled since the kernel was tickled
  stack,            \* suspended callbacks, innermost last
  overlapped        \* history: slots whose last command began during another's

isolationVars == <<isolated, lastIsolated, isolatedCount, failures,
                   lastModOut, modIn, checkingInit>>
stateVars == <<isolationState, overlapped>>
switchVars == <<power, i2c>>
serviceVars == <<subscribed, tickled, dutyTimers>>
systemVars == <<hardReset, watchdogStates>>
vars == <<isolationVars, stateVars, switchVars, serviceVars, systemVars,
          modOut, stack>>

-----------------------------------------------------------------------------
Switched == Slots \ Unswitched

\* signpost_controller_module_isolation_e; ModuleDisabledIsolation is never assigned.
Enabled == "ModuleEnabled"
DisabledEnergy == "ModuleDisabledEnergy"
DisabledDutyCycle == "ModuleDisabledDutyCycle"
DisabledOff == "ModuleDisabledOff"
IsolationStates == {Enabled, DisabledEnergy, DisabledDutyCycle, DisabledOff}

\* watchdog_tickler_t: the kernel is tickled when all of these have tickled.
Ticklers == OtherTicklers \cup {"WATCH_LIB_INIT"}

(***************************************************************************)
(* Suspended callbacks.  "command" is a duty-cycle or downlink callback    *)
(* that switches a slot on or off; the isolation check is "grant",         *)
(* "timeout" or "reconnect" by what it is doing.  A frame waits for the    *)
(* call of a switch, or, with "delay", only for time to pass.              *)
(***************************************************************************)
Callbacks == {"command", "update", "reset", "watchdog", "grant", "timeout",
              "reconnect"}

Frame == [callback : Callbacks, switch : {"power", "i2c", "delay"},
          slot : Slots, on : BOOLEAN, written : BOOLEAN]

Call(callback, switch, s, on) ==
  [callback |-> callback, switch |-> switch, slot |-> s, on |-> on,
   written |-> FALSE]
Delay(callback, s) ==
  [callback |-> callback, switch |-> "delay", slot |-> s, on |-> TRUE,
   written |-> TRUE]

Top == stack[Len(stack)]
Below == SubSeq(stack, 1, Len(stack) - 1)
Frames(frames) == {frames[k] : k \in 1..Len(frames)}
Suspended(callback) == \E f \in Frames(stack) : f.callback = callback

\* The innermost callback's call has returned.
Returned(callback) ==
  /\ stack # <<>>
  /\ Top.callback = callback
  /\ Top.written

\* It makes its next call.
Then(switch, s, on) == stack' = Append(Below, Call(Top.callback, switch, s, on))

CommandsPending ==
  {k \in 1..Len(stack) : stack[k].callback \in {"command", "reset"}}
Room == Cardinality(CommandsPending) < MaxCommands

First(s, S) == \A t \in S : s <= t
After(s) == {t \in Slots : t > s}

TypeOK ==
  /\ isolationState \in [Slots -> IsolationStates]
  /\ power \in [Slots -> BOOLEAN]
  /\ i2c \in [Slots -> BOOLEAN]
  /\ isolated \in Slots \cup {NoSlot}
  /\ lastIsolated \in Slots \cup {NoSlot}
  /\ isolatedCount \in 0..(IsolationTimeout + 1)
  /\ failures \in [Slots -> 0..(MaxInitFailures + 1)]
  /\ lastModOut \in [Slots -> {0, 1}]
  /\ modIn \in [Slots -> {0, 1}]
  /\ modOut \in [Slots -> {0, 1}]
  /\ checkingInit \in BOOLEAN
  /\ subscribed \in [Slots -> BOOLEAN]
  /\ tickled \in [Slots -> BOOLEAN]
  /\ dutyTimers \in [Slots -> 0..MaxDutyTimers]
  /\ hardReset \in BOOLEAN
  /\ watchdogStates \in SUBSET Ticklers
  /\ stack \in Seq(Frame)
  /\ overlapped \in SUBSET Slots

-----------------------------------------------------------------------------
(***************************************************************************)
(* The port expander.  A call of a switch takes effect once, between call  *)
(* and return, before or after anything that runs nested in it.  Slots     *)
(* without switches are unaffected: their port number is 0xff.  A module   *)
(* that loses power stops driving its MOD_OUT pin low.                     *)
(***************************************************************************)
Switch(pins, f) ==
  [pins EXCEPT ![f.slot] = IF f.slot \in Unswitched THEN @ ELSE f.on]

PinsUnder(newPower) == [s \in Slots |-> IF newPower[s] THEN modOut[s] ELSE 1]

ExpanderWrites(k) ==
  /\ k \in 1..Len(stack)
  /\ ~stack[k].written
  /\ \/ stack[k].switch = "power" /\ power' = Switch(power, stack[k]) /\ UNCHANGED i2c
     \/ stack[k].switch = "i2c" /\ i2c' = Switch(i2c, stack[k]) /\ UNCHANGED power
  /\ modOut' = PinsUnder(power')
  /\ stack' = [stack EXCEPT ![k].written = TRUE]
  /\ UNCHANGED <<isolationVars, stateVars, serviceVars, systemVars>>

\* app_watchdog_combine: the kernel is tickled once all three have tickled.
Combine(who) ==
  watchdogStates' = IF watchdogStates \cup {who} = Ticklers
                    THEN {} ELSE watchdogStates \cup {who}

(***************************************************************************)
(* signpost_controller_init, up to the point where the timers run: all     *)
(* slots powered and connected, all MOD_IN pins high, last_mod_out_state   *)
(* all ones.                                                               *)
(***************************************************************************)
Each(value) == [s \in Slots |-> value]

Init ==
  /\ isolationState = Each(Enabled)
  /\ power = Each(TRUE)
  /\ i2c = Each(TRUE)
  /\ isolated = NoSlot
  /\ lastIsolated = NoSlot
  /\ isolatedCount = 0
  /\ failures = Each(0)
  /\ lastModOut = Each(1)
  /\ modIn = Each(1)
  /\ checkingInit = FALSE
  /\ subscribed = Each(FALSE)
  /\ tickled = Each(FALSE)
  /\ dutyTimers = Each(0)
  /\ hardReset = FALSE
  /\ watchdogStates = {}
  /\ stack = <<>>
  /\ overlapped = {}
  /\ modOut = Each(1)

-----------------------------------------------------------------------------
(***************************************************************************)
(* Commands: what the energy update, the duty cycle and the downlinks do   *)
(* to a slot.  They record the new state, then call the power switch, then *)
(* the I2C switch.                                                         *)
(*                                                                         *)
(* "overlapped" is a history variable: a command overlaps when a suspended *)
(* callback has yet to finish switching the slot for another command, or   *)
(* to connect it because it was enabled when the isolation check looked.   *)
(***************************************************************************)
StillSwitching(f, s) ==
  \/ /\ f.callback \in {"command", "update", "reconnect"}
     /\ f.slot = s
     /\ f.switch = "power" \/ (f.switch = "i2c" /\ ~f.written)
  \/ /\ f.callback = "grant"
     /\ isolated = s
     /\ f.switch = "i2c"
     /\ ~(f.on /\ f.written)

Command(callback, s, state, on, frames) ==
  /\ isolationState' = [isolationState EXCEPT ![s] = state]
  /\ overlapped' = IF \E f \in Frames(frames) : StillSwitching(f, s)
                   THEN overlapped \cup {s} ELSE overlapped \ {s}
  /\ stack' = Append(frames, Call(callback, "power", s, on))

\* Only the state is changed: the slot keeps its power and its bus.
Demote(s) ==
  /\ isolationState' = [isolationState EXCEPT ![s] = DisabledEnergy]
  /\ UNCHANGED <<overlapped, stack>>

(***************************************************************************)
(* The sign of signpost_energy_policy_get_module_energy_remaining_uwh.     *)
(* The ledger (EnergyPolicy) moves between any two reads; the storage      *)
(* master's entry is never credited.                                       *)
(***************************************************************************)
EnergyLeft(s) == IF s \in Unswitched THEN {FALSE} ELSE BOOLEAN

-----------------------------------------------------------------------------
(***************************************************************************)
(* check_module_init_cb                                                    *)
(***************************************************************************)

\* The loop visits the slots in increasing order and clears
\* last_mod_isolated_out at each slot it does not grant, so the test against
\* it only ever matters for the first slot.
Requesting(s) ==
  /\ modOut[s] = 0
  /\ lastModOut[s] = 1
  /\ isolationState[s] = Enabled
  /\ First(s, Slots) => lastIsolated # s

\* The loop at the end of the callback: a raised pin may ask again.
RefreshFrom(last) ==
  lastModOut' = [s \in Slots |-> IF modOut[s] = 1 THEN 1 ELSE last[s]]

\* Mutant of CheckGuard: the re-entrancy guard is dropped.
CheckUnguarded == Combine("WATCH_LIB_INIT")
\* "if (checking_init) return"
CheckGuard ==
  /\ ~checkingInit
  /\ Combine("WATCH_LIB_INIT")

\* controller_all_modules_disable_i2c, then controller_module_enable_i2c(s)
IsolateFrom(Rest, s, frames) ==
  \/ /\ Rest = {}
     /\ stack' = Append(frames, Call("grant", "i2c", s, TRUE))
  \/ \E t \in Rest :
       /\ First(t, Rest)
       /\ stack' = Append(frames, Call("grant", "i2c", t, FALSE))

CheckGrant(s) ==
  /\ CheckGuard
  /\ isolated = NoSlot
  /\ Requesting(s)
  /\ First(s, {t \in Slots : Requesting(t)})
  /\ isolated' = s
  /\ lastIsolated' = s
  /\ lastModOut' = [lastModOut EXCEPT ![s] = 0]
  /\ isolatedCount' = 0
  /\ checkingInit' = TRUE
  /\ IsolateFrom(Switched, s, stack)
  /\ UNCHANGED <<failures, modIn, stateVars, switchVars, serviceVars, hardReset,
                 modOut>>

DisconnectNext ==
  /\ Returned("grant")
  /\ ~Top.on
  /\ IsolateFrom(After(Top.slot) \cap Switched, isolated, Below)
  /\ UNCHANGED <<isolationVars, stateVars, switchVars, serviceVars, systemVars,
                 modOut>>

\* The private channel is there: MOD_IN falls, and a second's delay.
SignalGrant ==
  /\ Returned("grant")
  /\ Top.switch = "i2c"
  /\ Top.on
  /\ modIn' = [modIn EXCEPT ![isolated] = 0]
  /\ stack' = Append(Below, Delay("grant", Top.slot))
  /\ UNCHANGED <<isolated, lastIsolated, isolatedCount, failures, lastModOut,
                 checkingInit, stateVars, switchVars, serviceVars, systemVars,
                 modOut>>

\* Mutant of FinishGrant: an early return that skips "checking_init = false".
FinishGrantStillChecking ==
  /\ Returned("grant")
  /\ Top.switch = "delay"
  /\ stack' = Below
  /\ RefreshFrom(lastModOut)
  /\ UNCHANGED <<isolated, lastIsolated, isolatedCount, failures, modIn,
                 checkingInit, stateVars, switchVars, serviceVars, systemVars,
                 modOut>>

\* After the second the controller leaves the granted module.
FinishGrant ==
  /\ Returned("grant")
  /\ Top.switch = "delay"
  /\ stack' = Below
  /\ RefreshFrom(lastModOut)
  /\ checkingInit' = FALSE
  /\ UNCHANGED <<isolated, lastIsolated, isolatedCount, failures, modIn,
                 stateVars, switchVars, serviceVars, systemVars, modOut>>

CheckNobody ==
  /\ CheckGuard
  /\ isolated = NoSlot
  /\ \A t \in Slots : ~Requesting(t)
  /\ lastIsolated' = NoSlot
  /\ RefreshFrom(lastModOut)
  /\ UNCHANGED <<isolated, isolatedCount, failures, modIn, checkingInit,
                 stateVars, switchVars, serviceVars, hardReset, modOut, stack>>

\* Mutant of ReconnectFrom: nobody is reconnected.
ReconnectNobody(Rest, frames) ==
  /\ RefreshFrom(lastModOut)
  /\ checkingInit' = FALSE
  /\ stack' = frames

\* enable_all_enabled_i2c: each slot is tested when its turn comes.  After the
\* last one the check ends.
ReconnectFrom(Rest, frames) ==
  LET Due == {t \in Rest : isolationState[t] = Enabled}
  IN \/ /\ Due = {}
        /\ RefreshFrom(lastModOut)
        /\ checkingInit' = FALSE
        /\ stack' = frames
     \/ \E t \in Due :
          /\ First(t, Due)
          /\ stack' = Append(frames, Call("reconnect", "i2c", t, TRUE))
          /\ checkingInit' = TRUE
          /\ UNCHANGED lastModOut

\* Isolation ends: from here on nobody is isolated, and slot after slot the
\* enabled ones are reconnected.
EndIsolation(frames) ==
  /\ isolated' = NoSlot
  /\ ReconnectFrom(Slots, frames)

ReconnectNext ==
  /\ Returned("reconnect")
  /\ ReconnectFrom(After(Top.slot), Below)
  /\ UNCHANGED <<isolated, lastIsolated, isolatedCount, failures, modIn,
                 stateVars, switchVars, serviceVars, systemVars, modOut>>

\* The module raised MOD_OUT.  The code then clears the failures of
\* module_state[0xff], mod_isolated_out being -1 already, so the slot's own
\* count is left alone.
CheckReleased ==
  /\ CheckGuard
  /\ isolated # NoSlot
  /\ modOut[isolated] = 1
  /\ modIn' = [modIn EXCEPT ![isolated] = 1]
  /\ EndIsolation(stack)
  /\ UNCHANGED <<lastIsolated, isolatedCount, failures, stateVars, switchVars,
                 serviceVars, hardReset, modOut>>

\* Mutant of Overdue: one check too late.
OverdueByTwo == isolatedCount > IsolationTimeout + 1
\* isolated_count > isolation_timeout_seconds
Overdue == isolatedCount > IsolationTimeout

\* Mutant of TookTooLong: the pin stays low.
TookTooLongUnsignalled ==
  /\ CheckGuard
  /\ isolated # NoSlot
  /\ modOut[isolated] = 0
  /\ Overdue
  /\ failures' = [failures EXCEPT ![isolated] = @ + 1]
  /\ UNCHANGED modIn

TookTooLong ==
  /\ CheckGuard
  /\ isolated # NoSlot
  /\ modOut[isolated] = 0
  /\ Overdue
  /\ modIn' = [modIn EXCEPT ![isolated] = 1]
  /\ failures' = [failures EXCEPT ![isolated] = @ + 1]

CheckTimedOut ==
  /\ TookTooLong
  /\ failures'[isolated] <= MaxInitFailures
  /\ EndIsolation(stack)
  /\ UNCHANGED <<lastIsolated, isolatedCount, stateVars, switchVars, serviceVars,
                 hardReset, modOut>>

\* Too many failures: power off, a second's delay, power on.
CheckPowerCycle ==
  /\ TookTooLong
  /\ failures'[isolated] > MaxInitFailures
  /\ checkingInit' = TRUE
  /\ stack' = Append(stack, Call("timeout", "power", isolated, FALSE))
  /\ UNCHANGED <<isolated, lastIsolated, isolatedCount, lastModOut, stateVars,
                 switchVars, serviceVars, hardReset, modOut>>

FinishPowerCycle ==
  /\ Returned("timeout")
  /\ Top.on
  /\ failures' = [failures EXCEPT ![isolated] = 0]
  /\ EndIsolation(Below)
  /\ UNCHANGED <<lastIsolated, isolatedCount, modIn, stateVars, switchVars,
                 serviceVars, systemVars, modOut>>

\* Mutant of CheckStillIsolated: nothing is counted.
CheckStillIsolatedUncounted ==
  /\ CheckGuard
  /\ isolated # NoSlot
  /\ modOut[isolated] = 0
  /\ ~Overdue
  /\ RefreshFrom(lastModOut)
  /\ UNCHANGED <<isolated, lastIsolated, isolatedCount, failures, modIn,
                 checkingInit, stateVars, switchVars, serviceVars, hardReset,
                 modOut, stack>>

CheckStillIsolated ==
  /\ CheckGuard
  /\ isolated # NoSlot
  /\ modOut[isolated] = 0
  /\ ~Overdue
  /\ isolatedCount' = isolatedCount + 1
  /\ RefreshFrom(lastModOut)
  /\ UNCHANGED <<isolated, lastIsolated, failures, modIn, checkingInit,
                 stateVars, switchVars, serviceVars, hardReset, modOut, stack>>

CheckModuleInit ==
  \/ \E s \in Slots : CheckGrant(s)
  \/ CheckNobody
  \/ CheckReleased
  \/ CheckTimedOut
  \/ CheckPowerCycle
  \/ CheckStillIsolated

-----------------------------------------------------------------------------
(***************************************************************************)
(* update_energy_policy_cb: every 10 min, after the ledger has been        *)
(* recomputed and saved.  Slot after slot is read, tested and switched; a  *)
(* slot that is off or sleeping, and has energy, is passed over.           *)
(***************************************************************************)
UpdateFrom(Rest, frames) ==
  \/ /\ Rest = {}
     /\ stack' = frames
     /\ UNCHANGED stateVars
  \/ \E s \in Rest, left \in BOOLEAN :
       /\ First(s, Rest)
       /\ \/ /\ ~left
             /\ Command("update", s, DisabledEnergy, FALSE, frames)
          \/ /\ left
             /\ isolationState[s] \in {Enabled, DisabledEnergy}
             /\ Command("update", s, Enabled, TRUE, frames)
          \/ /\ left
             /\ isolationState[s] \notin {Enabled, DisabledEnergy}
             /\ stack' = Append(frames, Delay("update", s))
             /\ UNCHANGED stateVars

UpdateEnergyPolicy ==
  /\ MaxUpdates = 1
  /\ ~Suspended("update")
  /\ UpdateFrom(Switched, stack)
  /\ UNCHANGED <<isolationVars, switchVars, serviceVars, systemVars, modOut>>

UpdateNext ==
  /\ Returned("update")
  /\ Top.switch # "power"
  /\ UpdateFrom(After(Top.slot) \cap Switched, Below)
  /\ UNCHANGED <<isolationVars, switchVars, serviceVars, systemVars, modOut>>

-----------------------------------------------------------------------------
(***************************************************************************)
(* Messages of the modules.  One may still be queued when its sender is    *)
(* cut off, so nothing is asked of the sender's switches.                  *)
(***************************************************************************)

\* energy_api_callback, EnergyDutyCycleMessage
DutyCycleMessage(s) ==
  /\ s \in DutyCyclers
  /\ Room
  /\ dutyTimers[s] < MaxDutyTimers
  /\ dutyTimers' = [dutyTimers EXCEPT ![s] = @ + 1]
  /\ Command("command", s, DisabledDutyCycle, FALSE, stack)
  /\ UNCHANGED <<isolationVars, switchVars, subscribed, tickled, systemVars, modOut>>

\* duty_cycle_timer_cb
DutyCycleTimer(s) ==
  /\ dutyTimers[s] > 0
  /\ dutyTimers' = [dutyTimers EXCEPT ![s] = @ - 1]
  /\ \E left \in EnergyLeft(s) :
       \/ /\ left /\ isolationState[s] = DisabledDutyCycle
          /\ Room
          /\ Command("command", s, Enabled, TRUE, stack)
       \/ /\ isolationState[s] = DisabledOff
          /\ UNCHANGED <<stateVars, stack>>
       \/ /\ isolationState[s] # DisabledOff
          /\ left => isolationState[s] # DisabledDutyCycle
          /\ Demote(s)
  /\ UNCHANGED <<isolationVars, switchVars, subscribed, tickled, systemVars, modOut>>

\* watchdog_api_callback, whose reply must have been sent
WatchdogMessage(s) ==
  /\ s \in WatchdogClients
  /\ \/ subscribed' = [subscribed EXCEPT ![s] = TRUE]
     \/ UNCHANGED subscribed
  /\ tickled' = [tickled EXCEPT ![s] = TRUE]
  /\ UNCHANGED <<isolationVars, stateVars, switchVars, dutyTimers, systemVars,
                 modOut, stack>>

(***************************************************************************)
(* check_watchdogs_cb visits the slots in order.  A tickled client loses   *)
(* its tickle; the first that has none is power cycled, and the rest of    *)
(* the loop waits for that.                                                *)
(***************************************************************************)
ScanFrom(Rest, frames) ==
  LET Silent == {s \in Rest : subscribed[s] /\ ~tickled[s]}
      Untickle(Visited) == tickled' =
        [s \in Slots |-> tickled[s] /\ ~(s \in Visited /\ subscribed[s])]
  IN \/ /\ Silent = {}
        /\ Untickle(Rest)
        /\ stack' = frames
     \/ \E s \in Silent :
          /\ First(s, Silent)
          /\ Untickle({t \in Rest : t < s})
          /\ stack' = Append(frames, Call("watchdog", "power", s, FALSE))

CheckWatchdogs ==
  /\ WatchdogClients # {}
  /\ ~Suspended("watchdog")
  /\ ScanFrom(Slots, stack)
  /\ UNCHANGED <<isolationVars, stateVars, switchVars, subscribed, dutyTimers,
                 systemVars, modOut>>

WatchdogNext ==
  /\ Returned("watchdog")
  /\ Top.on
  /\ ScanFrom(After(Top.slot), Below)
  /\ UNCHANGED <<isolationVars, stateVars, switchVars, subscribed, dutyTimers,
                 systemVars, modOut>>

-----------------------------------------------------------------------------
(***************************************************************************)
(* downlink_cb: commands that arrive through the radio.                    *)
(***************************************************************************)
DownlinkOn(s) ==
  /\ s \in DownlinkTargets
  /\ \E left \in EnergyLeft(s) :
       \/ left /\ Room /\ Command("command", s, Enabled, TRUE, stack)
       \/ ~left /\ Demote(s)
  /\ UNCHANGED <<isolationVars, switchVars, serviceVars, systemVars, modOut>>

DownlinkOff(s) ==
  /\ s \in DownlinkTargets
  /\ Room
  /\ Command("command", s, DisabledOff, FALSE, stack)
  /\ UNCHANGED <<isolationVars, switchVars, serviceVars, systemVars, modOut>>

DownlinkReset(s) ==
  /\ s \in DownlinkTargets
  /\ TRUE \in EnergyLeft(s)
  /\ isolationState[s] = Enabled
  /\ Room
  /\ stack' = Append(stack, Call("reset", "power", s, FALSE))
  /\ UNCHANGED <<isolationVars, stateVars, switchVars, serviceVars, systemVars,
                 modOut>>

\* Mutant of SwitchBus: the callback returns after the power switch.
SwitchPowerOnly ==
  /\ stack # <<>>
  /\ Top.callback \in {"command", "update"}
  /\ Top.written
  /\ Top.switch = "power"
  /\ stack' = Below
  /\ UNCHANGED <<isolationVars, stateVars, switchVars, serviceVars, systemVars,
                 modOut>>

\* A command's power call has returned: the I2C switch is next.
SwitchBus ==
  /\ stack # <<>>
  /\ Top.callback \in {"command", "update"}
  /\ Top.written
  /\ Top.switch = "power"
  /\ Then("i2c", Top.slot, Top.on)
  /\ UNCHANGED <<isolationVars, stateVars, switchVars, serviceVars, systemVars,
                 modOut>>

FinishCommand ==
  /\ Returned("command")
  /\ Top.switch = "i2c"
  /\ stack' = Below
  /\ UNCHANGED <<isolationVars, stateVars, switchVars, serviceVars, systemVars,
                 modOut>>

\* Mutant of PowerAgain: the module is left without power.
PowerNeverAgain ==
  /\ stack # <<>>
  /\ Top.callback \in {"reset", "watchdog", "timeout"}
  /\ Top.written
  /\ ~Top.on
  /\ stack' = Below
  /\ UNCHANGED <<isolationVars, stateVars, switchVars, serviceVars, systemVars,
                 modOut>>

\* In a power cycle the delay is over: power on, whatever the state of the
\* slot is now.  (For the check the slot is mod_isolated_out: CheckNotReentered.)
PowerAgain ==
  /\ stack # <<>>
  /\ Top.callback \in {"reset", "watchdog", "timeout"}
  /\ Top.written
  /\ ~Top.on
  /\ Then("power", Top.slot, TRUE)
  /\ UNCHANGED <<isolationVars, stateVars, switchVars, serviceVars, systemVars,
                 modOut>>

FinishReset ==
  /\ Returned("reset")
  /\ Top.on
  /\ stack' = Below
  /\ UNCHANGED <<isolationVars, stateVars, switchVars, serviceVars, systemVars,
                 modOut>>

\* "signpost reset" only stops the tickling of the hardware watchdog ...
DownlinkSignpostReset ==
  /\ NoSlot \in DownlinkTargets
  /\ hardReset' = TRUE
  /\ UNCHANGED <<isolationVars, stateVars, switchVars, serviceVars,
                 watchdogStates, modOut, stack>>

\* ... which then restarts the controller.  Switched modules lose power on
\* the way; the storage master does not notice.
Reboot ==
  /\ hardReset
  /\ isolationState' = Each(Enabled)
  /\ power' = Each(TRUE)
  /\ i2c' = Each(TRUE)
  /\ isolated' = NoSlot
  /\ lastIsolated' = NoSlot
  /\ isolatedCount' = 0
  /\ failures' = Each(0)
  /\ lastModOut' = Each(1)
  /\ modIn' = Each(1)
  /\ checkingInit' = FALSE
  /\ subscribed' = Each(FALSE)
  /\ tickled' = Each(FALSE)
  /\ dutyTimers' = Each(0)
  /\ hardReset' = FALSE
  /\ watchdogStates' = {}
  /\ stack' = <<>>
  /\ overlapped' = {}
  /\ modOut' = [s \in Slots |-> IF s \in Unswitched THEN modOut[s] ELSE 1]

-----------------------------------------------------------------------------
\* The two other ticklers: the GPS sample callback and the application's
\* status timers, the latter after a packet went out.
OtherTickle(who) ==
  /\ who \in OtherTicklers
  /\ Combine(who)
  /\ UNCHANGED <<isolationVars, stateVars, switchVars, serviceVars, hardReset,
                 modOut, stack>>

\* The innermost suspended callback continues.
Resume ==
  \/ DisconnectNext
  \/ SignalGrant
  \/ FinishGrant
  \/ ReconnectNext
  \/ FinishPowerCycle
  \/ UpdateNext
  \/ WatchdogNext
  \/ SwitchBus
  \/ FinishCommand
  \/ PowerAgain
  \/ FinishReset

\* A module's message, or a timer armed by one, or a downlink for a slot.
Request(s) ==
  \/ DutyCycleMessage(s)
  \/ DutyCycleTimer(s)
  \/ WatchdogMessage(s)
  \/ DownlinkOn(s)
  \/ DownlinkOff(s)
  \/ DownlinkReset(s)

\* Everything but a new pass of the isolation check.
OtherCallbacks ==
  \/ Resume
  \/ \E k \in 1..Len(stack) : ExpanderWrites(k)
  \/ UpdateEnergyPolicy
  \/ CheckWatchdogs
  \/ \E s \in Slots : Request(s)
  \/ DownlinkSignpostReset
  \/ Reboot
  \/ \E who \in OtherTicklers : OtherTickle(who)

Controller == CheckModuleInit \/ OtherCallbacks

\* Here a powered module may move its MOD_OUT pin at any time.
ModuleMovesPin(s) ==
  /\ power[s]
  /\ modOut' = [modOut EXCEPT ![s] = 1 - @]
  /\ UNCHANGED <<isolationVars, stateVars, switchVars, serviceVars, systemVars,
                 stack>>

Next ==
  \/ Controller
  \/ \E s \in Slots : ModuleMovesPin(s)

Spec == Init /\ [][Next]_vars

(***************************************************************************)
(* The timers keep firing, and the expander carries out every write.  A    *)
(* call or a delay ends: once the callbacks nested in it are over it       *)
(* returns before another one is run, hence the strong fairness at each    *)
(* depth of the stack.  That leaves out a receive of the message layer     *)
(* that hangs inside it (SignbusIo), which only the kernel's watchdog      *)
(* ends.  The GPS is sampled again from its own callback, and the          *)
(* application sends a packet every minute.                                *)
(***************************************************************************)
MaxDepth == MaxCommands + MaxUpdates + 2

Continues(k) == ExpanderWrites(k) \/ (Len(stack) = k /\ Resume)

Fairness ==
  /\ WF_vars(CheckModuleInit)
  /\ \A k \in 1..MaxDepth : SF_vars(Continues(k))
  /\ \A who \in OtherTicklers : WF_vars(OtherTickle(who))

FairSpec == Spec /\ Fairness

-----------------------------------------------------------------------------
(***************************************************************************)
(* Properties                                                              *)
(***************************************************************************)

(* The check of the isolation pins is suspended at most once, although the  *)
(* timer fires again in its own calls and delays; what it connects, raises  *)
(* the pin of or power cycles is the isolated module, whatever runs in      *)
(* between, and only one it is power cycling has too many failures          *)
(* (check_module_init_cb).                                                  *)
IsCheck(f) == f.callback \in {"grant", "timeout", "reconnect"}

CheckedOnce ==
  \A j, k \in 1..Len(stack) : IsCheck(stack[j]) /\ IsCheck(stack[k]) => j = k

CheckIsGuarded == \A f \in Frames(stack) : IsCheck(f) => checkingInit

CheckAgrees ==
  \A f \in Frames(stack) :
    /\ f.callback = "grant" => isolated # NoSlot /\ (f.on => f.slot = isolated)
    /\ f.callback = "timeout" => f.slot = isolated /\ modIn[isolated] = 1
    /\ f.callback = "reconnect" => isolated = NoSlot

FailuresAreCycled ==
  \A s \in Slots : failures[s] > MaxInitFailures =>
    s = isolated /\ Suspended("timeout")

CheckNotReentered ==
  CheckedOnce /\ CheckIsGuarded /\ CheckAgrees /\ FailuresAreCycled

(* At most one module at a time sees its MOD_IN pin low, and it is the one *)
(* the controller's bookkeeping (mod_isolated_out) names, through nested   *)
(* callbacks, power cycles and reboots (check_module_init_cb).             *)
OneModInLow == \A s \in Slots : modIn[s] = 0 => isolated = s

\* Slots whose state and switches the callbacks keep together.
Coherent == Switched \ overlapped

(* When nobody is isolated, an enabled slot that is off the bus is one that *)
(* a suspended callback is about to connect: whatever was switched while a  *)
(* module had its private channel, the end of isolation forgets nobody,     *)
(* unless two commands for the slot overlapped (enable_all_enabled_i2c).    *)
WillConnect(f, s) ==
  \/ f.on /\ f.callback # "grant" /\ StillSwitching(f, s)
  \/ f.callback = "reconnect" /\ f.slot < s

BusRestored ==
  isolated = NoSlot =>
    \A s \in Coherent : isolationState[s] = Enabled /\ ~i2c[s] =>
      \E f \in Frames(stack) : WillConnect(f, s)

(* An enabled slot without power is one that a suspended callback is about *)
(* to power again: no power cycle, nested in or around commands, other     *)
(* cycles and the check, leaves a slot without power that the controller   *)
(* believes enabled, unless two commands for it overlapped.                *)
WillPower(f, s) ==
  /\ f.slot = s
  /\ f.switch = "power"
  /\ \/ f.on /\ ~f.written
     \/ ~f.on /\ f.callback \in {"reset", "watchdog", "timeout"}

EnabledHasPower ==
  \A s \in Coherent : isolationState[s] = Enabled /\ ~power[s] =>
    \E f \in Frames(stack) : WillPower(f, s)

(* A module turned off by a downlink or sleeping in its duty cycle is off  *)
(* the bus as soon as the callback that did it is over: no grant, reconnect*)
(* or energy update connects it, though power cycles that overlap with the *)
(* command do give it its power back.  Only two commands for the slot that *)
(* overlap, or one that overlaps with the check connecting the slot, leave *)
(* it on the bus (energy_api_callback, downlink_cb).                       *)
OffIsDeaf ==
  \A s \in Coherent :
    isolationState[s] \in {DisabledOff, DisabledDutyCycle} /\ i2c[s] =>
      \E f \in Frames(stack) : ~f.on /\ StillSwitching(f, s)

(* Isolation never lasts: a module that neither declares itself nor raises *)
(* its pin loses the private channel (isolated_count).                     *)
IsolationEnds == \A s \in Slots : (isolated = s) ~> (isolated # s)

(* The kernel's watchdog is tickled again and again: the three ticklers it *)
(* waits for cannot starve it as long as each of them runs, and the check  *)
(* of the isolation pins is never locked out by its own re-entrancy guard  *)
(* (app_watchdog_combine, checking_init).                                  *)
KernelKeepsBeingTickled == []<>(watchdogStates = {})

=============================================================================
