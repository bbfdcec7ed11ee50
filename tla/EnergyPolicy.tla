---------------------------- MODULE EnergyPolicy ----------------------------
(***************************************************************************)
(* The controller's energy accounting (libsignpost-tock/                   *)
(* signpost_energy_policy.c): the energy of the battery is shared out to   *)
(* "logical capacitors", one for the controller and one for each module,   *)
(* which are drained by what the coulomb counters measure and by the       *)
(* reports of the modules, and filled with the harvested surplus.          *)
(*                                                                         *)
(* Execution model.  The update runs in a timer callback.  It yields while *)
(* it selects a counter's I2C channel, reads or resets the counter, reads  *)
(* the battery gauge and writes the FRAM, and there the handlers of the    *)
(* energy API run.  They select channels themselves, so that the update    *)
(* may go on with another module's counter.  From the last counter reset   *)
(* to the FRAM write it computes without yielding; the rounds of the spill *)
(* loop are steps of their own (phase "spill"), during which nothing else  *)
(* runs.  The controller may restart at any other time.                    *)
(*                                                                         *)
(* Left out: averages, times and the solar counter, which nothing here     *)
(* depends on.  A module is one of the six slots that have a counter;      *)
(* reports above 100000 uWh, which are dropped, and reports of or for a    *)
(* slot without a counter are left out too.                                *)
(***************************************************************************)
EXTENDS Integers, Sequences, FiniteSets, FiniteSetsExt, SequencesExt

CONSTANTS
  ModuleOrder,      \* the modules' slots in the order they are read
  ControllerShare,  \* of a surplus, the controller's share in Whole parts (4 of 10)
  ModuleShare,      \* and a module's (1 of 10)
  Whole,
  MaxController,    \* MAX_CONTROLLER_ENERGY_REMAINING
  MaxModule,        \* MAX_MODULE_ENERGY_REMAINING
  DebugStart,       \* DEBUG_BACKPLANE_BATTERY_START
  Gauge,            \* energies the battery gauge can show
  Amounts,          \* energies consumed between two readings, or reported
  Consumers,        \* the counters that see a consumption
  Clients,          \* the modules that query and reset their energy
  MaxUpdates,       \* bounds: updates, reports and restarts
  MaxReports,
  MaxRestarts

Modules == {ModuleOrder[i] : i \in DOMAIN ModuleOrder}
Counters == Modules \cup {"controller", "linux"}
Accounts == Modules \cup {"controller"}

ASSUME ModulesAssumption ==
  /\ Modules \cap {"controller", "linux"} = {}
  /\ ModuleOrder \in Seq(Modules) /\ IsInjective(ModuleOrder) /\ Modules # {}
ASSUME SharesAssumption ==
  /\ ControllerShare \in Nat /\ ModuleShare \in Nat /\ Whole \in Nat \ {0}
  /\ ControllerShare + Len(ModuleOrder) * ModuleShare <= Whole
  /\ MaxController \in Nat /\ MaxModule \in Nat
ASSUME EnergiesAssumption ==
  DebugStart \in Nat /\ Gauge \subseteq Nat /\ Amounts \subseteq Nat \ {0}
ASSUME ActorsAssumption == Consumers \subseteq Counters /\ Clients \subseteq Modules

VARIABLES
  counter,      \* the coulomb counters
  selected,     \* the counter the I2C selector is connected to
  remaining,    \* energy_remaining
  used,         \* energy_used, of the modules
  battery,      \* battery_energy_remaining
  batteryLast,  \* battery_last_energy_remaining
  phase,        \* where the update is, "idle" when none runs
  todo,         \* counters the update has still to read or reset
  picked,       \* the update has selected the first of them
  energy,       \* linux_energy, controller_energy and module_energy
  surplus,      \* module_surplus
  eligible,     \* spill_elgible
  fram,         \* the copy in memory that is written to the FRAM
  stored,       \* the FRAM's contents
  since,        \* per module: energy drawn and reported since its last reset
  updates, reports, restarts

counterVars == <<counter, selected>>
accountVars == <<remaining, used>>
batteryVars == <<battery, batteryLast>>
updateVars == <<phase, todo, picked, energy, surplus, eligible>>
framVars == <<fram, stored>>
bounds == <<updates, reports, restarts>>
vars == <<counterVars, accountVars, batteryVars, updateVars, framVars, since, bounds>>

-----------------------------------------------------------------------------
Total(account) == MapThenSumSet(LAMBDA a : account[a], DOMAIN account)

\* signpost_energy_policy_init without saved data: the battery is shared out.
Shared(b) == [a \in Accounts |-> IF a = "controller" THEN (b * ControllerShare) \div Whole
                                 ELSE (b * ModuleShare) \div Whole]

\* Copy of the state that is saved.
Saved(r, u) == [remaining |-> r, used |-> u]

Failed == -1   \* the gauge does not answer

\* A failing gauge means a debug backplane, with a battery that is made up.
BatteryAtStart(b) == IF b = Failed THEN DebugStart ELSE b

Init ==
  /\ \E b \in Gauge \cup {Failed} : battery = BatteryAtStart(b) /\ batteryLast = battery
  /\ phase = "idle" /\ todo = <<>> /\ picked = FALSE
  /\ energy = [c \in Counters |-> 0] /\ surplus = 0 /\ eligible = {}
  /\ counter = [c \in Counters |-> 0] /\ selected = ModuleOrder[Len(ModuleOrder)]
  /\ remaining = Shared(battery)
  /\ used = [m \in Modules |-> 0]
  /\ fram = Saved(remaining, used) /\ stored = fram
  /\ since = [m \in Modules |-> 0]
  /\ updates = 0 /\ reports = 0 /\ restarts = 0

\* The processor is between two statements of the update that do not yield.
Computing == phase = "spill"

-----------------------------------------------------------------------------
\* Somebody draws energy; the counters see it.
Consume(c, a) ==
  /\ ~Computing /\ counter[c] = 0
  /\ counter' = [counter EXCEPT ![c] = @ + a]
  /\ since' = IF c \in Modules THEN [since EXCEPT ![c] = @ + a] ELSE since
  /\ UNCHANGED <<selected, accountVars, batteryVars, updateVars, framVars, bounds>>

\* A query reads the module's counter, for what remains and for what was used.
Query(m) ==
  /\ ~Computing
  /\ selected' = m
  /\ UNCHANGED <<counter, accountVars, batteryVars, updateVars, framVars, since, bounds>>

(* signpost_energy_policy_reset_module_energy_used: the counter stays, so  *)
(* the offset is set to minus its value.                                   *)
ResetUsed(m) ==
  /\ ~Computing
  /\ selected' = m
  /\ used' = [used EXCEPT ![m] = -counter[m]]
  /\ since' = [since EXCEPT ![m] = 0]
  /\ UNCHANGED <<counter, remaining, batteryVars, updateVars, framVars, bounds>>

\* Mutant of Moved: the account it was used for is not charged.
MovedUncharged(from, to, a) == [remaining EXCEPT ![to] = @ + a]

\* Energy is taken from one account and given to another.
Moved(from, to, a) ==
  [x \in Accounts |-> remaining[x] + (IF x = to THEN a ELSE 0) - (IF x = from THEN a ELSE 0)]

(* signpost_energy_policy_update_energy_from_report, one entry: module src *)
(* has used energy on behalf of another account.                           *)
Report(src, for, a) ==
  /\ ~Computing /\ reports < MaxReports
  /\ reports' = reports + 1
  /\ remaining' = Moved(for, src, a)
  /\ LET Change(m) == (IF m = for THEN a ELSE 0) - (IF m = src THEN a ELSE 0) IN
       /\ used' = [m \in Modules |-> used[m] + Change(m)]
       /\ since' = [m \in Modules |-> since[m] + Change(m)]
  /\ UNCHANGED <<counterVars, batteryVars, updateVars, framVars, updates, restarts>>

-----------------------------------------------------------------------------
\* signpost_energy_policy_update_energy: read the coulomb counters ...
StartUpdate ==
  /\ phase = "idle" /\ updates < MaxUpdates
  /\ updates' = updates + 1
  /\ phase' = "read" /\ todo' = <<"linux", "controller">> \o ModuleOrder /\ picked' = FALSE
  /\ UNCHANGED <<counterVars, accountVars, batteryVars, energy, surplus, eligible, framVars,
                 since, reports, restarts>>

(* i2c_selector_select_channels_sync, before a counter is read or reset.   *)
(* It sets three selectors in turn and yields at each; here the last call  *)
(* to come decides, in one step.  Two calls that overlap may also leave    *)
(* the channels of two counters open at once: that is left out, as are the *)
(* yields inside of Query and ResetUsed.                                   *)
Select ==
  /\ phase \in {"read", "reset"} /\ todo # <<>> /\ ~picked
  /\ selected' = Head(todo) /\ picked' = TRUE
  /\ UNCHANGED <<counter, accountVars, batteryVars, phase, todo, energy, surplus, eligible,
                 framVars, since, bounds>>

\* Mutant of ReadCounter: the next counter is not selected.
ReadCounterUnselected ==
  /\ phase = "read" /\ picked
  /\ energy' = [energy EXCEPT ![Head(todo)] = counter[selected]]
  /\ todo' = Tail(todo)
  /\ UNCHANGED <<counterVars, accountVars, batteryVars, phase, picked, surplus, eligible,
                 framVars, since, bounds>>

\* ltc294x_get_charge_sync, of the counter that is selected now.
ReadCounter ==
  /\ phase = "read" /\ picked
  /\ energy' = [energy EXCEPT ![Head(todo)] = counter[selected]]
  /\ todo' = Tail(todo) /\ picked' = FALSE
  /\ UNCHANGED <<counterVars, accountVars, batteryVars, phase, surplus, eligible, framVars,
                 since, bounds>>

\* The gauge's value, or what should be left when it fails.
BatteryRead(b) == IF b = Failed THEN batteryLast - Total(energy) ELSE b

ReadBattery ==
  /\ phase = "read" /\ todo = <<>>
  /\ \E b \in Gauge \cup {Failed} : battery' = BatteryRead(b)
  /\ phase' = "reset" /\ todo' = <<"controller", "linux">> \o ModuleOrder
  /\ UNCHANGED <<counterVars, accountVars, batteryLast, picked, energy, surplus, eligible,
                 framVars, since, bounds>>

\* ... ltc294x_reset_charge_sync ...
ResetCounter ==
  /\ phase = "reset" /\ picked
  /\ counter' = [counter EXCEPT ![selected] = 0]
  /\ todo' = Tail(todo) /\ picked' = FALSE
  /\ UNCHANGED <<selected, accountVars, batteryVars, phase, energy, surplus, eligible,
                 framVars, since, bounds>>

\* The account a counter's energy is taken from.
Drained == [a \in Accounts |-> remaining[a] - energy[a] -
                               (IF a = "controller" THEN energy["linux"] ELSE 0)]

\* Mutant of ControllerFilled: what is above the limit is kept as well as spilled.
ControllerFilledOver(r, s) ==
  LET filled == r + (s * ControllerShare) \div Whole IN
    [remaining |-> filled, spilled |-> IF filled > MaxController
                                       THEN (filled - MaxController) \div Len(ModuleOrder) ELSE 0]

\* The controller's part of a surplus, and what it spills to each module.
ControllerFilled(r, s) ==
  LET filled == r + (s * ControllerShare) \div Whole IN
    IF filled > MaxController
    THEN [remaining |-> MaxController, spilled |-> (filled - MaxController) \div Len(ModuleOrder)]
    ELSE [remaining |-> filled, spilled |-> 0]

(* ... book what was read, and share out the surplus that the battery      *)
(* shows; or charge the controller with the losses.                        *)
Apply ==
  /\ phase = "reset" /\ todo = <<>>
  /\ used' = [m \in Modules |-> used[m] + energy[m]]
  /\ batteryLast' = battery
  /\ LET batteryUsed == batteryLast - battery
         excess == Total(energy) - batteryUsed
         c == ControllerFilled(Drained["controller"], excess) IN
       \/ /\ excess > 0
          /\ remaining' = [Drained EXCEPT !["controller"] = c.remaining]
          /\ surplus' = (excess * ModuleShare) \div Whole + c.spilled
       \/ /\ excess <= 0
          /\ remaining' = [Drained EXCEPT !["controller"] = @ + excess]
          /\ surplus' = 0
  /\ phase' = "spill" /\ eligible' = Modules
  /\ UNCHANGED <<counterVars, battery, todo, picked, energy, framVars, since, bounds>>

\* Mutant of Full: the limit is compared before the surplus is added.
FullBefore == {m \in eligible : remaining[m] > MaxModule}

\* Modules that the next round of the spill loop fills to the limit.
Full == {m \in eligible : remaining[m] + surplus > MaxModule}

\* Mutant of Spill: module_surplus is not cleared when all are full.
SpillAgain ==
  /\ phase = "spill" /\ surplus > 0
  /\ LET spillOver == Total([m \in Full |-> remaining[m] + surplus - MaxModule])
         open == eligible \ Full IN
       /\ remaining' = [a \in Accounts |->
            CASE a \in Full -> MaxModule
              [] a \in open -> remaining[a] + surplus
              [] OTHER -> IF a = "controller" /\ open = {} THEN remaining[a] + spillOver
                          ELSE remaining[a]]
       /\ surplus' = IF open = {} THEN surplus ELSE spillOver \div Cardinality(open)
       /\ eligible' = open
  /\ UNCHANGED <<counterVars, used, batteryVars, phase, todo, picked, energy, framVars,
                 since, bounds>>

\* Mutant of Spill: what is left when all are full is dropped.
SpillDropped ==
  /\ phase = "spill" /\ surplus > 0
  /\ LET spillOver == Total([m \in Full |-> remaining[m] + surplus - MaxModule])
         open == eligible \ Full IN
       /\ remaining' = [a \in Accounts |->
            CASE a \in Full -> MaxModule
              [] a \in open -> remaining[a] + surplus
              [] OTHER -> remaining[a]]
       /\ surplus' = IF open = {} THEN 0 ELSE spillOver \div Cardinality(open)
       /\ eligible' = open
  /\ UNCHANGED <<counterVars, used, batteryVars, phase, todo, picked, energy, framVars,
                 since, bounds>>

(* One round: every module that is still eligible gets the surplus; what   *)
(* does not fit is divided among the others in the next round, or goes to  *)
(* the controller when all are full.                                       *)
Spill ==
  /\ phase = "spill" /\ surplus > 0
  /\ LET spillOver == Total([m \in Full |-> remaining[m] + surplus - MaxModule])
         open == eligible \ Full IN
       /\ remaining' = [a \in Accounts |->
            CASE a \in Full -> MaxModule
              [] a \in open -> remaining[a] + surplus
              [] OTHER -> IF a = "controller" /\ open = {} THEN remaining[a] + spillOver
                          ELSE remaining[a]]
       /\ surplus' = IF open = {} THEN 0 ELSE spillOver \div Cardinality(open)
       /\ eligible' = open
  /\ UNCHANGED <<counterVars, used, batteryVars, phase, todo, picked, energy, framVars,
                 since, bounds>>

\* The update is over; update_energy_policy_cb copies the state and starts to write it.
Copy ==
  /\ phase = "spill" /\ surplus <= 0
  /\ phase' = "save"
  /\ fram' = Saved(remaining, used)
  /\ UNCHANGED <<counterVars, accountVars, batteryVars, todo, picked, energy, surplus, eligible,
                 stored, since, bounds>>

Save ==
  /\ phase = "save"
  /\ phase' = "idle" /\ stored' = fram
  /\ UNCHANGED <<counterVars, accountVars, batteryVars, todo, picked, energy, surplus, eligible,
                 fram, since, bounds>>

-----------------------------------------------------------------------------
\* The accounts after a start: the saved ones, or a made-up battery's.
Recovered(b) == IF b = Failed THEN Shared(DebugStart) ELSE stored.remaining

(* The controller restarts (signpost_controller_initialize_energy): the    *)
(* accounts are the saved ones, the counters start from 0 and the battery  *)
(* is read afresh.  Whatever it lost or won since the accounts were saved  *)
(* is booked to none of them.                                              *)
Restart(b) ==
  /\ ~Computing /\ restarts < MaxRestarts
  /\ restarts' = restarts + 1
  /\ battery' = BatteryAtStart(b) /\ batteryLast' = battery'
  /\ phase' = "idle" /\ todo' = <<>> /\ picked' = FALSE
  /\ energy' = [c \in Counters |-> 0] /\ surplus' = 0 /\ eligible' = {}
  /\ remaining' = Recovered(b)
  /\ used' = IF b = Failed THEN [m \in Modules |-> -counter[m]] ELSE stored.used
  /\ counter' = [c \in Counters |-> 0] /\ selected' = ModuleOrder[Len(ModuleOrder)]
  /\ fram' = Saved(remaining', used') /\ stored' = fram'
  /\ since' = IF b = Failed THEN [m \in Modules |-> 0] ELSE since
  /\ UNCHANGED <<updates, reports>>

Update == \/ StartUpdate \/ Select \/ ReadCounter \/ ReadBattery
          \/ ResetCounter \/ Apply \/ Spill \/ Copy \/ Save

Next ==
  \/ \E c \in Consumers, a \in Amounts : Consume(c, a)
  \/ \E m \in Clients : Query(m) \/ ResetUsed(m)
  \/ \E src \in Clients, for \in Accounts, a \in Amounts : Report(src, for, a)
  \/ Update
  \/ \E b \in Gauge \cup {Failed} : Restart(b)

Spec == Init /\ [][Next]_vars

\* The update goes on after each of its yields.
FairSpec == Spec /\ WF_vars(Update)

-----------------------------------------------------------------------------
(* Type invariant: an update has its counters to go through, the modules   *)
(* that take part in the spill are modules, and the energies are numbers.  *)
EnergyTypeOK ==
  /\ counter \in [Counters -> Nat] /\ selected \in Counters
  /\ remaining \in [Accounts -> Int] /\ used \in [Modules -> Int]
  /\ battery \in Int /\ batteryLast \in Int
  /\ phase \in {"idle", "read", "reset", "spill", "save"}
  /\ todo \in Seq(Counters) /\ picked \in BOOLEAN /\ (picked => todo # <<>>)
  /\ energy \in [Counters -> Nat]
  /\ surplus \in Int /\ eligible \subseteq Modules

(* By how much the accounts, with what the spill loop has still to hand    *)
(* out, are ahead of the battery they were last booked against.            *)
Overdraft == Total(remaining) + surplus * Cardinality(eligible) - batteryLast

(* Until the controller restarts, the accounts never hold more than the    *)
(* battery: no path through the update, with its roundings, limits and     *)
(* spills, no failing gauge, no counter read through a channel that a      *)
(* query has switched and no report creates energy.  A restart may break   *)
(* this: it takes the saved accounts whatever the gauge shows.             *)
NotOverdrawn ==
  restarts = 0 /\ phase \in {"idle", "save", "read"} => Total(remaining) <= battery

(* Nor does a step of the running controller, before or after restarts,    *)
(* take the accounts further ahead of the battery than they are: what a    *)
(* restart has put them ahead by is all that they ever are.                *)
OverdraftNeverGrows ==
  [][Overdraft' <= Overdraft \/ \E b \in Gauge \cup {Failed} : Restart(b)]_vars

(* A round of the spill loop gives away exactly what it has, up to the     *)
(* remainder of the division.                                              *)
SpillConserves ==
  [][Spill => LET Budget(r, s, e) == Total(r) + s * Cardinality(e)
                  before == Budget(remaining, surplus, eligible)
                  after == Budget(remaining', surplus', eligible') IN
                before - Cardinality(Modules) < after /\ after <= before]_vars

(* When the surplus has been shared out no module holds more than its      *)
(* limit, whatever reports had credited it with.                           *)
SurplusIsCapped ==
  [][Spill /\ surplus' <= 0 => \A m \in Modules : remaining'[m] <= MaxModule]_vars

\* Every update ends: the spill loop terminates.
UpdateEnds == phase # "idle" ~> phase = "idle"

(* "these functions tell you the energy used since the last reset of the   *)
(* module energy" (signpost_energy_policy.h:50): what a query returns is   *)
(* not more than the module has drawn, or had reported, since then.        *)
UsedSinceReset == \A m \in Modules : phase = "idle" => used[m] + counter[m] <= since[m]
=============================================================================
