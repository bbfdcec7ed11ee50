----------------------------- MODULE Isolation -----------------------------
(***************************************************************************)
(* Module initialization: the controller's slot management composed with   *)
(* the state machine every module runs (libsignpost/signpost_api.c,        *)
(* signpost_initialization_initialize_loop), their two pins, and the       *)
(* declaration that crosses the shared bus.                                *)
(*                                                                         *)
(* A module asks for isolation with MOD_OUT, is granted it with MOD_IN,    *)
(* declares its name to the controller while it is alone on the bus, and   *)
(* adopts the address in the answer.  Modules that use signpost_init start *)
(* at address 0, all of them, and get their slot's address that way.       *)
(*                                                                         *)
(* A module's record stands for the static variables of signpost_api.c;    *)
(* its "pc" says in which wait of the loop the module is:                  *)
(*   Boot       powered, MOD_IN's interrupts are not enabled yet           *)
(*   WaitGrant  waiting up to 5 s for request_isolation_complete           *)
(*   Backoff    MOD_OUT high, 3 s delay after a failure                    *)
(*   Recheck    50 ms delay before mod_in is checked                       *)
(*   Settle     500 ms delay before the declaration                        *)
(*   WaitReply  waiting up to 100 ms for declare_controller_complete       *)
(*   Idle       initialization returned, the application runs              *)
(*   Off        no power                                                   *)
(***************************************************************************)
EXTENDS ControllerSlots

CONSTANTS
  FixedAddress,  \* address given to signpost_initialization_module_init, or 0
  TracksRising,  \* the port delivers MOD_IN's rising edge (mbed: yes, Tock: no)
  Timely         \* a module finishes a declaration attempt within its deadline

ASSUME ModuleAssumption ==
  /\ FixedAddress \in [Slots -> Nat]
  /\ TracksRising \in BOOLEAN
  /\ Timely \in BOOLEAN
\* The storage master is initialized with an address of its own.
ASSUME StorageAssumption == \A s \in Unswitched : FixedAddress[s] # 0

VARIABLES
  module,     \* each module's initialization state
  inbox,      \* a declaration that reached the controller's process, or NoDeclare
  registry    \* the controller's i2c_address_mods and names

modVars == <<module, inbox, registry>>
allVars == <<vars, modVars>>

-----------------------------------------------------------------------------
NoAddress == 255
NoReply == 255
NoDeclare == [from |-> NoSlot, source |-> NoAddress, overtaken |-> FALSE]
Assigned(s) == 16 + s
Addresses == {0} \cup {FixedAddress[s] : s \in Slots} \cup {Assigned(s) : s \in Slots}

ModulePc == {"Boot", "WaitGrant", "Backoff", "Recheck", "Settle",
             "WaitReply", "Idle", "Off"}
InitState == {"RequestIsolation", "Declare", "Done"}

ModuleRecord ==
  [pc : ModulePc,
   init_state : InitState,
   is_isolated : BOOLEAN,
   request_isolation_complete : BOOLEAN,
   declare_controller_complete : BOOLEAN,
   active_callback : BOOLEAN,       \* incoming_active_callback is the declare callback
   address : Addresses,             \* module_info.i2c_address
   reply : Addresses \cup {NoReply},          \* a response not yet handled
   incoming : Addresses \cup {NoReply}]       \* *incoming_message

Fresh(s) ==
  [pc |-> "Boot", init_state |-> "RequestIsolation", is_isolated |-> FALSE,
   request_isolation_complete |-> FALSE, declare_controller_complete |-> FALSE,
   active_callback |-> FALSE, address |-> FixedAddress[s], reply |-> NoReply,
   incoming |-> NoReply]
PoweredDown(s) == [Fresh(s) EXCEPT !.pc = "Off"]

Default == [s \in Slots |->
  [address |-> IF s \in Unswitched THEN FixedAddress[s] ELSE NoAddress,
   name |-> NoSlot]]

ModTypeOK ==
  /\ module \in [Slots -> ModuleRecord]
  /\ inbox \in [from : Slots \cup {NoSlot}, source : Addresses \cup {NoAddress},
                overtaken : BOOLEAN]
  /\ registry \in [Slots -> [address : Addresses \cup {NoAddress},
                             name : Slots \cup {NoSlot}]]

ModInit ==
  /\ module = [s \in Slots |-> Fresh(s)]
  /\ inbox = NoDeclare
  /\ registry = Default

-----------------------------------------------------------------------------
(***************************************************************************)
(* What a step of the controller does to a module: its power, and the      *)
(* edges of MOD_IN, whose interrupt callbacks run at once because a module *)
(* in one of its waits is yielding.  A module that boots misses them.      *)
(***************************************************************************)
Rebooted == hardReset /\ ~hardReset'

FallingEdge(m) ==
  IF m.init_state = "RequestIsolation"
  THEN [m EXCEPT !.is_isolated = TRUE, !.init_state = "Declare",
                 !.request_isolation_complete = TRUE]
  ELSE [m EXCEPT !.is_isolated = TRUE]

\* Mutant of RisingEdge: the flag is left alone after initialization.
RisingEdgeNotWhenDone(m) ==
  IF ~TracksRising \/ m.init_state = "Done" THEN m
  ELSE [m EXCEPT !.is_isolated = FALSE, !.init_state = "RequestIsolation"]

RisingEdge(m) ==
  IF ~TracksRising THEN m
  ELSE IF m.init_state = "Done" THEN [m EXCEPT !.is_isolated = FALSE]
  ELSE [m EXCEPT !.is_isolated = FALSE, !.init_state = "RequestIsolation"]

React(s) ==
  LET m == module[s] IN
  IF ~power'[s] THEN PoweredDown(s)
  ELSE IF ~power[s] \/ (Rebooted /\ s \in Switched) THEN Fresh(s)
  ELSE IF m.pc = "Boot" THEN m
  ELSE IF modIn[s] = 1 /\ modIn'[s] = 0 THEN FallingEdge(m)
  ELSE IF modIn[s] = 0 /\ modIn'[s] = 1 THEN RisingEdge(m)
  ELSE m

(***************************************************************************)
(* From the grant to the end of an attempt a module needs 50 + 500 + 100   *)
(* ms; the controller withdraws isolation no sooner than 1000 ms + 10 * 300*)
(* ms after the grant, and takes over 3.5 s to boot.  With Timely, MOD_IN  *)
(* does not rise on a powered module that is in its attempt; a reboot      *)
(* takes the switched modules' power first.                                *)
(***************************************************************************)
InAttempt(m) ==
  \/ m.pc \in {"Recheck", "Settle", "WaitReply"}
  \/ m.pc = "WaitGrant" /\ m.request_isolation_complete

Deadline ==
  Timely => \A s \in Slots :
    InAttempt(module[s]) /\ modIn[s] = 0 /\ modIn'[s] = 1
      => Rebooted /\ s \in Switched

\* Tock queues a process's callbacks in order.  The timer's callback that was
\* queued before the message may run first, the one after it may not: it is
\* the timer of the isolation check that matters, and any number of the
\* others and of suspended callbacks' steps may come before the message.
Overtake ==
  \/ inbox = NoDeclare /\ UNCHANGED inbox
  \/ /\ inbox # NoDeclare
     /\ ~inbox.overtaken
     /\ inbox' = [inbox EXCEPT !.overtaken = TRUE]

ControllerStep ==
  /\ \/ CheckModuleInit /\ Overtake /\ UNCHANGED registry
     \/ OtherCallbacks /\ ~Rebooted /\ UNCHANGED <<inbox, registry>>
     \/ OtherCallbacks /\ Rebooted /\ inbox' = NoDeclare /\ registry' = Default
  /\ Deadline
  /\ module' = [s \in Slots |-> React(s)]

\* Mutant of NewAddress: every module is given its slot's address.
SlotAddress(source) == Assigned(isolated)
\* Only modules that start at address 0 are given a new one.
NewAddress(source) == IF source = 0 THEN Assigned(isolated) ELSE source

(***************************************************************************)
(* initialization_api_callback, InitializationDeclare: the declaration is  *)
(* taken to come from the isolated slot.  The answer goes to the source    *)
(* address: every module on the bus that listens there receives it.        *)
(***************************************************************************)
HandleDeclare ==
  /\ inbox # NoDeclare
  /\ inbox' = NoDeclare
  /\ UNCHANGED vars
  /\ \/ isolated = NoSlot /\ UNCHANGED <<module, registry>>
     \/ /\ isolated # NoSlot
        /\ LET new == NewAddress(inbox.source)
               Listeners == {s \in Slots : /\ module[s].pc # "Off"
                                           /\ i2c[s]
                                           /\ module[s].address = inbox.source}
           IN /\ registry' = [registry EXCEPT ![isolated] =
                                [address |-> new, name |-> inbox.from]]
              /\ \/ module' = [s \in Slots |->
                      IF s \in Listeners THEN [module[s] EXCEPT !.reply = new]
                      ELSE module[s]]
                 \/ UNCHANGED module     \* the answer is lost

-----------------------------------------------------------------------------
(***************************************************************************)
(* The module's side: signpost_initialization_initialize_loop.             *)
(***************************************************************************)
Module(s, m) == module' = [module EXCEPT ![s] = m]
DrivePin(s, level) == modOut' = [modOut EXCEPT ![s] = level]
PinsAlone == UNCHANGED <<isolationVars, stateVars, switchVars, serviceVars,
                         systemVars, stack>>
CanSpeak(s) == power[s] /\ i2c[s]

\* The callbacks of a process run in order, so a module has handled every
\* response that reached it before the wait or delay it is in began; only the
\* timer that ends the present wait can overtake one.
Quiet(s) == module[s].reply = NoReply

\* The module has been woken: it runs on without handling anything else.
Woken(m) ==
  \/ m.pc = "WaitGrant" /\ m.request_isolation_complete
  \/ m.pc = "WaitReply" /\ m.declare_controller_complete

Ask(m) ==
  [m EXCEPT !.pc = "WaitGrant", !.init_state = "RequestIsolation",
            !.request_isolation_complete = FALSE]

\* Where the loop goes, by init_state.  MOD_OUT is low already.
Loop(m) ==
  CASE m.init_state = "RequestIsolation" -> Ask(m)
    [] m.init_state = "Declare" -> [m EXCEPT !.pc = "Recheck"]
    [] m.init_state = "Done" -> [m EXCEPT !.pc = "Idle"]

\* signpost_init, from the interrupts to the first wait
RequestIsolation(s) ==
  /\ module[s].pc = "Boot"
  /\ Module(s, Ask(module[s]))
  /\ DrivePin(s, 0)
  /\ PinsAlone
  /\ UNCHANGED <<inbox, registry>>

Granted(s) ==
  /\ module[s].pc = "WaitGrant"
  /\ module[s].request_isolation_complete
  /\ Module(s, Loop(module[s]))
  /\ UNCHANGED <<vars, inbox, registry>>

\* Mutant of GiveUp: MOD_OUT is not raised.
GiveUpSilently(s) ==
  /\ Module(s, [module[s] EXCEPT !.pc = "Backoff"])
  /\ UNCHANGED <<vars, inbox, registry>>

\* A failed attempt: MOD_OUT high and a delay.
GiveUp(s) ==
  /\ Module(s, [module[s] EXCEPT !.pc = "Backoff"])
  /\ DrivePin(s, 1)
  /\ PinsAlone
  /\ UNCHANGED <<inbox, registry>>

GrantTimeout(s) ==
  /\ module[s].pc = "WaitGrant"
  /\ Quiet(s)
  /\ ~module[s].request_isolation_complete
  /\ GiveUp(s)

\* Mutant of BackoffOver: the attempt is resumed where the state machine is.
BackoffOverResumes(s) ==
  /\ module[s].pc = "Backoff"
  /\ Module(s, Loop([module[s] EXCEPT !.active_callback = FALSE]))
  /\ DrivePin(s, 0)
  /\ PinsAlone
  /\ UNCHANGED <<inbox, registry>>

BackoffOver(s) ==
  /\ module[s].pc = "Backoff"
  /\ Module(s, Ask([module[s] EXCEPT !.active_callback = FALSE]))
  /\ DrivePin(s, 0)
  /\ PinsAlone
  /\ UNCHANGED <<inbox, registry>>

\* Mutant of Recheck: declare_controller_complete is not reset.
RecheckStaleFlag(s) ==
  /\ module[s].pc = "Recheck"
  /\ Quiet(s)
  /\ Module(s, IF ~module[s].is_isolated /\ modIn[s] # 0
               THEN Ask(module[s])
               ELSE [module[s] EXCEPT !.pc = "Settle"])
  /\ UNCHANGED <<vars, inbox, registry>>

\* "check that mod_in is still low after delay"
Recheck(s) ==
  /\ module[s].pc = "Recheck"
  /\ Quiet(s)
  /\ Module(s, IF ~module[s].is_isolated /\ modIn[s] # 0
               THEN Ask(module[s])
               ELSE [module[s] EXCEPT !.pc = "Settle",
                                      !.declare_controller_complete = FALSE])
  /\ UNCHANGED <<vars, inbox, registry>>

\* signpost_initialization_declare_controller.  A packet that finds another
\* one unread in the controller overwrites it; a deaf controller loses it.
Declare(s) ==
  /\ module[s].pc = "Settle"
  /\ Quiet(s)
  /\ CanSpeak(s)
  /\ Module(s, [module[s] EXCEPT !.pc = "WaitReply", !.active_callback = TRUE])
  /\ \/ inbox' = [from |-> s, source |-> module[s].address, overtaken |-> FALSE]
     \/ UNCHANGED inbox
  /\ UNCHANGED <<vars, registry>>

\* The I2C write fails, as it always does off the bus.
DeclareFails(s) ==
  /\ module[s].pc = "Settle"
  /\ Quiet(s)
  /\ Module(s, [module[s] EXCEPT !.pc = "Backoff", !.active_callback = TRUE])
  /\ DrivePin(s, 1)
  /\ PinsAlone
  /\ UNCHANGED <<inbox, registry>>

\* Mutant of Receive: the buffer is cleared before it is copied.
ReceiveCleared(m) == [m EXCEPT !.reply = NoReply, !.incoming = NoReply]
\* The response is in incoming_message.
Receive(m) == [m EXCEPT !.reply = NoReply, !.incoming = m.reply]

\* signpost_api_recv_callback, then signpost_initialization_declare_callback
HandleReply(s) ==
  /\ module[s].pc # "Off"
  /\ module[s].reply # NoReply
  /\ ~Woken(module[s])
  /\ LET m == Receive(module[s])
     IN Module(s, IF ~m.active_callback THEN m
                  ELSE [m EXCEPT !.active_callback = FALSE,
                                 !.declare_controller_complete = TRUE,
                                 !.init_state = "Done"])
  /\ UNCHANGED <<vars, inbox, registry>>

\* Mutant of Adopt: the answer is ignored.
KeepAddress(m) == m
Adopt(m) == [m EXCEPT !.address = m.incoming]

\* The wait is over: adopt the new address; Done also raises MOD_OUT.
Declared(s) ==
  /\ module[s].pc = "WaitReply"
  /\ module[s].declare_controller_complete
  /\ LET m == Loop(Adopt(module[s]))
     IN Module(s, m) /\ DrivePin(s, IF m.pc = "Idle" THEN 1 ELSE modOut[s])
  /\ PinsAlone
  /\ UNCHANGED <<inbox, registry>>

DeclareTimeout(s) ==
  /\ module[s].pc = "WaitReply"
  /\ ~module[s].declare_controller_complete
  /\ GiveUp(s)

ModuleStep(s) ==
  \/ RequestIsolation(s)
  \/ Granted(s)
  \/ GrantTimeout(s)
  \/ BackoffOver(s)
  \/ Recheck(s)
  \/ Declare(s)
  \/ DeclareFails(s)
  \/ HandleReply(s)
  \/ Declared(s)
  \/ DeclareTimeout(s)

SystemInit == Init /\ ModInit

SystemNext ==
  \/ ControllerStep
  \/ HandleDeclare
  \/ \E s \in Slots : ModuleStep(s)

SystemSpec == SystemInit /\ [][SystemNext]_allVars

(***************************************************************************)
(* Fairness.  Timers fire, delays end and pending callbacks run.  The check*)
(* runs during a module's 3 s backoff, since it runs every 300 ms.  A      *)
(* module does not miss every grant, and neither every declaration nor     *)
(* every answer is lost or late: the strong fairness says that one that is *)
(* tried again and again goes through in time.                             *)
(***************************************************************************)
InTime(s) == module[s].pc = "WaitReply"

GrantInTime(s) ==
  SignalGrant /\ ControllerStep /\ isolated = s /\ module[s].pc = "WaitGrant"

Answered(s) ==
  HandleDeclare /\ InTime(s) /\ module'[s].reply # NoReply

SystemFairness ==
  /\ WF_allVars(CheckModuleInit /\ ControllerStep)
  /\ WF_allVars(HandleDeclare)
  /\ \A k \in 1..MaxDepth : SF_allVars(Continues(k) /\ ControllerStep)
  /\ \A s \in Slots :
       /\ SF_allVars(CheckGrant(s) /\ ControllerStep)
       /\ []<><<CheckGrant(s)>>_allVars => []<><<GrantInTime(s)>>_allVars
       /\ WF_allVars(ModuleStep(s))
       /\ SF_allVars(CheckModuleInit /\ ControllerStep /\ module[s].pc = "Backoff")
       /\ SF_allVars(Declare(s) /\ inbox' # inbox)
       /\ SF_allVars(Answered(s))
       /\ SF_allVars(HandleReply(s) /\ InTime(s))

FairSystem == SystemSpec /\ SystemFairness

-----------------------------------------------------------------------------
(***************************************************************************)
(* Properties                                                              *)
(***************************************************************************)
OwnAddress(s) == IF FixedAddress[s] = 0 THEN Assigned(s) ELSE FixedAddress[s]

(* Whatever the controller has recorded for a slot came from the module in *)
(* that slot: no declaration is booked to a slot that was granted isolation*)
(* after its sender had lost it (mod_isolated_out read in                  *)
(* initialization_api_callback when the message is handled).               *)
RegistrySound ==
  \A s \in Slots : registry[s].name # NoSlot =>
    registry[s] = [address |-> OwnAddress(s), name |-> s]

(* No module takes another's address, though all new modules listen at 0   *)
(* and an answer reaches every one of them that is on the bus.             *)
NoStolenAddress ==
  \A s \in Slots : module[s].address \in {FixedAddress[s], OwnAddress(s)}

(* A module whose initialization returned is known to the controller under *)
(* the address it uses, across power cycles and reboots of the controller. *)
InitializedIsRegistered ==
  \A s \in Slots : module[s].pc = "Idle" => registry[s].address = module[s].address

(* A module declares itself only while the controller has isolated it.     *)
AttemptIsIsolated ==
  \A s \in Slots : module[s].pc \in {"Settle", "WaitReply"} => isolated = s

(* A module that stays enabled gets through its initialization, whatever   *)
(* attempts failed before: no combination of timeouts on the two sides, of *)
(* lost packets and of power cycles locks it out (the retries of           *)
(* initialize_loop against last_mod_out_state and last_mod_isolated_out).  *)
EventuallyInitialized ==
  \A s \in Slots :
    <>[](isolationState[s] = Enabled) => <>(module[s].pc = "Idle")

(* signpost_api.c:262, "reset state to request isolation if no longer      *)
(* isolated": a module that believes it is isolated has its pin low.       *)
FlagFollowsPin ==
  \A s \in Slots : module[s].is_isolated => modIn[s] = 0

=============================================================================
