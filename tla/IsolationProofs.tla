--------------------------- MODULE IsolationProofs ---------------------------
(***************************************************************************)
(* Proofs about Isolation, for any slots, limits, addresses and either     *)
(* port.  A step of the composed system is a step of the controller's own  *)
(* specification, so that what ControllerSlotsProofs and                   *)
(* ControllerSlotsSafety show of the controller holds here too; the        *)
(* invariants of the modules rest on it.                                   *)
(*                                                                         *)
(* The theorems on addresses and attempts assume Timely, the deadline that *)
(* the delays in the code add up to; the one on the isolation flag assumes *)
(* TracksRising, the mbed port.  The others assume nothing.                *)
(***************************************************************************)
EXTENDS Isolation, ControllerSlotsSafety

\* A module without power is off.
RunsOnPower == \A s \in Slots : module[s].pc # "Off" => power[s]

\* A declaration on its way has a sender and a source, and an answer that was handled
\* has left an address behind.
DeclarationHasSender ==
  inbox # NoDeclare => inbox.from \in Slots /\ inbox.source \in Addresses

AnswerHasAddress ==
  \A s \in Slots : module[s].declare_controller_complete => module[s].incoming \in Addresses

\* A module that boots has seen no edge of its pin.
BootsUnaware == \A s \in Slots : module[s].pc = "Boot" => ~module[s].is_isolated

ModuleInv ==
  ModTypeOK /\ RunsOnPower /\ DeclarationHasSender /\ AnswerHasAddress /\ BootsUnaware

(***************************************************************************)
(* What is known of a module with record m, MOD_IN pin "pin" and recorded  *)
(* address "entry".  From the grant to the end of an attempt its pin is    *)
(* low.  Its declare callback is registered from the declaration to the    *)
(* end of the backoff, only an answer that finds it completes the          *)
(* initialization, and an attempt starts without such an answer.  So what  *)
(* a waiting module receives is its own address, which the controller has  *)
(* recorded, and so is what it adopts.                                     *)
(***************************************************************************)
Sound(s, m, pin, entry) ==
  /\ InAttempt(m) => pin = 0
  /\ m.active_callback => m.pc \in {"WaitReply", "Backoff"}
  /\ m.init_state = "Done" => m.pc \in {"WaitReply", "Backoff", "Idle"}
  /\ m.pc = "Settle" => ~m.declare_controller_complete
  /\ m.pc = "WaitReply" /\ m.reply # NoReply => m.reply = OwnAddress(s) /\ entry = OwnAddress(s)
  /\ m.pc = "WaitReply" /\ m.declare_controller_complete =>
       m.incoming = OwnAddress(s) /\ entry = OwnAddress(s) /\ ~m.active_callback
  /\ m.pc = "Idle" => m.address = OwnAddress(s) /\ entry = OwnAddress(s)
  /\ m.address \in {FixedAddress[s], OwnAddress(s)}

ModulesSound == \A s \in Slots : Sound(s, module[s], modIn[s], registry[s].address)

\* A declaration on its way comes from the isolated module, whose pin is low until a
\* pass of the check overtakes it.  From then on isolation may have ended, but no
\* other pass comes first that could isolate another module.
SenderIsIsolated ==
  inbox # NoDeclare =>
    /\ \/ isolated = inbox.from /\ modIn[inbox.from] = 0
       \/ inbox.overtaken /\ isolated \in {inbox.from, NoSlot}
    /\ inbox.source \in {FixedAddress[inbox.from], OwnAddress(inbox.from)}

AddressInv == ModulesSound /\ SenderIsIsolated /\ RegistrySound

-----------------------------------------------------------------------------
\* What the steps of the composed system do to the controller and to the modules.

(* The fields of a module's record.                                        *)
LEMMA Fields ==
  ASSUME ModTypeOK, NEW s \in Slots
  PROVE  /\ module[s] \in ModuleRecord
         /\ module[s].pc \in ModulePc /\ module[s].init_state \in InitState
         /\ module[s].is_isolated \in BOOLEAN
         /\ module[s].request_isolation_complete \in BOOLEAN
         /\ module[s].declare_controller_complete \in BOOLEAN
         /\ module[s].active_callback \in BOOLEAN
         /\ module[s].address \in Addresses
         /\ module[s].reply \in Addresses \cup {NoReply}
         /\ module[s].incoming \in Addresses \cup {NoReply}
BY DEF ModTypeOK, ModuleRecord

(* A step of a module changes its own record only.                         *)
LEMMA OneModule ==
  ASSUME ModTypeOK, NEW s \in Slots, NEW m, Module(s, m)
  PROVE  module'[s] = m /\ \A t \in Slots : t # s => module'[t] = module[t]
BY DEF ModTypeOK, Module

(* Of the controller's variables it moves at most its own MOD_OUT pin, and *)
(* the registry is not its business.                                       *)
LEMMA ModuleFrame ==
  ASSUME ModTypeOK, NEW s \in Slots, ModuleStep(s)
  PROVE  /\ UNCHANGED <<isolationVars, stateVars, switchVars, serviceVars, systemVars,
                        stack, registry>>
         /\ modOut' = modOut \/ \E level \in {0, 1, modOut[s]} : DrivePin(s, level)
         /\ module[s].pc # "Off"
         /\ \A t \in Slots : t # s => module'[t] = module[t]
<1>1. CASE RequestIsolation(s)
  BY <1>1, OneModule DEF RequestIsolation, PinsAlone
<1>2. CASE Granted(s)
  BY <1>2, OneModule DEF Granted, vars
<1>3. CASE GrantTimeout(s)
  BY <1>3, OneModule DEF GrantTimeout, GiveUp, PinsAlone
<1>4. CASE BackoffOver(s)
  BY <1>4, OneModule DEF BackoffOver, PinsAlone
<1>5. CASE Recheck(s)
  BY <1>5, OneModule DEF Recheck, vars
<1>6. CASE Declare(s)
  BY <1>6, OneModule DEF Declare, vars
<1>7. CASE DeclareFails(s)
  BY <1>7, OneModule DEF DeclareFails, PinsAlone
<1>8. CASE HandleReply(s)
  BY <1>8, OneModule DEF HandleReply, vars
<1>9. CASE Declared(s)
  BY <1>9, OneModule DEF Declared, PinsAlone
<1>10. CASE DeclareTimeout(s)
  BY <1>10, OneModule DEF DeclareTimeout, GiveUp, PinsAlone
<1>. QED  BY <1>1, <1>2, <1>3, <1>4, <1>5, <1>6, <1>7, <1>8, <1>9, <1>10 DEF ModuleStep

-----------------------------------------------------------------------------
\* The composition implements the controller's specification.

(* A step of the composed system is a step of ControllerSlots: its modules *)
(* drive their pins only while they have power.                            *)
LEMMA ComposedStep ==
  ASSUME TypeOK, ModuleInv, [SystemNext]_allVars
  PROVE  [Next]_vars
<1>1. CASE ControllerStep
  BY <1>1 DEF ControllerStep, Next, Controller
<1>2. CASE HandleDeclare
  BY <1>2 DEF HandleDeclare
<1>3. ASSUME NEW s \in Slots, ModuleStep(s) PROVE [Next]_vars
  <2>1. /\ UNCHANGED <<isolationVars, stateVars, switchVars, serviceVars, systemVars, stack>>
        /\ modOut' = modOut \/ \E level \in {0, 1, modOut[s]} : DrivePin(s, level)
        /\ power[s]
    BY <1>3, ModuleFrame DEF ModuleInv, RunsOnPower
  <2>2. modOut \in [Slots -> {0, 1}]
    BY DEF TypeOK
  <2>3. modOut' = modOut \/ modOut' = [modOut EXCEPT ![s] = 1 - @]
    BY <2>1, <2>2 DEF DrivePin
  <2>4. CASE modOut' = modOut
    BY <2>1, <2>4 DEF vars
  <2>5. CASE modOut' = [modOut EXCEPT ![s] = 1 - @]
    BY <2>1, <2>5 DEF Next, ModuleMovesPin
  <2>. QED  BY <2>3, <2>4, <2>5
<1>4. CASE UNCHANGED allVars
  BY <1>4 DEF allVars
<1>. QED  BY <1>1, <1>2, <1>3, <1>4 DEF SystemNext

-----------------------------------------------------------------------------
\* The transitions of the initialization loop, from record m to record r.

ToWait(m, r) == m.pc = "Boot" /\ r = Ask(m)
ToAttempt(m, r) == m.pc = "WaitGrant" /\ m.request_isolation_complete /\ r = Loop(m)
ToBackoff(m, r) == /\ m.pc = "WaitGrant" \/ (m.pc = "WaitReply" /\ ~m.declare_controller_complete)
                   /\ r = [m EXCEPT !.pc = "Backoff"]
ToRequest(m, r) == /\ m.pc = "Backoff"
                   /\ r = Ask([m EXCEPT !.active_callback = FALSE])
ToRetry(m, r) == m.pc = "Recheck" /\ r = Ask(m)
ToSettle(m, r) == /\ m.pc = "Recheck"
                  /\ r = [m EXCEPT !.pc = "Settle", !.declare_controller_complete = FALSE]
ToReply(m, r) == /\ m.pc = "Settle" /\ m.reply = NoReply
                 /\ r = [m EXCEPT !.pc = "WaitReply", !.active_callback = TRUE]
ToFailure(m, r) == /\ m.pc = "Settle"
                   /\ r = [m EXCEPT !.pc = "Backoff", !.active_callback = TRUE]
Received(m, r) == /\ m.reply # NoReply /\ ~Woken(m) /\ ~m.active_callback
                  /\ r = Receive(m)
Completed(m, r) == /\ m.reply # NoReply /\ ~Woken(m) /\ m.active_callback
                   /\ r = [Receive(m) EXCEPT !.active_callback = FALSE,
                                             !.declare_controller_complete = TRUE,
                                             !.init_state = "Done"]
ToIdle(m, r) == /\ m.pc = "WaitReply" /\ m.declare_controller_complete
                /\ r = Loop(Adopt(m))

Becomes(m, r) ==
  \/ ToWait(m, r) \/ ToAttempt(m, r) \/ ToBackoff(m, r) \/ ToRequest(m, r)
  \/ ToRetry(m, r) \/ ToSettle(m, r) \/ ToReply(m, r) \/ ToFailure(m, r)
  \/ Received(m, r) \/ Completed(m, r) \/ ToIdle(m, r)

(* A step of a module is one of these.                                     *)
LEMMA StepBecomes ==
  ASSUME ModTypeOK, NEW s \in Slots, ModuleStep(s)
  PROVE  Becomes(module[s], module'[s])
<1>. DEFINE m == module[s]
<1>1. CASE RequestIsolation(s)
  BY <1>1, OneModule DEF RequestIsolation, Becomes, ToWait
<1>2. CASE Granted(s)
  BY <1>2, OneModule DEF Granted, Becomes, ToAttempt
<1>3. CASE GrantTimeout(s) \/ DeclareTimeout(s)
  BY <1>3, OneModule DEF GrantTimeout, DeclareTimeout, GiveUp, Becomes, ToBackoff
<1>4. CASE BackoffOver(s)
  BY <1>4, OneModule DEF BackoffOver, Becomes, ToRequest
<1>5. CASE Recheck(s)
  BY <1>5, OneModule DEF Recheck, Becomes, ToRetry, ToSettle
<1>6. CASE Declare(s)
  BY <1>6, OneModule DEF Declare, Quiet, Becomes, ToReply
<1>7. CASE DeclareFails(s)
  BY <1>7, OneModule DEF DeclareFails, Becomes, ToFailure
<1>8. CASE HandleReply(s)
  <2>1. Receive(m).active_callback = m.active_callback
    BY Fields DEF Receive, ModuleRecord
  <2>. QED  BY <1>8, <2>1, OneModule DEF HandleReply, Becomes, Received, Completed
<1>9. CASE Declared(s)
  BY <1>9, OneModule DEF Declared, Becomes, ToIdle
<1>. QED  BY <1>1, <1>2, <1>3, <1>4, <1>5, <1>6, <1>7, <1>8, <1>9 DEF ModuleStep

(* What an answer does to a record, as the shared receive leaves it and as *)
(* the loop adopts it.                                                     *)
LEMMA AnswerFields ==
  ASSUME NEW m \in ModuleRecord
  PROVE  /\ m.reply # NoReply => Receive(m) \in ModuleRecord
         /\ Receive(m).reply = NoReply /\ Receive(m).incoming = m.reply
         /\ Receive(m).pc = m.pc /\ Receive(m).init_state = m.init_state
         /\ Receive(m).is_isolated = m.is_isolated
         /\ Receive(m).request_isolation_complete = m.request_isolation_complete
         /\ Receive(m).declare_controller_complete = m.declare_controller_complete
         /\ Receive(m).active_callback = m.active_callback
         /\ Receive(m).address = m.address
         /\ m.incoming \in Addresses => Adopt(m) \in ModuleRecord
         /\ Adopt(m).address = m.incoming /\ Adopt(m).pc = m.pc
         /\ Adopt(m).init_state = m.init_state /\ Adopt(m).is_isolated = m.is_isolated
         /\ Adopt(m).declare_controller_complete = m.declare_controller_complete
         /\ Adopt(m).active_callback = m.active_callback
         /\ Adopt(m).incoming = m.incoming
         /\ Adopt(m).request_isolation_complete = m.request_isolation_complete
<1>1. ASSUME NEW r, r = Receive(m)
      PROVE  /\ m.reply # NoReply => r \in ModuleRecord
             /\ r.reply = NoReply /\ r.incoming = m.reply
             /\ r.pc = m.pc /\ r.init_state = m.init_state /\ r.is_isolated = m.is_isolated
             /\ r.request_isolation_complete = m.request_isolation_complete
             /\ r.declare_controller_complete = m.declare_controller_complete
             /\ r.active_callback = m.active_callback /\ r.address = m.address
  BY <1>1 DEF Receive, ModuleRecord
<1>2. ASSUME NEW r, r = Adopt(m)
      PROVE  /\ m.incoming \in Addresses => r \in ModuleRecord
             /\ r.address = m.incoming /\ r.pc = m.pc
             /\ r.init_state = m.init_state /\ r.is_isolated = m.is_isolated
             /\ r.declare_controller_complete = m.declare_controller_complete
             /\ r.active_callback = m.active_callback /\ r.incoming = m.incoming
             /\ r.request_isolation_complete = m.request_isolation_complete
  BY <1>2 DEF Adopt, ModuleRecord
<1>. QED  BY <1>1, <1>2

(* No transition of the loop touches is_isolated, which only the edges of  *)
(* MOD_IN write.                                                           *)
LEMMA LoopKeepsFlag ==
  ASSUME NEW m \in ModuleRecord, NEW r, Becomes(m, r),
         m.declare_controller_complete => m.incoming \in Addresses
  PROVE  r.is_isolated = m.is_isolated
<1>1. CASE ToWait(m, r) \/ ToBackoff(m, r) \/ ToRequest(m, r) \/ ToRetry(m, r)
           \/ ToSettle(m, r) \/ ToReply(m, r) \/ ToFailure(m, r)
  BY <1>1 DEF ToWait, ToBackoff, ToRequest, ToRetry, ToSettle, ToReply, ToFailure, Ask,
              ModuleRecord
<1>2. CASE ToAttempt(m, r)
  BY <1>2 DEF ToAttempt, Loop, Ask, ModuleRecord, InitState
<1>3. CASE Received(m, r) \/ Completed(m, r)
  <2>1. Receive(m) \in ModuleRecord /\ Receive(m).is_isolated = m.is_isolated
    BY <1>3, AnswerFields DEF Received, Completed
  <2>. QED  BY <1>3, <2>1 DEF Received, Completed, ModuleRecord
<1>4. CASE ToIdle(m, r)
  <2>1. Adopt(m) \in ModuleRecord /\ Adopt(m).is_isolated = m.is_isolated
    BY <1>4, AnswerFields DEF ToIdle
  <2>. QED  BY <1>4, <2>1 DEF ToIdle, Loop, Ask, ModuleRecord, InitState
<1>. QED  BY <1>1, <1>2, <1>3, <1>4 DEF Becomes

-----------------------------------------------------------------------------
\* Types of the modules' records.

GoodRecord(m) ==
  /\ m \in ModuleRecord
  /\ m.declare_controller_complete => m.incoming \in Addresses
  /\ m.pc = "Boot" => ~m.is_isolated

(* A record that a module starts with is a good one.                       *)
LEMMA FreshIsGood ==
  ASSUME NEW s \in Slots
  PROVE  GoodRecord(Fresh(s)) /\ GoodRecord(PoweredDown(s))
BY ModuleAssumption DEF GoodRecord, Fresh, PoweredDown, ModuleRecord, ModulePc, InitState,
                        Addresses

(* A transition of the loop leaves a good record.                          *)
LEMMA LoopIsGood ==
  ASSUME NEW m, NEW r, GoodRecord(m), Becomes(m, r)
  PROVE  GoodRecord(r)
<1>1. CASE ToWait(m, r) \/ ToBackoff(m, r)
  BY <1>1 DEF ToWait, ToBackoff, Ask, GoodRecord, ModuleRecord, ModulePc, InitState
<1>2. CASE ToAttempt(m, r)
  BY <1>2 DEF ToAttempt, Loop, Ask, GoodRecord, ModuleRecord, ModulePc, InitState
<1>3. CASE ToRequest(m, r) \/ ToRetry(m, r)
  BY <1>3 DEF ToRequest, ToRetry, Ask, GoodRecord, ModuleRecord, ModulePc, InitState
<1>4. CASE ToSettle(m, r) \/ ToReply(m, r) \/ ToFailure(m, r)
  BY <1>4 DEF ToSettle, ToReply, ToFailure, GoodRecord, ModuleRecord, ModulePc
<1>5. CASE Received(m, r) \/ Completed(m, r)
  <2>1. m \in ModuleRecord /\ m.reply \in Addresses
    BY <1>5 DEF Received, Completed, GoodRecord, ModuleRecord
  <2>2. /\ Receive(m) \in ModuleRecord /\ Receive(m).incoming \in Addresses
        /\ Receive(m).pc = "Boot" => ~Receive(m).is_isolated
    BY <1>5, <2>1, AnswerFields DEF Received, Completed, GoodRecord
  <2>. QED  BY <1>5, <2>2 DEF Received, Completed, GoodRecord, ModuleRecord, InitState
<1>6. CASE ToIdle(m, r)
  <2>1. GoodRecord(Adopt(m))
    BY <1>6, AnswerFields DEF ToIdle, GoodRecord
  <2>. QED  BY <1>6, <2>1 DEF ToIdle, Loop, Ask, GoodRecord, ModuleRecord, ModulePc,
                                InitState
<1>. QED  BY <1>1, <1>2, <1>3, <1>4, <1>5, <1>6 DEF Becomes

(* So do the edges of MOD_IN and the power switches.                       *)
LEMMA ReactionIsGood ==
  ASSUME NEW s \in Slots, GoodRecord(module[s])
  PROVE  GoodRecord(React(s))
<1>1. module[s].pc # "Boot" =>
        GoodRecord(FallingEdge(module[s])) /\ GoodRecord(RisingEdge(module[s]))
  BY DEF GoodRecord, ModuleRecord, InitState, FallingEdge, RisingEdge
<1>. QED  BY <1>1, FreshIsGood DEF React

(* A declaration in the controller's process keeps its sender and source   *)
(* until it is handled or lost in a reboot.                                *)
LEMMA InboxUnderController ==
  ASSUME ModTypeOK, ControllerStep
  PROVE  /\ \/ inbox' = NoDeclare
            \/ inbox' = inbox /\ OtherCallbacks /\ ~Rebooted
            \/ /\ inbox'.from = inbox.from /\ inbox'.source = inbox.source
               /\ inbox # NoDeclare /\ ~inbox.overtaken /\ inbox'.overtaken
               /\ CheckModuleInit
         /\ inbox' = NoDeclare \/ inbox' \in [from : Slots \cup {NoSlot},
                                             source : Addresses \cup {NoAddress},
                                             overtaken : BOOLEAN]
         /\ registry' = registry \/ (Rebooted /\ registry' = Default)
<1>1. \/ inbox' = NoDeclare \/ inbox' = inbox
      \/ /\ inbox # NoDeclare /\ ~inbox.overtaken /\ inbox' = [inbox EXCEPT !.overtaken = TRUE]
         /\ CheckModuleInit
  BY DEF ControllerStep, Overtake
<1>2. inbox \in [from : Slots \cup {NoSlot}, source : Addresses \cup {NoAddress},
                 overtaken : BOOLEAN]
  BY DEF ModTypeOK
<1>3. registry' = registry \/ (Rebooted /\ registry' = Default)
  BY DEF ControllerStep
<1>4. inbox' = inbox => inbox = NoDeclare \/ (OtherCallbacks /\ ~Rebooted)
  BY <1>2 DEF ControllerStep, Overtake
<1>5. CASE inbox' = NoDeclare \/ inbox' = inbox
  BY <1>2, <1>3, <1>4, <1>5
<1>6. CASE /\ inbox # NoDeclare /\ ~inbox.overtaken /\ inbox' = [inbox EXCEPT !.overtaken = TRUE]
           /\ CheckModuleInit
  BY <1>2, <1>3, <1>6
<1>. QED  BY <1>1, <1>5, <1>6

(* The answer to a declaration: the isolated slot is recorded with it, and *)
(* it reaches some modules, whose records do not change otherwise.         *)
LEMMA Handled ==
  ASSUME TypeOK, ModTypeOK, HandleDeclare
  PROVE  /\ inbox # NoDeclare /\ inbox' = NoDeclare
         /\ UNCHANGED vars
         /\ \/ UNCHANGED <<module, registry>>
            \/ /\ isolated \in Slots
               /\ registry' = [registry EXCEPT ![isolated] =
                     [address |-> NewAddress(inbox.source), name |-> inbox.from]]
               /\ DOMAIN module' = Slots /\ \E f : module' = [s \in Slots |-> f[s]]
               /\ \A s \in Slots :
                    \/ module'[s] = module[s]
                    \/ module'[s] = [module[s] EXCEPT !.reply = NewAddress(inbox.source)]
<1>1. CASE isolated = NoSlot
  BY <1>1 DEF HandleDeclare
<1>2. CASE isolated # NoSlot
  <2>1. isolated \in Slots
    BY <1>2 DEF TypeOK
  <2>2. /\ registry' = [registry EXCEPT ![isolated] =
                     [address |-> NewAddress(inbox.source), name |-> inbox.from]]
        /\ \/ module' = [s \in Slots |->
                IF s \in {t \in Slots : /\ module[t].pc # "Off" /\ i2c[t]
                                        /\ module[t].address = inbox.source}
                THEN [module[s] EXCEPT !.reply = NewAddress(inbox.source)] ELSE module[s]]
           \/ module' = module
    BY <1>2 DEF HandleDeclare
  <2>3. module = [s \in Slots |-> module[s]]
    BY DEF ModTypeOK
  <2>4. \A s \in Slots :
          \/ module'[s] = module[s]
          \/ module'[s] = [module[s] EXCEPT !.reply = NewAddress(inbox.source)]
    BY <2>2
  <2>5. DOMAIN module' = Slots /\ module' = [s \in Slots |-> module'[s]]
    BY <2>2, <2>3
  <2>6. \E f : module' = [s \in Slots |-> f[s]]
    BY <2>5
  <2>7. inbox # NoDeclare /\ inbox' = NoDeclare /\ UNCHANGED vars
    BY DEF HandleDeclare
  <2>. QED  BY <2>1, <2>2, <2>4, <2>5, <2>6, <2>7
<1>. QED  BY <1>1, <1>2

(* The modules' part of the invariant is kept by every step.               *)
LEMMA ModuleInvStep ==
  ASSUME TypeOK, TypeOK', ModuleInv, [SystemNext]_allVars
  PROVE  ModuleInv'
<1>. USE DEF ModuleInv
<1>1. \A s \in Slots : GoodRecord(module[s])
  BY Fields DEF GoodRecord, AnswerHasAddress, BootsUnaware
<1>. DEFINE InboxType == [from : Slots \cup {NoSlot}, source : Addresses \cup {NoAddress},
                          overtaken : BOOLEAN]
            EntryType == [address : Addresses \cup {NoAddress}, name : Slots \cup {NoSlot}]
<1>2. SUFFICES /\ module' \in [Slots -> ModuleRecord]
               /\ \A s \in Slots : GoodRecord(module'[s])
               /\ \A s \in Slots : module'[s].pc # "Off" => power'[s]
               /\ inbox' \in InboxType /\ registry' \in [Slots -> EntryType]
               /\ inbox' # NoDeclare => inbox'.from \in Slots /\ inbox'.source \in Addresses
  BY DEF ModTypeOK, RunsOnPower, DeclarationHasSender, AnswerHasAddress, BootsUnaware, GoodRecord
<1>3. NoDeclare \in InboxType
  BY DEF NoDeclare
<1>4. inbox \in InboxType /\ registry \in [Slots -> EntryType]
  BY DEF ModTypeOK
<1>5. CASE ControllerStep
  <2>1. module' = [s \in Slots |-> React(s)]
    BY <1>5 DEF ControllerStep
  <2>2. \A s \in Slots : GoodRecord(module'[s])
    BY <1>1, <2>1, ReactionIsGood
  <2>3. ASSUME NEW s \in Slots, ~power'[s] PROVE module'[s].pc = "Off"
    BY <2>1, <2>3 DEF React, PoweredDown, Fresh
  <2>4. Default \in [Slots -> EntryType]
    BY ModuleAssumption DEF Default, Addresses
  <2>5. module' \in [Slots -> ModuleRecord]
    BY <2>1, <2>2 DEF GoodRecord
  <2>6. inbox' \in InboxType /\ registry' \in [Slots -> EntryType]
    BY <1>3, <1>4, <1>5, <2>4, InboxUnderController
  <2>7. inbox' # NoDeclare => inbox'.from \in Slots /\ inbox'.source \in Addresses
    BY <1>5, InboxUnderController DEF DeclarationHasSender
  <2>. HIDE DEF InboxType, EntryType
  <2>. QED  BY <2>2, <2>3, <2>5, <2>6, <2>7
<1>6. CASE HandleDeclare
  <2>1. CASE UNCHANGED <<module, registry>>
    <3>1. UNCHANGED power
      BY <1>6 DEF HandleDeclare, vars, switchVars
    <3>. HIDE DEF InboxType, EntryType
    <3>. QED  BY <1>1, <1>3, <1>4, <1>6, <2>1, <3>1, Handled DEF ModTypeOK, RunsOnPower
  <2>2. CASE ~UNCHANGED <<module, registry>>
    <3>1. NewAddress(inbox.source) \in Addresses
      BY <1>6, <2>2, Handled, SlotsAssumption DEF NewAddress, Addresses, DeclarationHasSender
    <3>2. UNCHANGED power
      BY <1>6 DEF HandleDeclare, vars, switchVars
    <3>3. ASSUME NEW s \in Slots
          PROVE  GoodRecord(module'[s]) /\ module'[s].pc = module[s].pc
      <4>1. GoodRecord(module[s])
        BY <1>1
      <4>2. \/ module'[s] = module[s]
            \/ module'[s] = [module[s] EXCEPT !.reply = NewAddress(inbox.source)]
        BY <1>6, <2>2, Handled
      <4>. QED  BY <3>1, <4>1, <4>2 DEF GoodRecord, ModuleRecord
    <3>4. module' \in [Slots -> ModuleRecord]
      BY <1>6, <2>2, <3>3, Handled DEF GoodRecord
    <3>5. registry' \in [Slots -> EntryType]
      BY <1>4, <1>6, <2>2, <3>1, Handled DEF DeclarationHasSender
    <3>. HIDE DEF InboxType, EntryType
    <3>. QED  BY <1>3, <1>6, <3>2, <3>3, <3>4, <3>5, Handled DEF RunsOnPower
  <2>. QED  BY <2>1, <2>2
<1>7. ASSUME NEW s \in Slots, ModuleStep(s)
      PROVE  /\ module' \in [Slots -> ModuleRecord]
             /\ \A t \in Slots : GoodRecord(module'[t])
             /\ \A t \in Slots : module'[t].pc # "Off" => power'[t]
             /\ inbox' \in InboxType /\ registry' \in [Slots -> EntryType]
             /\ inbox' # NoDeclare => inbox'.from \in Slots /\ inbox'.source \in Addresses
  <2>1. /\ module[s].pc # "Off" /\ UNCHANGED <<power, registry>>
        /\ \A t \in Slots : t # s => module'[t] = module[t]
    BY <1>7, ModuleFrame DEF switchVars
  <2>2. \A t \in Slots : GoodRecord(module'[t])
    BY <1>1, <1>7, <2>1, StepBecomes, LoopIsGood
  <2>3. \E m : module' = [module EXCEPT ![s] = m]
    BY <1>7 DEF ModuleStep, Module, RequestIsolation, Granted, GrantTimeout, BackoffOver, Recheck,
                Declare, DeclareFails, HandleReply, Declared, DeclareTimeout, GiveUp
  <2>4. module' \in [Slots -> ModuleRecord]
    BY <2>2, <2>3 DEF GoodRecord, ModTypeOK
  <2>5. \/ inbox' = inbox
        \/ inbox' = [from |-> s, source |-> module[s].address, overtaken |-> FALSE]
    BY <1>7 DEF ModuleStep, RequestIsolation, Granted, GrantTimeout, BackoffOver, Recheck,
                Declare, DeclareFails, HandleReply, Declared, DeclareTimeout, GiveUp
  <2>6. /\ inbox' \in InboxType
        /\ inbox' # NoDeclare => inbox'.from \in Slots /\ inbox'.source \in Addresses
    <3>1. module[s].address \in Addresses
      BY Fields
    <3>2. CASE inbox' = inbox
      BY <1>4, <3>2 DEF DeclarationHasSender
    <3>3. CASE inbox' = [from |-> s, source |-> module[s].address, overtaken |-> FALSE]
      BY <3>1, <3>3
    <3>. QED  BY <2>5, <3>2, <3>3
  <2>. HIDE DEF InboxType, EntryType
  <2>. QED  BY <1>4, <2>1, <2>2, <2>4, <2>6 DEF RunsOnPower
<1>8. CASE UNCHANGED allVars
  BY <1>1, <1>4, <1>8 DEF allVars, modVars, vars, switchVars, ModTypeOK, RunsOnPower,
                          DeclarationHasSender
<1>. QED  BY <1>5, <1>6, <1>7, <1>8 DEF SystemNext

(* Every module starts afresh, and no declaration is on its way.           *)
LEMMA ModuleInvStart == SystemInit => ModuleInv
<1>. SUFFICES ASSUME SystemInit PROVE ModuleInv
  OBVIOUS
<1>1. /\ module = [s \in Slots |-> Fresh(s)] /\ inbox = NoDeclare /\ registry = Default
      /\ power = [s \in Slots |-> TRUE]
  BY DEF SystemInit, ModInit, Init, Each
<1>2. \A s \in Slots : GoodRecord(module[s])
  BY <1>1, FreshIsGood
<1>3. ModTypeOK
  <2>1. module \in [Slots -> ModuleRecord]
    BY <1>1, <1>2 DEF GoodRecord
  <2>2. registry \in [Slots -> [address : Addresses \cup {NoAddress},
                                name : Slots \cup {NoSlot}]]
    BY <1>1, ModuleAssumption DEF Default, Addresses
  <2>. QED  BY <1>1, <2>1, <2>2 DEF ModTypeOK, NoDeclare
<1>. QED  BY <1>1, <1>2, <1>3 DEF ModuleInv, RunsOnPower, DeclarationHasSender,
                                  AnswerHasAddress, BootsUnaware, GoodRecord

(* The controller's invariant and the modules' hold together.              *)
LEMMA ComposedInvariant == SystemSpec => [](TypeOK /\ CheckNotReentered /\ ModuleInv)
<1>1. SystemInit => TypeOK /\ CheckNotReentered /\ ModuleInv
  BY InitIsSound, ModuleInvStart DEF SystemInit
<1>2. TypeOK /\ CheckNotReentered /\ ModuleInv /\ [SystemNext]_allVars
        => (TypeOK /\ CheckNotReentered /\ ModuleInv)'
  BY ComposedStep, SoundStep, ModuleInvStep
<1>. QED  BY <1>1, <1>2, PTL DEF SystemSpec

(* The controller composed with modules that run their initialization loop *)
(* is the controller of ControllerSlots, whose modules move their pins as  *)
(* they like: all that is shown there of Spec holds of SystemSpec.         *)
THEOREM CompositionIsController == SystemSpec => Spec
<1>1. SystemInit => Init
  BY DEF SystemInit
<1>2. TypeOK /\ CheckNotReentered /\ ModuleInv /\ [SystemNext]_allVars => [Next]_vars
  BY ComposedStep
<1>. QED  BY <1>1, <1>2, ComposedInvariant, PTL DEF SystemSpec, Spec

(* The records of the modules, the declaration on its way and the          *)
(* controller's registry keep their types: in particular a module never    *)
(* adopts an address out of an answer it has not received.                 *)
THEOREM ModuleTypeCorrect == SystemSpec => []ModTypeOK
<1>1. TypeOK /\ CheckNotReentered /\ ModuleInv => ModTypeOK
  BY DEF ModuleInv
<1>. QED  BY <1>1, ComposedInvariant, PTL

-----------------------------------------------------------------------------
\* The isolation flag.

(* On a port that delivers the rising edge of MOD_IN (mbed) a module       *)
(* believes it is isolated only while its pin is low, whatever becomes of  *)
(* its power, its attempt and the controller.                              *)
THEOREM FlagFollows ==
  ASSUME TracksRising
  PROVE  SystemSpec => []FlagFollowsPin
<1>1. SystemInit => FlagFollowsPin
  BY DEF SystemInit, ModInit, Fresh, FlagFollowsPin
<1>2. TypeOK /\ ModuleInv /\ TypeOK' /\ FlagFollowsPin /\ [SystemNext]_allVars => FlagFollowsPin'
  <2>. SUFFICES ASSUME TypeOK, ModuleInv, TypeOK', FlagFollowsPin, [SystemNext]_allVars,
                       NEW t \in Slots, module'[t].is_isolated
                PROVE  modIn'[t] = 0
    BY DEF FlagFollowsPin
  <2>. USE DEF ModuleInv
  <2>1. module[t] \in ModuleRecord /\ modIn[t] \in {0, 1} /\ modIn'[t] \in {0, 1}
    BY Fields DEF TypeOK
  <2>2. module[t].is_isolated => modIn[t] = 0
    BY DEF FlagFollowsPin
  <2>3. CASE ControllerStep
    <3>1. module'[t] = React(t)
      BY <2>3 DEF ControllerStep
    <3>2. ~Fresh(t).is_isolated /\ ~PoweredDown(t).is_isolated
      BY DEF Fresh, PoweredDown
    <3>3. ~RisingEdge(module[t]).is_isolated
      BY <2>1 DEF RisingEdge, ModuleRecord
    <3>4. module[t].pc = "Boot" => ~module[t].is_isolated
      BY DEF BootsUnaware
    <3>. QED  BY <2>1, <2>2, <3>1, <3>2, <3>3, <3>4 DEF React
  <2>4. CASE HandleDeclare
    <3>1. \/ module'[t] = module[t]
          \/ module'[t] = [module[t] EXCEPT !.reply = NewAddress(inbox.source)]
      BY <2>4, Handled
    <3>2. ASSUME NEW m \in ModuleRecord, NEW r, NEW a, r = [m EXCEPT !.reply = a]
          PROVE  r.is_isolated = m.is_isolated
      BY <3>2 DEF ModuleRecord
    <3>. HIDE DEF ModuleInv
    <3>3. module'[t].is_isolated = module[t].is_isolated
      BY <2>1, <3>1, <3>2
    <3>4. UNCHANGED modIn
      BY <2>4 DEF HandleDeclare, vars, isolationVars
    <3>. QED  BY <2>2, <3>3, <3>4
  <2>5. ASSUME NEW s \in Slots, ModuleStep(s)
        PROVE  module'[t].is_isolated = module[t].is_isolated /\ UNCHANGED modIn
    <3>1. UNCHANGED modIn /\ (t # s => module'[t] = module[t])
      BY <2>5, ModuleFrame DEF isolationVars
    <3>2. module'[s].is_isolated = module[s].is_isolated
      BY <2>5, StepBecomes, LoopKeepsFlag, Fields DEF AnswerHasAddress
    <3>. QED  BY <3>1, <3>2
  <2>6. CASE UNCHANGED allVars
    BY <2>2, <2>6 DEF allVars, modVars, vars, isolationVars
  <2>. QED  BY <2>2, <2>3, <2>4, <2>5, <2>6 DEF SystemNext
<1>. QED  BY <1>1, <1>2, ComposedInvariant, PTL DEF SystemSpec

-----------------------------------------------------------------------------
\* The addresses.

(* Only a pass of the check raises the isolated module's pin or isolates   *)
(* another, the latter only when nobody is isolated.  A reboot is all that *)
(* ends a hard reset.                                                      *)
LEMMA ControllerFacts ==
  ASSUME TypeOK, CheckNotReentered
  PROVE  /\ CheckModuleInit /\ isolated # NoSlot => isolated' \in {isolated, NoSlot}
         /\ OtherCallbacks /\ ~Rebooted =>
              /\ isolated' \in {isolated, NoSlot}
              /\ isolated # NoSlot /\ modIn[isolated] = 0 => UNCHANGED isolated
              /\ \A s \in Slots : modIn[s] = 0 => modIn'[s] = 0
<1>1. CheckModuleInit /\ isolated # NoSlot => isolated' \in {isolated, NoSlot}
  BY DEF CheckModuleInit, CheckGrant, CheckNobody, CheckReleased, CheckTimedOut,
         CheckPowerCycle, CheckStillIsolated, EndIsolation
<1>. SUFFICES ASSUME OtherCallbacks, ~Rebooted
              PROVE  /\ isolated' \in {isolated, NoSlot}
                     /\ isolated # NoSlot /\ modIn[isolated] = 0 => UNCHANGED isolated
                     /\ \A s \in Slots : modIn[s] = 0 => modIn'[s] = 0
  BY <1>1
<1>2. CASE UNCHANGED <<isolated, modIn>>
  BY <1>2
<1>3. CASE FinishPowerCycle
  <2>1. IsCheck(Top) /\ Top.callback = "timeout" /\ stack # <<>>
    BY <1>3 DEF FinishPowerCycle, Returned, IsCheck
  <2>2. modIn[isolated] = 1
    BY <2>1, CheckIsAlone DEF Agrees
  <2>. QED  BY <1>3, <2>2 DEF FinishPowerCycle, EndIsolation
<1>4. CASE SignalGrant
  BY <1>4 DEF SignalGrant, TypeOK
<1>5. CASE Resume /\ ~FinishPowerCycle /\ ~SignalGrant
  <2>1. UNCHANGED <<isolated, modIn>>
    BY <1>5 DEF Resume, DisconnectNext, FinishGrant, ReconnectNext, UpdateNext, WatchdogNext,
                SwitchBus, FinishCommand, PowerAgain, FinishReset, isolationVars
  <2>. QED  BY <1>2, <2>1
<1>6. CASE Reboot
  BY <1>6 DEF Reboot, Rebooted
<1>7. CASE \/ UpdateEnergyPolicy \/ CheckWatchdogs \/ DownlinkSignpostReset
           \/ (\E k \in 1..Len(stack) : ExpanderWrites(k))
           \/ (\E s \in Slots : Request(s))
           \/ (\E who \in OtherTicklers : OtherTickle(who))
  <2>1. UNCHANGED <<isolated, modIn>>
    BY <1>7 DEF UpdateEnergyPolicy, CheckWatchdogs, DownlinkSignpostReset, ExpanderWrites,
                Request, DutyCycleMessage, DutyCycleTimer, WatchdogMessage, DownlinkOn,
                DownlinkOff, DownlinkReset, OtherTickle, isolationVars
  <2>. QED  BY <1>2, <2>1
<1>. QED  BY <1>3, <1>4, <1>5, <1>6, <1>7 DEF OtherCallbacks

(* A module that starts, or is off, is in no attempt.                      *)
LEMMA FreshIsSound ==
  ASSUME NEW s \in Slots, NEW pin, NEW entry
  PROVE  Sound(s, Fresh(s), pin, entry) /\ Sound(s, PoweredDown(s), pin, entry)
BY DEF Sound, Fresh, PoweredDown, InAttempt

(* The transitions of the loop keep a module sound: it starts an attempt   *)
(* only when woken by the grant, and completes it only with an answer.     *)
LEMMA LoopIsSound ==
  ASSUME NEW s \in Slots, NEW m, NEW r, NEW pin, NEW entry, GoodRecord(m),
         Becomes(m, r), Sound(s, m, pin, entry)
  PROVE  Sound(s, r, pin, entry)
<1>. USE DEF Sound, InAttempt
<1>1. CASE ToWait(m, r)
  BY <1>1 DEF ToWait, Ask, GoodRecord, ModuleRecord
<1>2. CASE ToAttempt(m, r)
  BY <1>2 DEF ToAttempt, Loop, Ask, GoodRecord, ModuleRecord, InitState
<1>3. CASE ToBackoff(m, r)
  BY <1>3 DEF ToBackoff, GoodRecord, ModuleRecord
<1>4. CASE ToRequest(m, r)
  BY <1>4 DEF ToRequest, Ask, GoodRecord, ModuleRecord
<1>5. CASE ToRetry(m, r)
  BY <1>5 DEF ToRetry, Ask, GoodRecord, ModuleRecord
<1>6. CASE ToSettle(m, r)
  BY <1>6 DEF ToSettle, GoodRecord, ModuleRecord
<1>7. CASE ToReply(m, r)
  BY <1>7 DEF ToReply, GoodRecord, ModuleRecord
<1>8. CASE ToFailure(m, r)
  BY <1>8 DEF ToFailure, GoodRecord, ModuleRecord
<1>9. CASE Received(m, r)
  BY <1>9, AnswerFields DEF Received, Woken, GoodRecord
<1>10. CASE Completed(m, r)
  <2>1. m \in ModuleRecord /\ Receive(m) \in ModuleRecord
    BY <1>10, AnswerFields DEF Completed, GoodRecord
  <2>2. /\ r.pc = m.pc /\ r.address = m.address /\ r.reply = NoReply /\ r.incoming = m.reply
        /\ r.request_isolation_complete = m.request_isolation_complete
        /\ ~r.active_callback /\ r.declare_controller_complete /\ r.init_state = "Done"
    <3>1. PICK q \in ModuleRecord : q = Receive(m)
      BY <2>1
    <3>2. r = [q EXCEPT !.active_callback = FALSE, !.declare_controller_complete = TRUE,
                        !.init_state = "Done"]
      BY <1>10, <3>1 DEF Completed
    <3>3. /\ q.pc = m.pc /\ q.address = m.address /\ q.reply = NoReply /\ q.incoming = m.reply
          /\ q.request_isolation_complete = m.request_isolation_complete
      BY <2>1, <3>1, AnswerFields
    <3>. QED  BY <3>2, <3>3 DEF ModuleRecord
  <2>. QED  BY <1>10, <2>2 DEF Completed
<1>11. CASE ToIdle(m, r)
  <2>1. Adopt(m) \in ModuleRecord /\ m \in ModuleRecord
    BY <1>11, AnswerFields DEF ToIdle, GoodRecord
  <2>2. /\ r.pc \in {"WaitGrant", "Recheck", "Idle"}
        /\ r.init_state = m.init_state /\ (r.init_state = "Done" => r.pc = "Idle")
        /\ r.pc = "WaitGrant" => ~r.request_isolation_complete
        /\ r.active_callback = m.active_callback /\ r.address = m.incoming
    <3>1. ASSUME NEW q \in ModuleRecord, r = Loop(q)
          PROVE  /\ r.pc \in {"WaitGrant", "Recheck", "Idle"}
                 /\ r.init_state = q.init_state /\ (r.init_state = "Done" => r.pc = "Idle")
                 /\ r.pc = "WaitGrant" => ~r.request_isolation_complete
                 /\ r.active_callback = q.active_callback /\ r.address = q.address
      BY <3>1 DEF Loop, Ask, ModuleRecord, InitState
    <3>. QED  BY <1>11, <2>1, <3>1, AnswerFields DEF ToIdle
  <2>. QED  BY <1>11, <2>1, <2>2 DEF ToIdle, ModuleRecord
<1>. QED  BY <1>1, <1>2, <1>3, <1>4, <1>5, <1>6, <1>7, <1>8, <1>9, <1>10, <1>11 DEF Becomes

(* An edge of MOD_IN keeps a module sound, if the pin does not rise in its *)
(* attempt; a reboot can only reset an entry to the module's own address.  *)
LEMMA EdgeIsSound ==
  ASSUME NEW s \in Slots, NEW m \in ModuleRecord, NEW r, NEW pin, NEW newPin,
         NEW entry, NEW newEntry, Sound(s, m, pin, entry),
         newEntry \in {entry, OwnAddress(s)},
         \/ r = m /\ (newPin = pin \/ m.pc = "Boot")
         \/ r = FallingEdge(m) /\ pin = 1 /\ newPin = 0
         \/ r = RisingEdge(m) /\ ~InAttempt(m)
  PROVE  Sound(s, r, newPin, newEntry)
<1>. USE DEF Sound, InAttempt
<1>1. CASE r = m /\ (newPin = pin \/ m.pc = "Boot")
  BY <1>1
<1>2. CASE r = FallingEdge(m) /\ pin = 1 /\ newPin = 0
  <2>1. m.pc \notin {"Recheck", "Settle", "WaitReply"}
    BY <1>2
  <2>2. /\ r.pc = m.pc /\ r.active_callback = m.active_callback /\ r.address = m.address
        /\ r.init_state = "Done" => m.init_state = "Done"
    BY <1>2 DEF FallingEdge, ModuleRecord
  <2>. QED  BY <1>2, <2>1, <2>2
<1>3. CASE r = RisingEdge(m) /\ ~InAttempt(m)
  <2>1. m.pc \notin {"Recheck", "Settle", "WaitReply"}
    BY <1>3
  <2>2. /\ r.pc = m.pc /\ r.active_callback = m.active_callback /\ r.address = m.address
        /\ r.init_state = "Done" => m.init_state = "Done"
        /\ r.request_isolation_complete = m.request_isolation_complete
    BY <1>3 DEF RisingEdge, ModuleRecord
  <2>. QED  BY <1>3, <2>1, <2>2
<1>. QED  BY <1>1, <1>2, <1>3

(* A step of the controller keeps every module sound: what its deadline    *)
(* does not protect loses its power or starts afresh.                      *)
LEMMA ControllerKeepsSound ==
  ASSUME Timely, TypeOK, TypeOK', ModuleInv, ModulesSound, ControllerStep, NEW s \in Slots
  PROVE  Sound(s, module'[s], modIn'[s], registry'[s].address)
<1>1. /\ module'[s] = React(s)
      /\ InAttempt(module[s]) /\ modIn[s] = 0 /\ modIn'[s] = 1 => Rebooted /\ s \in Switched
  BY DEF ControllerStep, Deadline
<1>2. /\ module[s] \in ModuleRecord /\ modIn[s] \in {0, 1} /\ modIn'[s] \in {0, 1}
      /\ Sound(s, module[s], modIn[s], registry[s].address)
  BY Fields DEF ModuleInv, TypeOK, ModulesSound
<1>3. CASE ~power'[s] \/ ~power[s] \/ (Rebooted /\ s \in Switched)
  <2>1. module'[s] = PoweredDown(s) \/ module'[s] = Fresh(s)
    BY <1>1, <1>3 DEF React
  <2>. QED  BY <2>1, FreshIsSound
<1>4. CASE power'[s] /\ power[s] /\ ~(Rebooted /\ s \in Switched)
  <2>1. \/ module'[s] = module[s] /\ (modIn'[s] = modIn[s] \/ module[s].pc = "Boot")
        \/ module'[s] = FallingEdge(module[s]) /\ modIn[s] = 1 /\ modIn'[s] = 0
        \/ module'[s] = RisingEdge(module[s]) /\ ~InAttempt(module[s])
    BY <1>1, <1>2, <1>4 DEF React
  <2>2. registry' = registry \/ (Rebooted /\ registry' = Default)
    BY InboxUnderController DEF ModuleInv
  <2>3. registry'[s].address \in {registry[s].address, OwnAddress(s)}
    <3>1. CASE registry' = registry
      BY <3>1
    <3>2. CASE Rebooted /\ registry' = Default
      BY <1>4, <3>2, StorageAssumption DEF Default, Switched, OwnAddress
    <3>. QED  BY <2>2, <3>1, <3>2
  <2>. QED  BY <1>2, <2>1, <2>3, EdgeIsSound
<1>. QED  BY <1>3, <1>4

(* A declaration is booked to its sender, with the sender's own address,   *)
(* if anybody is isolated at all.                                          *)
LEMMA BookedToSender ==
  ASSUME TypeOK, ModuleInv, SenderIsIsolated, inbox # NoDeclare, isolated # NoSlot
  PROVE  isolated = inbox.from /\ isolated \in Slots
         /\ NewAddress(inbox.source) = OwnAddress(isolated)
<1>1. isolated = inbox.from /\ isolated \in Slots
  BY DEF SenderIsIsolated, TypeOK
<1>2. inbox.source \in {FixedAddress[isolated], OwnAddress(isolated)}
  BY <1>1 DEF SenderIsIsolated
<1>3. isolated \in Nat /\ FixedAddress[isolated] \in Nat
  BY <1>1, SlotsAssumption, ModuleAssumption
<1>. QED  BY <1>1, <1>2, <1>3 DEF NewAddress, OwnAddress, Assigned

(* The answer keeps every module sound: the one that waits for it is       *)
(* isolated, so it is the one that was recorded.                           *)
LEMMA AnswerKeepsSound ==
  ASSUME TypeOK, OneModInLow, ModuleInv, AddressInv, HandleDeclare
  PROVE  /\ \A s \in Slots : Sound(s, module'[s], modIn[s], registry'[s].address)
         /\ RegistrySound'
<1>. USE DEF AddressInv
<1>1. CASE UNCHANGED <<module, registry>>
  BY <1>1 DEF ModulesSound, RegistrySound
<1>2. CASE ~UNCHANGED <<module, registry>>
  <2>1. /\ inbox # NoDeclare /\ isolated \in Slots
        /\ registry' = [registry EXCEPT ![isolated] =
              [address |-> NewAddress(inbox.source), name |-> inbox.from]]
        /\ \A s \in Slots :
             \/ module'[s] = module[s]
             \/ module'[s] = [module[s] EXCEPT !.reply = NewAddress(inbox.source)]
    BY <1>2, Handled DEF ModuleInv
  <2>2. isolated # NoSlot
    BY <2>1, SlotsAssumption DEF NoSlot
  <2>3. isolated = inbox.from /\ NewAddress(inbox.source) = OwnAddress(isolated)
    BY <2>1, <2>2, BookedToSender
  <2>4. registry \in [Slots -> [address : Addresses \cup {NoAddress}, name : Slots \cup {NoSlot}]]
    BY DEF ModuleInv, ModTypeOK
  <2>5. \A s \in Slots : registry'[s] =
          IF s = isolated THEN [address |-> OwnAddress(s), name |-> s] ELSE registry[s]
    <3>1. registry' = [registry EXCEPT ![isolated] =
                         [address |-> OwnAddress(isolated), name |-> isolated]]
      BY <2>1, <2>3
    <3>. QED  BY <2>1, <2>4, <3>1
  <2>6. ASSUME NEW s \in Slots PROVE Sound(s, module'[s], modIn[s], registry'[s].address)
    <3>1. /\ module[s] \in ModuleRecord /\ Sound(s, module[s], modIn[s], registry[s].address)
          /\ modIn[s] = 0 => isolated = s
      BY Fields DEF ModuleInv, ModulesSound, OneModInLow
    <3>2. /\ s = isolated => registry'[s].address = OwnAddress(s)
          /\ s # isolated => registry'[s].address = registry[s].address
      <4>1. s = isolated => registry'[s] = [address |-> OwnAddress(s), name |-> s]
        BY <2>5
      <4>2. s # isolated => registry'[s] = registry[s]
        BY <2>5
      <4>. QED  BY <4>1, <4>2
    <3>3. \/ module'[s] = module[s]
          \/ module'[s] = [module[s] EXCEPT !.reply = OwnAddress(isolated)]
      BY <2>1, <2>3
    <3>4. ASSUME NEW m \in ModuleRecord, NEW r, NEW a, r = [m EXCEPT !.reply = a]
          PROVE  /\ r.pc = m.pc /\ r.init_state = m.init_state /\ r.address = m.address
                 /\ r.active_callback = m.active_callback /\ r.incoming = m.incoming
                 /\ r.request_isolation_complete = m.request_isolation_complete
                 /\ r.declare_controller_complete = m.declare_controller_complete
                 /\ r.reply = a
      BY <3>4 DEF ModuleRecord
    <3>5. CASE module'[s] = module[s]
      BY <3>1, <3>2, <3>5 DEF Sound
    <3>6. CASE module'[s] = [module[s] EXCEPT !.reply = OwnAddress(isolated)]
      <4>1. /\ module'[s].pc = module[s].pc /\ module'[s].init_state = module[s].init_state
            /\ module'[s].address = module[s].address
            /\ module'[s].active_callback = module[s].active_callback
            /\ module'[s].incoming = module[s].incoming
            /\ module'[s].request_isolation_complete = module[s].request_isolation_complete
            /\ module'[s].declare_controller_complete = module[s].declare_controller_complete
            /\ module'[s].reply = OwnAddress(isolated)
        BY <3>1, <3>4, <3>6
      <4>2. module[s].pc = "WaitReply" => s = isolated
        BY <3>1 DEF Sound, InAttempt
      <4>. QED  BY <3>1, <3>2, <4>1, <4>2 DEF Sound, InAttempt
    <3>. QED  BY <3>3, <3>5, <3>6
  <2>7. RegistrySound'
    BY <2>5 DEF RegistrySound
  <2>. QED  BY <2>6, <2>7
<1>. QED  BY <1>1, <1>2

(* A module that declares itself is isolated; every other step leaves the  *)
(* declaration on its way alone.                                           *)
LEMMA DeclarationStep ==
  ASSUME ModuleInv, OneModInLow, ModulesSound, SenderIsIsolated, NEW s \in Slots, ModuleStep(s)
  PROVE  SenderIsIsolated'
<1>1. UNCHANGED <<isolated, modIn>>
  BY ModuleFrame DEF ModuleInv, isolationVars
<1>2. CASE UNCHANGED inbox
  BY <1>1, <1>2 DEF SenderIsIsolated
<1>3. CASE Declare(s) /\ inbox' = [from |-> s, source |-> module[s].address, overtaken |-> FALSE]
  <2>1. Sound(s, module[s], modIn[s], registry[s].address) /\ module[s].pc = "Settle"
    BY <1>3 DEF ModulesSound, Declare
  <2>2. /\ isolated = s /\ modIn[s] = 0
        /\ module[s].address \in {FixedAddress[s], OwnAddress(s)}
    BY <2>1 DEF Sound, InAttempt, OneModInLow
  <2>3. inbox'.from = s /\ inbox'.source = module[s].address
    BY <1>3
  <2>. QED  BY <1>1, <2>2, <2>3 DEF SenderIsIsolated
<1>. QED  BY <1>2, <1>3 DEF ModuleStep, RequestIsolation, Granted, GrantTimeout, BackoffOver,
             Recheck, Declare, DeclareFails, HandleReply, Declared, DeclareTimeout, GiveUp

(* Every step keeps the invariant.                                         *)
LEMMA AddressStep ==
  ASSUME Timely, TypeOK, TypeOK', CheckNotReentered, OneModInLow, ModuleInv, AddressInv,
         [SystemNext]_allVars
  PROVE  AddressInv'
<1>. USE DEF AddressInv
<1>1. CASE ControllerStep
  <2>1. ModulesSound'
    BY <1>1, ControllerKeepsSound DEF ModulesSound
  <2>2. SenderIsIsolated'
    <3>1. CASE inbox' = NoDeclare
      BY <3>1 DEF SenderIsIsolated, NoDeclare
    <3>2. CASE inbox' # NoDeclare /\ inbox' = inbox /\ OtherCallbacks /\ ~Rebooted
      <4>1. inbox.from # NoSlot /\ inbox.from \in Slots
        BY <3>2, SlotsAssumption DEF ModuleInv, DeclarationHasSender, NoSlot
      <4>. QED  BY <3>2, <4>1, ControllerFacts DEF SenderIsIsolated
    <3>3. CASE /\ inbox' # NoDeclare /\ inbox'.from = inbox.from /\ inbox'.source = inbox.source
               /\ inbox # NoDeclare /\ ~inbox.overtaken /\ inbox'.overtaken /\ CheckModuleInit
      <4>2. /\ isolated = inbox.from /\ isolated # NoSlot
            /\ inbox.source \in {FixedAddress[inbox.from], OwnAddress(inbox.from)}
        BY <3>3, SlotsAssumption DEF SenderIsIsolated, ModuleInv, DeclarationHasSender, NoSlot
      <4>3. isolated' \in {isolated, NoSlot}
        BY <3>3, <4>2, ControllerFacts
      <4>. QED  BY <3>3, <4>2, <4>3 DEF SenderIsIsolated
    <3>. QED  BY <1>1, <3>1, <3>2, <3>3, InboxUnderController DEF ModuleInv
  <2>3. RegistrySound'
    <3>1. registry' = registry \/ registry' = Default
      BY <1>1, InboxUnderController DEF ModuleInv
    <3>2. \A s \in Slots : Default[s].name = NoSlot
      BY DEF Default
    <3>. QED  BY <3>1, <3>2 DEF RegistrySound
  <2>. QED  BY <2>1, <2>2, <2>3
<1>2. CASE HandleDeclare
  <2>1. ModulesSound' /\ RegistrySound'
    <3>1. UNCHANGED modIn
      BY <1>2 DEF HandleDeclare, vars, isolationVars
    <3>. QED  BY <1>2, <3>1, AnswerKeepsSound DEF ModulesSound
  <2>2. SenderIsIsolated'
    BY <1>2 DEF HandleDeclare, SenderIsIsolated, NoDeclare
  <2>. QED  BY <2>1, <2>2
<1>3. ASSUME NEW s \in Slots, ModuleStep(s) PROVE AddressInv'
  <2>1. /\ UNCHANGED <<modIn, registry>>
        /\ \A t \in Slots : t # s => module'[t] = module[t]
    BY <1>3, ModuleFrame DEF ModuleInv, isolationVars
  <2>2. Sound(s, module'[s], modIn[s], registry[s].address)
    <3>1. GoodRecord(module[s]) /\ Becomes(module[s], module'[s])
      BY <1>3, Fields, StepBecomes DEF ModuleInv, GoodRecord, AnswerHasAddress, BootsUnaware
    <3>. QED  BY <3>1, LoopIsSound DEF ModulesSound
  <2>3. ModulesSound' /\ RegistrySound'
    BY <2>1, <2>2 DEF ModulesSound, RegistrySound
  <2>. QED  BY <1>3, <2>3, DeclarationStep
<1>4. CASE UNCHANGED allVars
  BY <1>4 DEF allVars, modVars, vars, isolationVars, ModulesSound, SenderIsIsolated,
              RegistrySound
<1>. QED  BY <1>1, <1>2, <1>3, <1>4 DEF SystemNext

(* It holds from the start, with every module about to request isolation.  *)
LEMMA AddressStart == SystemInit => AddressInv
<1>. SUFFICES ASSUME SystemInit PROVE AddressInv
  OBVIOUS
<1>1. /\ module = [s \in Slots |-> Fresh(s)] /\ inbox = NoDeclare /\ registry = Default
  BY DEF SystemInit, ModInit
<1>2. ModulesSound
  BY <1>1, FreshIsSound DEF ModulesSound
<1>. QED  BY <1>1, <1>2 DEF AddressInv, SenderIsIsolated, RegistrySound, Default

(* The invariant of the addresses, for modules that keep their deadline.   *)
LEMMA AddressInvariant ==
  ASSUME Timely
  PROVE  SystemSpec => [](OneModInLow /\ AddressInv)
<1>1. SystemInit => AddressInv
  BY AddressStart
<1>2. TypeOK /\ CheckNotReentered /\ ModuleInv /\ TypeOK' /\ OneModInLow /\ AddressInv
        /\ [SystemNext]_allVars => AddressInv'
  BY AddressStep
<1>3. SystemSpec => []OneModInLow
  BY CompositionIsController, OnlyOneModInLow, PTL
<1>. QED  BY <1>1, <1>2, <1>3, ComposedInvariant, PTL DEF SystemSpec

(* A module declares itself only while the controller has isolated it.     *)
THEOREM AttemptsAreIsolated ==
  ASSUME Timely
  PROVE  SystemSpec => []AttemptIsIsolated
<1>1. OneModInLow /\ AddressInv => AttemptIsIsolated
  BY DEF AddressInv, ModulesSound, Sound, InAttempt, OneModInLow, AttemptIsIsolated
<1>. QED  BY <1>1, AddressInvariant, PTL

(* What the controller has recorded for a slot came from the module in     *)
(* that slot, however late it handles the declaration.                     *)
THEOREM RegistryIsSound ==
  ASSUME Timely
  PROVE  SystemSpec => []RegistrySound
<1>1. OneModInLow /\ AddressInv => RegistrySound
  BY DEF AddressInv
<1>. QED  BY <1>1, AddressInvariant, PTL

(* No module takes the address of another, for any number of modules that  *)
(* listen at address 0 when the answer is sent there.                      *)
THEOREM AddressesAreOwn ==
  ASSUME Timely
  PROVE  SystemSpec => []NoStolenAddress
<1>1. OneModInLow /\ AddressInv => NoStolenAddress
  BY DEF AddressInv, ModulesSound, Sound, NoStolenAddress
<1>. QED  BY <1>1, AddressInvariant, PTL

(* A module whose initialization returned is known to the controller under *)
(* the address it uses, across power cycles and reboots.                   *)
THEOREM InitializedAreRegistered ==
  ASSUME Timely
  PROVE  SystemSpec => []InitializedIsRegistered
<1>1. OneModInLow /\ AddressInv => InitializedIsRegistered
  BY DEF AddressInv, ModulesSound, Sound, InitializedIsRegistered
<1>. QED  BY <1>1, AddressInvariant, PTL

=============================================================================
