----------------------- MODULE ControllerSlotsProofs -----------------------
(***************************************************************************)
(* Proofs about ControllerSlots, for any set of slots, any limits and any  *)
(* clients.                                                                *)
(***************************************************************************)
EXTENDS ControllerSlots, StackLemmas, TLAPS

-----------------------------------------------------------------------------
(***************************************************************************)
(* Frames and the stack.                                                   *)
(***************************************************************************)

(* A call of a switch and a delay are frames (gpio_async_*_sync, delay_ms).  *)
LEMMA CallIsFrame ==
  ASSUME NEW callback \in Callbacks, NEW s \in Slots, NEW on \in BOOLEAN,
         NEW switch \in {"power", "i2c"}
  PROVE  /\ Call(callback, switch, s, on) \in Frame
         /\ Delay(callback, s) \in Frame
  BY DEF Call, Delay, Frame

(* What suspending, continuing and writing do to the set of frames.          *)
LEMMA FramesOfPush ==
  ASSUME NEW frames \in Seq(Frame), NEW f \in Frame
  PROVE  Frames(Append(frames, f)) = Frames(frames) \cup {f}
<1>. DEFINE longer == Append(frames, f)
<1>1. /\ Len(longer) = Len(frames) + 1
      /\ \A k \in 1..Len(frames) : longer[k] = frames[k]
      /\ longer[Len(frames) + 1] = f
      /\ Len(frames) \in Nat
  BY PushFrame
<1>. HIDE DEF longer
<1>2. 1..Len(longer) = 1..Len(frames) \cup {Len(frames) + 1}
  BY <1>1
<1>. QED  BY <1>1, <1>2 DEF Frames, longer

(* A callback that is over leaves the frames below it.                       *)
LEMMA FramesOfPop ==
  ASSUME stack \in Seq(Frame), stack # <<>>
  PROVE  /\ Below \in Seq(Frame)
         /\ Top \in Frame
         /\ Frames(stack) = Frames(Below) \cup {Top}
         /\ Len(stack) \in 1..Len(stack)
<1>1. /\ Below \in Seq(Frame)
      /\ Len(Below) = Len(stack) - 1
      /\ \A k \in 1..(Len(stack) - 1) : Below[k] = stack[k]
      /\ Len(stack) \in Nat \ {0}
      /\ Top \in Frame
      /\ Top = stack[Len(stack)]
  BY PopFrame DEF Below, Top
<1>2. 1..Len(stack) = 1..Len(Below) \cup {Len(stack)}
  BY <1>1
<1>. QED  BY <1>1, <1>2 DEF Frames

Written(f) == [f EXCEPT !.written = TRUE]

(* The expander's write replaces one frame by its written form.              *)
LEMMA FramesOfWrite ==
  ASSUME stack \in Seq(Frame), NEW k \in 1..Len(stack),
         stack' = [stack EXCEPT ![k].written = TRUE]
  PROVE  /\ stack' \in Seq(Frame)
         /\ Len(stack') = Len(stack)
         /\ \A j \in 1..Len(stack) :
              stack'[j] = IF j = k THEN Written(stack[j]) ELSE stack[j]
         /\ stack[k] \in Frame /\ Written(stack[k]) \in Frame
         /\ Frames(stack') \subseteq Frames(stack) \cup {Written(stack[k])}
         /\ Frames(stack) \subseteq Frames(stack') \cup {stack[k]}
         /\ Written(stack[k]) \in Frames(stack')
<1>1. stack[k] \in Frame
  BY ElementOfSeq
<1>2. Written(stack[k]) \in Frame
  BY <1>1 DEF Frame, Written
<1>3. stack' = [stack EXCEPT ![k] = Written(stack[k])]
  BY DEF Written
<1>4. /\ [stack EXCEPT ![k] = Written(stack[k])] \in Seq(Frame)
      /\ Len([stack EXCEPT ![k] = Written(stack[k])]) = Len(stack)
      /\ \A j \in 1..Len(stack) : [stack EXCEPT ![k] = Written(stack[k])][j]
           = IF j = k THEN Written(stack[k]) ELSE stack[j]
  <2>. DEFINE w == Written(stack[k])
  <2>1. w \in Frame
    BY <1>2
  <2>. HIDE DEF w
  <2>2. /\ [stack EXCEPT ![k] = w] \in Seq(Frame)
        /\ Len([stack EXCEPT ![k] = w]) = Len(stack)
        /\ \A j \in 1..Len(stack) : [stack EXCEPT ![k] = w][j] = IF j = k THEN w ELSE stack[j]
    BY <2>1, ExceptSeq
  <2>. QED  BY <2>2 DEF w
<1>5. /\ stack' \in Seq(Frame)
      /\ Len(stack') = Len(stack)
      /\ \A j \in 1..Len(stack) :
           stack'[j] = IF j = k THEN Written(stack[j]) ELSE stack[j]
  BY <1>3, <1>4
<1>. HIDE DEF Written
<1>. QED  BY <1>1, <1>2, <1>5 DEF Frames

(* A frame of the stack is a frame.                                          *)
LEMMA FramesAreFrames ==
  ASSUME NEW frames \in Seq(Frame), NEW f \in Frames(frames)
  PROVE  f \in Frame
  BY ElementOfSeq DEF Frames

-----------------------------------------------------------------------------
(***************************************************************************)
(* The loops that call a switch for one slot after another.  Each ends, or *)
(* is suspended in its next call.                                          *)
(***************************************************************************)

(* enable_all_enabled_i2c leaves the check over, or connecting a slot that   *)
(* is enabled, the lowest one left.                                          *)
LEMMA ReconnectMoves ==
  ASSUME TypeOK, NEW Rest \in SUBSET Slots, NEW frames \in Seq(Frame),
         ReconnectFrom(Rest, frames)
  PROVE  /\ lastModOut' \in [Slots -> {0, 1}]
         /\ checkingInit' \in BOOLEAN
         /\ stack' \in Seq(Frame)
         /\ \/ /\ stack' = frames /\ ~checkingInit'
               /\ \A t \in Rest : isolationState[t] # Enabled
            \/ \E t \in Rest :
                 /\ isolationState[t] = Enabled
                 /\ \A s \in Rest : isolationState[s] = Enabled => t <= s
                 /\ stack' = Append(frames, Call("reconnect", "i2c", t, TRUE))
                 /\ checkingInit'
<1>. DEFINE Due == {t \in Rest : isolationState[t] = Enabled}
<1>1. \/ Due = {} /\ RefreshFrom(lastModOut) /\ checkingInit' = FALSE /\ stack' = frames
      \/ \E t \in Due :
           /\ First(t, Due)
           /\ stack' = Append(frames, Call("reconnect", "i2c", t, TRUE))
           /\ checkingInit' = TRUE
           /\ UNCHANGED lastModOut
  BY DEF ReconnectFrom
<1>2. CASE Due = {} /\ RefreshFrom(lastModOut) /\ checkingInit' = FALSE /\ stack' = frames
  BY <1>2 DEF RefreshFrom, TypeOK
<1>3. ASSUME NEW t \in Due, First(t, Due),
             stack' = Append(frames, Call("reconnect", "i2c", t, TRUE)),
             checkingInit' = TRUE, UNCHANGED lastModOut
      PROVE  /\ lastModOut' \in [Slots -> {0, 1}]
             /\ stack' \in Seq(Frame)
             /\ isolationState[t] = Enabled
             /\ \A s \in Rest : isolationState[s] = Enabled => t <= s
  <2>1. Call("reconnect", "i2c", t, TRUE) \in Frame
    BY CallIsFrame DEF Callbacks
  <2>. QED  BY <1>3, <2>1, PushFrame DEF First, TypeOK
<1>. QED  BY <1>1, <1>2, <1>3

(* A command or a step of the energy update keeps the types of what it sets. *)
LEMMA CommandMoves ==
  ASSUME TypeOK, NEW callback \in {"command", "update"}, NEW s \in Slots,
         NEW state \in IsolationStates, NEW on \in BOOLEAN, NEW frames \in Seq(Frame),
         Command(callback, s, state, on, frames)
  PROVE  /\ isolationState' \in [Slots -> IsolationStates]
         /\ overlapped' \in SUBSET Slots
         /\ Call(callback, "power", s, on) \in Frame
         /\ stack' = Append(frames, Call(callback, "power", s, on))
         /\ stack' \in Seq(Frame)
<1>1. Call(callback, "power", s, on) \in Frame
  BY CallIsFrame DEF Callbacks
<1>2. stack' \in Seq(Frame)
  BY <1>1, PushFrame DEF Command
<1>. QED  BY <1>1, <1>2 DEF Command, TypeOK

(* update_energy_policy_cb, from some slot on.                               *)
LEMMA UpdateMoves ==
  ASSUME TypeOK, NEW Rest \in SUBSET Slots, NEW frames \in Seq(Frame),
         UpdateFrom(Rest, frames)
  PROVE  /\ isolationState' \in [Slots -> IsolationStates]
         /\ overlapped' \in SUBSET Slots
         /\ stack' \in Seq(Frame)
         /\ \/ stack' = frames /\ UNCHANGED stateVars
            \/ \E s \in Rest : stack' = Append(frames, Delay("update", s)) /\ UNCHANGED stateVars
            \/ \E s \in Rest : Command("update", s, DisabledEnergy, FALSE, frames)
            \/ \E s \in Rest : Command("update", s, Enabled, TRUE, frames)
<1>1. \/ stack' = frames /\ UNCHANGED stateVars
      \/ \E s \in Rest : stack' = Append(frames, Delay("update", s)) /\ UNCHANGED stateVars
      \/ \E s \in Rest : Command("update", s, DisabledEnergy, FALSE, frames)
      \/ \E s \in Rest : Command("update", s, Enabled, TRUE, frames)
  BY DEF UpdateFrom
<1>2. CASE stack' = frames /\ UNCHANGED stateVars
  BY <1>2 DEF stateVars, TypeOK
<1>3. ASSUME NEW s \in Rest, stack' = Append(frames, Delay("update", s)), UNCHANGED stateVars
      PROVE  /\ isolationState' \in [Slots -> IsolationStates]
             /\ overlapped' \in SUBSET Slots
             /\ stack' \in Seq(Frame)
  <2>1. Delay("update", s) \in Frame
    BY CallIsFrame DEF Callbacks
  <2>. QED  BY <1>3, <2>1, PushFrame DEF stateVars, TypeOK
<1>4. \A s \in Rest :
        Command("update", s, DisabledEnergy, FALSE, frames)
        \/ Command("update", s, Enabled, TRUE, frames)
        => /\ isolationState' \in [Slots -> IsolationStates]
           /\ overlapped' \in SUBSET Slots
           /\ stack' \in Seq(Frame)
  BY CommandMoves DEF IsolationStates
<1>. QED  BY <1>1, <1>2, <1>3, <1>4

(* check_watchdogs_cb, from some slot on.                                    *)
LEMMA ScanMoves ==
  ASSUME TypeOK, NEW Rest \in SUBSET Slots, NEW frames \in Seq(Frame),
         ScanFrom(Rest, frames)
  PROVE  /\ tickled' \in [Slots -> BOOLEAN]
         /\ stack' \in Seq(Frame)
         /\ \/ stack' = frames
            \/ \E s \in Rest : stack' = Append(frames, Call("watchdog", "power", s, FALSE))
<1>1. tickled' \in [Slots -> BOOLEAN]
  BY DEF ScanFrom, TypeOK
<1>2. \/ stack' = frames
      \/ \E s \in Rest : stack' = Append(frames, Call("watchdog", "power", s, FALSE))
  BY DEF ScanFrom
<1>3. \A s \in Rest : Append(frames, Call("watchdog", "power", s, FALSE)) \in Seq(Frame)
  BY CallIsFrame, PushFrame DEF Callbacks
<1>. QED  BY <1>1, <1>2, <1>3

(* A grant disconnects one more slot, or connects the one isolated.          *)
LEMMA IsolateMoves ==
  ASSUME NEW Rest \in SUBSET Slots, NEW s \in Slots, NEW frames \in Seq(Frame),
         IsolateFrom(Rest, s, frames)
  PROVE  /\ stack' \in Seq(Frame)
         /\ \E f \in Frame :
              /\ stack' = Append(frames, f)
              /\ \/ f = Call("grant", "i2c", s, TRUE)
                 \/ \E t \in Rest : f = Call("grant", "i2c", t, FALSE)
<1>1. \/ stack' = Append(frames, Call("grant", "i2c", s, TRUE))
      \/ \E t \in Rest : stack' = Append(frames, Call("grant", "i2c", t, FALSE))
  BY DEF IsolateFrom
<1>2. \A t \in Slots : \A on \in BOOLEAN : Call("grant", "i2c", t, on) \in Frame
  BY CallIsFrame DEF Callbacks
<1>3. \E f \in Frame :
        /\ stack' = Append(frames, f)
        /\ \/ f = Call("grant", "i2c", s, TRUE)
           \/ \E t \in Rest : f = Call("grant", "i2c", t, FALSE)
  BY <1>1, <1>2
<1>. QED  BY <1>3, PushFrame

(* A callback's next call follows on the one that returned.                  *)
LEMMA ThenMoves ==
  ASSUME stack \in Seq(Frame), stack # <<>>,
         NEW switch \in {"power", "i2c"}, NEW on \in BOOLEAN, Then(switch, Top.slot, on)
  PROVE  /\ Call(Top.callback, switch, Top.slot, on) \in Frame
         /\ stack' = Append(Below, Call(Top.callback, switch, Top.slot, on))
         /\ stack' \in Seq(Frame)
<1>1. Below \in Seq(Frame) /\ Top \in Frame
  BY FramesOfPop
<1>2. Top.callback \in Callbacks /\ Top.slot \in Slots
  BY <1>1 DEF Frame
<1>3. Call(Top.callback, switch, Top.slot, on) \in Frame
  BY <1>2, CallIsFrame
<1>. QED  BY <1>1, <1>3, PushFrame DEF Then

-----------------------------------------------------------------------------
(***************************************************************************)
(* Types.  Only the failure counts need more than the types themselves:    *)
(* they stay in bounds because the check power cycles a module whose count *)
(* exceeds the limit before it can count for that module again.            *)
(***************************************************************************)

(* The MOD_OUT pins, what the check remembers of them and the switches keep  *)
(* their types.                                                              *)
LEMMA PinTypes ==
  ASSUME TypeOK
  PROVE  /\ \A newPower : PinsUnder(newPower) \in [Slots -> {0, 1}]
         /\ RefreshFrom(lastModOut) => lastModOut' \in [Slots -> {0, 1}]
  BY DEF TypeOK, PinsUnder, RefreshFrom

(* The port expander keeps the types (controller.c).                         *)
LEMMA WriteTypes ==
  ASSUME TypeOK, NEW k \in 1..Len(stack), ExpanderWrites(k)
  PROVE  TypeOK'
<1>1. stack \in Seq(Frame) /\ stack' = [stack EXCEPT ![k].written = TRUE]
  BY DEF ExpanderWrites, TypeOK
<1>2. stack' \in Seq(Frame) /\ stack[k] \in Frame
  BY <1>1, FramesOfWrite
<1>3. \A pins \in [Slots -> BOOLEAN] : Switch(pins, stack[k]) \in [Slots -> BOOLEAN]
  BY <1>2 DEF Switch, Frame
<1>4. /\ power' \in [Slots -> BOOLEAN]
      /\ i2c' \in [Slots -> BOOLEAN]
  BY <1>3 DEF ExpanderWrites, TypeOK
<1>5. modOut' \in [Slots -> {0, 1}]
  BY PinTypes DEF ExpanderWrites
<1>. QED  BY <1>2, <1>4, <1>5 DEF ExpanderWrites, TypeOK, isolationVars, stateVars,
                                  serviceVars, systemVars

(* A check starts from a stack without checks, and all failures in bounds.   *)
LEMMA CheckStartsAlone ==
  ASSUME TypeOK, CheckNotReentered, ~checkingInit
  PROVE  /\ \A k \in 1..Len(stack) : ~IsCheck(stack[k])
         /\ \A s \in Slots : failures[s] <= MaxInitFailures
<1>1. \A k \in 1..Len(stack) : ~IsCheck(stack[k])
  BY DEF CheckNotReentered, CheckIsGuarded, Frames
<1>2. ~Suspended("timeout")
  BY <1>1 DEF Suspended, IsCheck, Frames
<1>. QED  BY <1>1, <1>2, LimitsAssumption DEF CheckNotReentered, FailuresAreCycled, TypeOK

(* A pass that finds the module overdue counts a failure in bounds.          *)
LEMMA OverdueTypes ==
  ASSUME TypeOK, CheckNotReentered, TookTooLong
  PROVE  /\ isolated \in Slots
         /\ failures[isolated] <= MaxInitFailures
         /\ failures' = [failures EXCEPT ![isolated] = failures[isolated] + 1]
         /\ failures' \in [Slots -> 0..(MaxInitFailures + 1)]
         /\ modIn' \in [Slots -> {0, 1}]
         /\ modIn'[isolated] = 1
<1>1. isolated \in Slots
  BY DEF TookTooLong, TypeOK
<1>2. failures[isolated] <= MaxInitFailures
  BY <1>1, CheckStartsAlone DEF TookTooLong, CheckGuard
<1>3. /\ failures' = [failures EXCEPT ![isolated] = failures[isolated] + 1]
      /\ modIn' = [modIn EXCEPT ![isolated] = 1]
  BY DEF TookTooLong
<1>4. failures \in [Slots -> 0..(MaxInitFailures + 1)] /\ modIn \in [Slots -> {0, 1}]
  BY DEF TypeOK
<1>5. failures' \in [Slots -> 0..(MaxInitFailures + 1)]
  BY <1>1, <1>2, <1>3, <1>4, LimitsAssumption
<1>6. modIn' \in [Slots -> {0, 1}] /\ modIn'[isolated] = 1
  BY <1>1, <1>3, <1>4
<1>. QED  BY <1>1, <1>2, <1>3, <1>5, <1>6

(* Every branch of the check keeps the types (check_module_init_cb).         *)
LEMMA CheckTypes ==
  ASSUME TypeOK, CheckNotReentered, CheckModuleInit
  PROVE  TypeOK'
<1>. USE SlotsAssumption, LimitsAssumption DEF NoSlot
<1>1. watchdogStates' \in SUBSET Ticklers
  BY DEF TypeOK, CheckModuleInit, CheckGrant, CheckNobody, CheckReleased, CheckTimedOut,
         CheckPowerCycle, CheckStillIsolated, TookTooLong, CheckGuard, Combine, Ticklers
<1>2. stack \in Seq(Frame)
  BY DEF TypeOK
<1>3. ASSUME NEW s \in Slots, CheckGrant(s) PROVE TypeOK'
  <2>1. stack' \in Seq(Frame)
    <3>1. Switched \in SUBSET Slots
      BY DEF Switched
    <3>. QED  BY <1>2, <1>3, <3>1, IsolateMoves DEF CheckGrant
  <2>2. lastModOut' \in [Slots -> {0, 1}]
    BY <1>3 DEF CheckGrant, TypeOK
  <2>3. /\ isolated' \in Slots /\ lastIsolated' \in Slots
        /\ isolatedCount' \in 0..(IsolationTimeout + 1)
        /\ checkingInit' \in BOOLEAN
    BY <1>3 DEF CheckGrant
  <2>. QED  BY <1>1, <1>3, <2>1, <2>2, <2>3 DEF CheckGrant, TypeOK, stateVars, switchVars,
                                                serviceVars
<1>4. CASE CheckNobody
  BY <1>1, <1>4, PinTypes DEF CheckNobody, TypeOK, stateVars, switchVars, serviceVars
<1>5. CASE CheckReleased
  <2>1. modIn' \in [Slots -> {0, 1}]
    BY <1>5 DEF CheckReleased, TypeOK
  <2>2. /\ lastModOut' \in [Slots -> {0, 1}]
        /\ checkingInit' \in BOOLEAN
        /\ stack' \in Seq(Frame)
        /\ isolated' = NoSlot
    BY <1>2, <1>5, ReconnectMoves DEF CheckReleased, EndIsolation
  <2>. QED  BY <1>1, <1>5, <2>1, <2>2 DEF CheckReleased, TypeOK, stateVars, switchVars,
                                          serviceVars
<1>6. CASE CheckTimedOut
  <2>1. /\ failures' \in [Slots -> 0..(MaxInitFailures + 1)]
        /\ modIn' \in [Slots -> {0, 1}]
    BY <1>6, OverdueTypes DEF CheckTimedOut
  <2>2. /\ lastModOut' \in [Slots -> {0, 1}]
        /\ checkingInit' \in BOOLEAN
        /\ stack' \in Seq(Frame)
        /\ isolated' = NoSlot
    BY <1>2, <1>6, ReconnectMoves DEF CheckTimedOut, EndIsolation
  <2>. QED  BY <1>1, <1>6, <2>1, <2>2 DEF CheckTimedOut, TypeOK, stateVars, switchVars,
                                          serviceVars
<1>7. CASE CheckPowerCycle
  <2>1. /\ failures' \in [Slots -> 0..(MaxInitFailures + 1)]
        /\ modIn' \in [Slots -> {0, 1}]
        /\ isolated \in Slots
    BY <1>7, OverdueTypes DEF CheckPowerCycle
  <2>2. stack' \in Seq(Frame)
    BY <1>2, <1>7, <2>1, CallIsFrame, PushFrame DEF CheckPowerCycle, Callbacks
  <2>. QED  BY <1>1, <1>7, <2>1, <2>2 DEF CheckPowerCycle, TypeOK, stateVars, switchVars,
                                          serviceVars
<1>8. CASE CheckStillIsolated
  <2>1. isolatedCount' \in 0..(IsolationTimeout + 1)
    BY <1>8 DEF CheckStillIsolated, Overdue, TypeOK
  <2>. QED  BY <1>1, <1>8, <2>1, PinTypes DEF CheckStillIsolated, TypeOK, stateVars, switchVars,
                                              serviceVars
<1>. QED  BY <1>3, <1>4, <1>5, <1>6, <1>7, <1>8 DEF CheckModuleInit

\* What the steps that only move the stack leave alone.
Unmoved == UNCHANGED <<isolationVars, stateVars, switchVars, serviceVars, systemVars, modOut>>

(* Every callback that continues keeps the types.                            *)
LEMMA ResumeTypes ==
  ASSUME TypeOK, CheckNotReentered, Resume
  PROVE  TypeOK'
<1>. USE SlotsAssumption, LimitsAssumption DEF NoSlot
<1>1. /\ stack # <<>> /\ stack \in Seq(Frame)
      /\ Below \in Seq(Frame) /\ Top \in Frame /\ Top \in Frames(stack)
      /\ Top.slot \in Slots
      /\ After(Top.slot) \in SUBSET Slots
  <2>1. stack # <<>>
    BY DEF Resume, DisconnectNext, SignalGrant, FinishGrant, ReconnectNext, FinishPowerCycle,
           UpdateNext, WatchdogNext, SwitchBus, FinishCommand, PowerAgain, FinishReset, Returned
  <2>2. stack \in Seq(Frame)
    BY DEF TypeOK
  <2>. QED  BY <2>1, <2>2, FramesOfPop DEF Frame, After
<1>2. ASSUME Unmoved, stack' \in Seq(Frame) PROVE TypeOK'
  BY <1>2 DEF Unmoved, TypeOK, isolationVars, stateVars, switchVars, serviceVars, systemVars
<1>3. CASE DisconnectNext
  <2>1. isolated \in Slots
    BY <1>1, <1>3 DEF DisconnectNext, Returned, CheckNotReentered, CheckAgrees, TypeOK
  <2>2. After(Top.slot) \cap Switched \in SUBSET Slots
    BY DEF After
  <2>3. stack' \in Seq(Frame)
    BY <1>1, <1>3, <2>1, <2>2, IsolateMoves DEF DisconnectNext
  <2>. QED  BY <1>2, <1>3, <2>3 DEF DisconnectNext, Unmoved
<1>4. CASE SignalGrant
  <2>1. Delay("grant", Top.slot) \in Frame
    BY <1>1, CallIsFrame DEF Callbacks
  <2>2. stack' \in Seq(Frame)
    BY <1>1, <1>4, <2>1, PushFrame DEF SignalGrant
  <2>3. modIn' \in [Slots -> {0, 1}]
    BY <1>4 DEF SignalGrant, TypeOK
  <2>. QED  BY <1>4, <2>2, <2>3 DEF SignalGrant, TypeOK, stateVars, switchVars, serviceVars,
                                    systemVars
<1>5. CASE FinishGrant
  BY <1>1, <1>5, PinTypes DEF FinishGrant, TypeOK, stateVars, switchVars, serviceVars, systemVars
<1>6. CASE ReconnectNext
  <2>1. /\ lastModOut' \in [Slots -> {0, 1}]
        /\ checkingInit' \in BOOLEAN
        /\ stack' \in Seq(Frame)
    BY <1>1, <1>6, ReconnectMoves DEF ReconnectNext
  <2>. QED  BY <1>6, <2>1 DEF ReconnectNext, TypeOK, stateVars, switchVars, serviceVars, systemVars
<1>7. CASE FinishPowerCycle
  <2>1. /\ lastModOut' \in [Slots -> {0, 1}]
        /\ checkingInit' \in BOOLEAN
        /\ stack' \in Seq(Frame)
        /\ isolated' = NoSlot
    BY <1>1, <1>7, ReconnectMoves DEF FinishPowerCycle, EndIsolation
  <2>2. failures' \in [Slots -> 0..(MaxInitFailures + 1)]
    <3>1. 0 \in 0..(MaxInitFailures + 1)
      OBVIOUS
    <3>2. failures' = [failures EXCEPT ![isolated] = 0]
      BY <1>7 DEF FinishPowerCycle
    <3>3. failures \in [Slots -> 0..(MaxInitFailures + 1)]
      BY DEF TypeOK
    <3>. HIDE LimitsAssumption
    <3>. QED  BY <3>1, <3>2, <3>3
  <2>. QED  BY <1>7, <2>1, <2>2 DEF FinishPowerCycle, TypeOK, stateVars, switchVars, serviceVars,
                                    systemVars
<1>8. CASE UpdateNext
  <2>1. After(Top.slot) \cap Switched \in SUBSET Slots
    BY DEF After
  <2>2. /\ isolationState' \in [Slots -> IsolationStates]
        /\ overlapped' \in SUBSET Slots
        /\ stack' \in Seq(Frame)
    BY <1>1, <1>8, <2>1, UpdateMoves DEF UpdateNext
  <2>. QED  BY <1>8, <2>2 DEF UpdateNext, TypeOK, isolationVars, switchVars, serviceVars, systemVars
<1>9. CASE WatchdogNext
  <2>1. /\ tickled' \in [Slots -> BOOLEAN]
        /\ stack' \in Seq(Frame)
    BY <1>1, <1>9, ScanMoves DEF WatchdogNext
  <2>. QED  BY <1>9, <2>1 DEF WatchdogNext, TypeOK, isolationVars, stateVars, switchVars, systemVars
<1>10. CASE SwitchBus \/ PowerAgain
  <2>1. Top.on \in BOOLEAN
    BY <1>1 DEF Frame
  <2>2. \/ Then("i2c", Top.slot, Top.on)
        \/ Then("power", Top.slot, TRUE)
    BY <1>10 DEF SwitchBus, PowerAgain
  <2>3. stack' \in Seq(Frame)
    BY <1>1, <2>1, <2>2, ThenMoves
  <2>. QED  BY <1>2, <1>10, <2>3 DEF SwitchBus, PowerAgain, Unmoved
<1>11. CASE FinishCommand \/ FinishReset
  BY <1>1, <1>2, <1>11 DEF FinishCommand, FinishReset, Unmoved
<1>. QED  BY <1>3, <1>4, <1>5, <1>6, <1>7, <1>8, <1>9, <1>10, <1>11 DEF Resume

(* Messages, duty timers and downlinks keep the types (the API callbacks).   *)
LEMMA RequestTypes ==
  ASSUME TypeOK, NEW s \in Slots, Request(s)
  PROVE  TypeOK'
<1>. USE SlotsAssumption, LimitsAssumption
<1>1. stack \in Seq(Frame) /\ isolationState \in [Slots -> IsolationStates]
  BY DEF TypeOK
<1>2. ASSUME NEW state \in IsolationStates, NEW on \in BOOLEAN,
             Command("command", s, state, on, stack)
      PROVE  /\ isolationState' \in [Slots -> IsolationStates]
             /\ overlapped' \in SUBSET Slots
             /\ stack' \in Seq(Frame)
  BY <1>1, <1>2, CommandMoves
<1>3. Demote(s) => /\ isolationState' \in [Slots -> IsolationStates]
                   /\ UNCHANGED <<overlapped, stack>>
  BY <1>1 DEF Demote, IsolationStates
<1>4. {Enabled, DisabledEnergy, DisabledDutyCycle, DisabledOff} = IsolationStates
  BY DEF IsolationStates
<1>5. CASE DutyCycleMessage(s)
  <2>1. dutyTimers' \in [Slots -> 0..MaxDutyTimers]
    BY <1>5 DEF DutyCycleMessage, TypeOK
  <2>2. /\ isolationState' \in [Slots -> IsolationStates]
        /\ overlapped' \in SUBSET Slots
        /\ stack' \in Seq(Frame)
    BY <1>2, <1>4, <1>5 DEF DutyCycleMessage
  <2>. QED  BY <1>5, <2>1, <2>2 DEF DutyCycleMessage, TypeOK, isolationVars, switchVars, systemVars
<1>6. CASE DutyCycleTimer(s)
  <2>1. dutyTimers' \in [Slots -> 0..MaxDutyTimers]
    BY <1>6 DEF DutyCycleTimer, TypeOK
  <2>2. \/ Command("command", s, Enabled, TRUE, stack)
        \/ UNCHANGED <<stateVars, stack>>
        \/ Demote(s)
    BY <1>6 DEF DutyCycleTimer
  <2>3. /\ isolationState' \in [Slots -> IsolationStates]
        /\ overlapped' \in SUBSET Slots
        /\ stack' \in Seq(Frame)
    BY <1>2, <1>3, <1>4, <2>2 DEF TypeOK, stateVars
  <2>. QED  BY <1>6, <2>1, <2>3 DEF DutyCycleTimer, TypeOK, isolationVars, switchVars, systemVars
<1>7. CASE WatchdogMessage(s)
  BY <1>7 DEF WatchdogMessage, TypeOK, isolationVars, stateVars, switchVars, systemVars
<1>8. CASE DownlinkOn(s) \/ DownlinkOff(s)
  <2>1. \/ Command("command", s, Enabled, TRUE, stack)
        \/ Command("command", s, DisabledOff, FALSE, stack)
        \/ Demote(s)
    BY <1>8 DEF DownlinkOn, DownlinkOff
  <2>2. /\ isolationState' \in [Slots -> IsolationStates]
        /\ overlapped' \in SUBSET Slots
        /\ stack' \in Seq(Frame)
    BY <1>2, <1>3, <1>4, <2>1 DEF TypeOK
  <2>. QED  BY <1>8, <2>2 DEF DownlinkOn, DownlinkOff, TypeOK, isolationVars, switchVars,
                              serviceVars, systemVars
<1>9. CASE DownlinkReset(s)
  <2>1. stack' \in Seq(Frame)
    BY <1>1, <1>9, CallIsFrame, PushFrame DEF DownlinkReset, Callbacks
  <2>. QED  BY <1>9, <2>1 DEF DownlinkReset, TypeOK, isolationVars, stateVars, switchVars,
                              serviceVars, systemVars
<1>. QED  BY <1>5, <1>6, <1>7, <1>8, <1>9 DEF Request

(* Energy and watchdog timers, a reboot and a moving pin keep the types.     *)
LEMMA TimerTypes ==
  ASSUME TypeOK,
         \/ UpdateEnergyPolicy \/ CheckWatchdogs \/ DownlinkSignpostReset \/ Reboot
         \/ (\E who \in OtherTicklers : OtherTickle(who))
         \/ (\E s \in Slots : ModuleMovesPin(s))
  PROVE  TypeOK'
<1>. USE SlotsAssumption, LimitsAssumption
<1>1. stack \in Seq(Frame)
  BY DEF TypeOK
<1>2. CASE UpdateEnergyPolicy
  <2>1. Switched \in SUBSET Slots
    BY DEF Switched
  <2>2. /\ isolationState' \in [Slots -> IsolationStates]
        /\ overlapped' \in SUBSET Slots
        /\ stack' \in Seq(Frame)
    BY <1>1, <1>2, <2>1, UpdateMoves DEF UpdateEnergyPolicy
  <2>. QED  BY <1>2, <2>2 DEF UpdateEnergyPolicy, TypeOK, isolationVars, switchVars, serviceVars,
                              systemVars
<1>3. CASE CheckWatchdogs
  <2>1. /\ tickled' \in [Slots -> BOOLEAN]
        /\ stack' \in Seq(Frame)
    BY <1>1, <1>3, ScanMoves DEF CheckWatchdogs
  <2>. QED  BY <1>3, <2>1 DEF CheckWatchdogs, TypeOK, isolationVars, stateVars, switchVars, systemVars
<1>4. CASE DownlinkSignpostReset
  BY <1>4 DEF DownlinkSignpostReset, TypeOK, isolationVars, stateVars, switchVars, serviceVars
<1>5. CASE Reboot
  <2>1. /\ stack' \in Seq(Frame) /\ overlapped' \in SUBSET Slots
        /\ isolationState' \in [Slots -> IsolationStates]
        /\ power' \in [Slots -> BOOLEAN] /\ i2c' \in [Slots -> BOOLEAN]
        /\ subscribed' \in [Slots -> BOOLEAN] /\ tickled' \in [Slots -> BOOLEAN]
    BY <1>5 DEF Reboot, Each, IsolationStates
  <2>2. /\ failures' \in [Slots -> 0..(MaxInitFailures + 1)]
        /\ dutyTimers' \in [Slots -> 0..MaxDutyTimers]
        /\ isolatedCount' \in 0..(IsolationTimeout + 1)
    BY <1>5 DEF Reboot, Each
  <2>3. /\ lastModOut' \in [Slots -> {0, 1}] /\ modIn' \in [Slots -> {0, 1}]
        /\ modOut' \in [Slots -> {0, 1}]
    BY <1>5 DEF Reboot, Each, TypeOK
  <2>. QED  BY <1>5, <2>1, <2>2, <2>3 DEF Reboot, TypeOK
<1>6. ASSUME NEW who \in OtherTicklers, OtherTickle(who) PROVE TypeOK'
  BY <1>6 DEF OtherTickle, Combine, Ticklers, TypeOK, isolationVars, stateVars, switchVars,
              serviceVars
<1>7. ASSUME NEW s \in Slots, ModuleMovesPin(s) PROVE TypeOK'
  <2>1. modOut' \in [Slots -> {0, 1}]
    BY <1>7 DEF ModuleMovesPin, TypeOK
  <2>. QED  BY <1>7, <2>1 DEF ModuleMovesPin, TypeOK, isolationVars, stateVars, switchVars,
                              serviceVars, systemVars
<1>. QED  BY <1>2, <1>3, <1>4, <1>5, <1>6, <1>7

(* Hence every step keeps the types, given that checks do not re-enter.      *)
LEMMA TypeStep ==
  ASSUME TypeOK, CheckNotReentered, [Next]_vars
  PROVE  TypeOK'
<1>1. CASE UNCHANGED vars
  BY <1>1 DEF TypeOK, vars, isolationVars, stateVars, switchVars, serviceVars, systemVars
<1>2. CASE Next
  BY <1>2, CheckTypes, ResumeTypes, WriteTypes, RequestTypes, TimerTypes
  DEF Next, Controller, OtherCallbacks
<1>. QED  BY <1>1, <1>2

-----------------------------------------------------------------------------
(***************************************************************************)
(* The check is not re-entered.  Other callbacks come and go on top of the *)
(* suspended check and leave its frame where it is; only the expander does *)
(* anything to it.  A check starts only when none is suspended, so the     *)
(* frame it pushes is the only one.                                        *)
(***************************************************************************)
SameCall(f, g) == f.callback = g.callback /\ f.slot = g.slot /\ f.on = g.on

SameChecks ==
  /\ \A k \in 1..Len(stack') :
       IsCheck(stack'[k]) => k \in 1..Len(stack) /\ SameCall(stack[k], stack'[k])
  /\ \A k \in 1..Len(stack) :
       IsCheck(stack[k]) => k \in 1..Len(stack') /\ SameCall(stack'[k], stack[k])

(* A step that keeps checks and their variables keeps checking_init sound.   *)
LEMMA SameChecksKeep ==
  ASSUME CheckNotReentered, SameChecks,
         UNCHANGED <<isolated, failures, modIn, checkingInit>>
  PROVE  CheckNotReentered'
<1>1. CheckedOnce'
  BY DEF CheckNotReentered, CheckedOnce, SameChecks, SameCall, IsCheck
<1>2. \A f \in Frames(stack') : IsCheck(f) => \E g \in Frames(stack) : SameCall(g, f)
  BY DEF SameChecks, Frames
<1>3. CheckIsGuarded'
  BY <1>2 DEF CheckNotReentered, CheckIsGuarded, SameCall, IsCheck
<1>4. CheckAgrees'
  BY <1>2 DEF CheckNotReentered, CheckAgrees, SameCall, IsCheck
<1>5. Suspended("timeout") => Suspended("timeout")'
  BY DEF Suspended, SameChecks, SameCall, IsCheck, Frames
<1>6. FailuresAreCycled'
  BY <1>5 DEF CheckNotReentered, FailuresAreCycled
<1>. QED  BY <1>1, <1>3, <1>4, <1>6 DEF CheckNotReentered

\* How another callback moves the stack: not at all, or by a call of its own.
OtherMove ==
  \/ stack' = stack
  \/ \E f \in Frame : ~IsCheck(f) /\ stack' = Append(stack, f)
  \/ /\ stack # <<>>
     /\ ~IsCheck(Top)
     /\ stack' = Below \/ \E f \in Frame : ~IsCheck(f) /\ stack' = Append(Below, f)

(* Another callback's moves keep the checks.                                 *)
LEMMA OtherMovesKeep ==
  ASSUME TypeOK, OtherMove
  PROVE  SameChecks
<1>1. stack \in Seq(Frame)
  BY DEF TypeOK
<1>2. CASE stack' = stack
  BY <1>2 DEF SameChecks, SameCall
<1>3. ASSUME NEW f \in Frame, ~IsCheck(f), stack' = Append(stack, f) PROVE SameChecks
  <2>1. /\ Len(stack') = Len(stack) + 1
        /\ \A k \in 1..Len(stack) : stack'[k] = stack[k]
        /\ stack'[Len(stack) + 1] = f
        /\ Len(stack) \in Nat
    BY <1>1, <1>3, PushFrame
  <2>. QED  BY <1>3, <2>1 DEF SameChecks, SameCall
<1>4. ASSUME stack # <<>>, ~IsCheck(Top)
      PROVE  /\ Below \in Seq(Frame)
             /\ Len(Below) = Len(stack) - 1
             /\ \A k \in 1..(Len(stack) - 1) : Below[k] = stack[k]
             /\ Len(stack) \in Nat \ {0}
             /\ ~IsCheck(stack[Len(stack)])
  BY <1>1, <1>4, PopFrame DEF Below, Top
<1>5. CASE stack # <<>> /\ ~IsCheck(Top) /\ stack' = Below
  BY <1>4, <1>5 DEF SameChecks, SameCall
<1>6. ASSUME stack # <<>>, ~IsCheck(Top), NEW f \in Frame, ~IsCheck(f), stack' = Append(Below, f)
      PROVE  SameChecks
  <2>1. /\ Len(stack') = Len(Below) + 1
        /\ \A k \in 1..Len(Below) : stack'[k] = Below[k]
        /\ stack'[Len(Below) + 1] = f
    BY <1>4, <1>6, PushFrame
  <2>. QED  BY <1>4, <1>6, <2>1 DEF SameChecks, SameCall
<1>. QED  BY <1>2, <1>3, <1>5, <1>6 DEF OtherMove

(* The expander's write changes no frame but for its being written.          *)
LEMMA WriteCheckStep ==
  ASSUME TypeOK, CheckNotReentered, NEW k \in 1..Len(stack), ExpanderWrites(k)
  PROVE  CheckNotReentered'
<1>1. stack \in Seq(Frame) /\ stack' = [stack EXCEPT ![k].written = TRUE]
  BY DEF ExpanderWrites, TypeOK
<1>2. /\ Len(stack') = Len(stack)
      /\ stack[k] \in Frame
      /\ \A j \in 1..Len(stack) : stack'[j] = IF j = k THEN Written(stack[j]) ELSE stack[j]
  BY <1>1, FramesOfWrite
<1>3. SameCall(Written(stack[k]), stack[k])
  BY <1>2 DEF Written, SameCall, Frame
<1>4. \A j \in 1..Len(stack) : SameCall(stack'[j], stack[j])
  BY <1>2, <1>3 DEF SameCall
<1>5. SameChecks
  BY <1>2, <1>4 DEF SameChecks, SameCall, IsCheck
<1>. QED  BY <1>5, SameChecksKeep DEF ExpanderWrites, isolationVars

\* What CheckAgrees asks of one frame.
Agrees(f) ==
  /\ f.callback = "grant" => isolated # NoSlot /\ (f.on => f.slot = isolated)
  /\ f.callback = "timeout" => f.slot = isolated /\ modIn[isolated] = 1
  /\ f.callback = "reconnect" => isolated = NoSlot

(* A check that is the only one may end or be suspended in its next call.    *)
LEMMA CheckLeaves ==
  ASSUME NEW frames \in Seq(Frame), \A k \in 1..Len(frames) : ~IsCheck(frames[k]),
         \/ stack' = frames
         \/ \E f \in Frame : stack' = Append(frames, f) /\ checkingInit' /\ Agrees(f)',
         FailuresAreCycled'
  PROVE  CheckNotReentered'
<1>1. CASE stack' = frames
  BY <1>1 DEF CheckNotReentered, CheckedOnce, CheckIsGuarded, CheckAgrees, IsCheck, Frames
<1>2. ASSUME NEW f \in Frame, stack' = Append(frames, f), checkingInit', Agrees(f)'
      PROVE  CheckNotReentered'
  <2>1. /\ Len(stack') = Len(frames) + 1
        /\ \A k \in 1..Len(frames) : stack'[k] = frames[k]
        /\ stack'[Len(frames) + 1] = f
        /\ Len(frames) \in Nat
    BY <1>2, PushFrame
  <2>2. \A k \in 1..Len(stack') : IsCheck(stack'[k]) => k = Len(frames) + 1
    BY <2>1
  <2>3. CheckedOnce'
    BY <2>2 DEF CheckedOnce, IsCheck
  <2>4. \A g \in Frames(stack') : IsCheck(g) => g = f
    BY <2>1, <2>2 DEF Frames
  <2>5. CheckIsGuarded'
    BY <1>2 DEF CheckIsGuarded
  <2>6. CheckAgrees'
    BY <1>2, <2>4 DEF CheckAgrees, Agrees, IsCheck
  <2>. QED  BY <2>3, <2>5, <2>6 DEF CheckNotReentered
<1>. QED  BY <1>1, <1>2

\* The frame of a suspended timeout remembers who is being power cycled.
LEMMA TopIsPushed ==
  ASSUME NEW frames \in Seq(Frame), NEW f \in Frame, stack' = Append(frames, f)
  PROVE  f \in Frames(stack')
  BY FramesOfPush

(* A pass of the check leaves at most itself suspended (checking_init).      *)
LEMMA CheckCheckStep ==
  ASSUME TypeOK, CheckNotReentered, CheckModuleInit
  PROVE  CheckNotReentered'
<1>. USE SlotsAssumption, LimitsAssumption
<1>1. ~checkingInit
  BY DEF CheckModuleInit, CheckGrant, CheckNobody, CheckReleased, CheckTimedOut,
         CheckPowerCycle, CheckStillIsolated, TookTooLong, CheckGuard
<1>2. /\ \A k \in 1..Len(stack) : ~IsCheck(stack[k])
      /\ \A s \in Slots : failures[s] <= MaxInitFailures
  BY <1>1, CheckStartsAlone
<1>3. stack \in Seq(Frame) /\ failures \in [Slots -> 0..(MaxInitFailures + 1)]
  BY DEF TypeOK
<1>4. \A s \in Slots : s # NoSlot
  BY DEF NoSlot
<1>5. ASSUME UNCHANGED failures PROVE FailuresAreCycled'
  BY <1>2, <1>3, <1>5 DEF FailuresAreCycled
<1>6. ASSUME NEW s \in Slots, CheckGrant(s) PROVE CheckNotReentered'
  <2>1. Switched \in SUBSET Slots
    BY DEF Switched
  <2>2. PICK f \in Frame :
          /\ stack' = Append(stack, f)
          /\ \/ f = Call("grant", "i2c", s, TRUE)
             \/ \E t \in Switched : f = Call("grant", "i2c", t, FALSE)
    BY <1>3, <1>6, <2>1, IsolateMoves DEF CheckGrant
  <2>3. checkingInit' /\ Agrees(f)'
    BY <1>4, <1>6, <2>2 DEF CheckGrant, Agrees, Call
  <2>. QED  BY <1>2, <1>3, <1>5, <1>6, <2>2, <2>3, CheckLeaves DEF CheckGrant
<1>7. ASSUME EndIsolation(stack), FailuresAreCycled' PROVE CheckNotReentered'
  <2>1. \/ stack' = stack
        \/ \E t \in Slots : /\ stack' = Append(stack, Call("reconnect", "i2c", t, TRUE))
                            /\ checkingInit'
    BY <1>3, <1>7, ReconnectMoves DEF EndIsolation
  <2>2. \A t \in Slots : Call("reconnect", "i2c", t, TRUE) \in Frame
    BY CallIsFrame DEF Callbacks
  <2>3. isolated' = NoSlot
    BY <1>7 DEF EndIsolation
  <2>4. \A t \in Slots : Agrees(Call("reconnect", "i2c", t, TRUE))'
    BY <2>3 DEF Agrees, Call
  <2>. QED  BY <1>2, <1>3, <1>7, <2>1, <2>2, <2>4, CheckLeaves
<1>8. CASE CheckReleased
  BY <1>5, <1>7, <1>8 DEF CheckReleased
<1>9. CASE CheckTimedOut
  <2>1. /\ isolated \in Slots
        /\ failures' = [failures EXCEPT ![isolated] = failures[isolated] + 1]
        /\ failures'[isolated] <= MaxInitFailures
    BY <1>9, OverdueTypes DEF CheckTimedOut
  <2>2. \A s \in Slots : failures'[s] <= MaxInitFailures
    BY <1>2, <1>3, <2>1
  <2>3. failures' \in [Slots -> 0..(MaxInitFailures + 1)]
    BY <1>9, OverdueTypes DEF CheckTimedOut
  <2>4. FailuresAreCycled'
    BY <2>2, <2>3 DEF FailuresAreCycled
  <2>. QED  BY <1>7, <1>9, <2>4 DEF CheckTimedOut
<1>10. CASE CheckPowerCycle
  <2>1. /\ isolated \in Slots
        /\ failures' = [failures EXCEPT ![isolated] = failures[isolated] + 1]
        /\ modIn'[isolated] = 1
    BY <1>10, OverdueTypes DEF CheckPowerCycle
  <2>. DEFINE f == Call("timeout", "power", isolated, FALSE)
  <2>2. PICK g \in Frame : /\ g = f
                           /\ g.callback = "timeout"
                           /\ g.slot = isolated
    BY <2>1, CallIsFrame DEF Callbacks, Call
  <2>3. stack' = Append(stack, g) /\ UNCHANGED isolated /\ checkingInit'
    BY <1>10, <2>2 DEF CheckPowerCycle
  <2>4. Agrees(g)'
    BY <2>1, <2>2, <2>3 DEF Agrees
  <2>5. Suspended("timeout")'
    BY <1>3, <2>2, <2>3, TopIsPushed DEF Suspended
  <2>6. FailuresAreCycled'
    BY <1>2, <1>3, <2>1, <2>3, <2>5 DEF FailuresAreCycled
  <2>. QED  BY <1>2, <1>3, <2>3, <2>4, <2>6, CheckLeaves
<1>11. CASE CheckNobody \/ CheckStillIsolated
  <2>1. stack' = stack /\ UNCHANGED failures
    BY <1>11 DEF CheckNobody, CheckStillIsolated
  <2>. QED  BY <1>2, <1>3, <1>5, <2>1, CheckLeaves
<1>. QED  BY <1>6, <1>8, <1>9, <1>10, <1>11 DEF CheckModuleInit

(* When the check continues, no other check is suspended.                    *)
LEMMA CheckIsAlone ==
  ASSUME TypeOK, CheckNotReentered, stack # <<>>, IsCheck(Top)
  PROVE  /\ Below \in Seq(Frame) /\ Top \in Frame
         /\ \A k \in 1..Len(Below) : ~IsCheck(Below[k])
         /\ \A f \in Frames(stack) : IsCheck(f) => f = Top
         /\ checkingInit /\ Agrees(Top)
<1>1. stack \in Seq(Frame)
  BY DEF TypeOK
<1>2. /\ Below \in Seq(Frame)
      /\ Len(Below) = Len(stack) - 1
      /\ \A k \in 1..(Len(stack) - 1) : Below[k] = stack[k]
      /\ Len(stack) \in Nat \ {0}
      /\ Top \in Frame
  BY <1>1, PopFrame DEF Below, Top
<1>3. \A k \in 1..Len(stack) : IsCheck(stack[k]) => k = Len(stack)
  BY <1>2 DEF CheckNotReentered, CheckedOnce, Top
<1>4. Top \in Frames(stack)
  BY <1>2 DEF Top, Frames
<1>5. \A f \in Frames(stack) : IsCheck(f) => f = Top
  BY <1>3 DEF Frames, Top
<1>. QED  BY <1>2, <1>3, <1>4, <1>5 DEF CheckNotReentered, CheckIsGuarded, CheckAgrees, Agrees

(* The check continues: connecting, signalling, waiting, power cycling.      *)
LEMMA ResumeCheckStep ==
  ASSUME TypeOK, CheckNotReentered, stack # <<>>, IsCheck(Top), Resume
  PROVE  CheckNotReentered'
<1>. USE SlotsAssumption, LimitsAssumption
<1>1. /\ Below \in Seq(Frame) /\ Top \in Frame
      /\ \A k \in 1..Len(Below) : ~IsCheck(Below[k])
      /\ \A f \in Frames(stack) : IsCheck(f) => f = Top
      /\ checkingInit /\ Agrees(Top)
  BY CheckIsAlone
<1>2. /\ stack \in Seq(Frame)
      /\ failures \in [Slots -> 0..(MaxInitFailures + 1)]
      /\ isolated \in Slots \cup {NoSlot}
  BY DEF TypeOK
<1>3. Top.slot \in Slots /\ After(Top.slot) \in SUBSET Slots
  BY <1>1 DEF Frame, After
<1>4. ASSUME Top.callback # "timeout", UNCHANGED failures PROVE FailuresAreCycled'
  <2>1. ~Suspended("timeout")
    BY <1>1, <1>4 DEF Suspended, IsCheck
  <2>. QED  BY <1>4, <2>1 DEF CheckNotReentered, FailuresAreCycled
<1>5. CASE DisconnectNext
  <2>1. Top.callback = "grant" /\ isolated \in Slots
    BY <1>1, <1>2, <1>5 DEF DisconnectNext, Returned, Agrees
  <2>2. After(Top.slot) \cap Switched \in SUBSET Slots
    BY <1>3
  <2>3. PICK f \in Frame :
          /\ stack' = Append(Below, f)
          /\ \/ f = Call("grant", "i2c", isolated, TRUE)
             \/ \E t \in After(Top.slot) \cap Switched : f = Call("grant", "i2c", t, FALSE)
    BY <1>1, <1>5, <2>1, <2>2, IsolateMoves DEF DisconnectNext
  <2>4. UNCHANGED <<isolated, failures, checkingInit>>
    BY <1>5 DEF DisconnectNext, isolationVars
  <2>5. Agrees(f)'
    BY <2>1, <2>3, <2>4 DEF Agrees, Call, NoSlot
  <2>. QED  BY <1>1, <1>4, <2>1, <2>3, <2>4, <2>5, CheckLeaves
<1>6. CASE SignalGrant
  <2>1. /\ Top.callback = "grant" /\ Top.on
        /\ UNCHANGED <<isolated, failures, checkingInit>>
    BY <1>6 DEF SignalGrant, Returned
  <2>2. PICK f \in Frame : /\ f = Delay("grant", Top.slot)
                           /\ f.callback = "grant" /\ f.slot = Top.slot
    BY <1>3, CallIsFrame DEF Callbacks, Delay
  <2>3. stack' = Append(Below, f)
    BY <1>6, <2>2 DEF SignalGrant
  <2>4. Agrees(f)'
    BY <1>1, <2>1, <2>2 DEF Agrees
  <2>. QED  BY <1>1, <1>4, <2>1, <2>3, <2>4, CheckLeaves
<1>7. CASE FinishGrant
  <2>1. Top.callback = "grant" /\ stack' = Below /\ UNCHANGED failures
    BY <1>7 DEF FinishGrant, Returned
  <2>. QED  BY <1>1, <1>4, <2>1, CheckLeaves
<1>8. ASSUME NEW Rest \in SUBSET Slots, ReconnectFrom(Rest, Below), isolated' = NoSlot,
             FailuresAreCycled'
      PROVE  CheckNotReentered'
  <2>1. \/ stack' = Below
        \/ \E t \in Rest : /\ stack' = Append(Below, Call("reconnect", "i2c", t, TRUE))
                           /\ checkingInit'
    BY <1>1, <1>8, ReconnectMoves
  <2>2. \A t \in Slots : Call("reconnect", "i2c", t, TRUE) \in Frame
    BY CallIsFrame DEF Callbacks
  <2>3. \A t \in Slots : Agrees(Call("reconnect", "i2c", t, TRUE))'
    BY <1>8 DEF Agrees, Call
  <2>. QED  BY <1>1, <1>8, <2>1, <2>2, <2>3, CheckLeaves
<1>9. CASE ReconnectNext
  <2>1. Top.callback = "reconnect" /\ UNCHANGED <<isolated, failures>>
    BY <1>9 DEF ReconnectNext, Returned
  <2>2. isolated' = NoSlot
    BY <1>1, <2>1 DEF Agrees
  <2>. QED  BY <1>3, <1>4, <1>8, <1>9, <2>1, <2>2 DEF ReconnectNext
<1>10. CASE FinishPowerCycle
  <2>1. failures' = [failures EXCEPT ![isolated] = 0]
    BY <1>10 DEF FinishPowerCycle
  <2>2. \A s \in Slots : failures[s] > MaxInitFailures => s = isolated
    BY DEF CheckNotReentered, FailuresAreCycled
  <2>3. \A s \in Slots : failures'[s] = IF s = isolated THEN 0 ELSE failures[s]
    <3>. HIDE SlotsAssumption, LimitsAssumption
    <3>1. failures' = [s \in Slots |-> IF s = isolated THEN 0 ELSE failures[s]]
      BY <1>2, <2>1, Zenon
    <3>. QED  BY <3>1
  <2>4. \A s \in Slots : ~(failures'[s] > MaxInitFailures)
    BY <1>2, <2>2, <2>3
  <2>5. FailuresAreCycled'
    BY <2>4 DEF FailuresAreCycled
  <2>. QED  BY <1>8, <1>10, <2>5 DEF FinishPowerCycle, EndIsolation
<1>11. CASE PowerAgain
  <2>1. /\ Top.callback = "timeout"
        /\ UNCHANGED <<isolated, failures, modIn, checkingInit>>
    BY <1>11 DEF PowerAgain, IsCheck, isolationVars
  <2>2. /\ Call(Top.callback, "power", Top.slot, TRUE) \in Frame
        /\ stack' = Append(Below, Call(Top.callback, "power", Top.slot, TRUE))
    BY <1>2, <1>11, ThenMoves DEF PowerAgain
  <2>3. PICK f \in Frame : /\ f = Call(Top.callback, "power", Top.slot, TRUE)
                           /\ f.callback = "timeout" /\ f.slot = Top.slot
    BY <2>1, <2>2 DEF Call
  <2>4. Agrees(f)'
    BY <1>1, <2>1, <2>3 DEF Agrees
  <2>5. Suspended("timeout")'
    BY <1>1, <2>2, <2>3, TopIsPushed DEF Suspended
  <2>6. FailuresAreCycled'
    BY <2>1, <2>5 DEF CheckNotReentered, FailuresAreCycled
  <2>. QED  BY <1>1, <2>1, <2>2, <2>3, <2>4, <2>6, CheckLeaves
<1>12. ~(UpdateNext \/ WatchdogNext \/ SwitchBus \/ FinishCommand \/ FinishReset)
  BY DEF UpdateNext, WatchdogNext, SwitchBus, FinishCommand, FinishReset, Returned, IsCheck
<1>. QED  BY <1>5, <1>6, <1>7, <1>9, <1>10, <1>11, <1>12 DEF Resume

(* Another callback that continues leaves the check alone.                   *)
LEMMA OtherResumeStep ==
  ASSUME TypeOK, CheckNotReentered, Resume, ~(stack # <<>> /\ IsCheck(Top))
  PROVE  CheckNotReentered'
<1>1. /\ stack # <<>> /\ stack \in Seq(Frame)
      /\ Below \in Seq(Frame) /\ Top \in Frame
      /\ Top.slot \in Slots
      /\ After(Top.slot) \in SUBSET Slots
  <2>1. stack # <<>>
    BY DEF Resume, DisconnectNext, SignalGrant, FinishGrant, ReconnectNext, FinishPowerCycle,
           UpdateNext, WatchdogNext, SwitchBus, FinishCommand, PowerAgain, FinishReset, Returned
  <2>2. stack \in Seq(Frame)
    BY DEF TypeOK
  <2>. QED  BY <2>1, <2>2, FramesOfPop DEF Frame, After
<1>2. ~IsCheck(Top)
  BY <1>1
<1>3. /\ ~(DisconnectNext \/ SignalGrant \/ FinishGrant \/ ReconnectNext \/ FinishPowerCycle)
      /\ UNCHANGED isolationVars
  BY <1>2 DEF Resume, DisconnectNext, SignalGrant, FinishGrant, ReconnectNext, FinishPowerCycle,
              UpdateNext, WatchdogNext, SwitchBus, FinishCommand, PowerAgain, FinishReset,
              Returned, IsCheck
<1>4. \A s \in Slots : \A on \in BOOLEAN : \A callback \in {"command", "update", "watchdog"} :
        /\ Call(callback, "power", s, on) \in Frame
        /\ ~IsCheck(Call(callback, "power", s, on))
        /\ Delay("update", s) \in Frame
        /\ ~IsCheck(Delay("update", s))
  BY CallIsFrame DEF Callbacks, Call, Delay, IsCheck
<1>5. ASSUME UpdateNext PROVE OtherMove
  <2>. DEFINE Rest == After(Top.slot) \cap Switched
  <2>1. Rest \in SUBSET Slots /\ UpdateFrom(Rest, Below)
    BY <1>1, <1>5 DEF UpdateNext
  <2>. HIDE DEF Rest
  <2>2. \/ stack' = Below
        \/ \E s \in Rest : stack' = Append(Below, Delay("update", s))
        \/ \E s \in Rest : Command("update", s, DisabledEnergy, FALSE, Below)
        \/ \E s \in Rest : Command("update", s, Enabled, TRUE, Below)
    BY <1>1, <2>1, UpdateMoves
  <2>3. \A s \in Slots : \A on \in BOOLEAN : \A state \in IsolationStates :
          Command("update", s, state, on, Below)
            => stack' = Append(Below, Call("update", "power", s, on))
    BY DEF Command
  <2>4. \/ stack' = Below
        \/ \E s \in Slots : stack' = Append(Below, Delay("update", s))
        \/ \E s \in Slots : stack' = Append(Below, Call("update", "power", s, FALSE))
        \/ \E s \in Slots : stack' = Append(Below, Call("update", "power", s, TRUE))
    BY <2>1, <2>2, <2>3 DEF IsolationStates
  <2>. QED  BY <1>1, <1>2, <1>4, <2>4 DEF OtherMove
<1>6. ASSUME WatchdogNext PROVE OtherMove
  <2>1. \/ stack' = Below
        \/ \E s \in Slots : stack' = Append(Below, Call("watchdog", "power", s, FALSE))
    BY <1>1, <1>6, ScanMoves DEF WatchdogNext
  <2>. QED  BY <1>1, <1>2, <1>4, <2>1 DEF OtherMove
<1>7. ASSUME SwitchBus \/ PowerAgain PROVE OtherMove
  <2>1. Top.on \in BOOLEAN
    BY <1>1 DEF Frame
  <2>2. \/ Then("i2c", Top.slot, Top.on)
        \/ Then("power", Top.slot, TRUE)
    BY <1>7 DEF SwitchBus, PowerAgain
  <2>3. PICK switch \in {"power", "i2c"}, on \in BOOLEAN :
          /\ Call(Top.callback, switch, Top.slot, on) \in Frame
          /\ stack' = Append(Below, Call(Top.callback, switch, Top.slot, on))
    BY <1>1, <2>1, <2>2, ThenMoves
  <2>4. ~IsCheck(Call(Top.callback, switch, Top.slot, on))
    BY <1>2 DEF IsCheck, Call
  <2>. QED  BY <1>1, <1>2, <2>3, <2>4 DEF OtherMove
<1>8. ASSUME FinishCommand \/ FinishReset PROVE OtherMove
  BY <1>1, <1>2, <1>8 DEF FinishCommand, FinishReset, OtherMove
<1>9. OtherMove => CheckNotReentered'
  BY <1>3, OtherMovesKeep, SameChecksKeep DEF isolationVars
<1>. QED  BY <1>3, <1>5, <1>6, <1>7, <1>8, <1>9 DEF Resume

(* No other callback suspends or ends a check, or isolates a module.         *)
LEMMA OtherCheckStep ==
  ASSUME TypeOK, CheckNotReentered, [Next]_vars, ~CheckModuleInit, ~Resume,
         \A k \in 1..Len(stack) : ~ExpanderWrites(k)
  PROVE  CheckNotReentered'
<1>. USE SlotsAssumption, LimitsAssumption
<1>1. stack \in Seq(Frame)
  BY DEF TypeOK
<1>2. ASSUME OtherMove, UNCHANGED <<isolated, failures, modIn, checkingInit>>
      PROVE  CheckNotReentered'
  BY <1>2, OtherMovesKeep, SameChecksKeep
<1>3. \A s \in Slots : \A on \in BOOLEAN :
        \A callback \in {"command", "update", "watchdog", "reset"} :
          /\ Call(callback, "power", s, on) \in Frame
          /\ ~IsCheck(Call(callback, "power", s, on))
          /\ Delay("update", s) \in Frame
          /\ ~IsCheck(Delay("update", s))
  BY CallIsFrame DEF Callbacks, Call, Delay, IsCheck
<1>4. CASE UpdateEnergyPolicy
  <2>1. Switched \in SUBSET Slots
    BY DEF Switched
  <2>2. \/ stack' = stack
        \/ \E s \in Slots : stack' = Append(stack, Delay("update", s))
        \/ \E s \in Slots : stack' = Append(stack, Call("update", "power", s, FALSE))
        \/ \E s \in Slots : stack' = Append(stack, Call("update", "power", s, TRUE))
    BY <1>1, <1>4, <2>1, UpdateMoves DEF UpdateEnergyPolicy, Command
  <2>3. OtherMove
    BY <1>3, <2>2 DEF OtherMove
  <2>. QED  BY <1>2, <1>4, <2>3 DEF UpdateEnergyPolicy, isolationVars
<1>5. CASE CheckWatchdogs
  <2>1. \/ stack' = stack
        \/ \E s \in Slots : stack' = Append(stack, Call("watchdog", "power", s, FALSE))
    BY <1>1, <1>5, ScanMoves DEF CheckWatchdogs
  <2>2. OtherMove
    BY <1>3, <2>1 DEF OtherMove
  <2>. QED  BY <1>2, <1>5, <2>2 DEF CheckWatchdogs, isolationVars
<1>6. ASSUME NEW s \in Slots, Request(s) PROVE CheckNotReentered'
  <2>1. \/ stack' = stack
        \/ \E on \in BOOLEAN : stack' = Append(stack, Call("command", "power", s, on))
        \/ stack' = Append(stack, Call("reset", "power", s, FALSE))
    BY <1>6 DEF Request, DutyCycleMessage, DutyCycleTimer, WatchdogMessage, DownlinkOn,
                DownlinkOff, DownlinkReset, Command, Demote
  <2>2. OtherMove
    BY <1>3, <2>1 DEF OtherMove
  <2>3. UNCHANGED isolationVars
    BY <1>6 DEF Request, DutyCycleMessage, DutyCycleTimer, WatchdogMessage, DownlinkOn,
                DownlinkOff, DownlinkReset
  <2>. QED  BY <1>2, <2>2, <2>3 DEF isolationVars
<1>7. CASE \/ DownlinkSignpostReset \/ UNCHANGED vars
           \/ (\E who \in OtherTicklers : OtherTickle(who))
           \/ (\E s \in Slots : ModuleMovesPin(s))
  <2>1. UNCHANGED <<isolationVars, stack>>
    BY <1>7 DEF DownlinkSignpostReset, OtherTickle, ModuleMovesPin, vars
  <2>. QED  BY <1>2, <2>1 DEF OtherMove, isolationVars
<1>8. CASE Reboot
  <2>1. stack' = <<>> /\ failures' = [s \in Slots |-> 0]
    BY <1>8 DEF Reboot, Each
  <2>2. CheckedOnce' /\ CheckIsGuarded' /\ CheckAgrees'
    BY <2>1 DEF CheckedOnce, CheckIsGuarded, CheckAgrees, Frames
  <2>3. FailuresAreCycled'
    BY <2>1 DEF FailuresAreCycled
  <2>. QED  BY <2>2, <2>3 DEF CheckNotReentered
<1>. QED  BY <1>4, <1>5, <1>6, <1>7, <1>8 DEF Next, Controller, OtherCallbacks

(* The inductive invariant holds after signpost_controller_init.             *)
LEMMA InitIsSound == Init => TypeOK /\ CheckNotReentered
<1>. SUFFICES ASSUME Init PROVE TypeOK /\ CheckNotReentered
  OBVIOUS
<1>. USE SlotsAssumption, LimitsAssumption DEF Init, Each
<1>1. stack = <<>> /\ stack \in Seq(Frame) /\ overlapped \in SUBSET Slots
  OBVIOUS
<1>2. CheckNotReentered
  BY <1>1 DEF CheckNotReentered, CheckedOnce, CheckIsGuarded, CheckAgrees, FailuresAreCycled,
              Frames
<1>3. /\ isolationState \in [Slots -> IsolationStates]
      /\ power \in [Slots -> BOOLEAN]
      /\ i2c \in [Slots -> BOOLEAN]
  BY DEF IsolationStates
<1>4. /\ failures \in [Slots -> 0..(MaxInitFailures + 1)]
      /\ lastModOut \in [Slots -> {0, 1}]
      /\ modIn \in [Slots -> {0, 1}]
      /\ modOut \in [Slots -> {0, 1}]
      /\ dutyTimers \in [Slots -> 0..MaxDutyTimers]
  OBVIOUS
<1>5. /\ subscribed \in [Slots -> BOOLEAN]
      /\ tickled \in [Slots -> BOOLEAN]
      /\ isolatedCount \in 0..(IsolationTimeout + 1)
  OBVIOUS
<1>6. /\ isolated \in Slots \cup {NoSlot} /\ lastIsolated \in Slots \cup {NoSlot}
      /\ checkingInit \in BOOLEAN /\ hardReset \in BOOLEAN
      /\ watchdogStates \in SUBSET Ticklers
  OBVIOUS
<1>. QED  BY <1>1, <1>2, <1>3, <1>4, <1>5, <1>6 DEF TypeOK

(* Every step keeps the inductive invariant.                                 *)
LEMMA SoundStep ==
  TypeOK /\ CheckNotReentered /\ [Next]_vars => (TypeOK /\ CheckNotReentered)'
  BY TypeStep, CheckCheckStep, ResumeCheckStep, OtherResumeStep, WriteCheckStep, OtherCheckStep

(* Every variable keeps its type, the failure counts included, through any *)
(* nesting of callbacks (check_module_init_cb).                            *)
THEOREM TypeCorrect == Spec => []TypeOK
<1>1. TypeOK /\ CheckNotReentered /\ [Next]_vars => (TypeOK /\ CheckNotReentered)'
  BY SoundStep
<1>. QED  BY <1>1, InitIsSound, PTL DEF Spec

(* The check of the isolation pins is suspended at most once, in whichever *)
(* of its calls; what it connects, signals or power cycles is the isolated *)
(* module, and only one it is power cycling has too many failures          *)
(* (checking_init).                                                        *)
THEOREM NotReentered == Spec => []CheckNotReentered
<1>1. TypeOK /\ CheckNotReentered /\ [Next]_vars => (TypeOK /\ CheckNotReentered)'
  BY SoundStep
<1>. QED  BY <1>1, InitIsSound, PTL DEF Spec
=============================================================================
