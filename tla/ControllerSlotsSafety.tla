----------------------- MODULE ControllerSlotsSafety -----------------------
(***************************************************************************)
(* What ControllerSlots keeps true of the pins, the bus and the power      *)
(* switches, proved for any set of slots, any limits and any clients from  *)
(* the types and from CheckNotReentered (ControllerSlotsProofs).           *)
(***************************************************************************)
EXTENDS ControllerSlotsProofs

-----------------------------------------------------------------------------
(***************************************************************************)
(* MOD_IN.  Whoever stops being isolated has had its pin raised before, in *)
(* the power cycle's case before its calls: that needs CheckNotReentered.  *)
(***************************************************************************)
LEMMA OneModInLowStep ==
  ASSUME TypeOK, CheckNotReentered, OneModInLow, [Next]_vars
  PROVE  OneModInLow'
<1>. USE SlotsAssumption DEF NoSlot
<1>1. CASE UNCHANGED <<isolated, modIn>>
  BY <1>1 DEF OneModInLow
<1>2. ASSUME NEW s \in Slots, CheckGrant(s) PROVE OneModInLow'
  BY <1>2 DEF CheckGrant, OneModInLow, TypeOK
<1>3. CASE CheckReleased
  BY <1>3 DEF CheckReleased, EndIsolation, OneModInLow, TypeOK
<1>4. CASE CheckTimedOut
  BY <1>4 DEF CheckTimedOut, TookTooLong, EndIsolation, OneModInLow, TypeOK
<1>5. CASE CheckPowerCycle
  BY <1>5 DEF CheckPowerCycle, TookTooLong, OneModInLow, TypeOK
<1>6. CASE CheckNobody \/ CheckStillIsolated
  BY <1>1, <1>6 DEF CheckNobody, CheckStillIsolated
<1>7. CASE FinishPowerCycle
  <2>1. IsCheck(Top) /\ Top.callback = "timeout" /\ stack # <<>>
    BY <1>7 DEF FinishPowerCycle, Returned, IsCheck
  <2>2. modIn[isolated] = 1
    BY <2>1, CheckIsAlone DEF Agrees
  <2>. QED  BY <1>7, <2>2 DEF FinishPowerCycle, EndIsolation, OneModInLow
<1>8. CASE SignalGrant
  BY <1>8 DEF SignalGrant, OneModInLow, TypeOK
<1>9. CASE Resume /\ ~FinishPowerCycle /\ ~SignalGrant
  <2>1. UNCHANGED <<isolated, modIn>>
    BY <1>9 DEF Resume, DisconnectNext, FinishGrant, ReconnectNext, UpdateNext, WatchdogNext,
                SwitchBus, FinishCommand, PowerAgain, FinishReset, isolationVars
  <2>. QED  BY <1>1, <2>1
<1>10. CASE Reboot
  BY <1>10 DEF Reboot, Each, OneModInLow
<1>11. CASE \/ UpdateEnergyPolicy \/ CheckWatchdogs \/ DownlinkSignpostReset
            \/ (\E k \in 1..Len(stack) : ExpanderWrites(k))
            \/ (\E s \in Slots : Request(s) \/ ModuleMovesPin(s))
            \/ (\E who \in OtherTicklers : OtherTickle(who)) \/ UNCHANGED vars
  <2>1. UNCHANGED <<isolated, modIn>>
    BY <1>11 DEF UpdateEnergyPolicy, CheckWatchdogs, DownlinkSignpostReset, ExpanderWrites,
                 Request, DutyCycleMessage, DutyCycleTimer, WatchdogMessage, DownlinkOn,
                 DownlinkOff, DownlinkReset, ModuleMovesPin, OtherTickle, vars, isolationVars
  <2>. QED  BY <1>1, <2>1
<1>. QED  BY <1>2, <1>3, <1>4, <1>5, <1>6, <1>7, <1>8, <1>9, <1>10, <1>11
          DEF Next, Controller, OtherCallbacks, CheckModuleInit

(* At most one module sees its MOD_IN pin low, and it is the isolated one, *)
(* for every number of slots and depth of nested callbacks.                *)
THEOREM OnlyOneModInLow == Spec => []OneModInLow
<1>1. Init => OneModInLow
  BY DEF Init, Each, OneModInLow
<1>2. TypeOK /\ CheckNotReentered /\ OneModInLow /\ [Next]_vars => OneModInLow'
  BY OneModInLowStep
<1>. QED  BY <1>1, <1>2, TypeCorrect, NotReentered, PTL DEF Spec

-----------------------------------------------------------------------------
(***************************************************************************)
(* Power and bus.  For a slot whose last command overlapped with nothing,  *)
(* the recorded state and the switches agree but for what the suspended    *)
(* callbacks have promised to switch.  The inductive invariant adds what   *)
(* the promises are consistent with: whoever is still switching the slot   *)
(* on, or connecting it, does so because of the state it is in.            *)
(***************************************************************************)
FrameShape(f) ==
  /\ f.callback \in {"reset", "watchdog", "timeout"} => f.switch = "power"
  /\ f.callback = "command" => f.switch \in {"power", "i2c"}
  /\ f.callback = "grant" => f.switch \in {"i2c", "delay"}
  /\ f.callback = "reconnect" => f.switch = "i2c" /\ f.on
  /\ f.switch = "delay" => f.on /\ f.written
Shapes == \A f \in Frames(stack) : FrameShape(f)

Faithful(s) ==
  \A f \in Frames(stack) : StillSwitching(f, s) =>
    IF f.callback \in {"grant", "reconnect"} \/ f.on
    THEN isolationState[s] \in {Enabled, DisabledEnergy}
    ELSE isolationState[s] # Enabled

Deaf(s) ==
  isolationState[s] \in {DisabledOff, DisabledDutyCycle} /\ i2c[s] =>
    \E f \in Frames(stack) : ~f.on /\ StillSwitching(f, s)
Reached(s) ==
  isolated = NoSlot /\ isolationState[s] = Enabled /\ ~i2c[s] =>
    \E f \in Frames(stack) : WillConnect(f, s)
Powered(s) ==
  isolationState[s] = Enabled /\ ~power[s] => \E f \in Frames(stack) : WillPower(f, s)

InSync(s) == Faithful(s) /\ Deaf(s) /\ Reached(s) /\ Powered(s)

(* Every frame has the shape its callback gives it.                          *)
LEMMA NewShapes ==
  /\ \A s \in Slots, on \in BOOLEAN, callback \in {"command", "update", "reset", "watchdog",
                                                  "timeout"} :
       FrameShape(Call(callback, "power", s, on))
  /\ \A s \in Slots, on \in BOOLEAN : /\ FrameShape(Call("grant", "i2c", s, on))
                                      /\ FrameShape(Call("command", "i2c", s, on))
                                      /\ FrameShape(Call("update", "i2c", s, on))
  /\ \A s \in Slots : /\ FrameShape(Call("reconnect", "i2c", s, TRUE))
                      /\ FrameShape(Delay("grant", s))
                      /\ FrameShape(Delay("update", s))
  BY DEF FrameShape, Call, Delay

\* The stack moves by one callback's call or return.
Moves(f) == stack' = Append(stack, f) \/ (stack # <<>> /\ stack' = Append(Below, f))

(* A callback's call or return keeps the shapes of the others.               *)
LEMMA MovesKeepShapes ==
  ASSUME TypeOK, Shapes,
         \/ stack' = stack
         \/ stack # <<>> /\ stack' = Below
         \/ \E f \in Frame : FrameShape(f) /\ Moves(f)
  PROVE  Shapes'
<1>1. stack \in Seq(Frame)
  BY DEF TypeOK
<1>2. CASE stack' = stack
  BY <1>2 DEF Shapes
<1>3. stack # <<>> => Below \in Seq(Frame) /\ Frames(Below) \subseteq Frames(stack)
  BY <1>1, FramesOfPop
<1>4. ASSUME NEW f \in Frame, FrameShape(f), Moves(f) PROVE Shapes'
  <2>1. CASE stack' = Append(stack, f)
    <3>1. Frames(Append(stack, f)) = Frames(stack) \cup {f}
      BY <1>1, FramesOfPush
    <3>. QED  BY <1>4, <2>1, <3>1 DEF Shapes
  <2>2. CASE stack # <<>> /\ stack' = Append(Below, f)
    <3>1. Frames(Append(Below, f)) = Frames(Below) \cup {f}
      BY <1>3, <2>2, FramesOfPush
    <3>. QED  BY <1>3, <1>4, <2>2, <3>1 DEF Shapes
  <2>. QED  BY <1>4, <2>1, <2>2 DEF Moves
<1>. QED  BY <1>2, <1>3, <1>4 DEF Shapes

(* Every step keeps the shapes (signpost_controller.c).                      *)
LEMMA ShapesStep ==
  ASSUME TypeOK, CheckNotReentered, Shapes, [Next]_vars
  PROVE  Shapes'
<1>1. stack \in Seq(Frame)
  BY DEF TypeOK
<1>2. \A s \in Slots, on \in BOOLEAN, callback \in Callbacks, switch \in {"power", "i2c"} :
        Call(callback, switch, s, on) \in Frame /\ Delay(callback, s) \in Frame
  BY CallIsFrame
<1>3. ASSUME stack # <<>>
      PROVE  /\ Below \in Seq(Frame) /\ Top \in Frame /\ Top \in Frames(stack)
             /\ Top.slot \in Slots /\ Top.on \in BOOLEAN /\ FrameShape(Top)
             /\ After(Top.slot) \in SUBSET Slots
             /\ (After(Top.slot) \cap Switched) \in SUBSET Slots
  BY <1>1, <1>3, FramesOfPop DEF Frame, Shapes, After
<1>4. \A t \in Slots : Moves(Call("reconnect", "i2c", t, TRUE)) => Shapes'
  BY <1>2, NewShapes, MovesKeepShapes DEF Callbacks
<1>5. \A t \in Slots, on \in BOOLEAN, callback \in {"command", "update", "reset", "watchdog",
                                                   "timeout"} :
        Moves(Call(callback, "power", t, on)) => Shapes'
  BY <1>2, NewShapes, MovesKeepShapes DEF Callbacks
<1>6. \A t \in Slots, on \in BOOLEAN, callback \in {"command", "update", "grant"} :
        Moves(Call(callback, "i2c", t, on)) => Shapes'
  BY <1>2, NewShapes, MovesKeepShapes DEF Callbacks
<1>7. \A t \in Slots, callback \in {"update", "grant"} : Moves(Delay(callback, t)) => Shapes'
  BY <1>2, NewShapes, MovesKeepShapes DEF Callbacks
<1>8. stack' = stack \/ (stack # <<>> /\ stack' = Below) => Shapes'
  BY MovesKeepShapes
<1>9. ASSUME NEW Rest \in SUBSET Slots, NEW frames \in Seq(Frame),
             frames = stack \/ (stack # <<>> /\ frames = Below)
      PROVE  /\ ReconnectFrom(Rest, frames) => Shapes'
             /\ UpdateFrom(Rest, frames) => Shapes'
             /\ ScanFrom(Rest, frames) => Shapes'
             /\ \A s \in Slots : IsolateFrom(Rest, s, frames) => Shapes'
  <2>1. \A f : stack' = Append(frames, f) => Moves(f)
    BY <1>9 DEF Moves
  <2>2. stack' = frames => Shapes'
    BY <1>8, <1>9
  <2>3. ReconnectFrom(Rest, frames) => Shapes'
    BY <1>4, <2>1, <2>2 DEF ReconnectFrom
  <2>4. UpdateFrom(Rest, frames) => Shapes'
    <3>1. \A t \in Slots, state \in IsolationStates, on \in BOOLEAN :
            Command("update", t, state, on, frames) => Shapes'
      BY <1>5, <2>1 DEF Command
    <3>. QED  BY <1>7, <2>1, <2>2, <3>1, UpdateMoves DEF IsolationStates
  <2>5. ScanFrom(Rest, frames) => Shapes'
    BY <1>5, <2>1, <2>2, ScanMoves
  <2>6. \A s \in Slots : IsolateFrom(Rest, s, frames) => Shapes'
    BY <1>6, <2>1 DEF IsolateFrom
  <2>. QED  BY <2>3, <2>4, <2>5, <2>6
<1>10. CASE CheckModuleInit
  <2>1. Slots \in SUBSET Slots /\ Switched \in SUBSET Slots
    BY DEF Switched
  <2>2. ASSUME NEW s \in Slots, CheckGrant(s) PROVE Shapes'
    BY <1>1, <1>9, <2>1, <2>2 DEF CheckGrant
  <2>3. CASE CheckReleased \/ CheckTimedOut
    BY <1>1, <1>9, <2>1, <2>3 DEF CheckReleased, CheckTimedOut, EndIsolation
  <2>4. CASE CheckPowerCycle
    BY <1>5, <2>4 DEF CheckPowerCycle, TookTooLong, Moves, TypeOK
  <2>. QED  BY <1>8, <1>10, <2>2, <2>3, <2>4 DEF CheckModuleInit, CheckNobody, CheckStillIsolated
<1>11. CASE Resume
  <2>1. CASE DisconnectNext
    <3>1. isolated \in Slots
      BY <2>1, CheckIsAlone DEF DisconnectNext, Returned, IsCheck, Agrees, TypeOK
    <3>. QED  BY <1>3, <1>9, <2>1, <3>1 DEF DisconnectNext, Returned
  <2>2. CASE SignalGrant
    BY <1>3, <1>7, <2>2 DEF SignalGrant, Returned, Moves
  <2>3. CASE ReconnectNext
    BY <1>3, <1>9, <2>3 DEF ReconnectNext, Returned
  <2>4. CASE FinishPowerCycle
    <3>1. Slots \in SUBSET Slots
      OBVIOUS
    <3>. QED  BY <1>3, <1>9, <2>4, <3>1 DEF FinishPowerCycle, EndIsolation, Returned
  <2>5. CASE UpdateNext
    BY <1>3, <1>9, <2>5 DEF UpdateNext, Returned
  <2>6. CASE WatchdogNext
    BY <1>3, <1>9, <2>6 DEF WatchdogNext, Returned
  <2>7. CASE SwitchBus
    BY <1>3, <1>6, <2>7 DEF SwitchBus, Then, Moves
  <2>8. CASE PowerAgain
    BY <1>3, <1>5, <2>8 DEF PowerAgain, Then, Moves
  <2>9. CASE FinishGrant \/ FinishCommand \/ FinishReset
    BY <1>8, <2>9 DEF FinishGrant, FinishCommand, FinishReset, Returned
  <2>. QED  BY <1>11, <2>1, <2>2, <2>3, <2>4, <2>5, <2>6, <2>7, <2>8, <2>9 DEF Resume
<1>12. ASSUME NEW k \in 1..Len(stack), ExpanderWrites(k) PROVE Shapes'
  <2>1. stack[k] \in Frames(stack) /\ stack' = [stack EXCEPT ![k].written = TRUE]
    BY <1>12 DEF ExpanderWrites, Frames
  <2>2. /\ Frames(stack') \subseteq Frames(stack) \cup {Written(stack[k])}
        /\ stack[k] \in Frame
    BY <1>1, <2>1, FramesOfWrite
  <2>3. FrameShape(Written(stack[k]))
    BY <2>1, <2>2 DEF Shapes, FrameShape, Written, Frame
  <2>. QED  BY <2>2, <2>3 DEF Shapes
<1>13. CASE UpdateEnergyPolicy \/ CheckWatchdogs
  <2>1. Slots \in SUBSET Slots /\ Switched \in SUBSET Slots
    BY DEF Switched
  <2>. QED  BY <1>1, <1>9, <1>13, <2>1 DEF UpdateEnergyPolicy, CheckWatchdogs
<1>14. ASSUME NEW s \in Slots, Request(s) PROVE Shapes'
  BY <1>5, <1>8, <1>14 DEF Request, DutyCycleMessage, DutyCycleTimer, WatchdogMessage, DownlinkOn,
                           DownlinkOff, DownlinkReset, Command, Demote, Moves
<1>15. CASE Reboot
  BY <1>15 DEF Reboot, Shapes, Frames
<1>16. CASE \/ DownlinkSignpostReset \/ UNCHANGED vars
            \/ (\E who \in OtherTicklers : OtherTickle(who))
            \/ (\E s \in Slots : ModuleMovesPin(s))
  BY <1>8, <1>16 DEF DownlinkSignpostReset, OtherTickle, ModuleMovesPin, vars
<1>. QED  BY <1>10, <1>11, <1>12, <1>13, <1>14, <1>15, <1>16 DEF Next, Controller, OtherCallbacks

-----------------------------------------------------------------------------
(***************************************************************************)
(* What a frame still promises to do to a slot, and what it may know.      *)
(***************************************************************************)
WillDisconnect(f, s) == f.callback # "grant" /\ ~f.on /\ StillSwitching(f, s)

Honest(f, s) == StillSwitching(f, s) =>
  IF f.callback \in {"grant", "reconnect"} \/ f.on
  THEN isolationState[s] \in {Enabled, DisabledEnergy}
  ELSE isolationState[s] # Enabled

\* Nothing the slot waits for is left to the frame ...
Settled(f, s) == ~WillDisconnect(f, s) /\ ~WillConnect(f, s) /\ ~WillPower(f, s)
\* ... or another one takes it over.
Inherits(g, f, s) ==
  /\ WillDisconnect(f, s) => WillDisconnect(g, s)
  /\ WillConnect(f, s) => WillConnect(g, s)
  /\ WillPower(f, s) => WillPower(g, s)

\* The slot is switched by nobody in this step, and its state at most demoted.
Untouched(s) ==
  /\ isolationState'[s] \in {isolationState[s], DisabledEnergy}
  /\ UNCHANGED isolated
  /\ power'[s] = power[s]
  /\ i2c'[s] = i2c[s]

(* A slot that is not touched stays in sync when the frames of the step hand *)
(* over what they promised and the new ones know its state.                  *)
LEMMA Handover ==
  ASSUME NEW s \in Switched, InSync(s), Untouched(s),
         \A f \in Frames(stack) : \/ Settled(f, s)
                                  \/ \E g \in Frames(stack') : Inherits(g, f, s),
         \A g \in Frames(stack') : g \in Frames(stack) \/ Honest(g, s)
  PROVE  InSync(s)'
<1>1. \A f : /\ StillSwitching(f, s)' <=> StillSwitching(f, s)
             /\ WillDisconnect(f, s)' <=> WillDisconnect(f, s)
             /\ WillConnect(f, s)' <=> WillConnect(f, s)
             /\ WillPower(f, s)' <=> WillPower(f, s)
  BY DEF Untouched, StillSwitching, WillDisconnect, WillConnect, WillPower
<1>2. \A f \in Frames(stack) : Honest(f, s)
  BY DEF InSync, Faithful, Honest
<1>3. \A f \in Frames(stack') : Honest(f, s)'
  BY <1>1, <1>2 DEF Honest, Untouched, Enabled, DisabledEnergy
<1>4. Faithful(s)'
  BY <1>3 DEF Faithful, Honest
<1>5. Deaf(s)'
  <2>1. SUFFICES ASSUME isolationState'[s] \in {DisabledOff, DisabledDutyCycle}, i2c'[s]
                 PROVE  \E g \in Frames(stack') : WillDisconnect(g, s)
    BY <1>1, <2>1 DEF Deaf, WillDisconnect
  <2>2. isolationState[s] \in {DisabledOff, DisabledDutyCycle} /\ i2c[s]
    BY <2>1 DEF Untouched, DisabledOff, DisabledDutyCycle, DisabledEnergy
  <2>3. PICK f \in Frames(stack) : ~f.on /\ StillSwitching(f, s)
    BY <2>2 DEF InSync, Deaf
  <2>4. WillDisconnect(f, s)
    BY <1>2, <2>2, <2>3 DEF WillDisconnect, Honest, DisabledOff, DisabledDutyCycle,
                            DisabledEnergy, Enabled
  <2>. QED  BY <2>4 DEF Settled, Inherits
<1>6. Reached(s)'
  <2>1. SUFFICES ASSUME isolated' = NoSlot, isolationState'[s] = Enabled, ~i2c'[s]
                 PROVE  \E g \in Frames(stack') : WillConnect(g, s)
    BY <1>1, <2>1 DEF Reached
  <2>2. PICK f \in Frames(stack) : WillConnect(f, s)
    BY <2>1 DEF InSync, Reached, Untouched, Enabled, DisabledEnergy
  <2>. QED  BY <2>2 DEF Settled, Inherits
<1>7. Powered(s)'
  <2>1. SUFFICES ASSUME isolationState'[s] = Enabled, ~power'[s]
                 PROVE  \E g \in Frames(stack') : WillPower(g, s)
    BY <1>1, <2>1 DEF Powered
  <2>2. PICK f \in Frames(stack) : WillPower(f, s)
    BY <2>1 DEF InSync, Powered, Untouched, Enabled, DisabledEnergy
  <2>. QED  BY <2>2 DEF Settled, Inherits
<1>. QED  BY <1>4, <1>5, <1>6, <1>7 DEF InSync

(* A callback that promises the slot nothing comes or goes, or hands over to *)
(* its next call.                                                            *)
LEMMA MoveInSync ==
  ASSUME TypeOK, NEW s \in Switched, InSync(s), Untouched(s),
         \/ stack' = stack
         \/ \E g \in Frame : stack' = Append(stack, g) /\ Honest(g, s)
         \/ stack # <<>> /\ stack' = Below /\ Settled(Top, s)
         \/ \E g \in Frame : /\ stack # <<>> /\ stack' = Append(Below, g) /\ Honest(g, s)
                             /\ Settled(Top, s) \/ Inherits(g, Top, s)
  PROVE  InSync(s)'
<1>1. stack \in Seq(Frame)
  BY DEF TypeOK
<1>2. \A f : Inherits(f, f, s)
  BY DEF Inherits
<1>3. CASE stack' = stack
  BY <1>2, <1>3, Handover
<1>4. ASSUME NEW g \in Frame, stack' = Append(stack, g), Honest(g, s) PROVE InSync(s)'
  <2>1. Frames(stack') = Frames(stack) \cup {g}
    BY <1>1, <1>4, FramesOfPush
  <2>. QED  BY <1>2, <1>4, <2>1, Handover
<1>5. stack # <<>> => Below \in Seq(Frame) /\ Frames(stack) = Frames(Below) \cup {Top}
  BY <1>1, FramesOfPop
<1>6. CASE stack # <<>> /\ stack' = Below /\ Settled(Top, s)
  <2>1. /\ \A f \in Frames(stack) : f \in Frames(stack') \/ f = Top
        /\ \A f \in Frames(stack') : f \in Frames(stack)
    BY <1>5, <1>6
  <2>. QED  BY <1>2, <1>6, <2>1, Handover
<1>7. ASSUME NEW g \in Frame, stack # <<>>, stack' = Append(Below, g), Honest(g, s),
             Settled(Top, s) \/ Inherits(g, Top, s)
      PROVE  InSync(s)'
  <2>1. Frames(stack') = Frames(Below) \cup {g}
    BY <1>5, <1>7, FramesOfPush
  <2>2. \A f \in Frames(stack) : f \in Frames(stack') \/ f = Top
    BY <1>5, <1>7, <2>1
  <2>3. g \in Frames(stack') /\ \A f \in Frames(stack') : f \in Frames(stack) \/ f = g
    BY <1>5, <1>7, <2>1
  <2>. QED  BY <1>2, <1>7, <2>2, <2>3, Handover
<1>. QED  BY <1>3, <1>4, <1>6, <1>7

-----------------------------------------------------------------------------
(***************************************************************************)
(* The steps of the callbacks, as they look to one slot.                   *)
(***************************************************************************)

(* A command that overlaps with nothing brings its slot in sync by itself,   *)
(* whatever state it was in.                                                 *)
LEMMA CommandInSync ==
  ASSUME TypeOK, NEW s \in Switched, NEW callback \in {"command", "update"},
         NEW state \in IsolationStates, NEW on \in BOOLEAN, on <=> (state = Enabled),
         NEW frames \in Seq(Frame), Command(callback, s, state, on, frames),
         s \notin overlapped', UNCHANGED isolated
  PROVE  InSync(s)'
<1>. DEFINE g == Call(callback, "power", s, on)
<1>1. s \in Slots /\ isolationState'[s] = state
  BY DEF Switched, Command, TypeOK
<1>2. Frames(stack') = Frames(frames) \cup {g}
  <2>1. g \in Frame
    BY <1>1, CallIsFrame DEF Callbacks
  <2>. QED  BY <2>1, FramesOfPush DEF Command
<1>3. \A f \in Frames(frames) : ~StillSwitching(f, s)
  BY <1>1 DEF Command
<1>4. \A f : StillSwitching(f, s)' <=> StillSwitching(f, s)
  BY DEF StillSwitching
<1>5. /\ g.callback = callback /\ g.on = on /\ g.slot = s /\ g.switch = "power" /\ ~g.written
      /\ g \in Frames(stack')
  BY <1>2 DEF Call
<1>. HIDE DEF g
<1>6. StillSwitching(g, s) /\ (on => WillConnect(g, s)' /\ WillPower(g, s)')
  BY <1>4, <1>5 DEF StillSwitching, WillConnect, WillPower
<1>7. Faithful(s)'
  <2>1. ASSUME NEW f \in Frames(stack'), StillSwitching(f, s)' PROVE f = g
    BY <1>2, <1>3, <1>4, <2>1
  <2>. QED  BY <1>1, <1>5, <2>1 DEF Faithful
<1>8. Deaf(s)'
  BY <1>1, <1>4, <1>5, <1>6 DEF Deaf, Enabled, DisabledOff, DisabledDutyCycle
<1>9. Reached(s)' /\ Powered(s)'
  BY <1>1, <1>5, <1>6 DEF Reached, Powered
<1>. QED  BY <1>7, <1>8, <1>9 DEF InSync

(* The expander carries out what a frame promised, and the state agrees.     *)
LEMMA WriteInSync ==
  ASSUME TypeOK, CheckNotReentered, Shapes, NEW s \in Switched, InSync(s),
         NEW k \in 1..Len(stack), ExpanderWrites(k)
  PROVE  InSync(s)'
<1>. DEFINE f == stack[k]
            w == Written(f)
<1>1. /\ stack' = [stack EXCEPT ![k].written = TRUE] /\ ~f.written /\ f \in Frames(stack)
      /\ stack \in Seq(Frame) /\ UNCHANGED <<isolated, isolationState>>
  BY DEF ExpanderWrites, Frames, TypeOK, isolationVars, stateVars
<1>2. /\ Frames(stack') \subseteq Frames(stack) \cup {w}
      /\ Frames(stack) \subseteq Frames(stack') \cup {f}
      /\ w \in Frames(stack')
      /\ f \in Frame
  BY <1>1, FramesOfWrite
<1>3. /\ w.callback = f.callback /\ w.switch = f.switch /\ w.slot = f.slot /\ w.on = f.on
      /\ w.written
  BY <1>2 DEF Written, Frame
<1>4. FrameShape(f) /\ Honest(f, s) /\ f.on \in BOOLEAN /\ Agrees(f)
  BY <1>1, <1>2 DEF Shapes, InSync, Faithful, Honest, Frame, CheckNotReentered, CheckAgrees, Agrees
<1>5. /\ f.switch = "power" => /\ i2c'[s] = i2c[s]
                               /\ power'[s] = IF f.slot = s THEN f.on ELSE power[s]
      /\ f.switch = "i2c" => /\ power'[s] = power[s]
                             /\ i2c'[s] = IF f.slot = s THEN f.on ELSE i2c[s]
      /\ f.switch \in {"power", "i2c"}
  BY DEF ExpanderWrites, Switch, TypeOK, Switched
<1>6. StillSwitching(w, s) => StillSwitching(f, s)
  BY <1>1, <1>3 DEF StillSwitching
<1>7. Honest(w, s)
  BY <1>3, <1>4, <1>6 DEF Honest
<1>8. \A h \in Frames(stack') : h \in Frames(stack) \/ Honest(h, s)
  BY <1>2, <1>7
<1>. HIDE DEF f, w
<1>9. \A h : Inherits(h, h, s)
  BY DEF Inherits
<1>10. CASE f.slot # s
  <2>1. Untouched(s)
    BY <1>1, <1>5, <1>10 DEF Untouched
  <2>2. Inherits(w, f, s)
    BY <1>1, <1>3, <1>4, <1>10 DEF Inherits, WillDisconnect, WillConnect, WillPower, StillSwitching
  <2>. QED  BY <1>2, <1>8, <1>9, <2>1, <2>2, Handover
<1>11. CASE f.slot = s
  <2>1. \A h : /\ StillSwitching(h, s)' <=> StillSwitching(h, s)
               /\ WillConnect(h, s)' <=> WillConnect(h, s)
               /\ WillPower(h, s)' <=> WillPower(h, s)
               /\ Honest(h, s)' <=> Honest(h, s)
    BY <1>1 DEF StillSwitching, WillConnect, WillPower, Honest
  <2>2. Faithful(s)'
    BY <1>8, <2>1 DEF InSync, Faithful, Honest
  <2>3. CASE f.switch = "power"
    <3>1. i2c'[s] = i2c[s] /\ power'[s] = f.on
      BY <1>5, <1>11, <2>3
    <3>2. StillSwitching(f, s) => StillSwitching(w, s)
      BY <1>3, <2>3, <1>4 DEF StillSwitching, FrameShape
    <3>3. WillConnect(f, s) => WillConnect(w, s)
      BY <1>3, <3>2, <1>11 DEF WillConnect
    <3>4. Deaf(s)'
      BY <1>1, <1>2, <1>3, <2>1, <3>1, <3>2 DEF InSync, Deaf
    <3>5. Reached(s)'
      BY <1>1, <1>2, <2>1, <3>1, <3>3 DEF InSync, Reached
    <3>6. Powered(s)'
      <4>1. CASE f.on
        BY <3>1, <4>1 DEF Powered
      <4>2. CASE ~f.on /\ f.callback \in {"command", "update"}
        <5>1. StillSwitching(f, s)
          BY <1>11, <2>3, <4>2 DEF StillSwitching
        <5>2. isolationState[s] # Enabled
          BY <1>4, <4>2, <5>1 DEF Honest
        <5>. QED  BY <1>1, <5>2 DEF Powered
      <4>3. CASE ~f.on /\ f.callback \in {"reset", "watchdog", "timeout"}
        BY <1>2, <1>3, <1>11, <2>1, <2>3, <4>3 DEF Powered, WillPower
      <4>4. f.callback \in {"command", "update", "reset", "watchdog", "timeout"}
        BY <1>2, <1>4, <2>3 DEF Frame, Callbacks, FrameShape
      <4>. QED  BY <1>4, <4>1, <4>2, <4>3, <4>4
    <3>. QED  BY <2>2, <3>4, <3>5, <3>6 DEF InSync
  <2>4. CASE f.switch = "i2c"
    <3>1. power'[s] = power[s] /\ i2c'[s] = f.on
      BY <1>5, <1>11, <2>4
    <3>2. Powered(s)'
      <4>1. ~WillPower(f, s)
        BY <2>4 DEF WillPower
      <4>. QED  BY <1>1, <1>2, <2>1, <3>1, <4>1 DEF InSync, Powered
    <3>3. f.callback \in {"command", "update", "reconnect", "grant"}
      BY <1>2, <1>4, <2>4 DEF Frame, Callbacks, FrameShape
    <3>4. f.callback = "grant" /\ f.on => isolated = s
      BY <1>4, <1>11 DEF Agrees
    <3>5. f.on \/ f.callback # "grant" => StillSwitching(f, s)
      BY <1>1, <1>4, <1>11, <2>4, <3>3, <3>4 DEF StillSwitching
    <3>6. Deaf(s)'
      BY <1>1, <1>4, <3>1, <3>5 DEF Deaf, Honest, Enabled, DisabledEnergy, DisabledOff,
                                    DisabledDutyCycle
    <3>7. Reached(s)'
      BY <1>1, <1>4, <3>1, <3>3, <3>5 DEF Reached, Honest, Agrees, FrameShape
    <3>. QED  BY <2>2, <3>2, <3>6, <3>7 DEF InSync
  <2>. QED  BY <1>5, <2>3, <2>4
<1>. QED  BY <1>10, <1>11

\* No grant is under way: whom the frames switch does not depend on "isolated".
NoGrant == \A f \in Frames(stack) : f.callback # "grant"

(* enable_all_enabled_i2c keeps a slot in sync: when isolation ends it is    *)
(* still to be tested, and it is passed over only when it needs nothing.     *)
LEMMA ReconnectInSync ==
  ASSUME TypeOK, NoGrant, NEW s \in Switched, InSync(s),
         NEW Rest \in SUBSET Slots, NEW frames \in Seq(Frame), ReconnectFrom(Rest, frames),
         \/ frames = stack
         \/ /\ stack # <<>> /\ frames = Below
            /\ ~WillDisconnect(Top, s) /\ ~WillPower(Top, s)
            /\ s \notin Rest => ~WillConnect(Top, s),
         isolated' = NoSlot, s \notin Rest => isolated = NoSlot,
         UNCHANGED <<isolationState, power, i2c>>
  PROVE  InSync(s)'
<1>1. stack \in Seq(Frame) /\ s \in Slots
  BY DEF TypeOK, Switched
<1>2. /\ Frames(frames) \subseteq Frames(stack)
      /\ \A f \in Frames(stack) :
           WillDisconnect(f, s) \/ WillPower(f, s) \/ (s \notin Rest /\ WillConnect(f, s)) =>
             f \in Frames(frames)
  BY <1>1, FramesOfPop
<1>3. \/ /\ stack' = frames
         /\ \A t \in Rest : isolationState[t] # Enabled
      \/ \E t \in Rest : /\ isolationState[t] = Enabled
                         /\ \A u \in Rest : isolationState[u] = Enabled => t <= u
                         /\ stack' = Append(frames, Call("reconnect", "i2c", t, TRUE))
  BY ReconnectMoves
<1>4. \A t \in Rest :
        Frames(Append(frames, Call("reconnect", "i2c", t, TRUE))) =
          Frames(frames) \cup {Call("reconnect", "i2c", t, TRUE)}
  BY CallIsFrame, FramesOfPush DEF Callbacks
<1>5. /\ Frames(frames) \subseteq Frames(stack')
      /\ \A g \in Frames(stack') : \/ g \in Frames(frames)
                                   \/ \E t \in Rest : /\ g = Call("reconnect", "i2c", t, TRUE)
                                                      /\ isolationState[t] = Enabled
  BY <1>3, <1>4
<1>6. \A f \in Frames(stack) : /\ StillSwitching(f, s)' <=> StillSwitching(f, s)
                               /\ WillConnect(f, s)' <=> WillConnect(f, s)
                               /\ WillPower(f, s)' <=> WillPower(f, s)
  BY DEF NoGrant, StillSwitching, WillConnect, WillPower
<1>7. Faithful(s)'
  <2>1. ASSUME NEW g \in Frames(stack'), StillSwitching(g, s)'
        PROVE  (IF g.callback \in {"grant", "reconnect"} \/ g.on
                THEN isolationState[s] \in {Enabled, DisabledEnergy}
                ELSE isolationState[s] # Enabled)
    <3>1. CASE g \in Frames(frames)
      BY <1>2, <1>6, <2>1, <3>1 DEF InSync, Faithful
    <3>2. ASSUME NEW t \in Rest, g = Call("reconnect", "i2c", t, TRUE),
                 isolationState[t] = Enabled
          PROVE  g.on /\ isolationState[s] = Enabled
      BY <2>1, <3>2 DEF StillSwitching, Call
    <3>. QED  BY <1>5, <3>1, <3>2
  <2>. QED  BY <2>1 DEF Faithful
<1>8. Deaf(s)'
  BY <1>2, <1>5, <1>6 DEF InSync, Deaf, NoGrant, WillDisconnect
<1>9. Powered(s)'
  BY <1>2, <1>5, <1>6 DEF InSync, Powered
<1>10. Reached(s)'
  <2>1. SUFFICES ASSUME isolationState[s] = Enabled, ~i2c[s]
                 PROVE  \E g \in Frames(stack') : WillConnect(g, s)'
    BY <2>1 DEF Reached
  <2>2. CASE s \in Rest
    <3>1. PICK t \in Rest : t <= s /\ stack' = Append(frames, Call("reconnect", "i2c", t, TRUE))
      BY <1>3, <2>1, <2>2
    <3>2. t < s \/ t = s
      BY <1>1, <3>1, SlotsAssumption
    <3>3. WillConnect(Call("reconnect", "i2c", t, TRUE), s)'
      BY <3>2 DEF WillConnect, StillSwitching, Call
    <3>. QED  BY <1>4, <3>1, <3>3
  <2>3. CASE s \notin Rest
    BY <1>2, <1>5, <1>6, <2>1, <2>3 DEF InSync, Reached
  <2>. QED  BY <2>2, <2>3
<1>. QED  BY <1>7, <1>8, <1>9, <1>10 DEF InSync

(* A grant finds the slot it isolates enabled, and may disconnect the others *)
(* because they are reconnected when it is over.                             *)
LEMMA GrantInSync ==
  ASSUME TypeOK, CheckNotReentered, NEW s \in Switched, InSync(s),
         NEW t \in Slots, CheckGrant(t)
  PROVE  InSync(s)'
<1>1. PICK f \in Frame : /\ stack' = Append(stack, f)
                         /\ f.callback = "grant" /\ f.switch = "i2c"
  <2>1. Switched \in SUBSET Slots /\ stack \in Seq(Frame)
    BY DEF Switched, TypeOK
  <2>. QED  BY <2>1, IsolateMoves DEF CheckGrant, Call
<1>2. Frames(stack') = Frames(stack) \cup {f}
  BY <1>1, FramesOfPush DEF TypeOK
<1>3. NoGrant
  BY CheckStartsAlone DEF CheckGrant, CheckGuard, NoGrant, IsCheck, Frames
<1>4. /\ isolated' = t /\ isolationState[t] = Enabled
      /\ UNCHANGED <<isolationState, power, i2c>>
  BY DEF CheckGrant, Requesting, stateVars, switchVars
<1>5. \A g \in Frames(stack) : /\ StillSwitching(g, s)' <=> StillSwitching(g, s)
                               /\ WillPower(g, s)' <=> WillPower(g, s)
  BY <1>3 DEF NoGrant, StillSwitching, WillPower
<1>6. Faithful(s)'
  <2>1. StillSwitching(f, s)' => isolationState[s] = Enabled
    BY <1>1, <1>4 DEF StillSwitching
  <2>. QED  BY <1>1, <1>2, <1>4, <1>5, <2>1 DEF InSync, Faithful
<1>7. Deaf(s)' /\ Powered(s)'
  BY <1>2, <1>4, <1>5 DEF InSync, Deaf, Powered
<1>8. Reached(s)'
  BY <1>4, SlotsAssumption DEF Reached, NoSlot
<1>. QED  BY <1>6, <1>7, <1>8 DEF InSync

(* update_energy_policy_cb, from some slot on.                               *)
LEMMA UpdateInSync ==
  ASSUME TypeOK, NEW s \in Switched, s \notin overlapped', s \in overlapped \/ InSync(s),
         NEW Rest \in SUBSET Slots, NEW frames \in Seq(Frame), UpdateFrom(Rest, frames),
         frames = stack \/ (stack # <<>> /\ frames = Below /\ Settled(Top, s)),
         UNCHANGED <<isolated, power, i2c>>
  PROVE  InSync(s)'
<1>1. \A t \in Slots : Delay("update", t) \in Frame /\ Honest(Delay("update", t), s)
  BY CallIsFrame DEF Callbacks, Honest, StillSwitching, Delay
<1>2. ASSUME UNCHANGED stateVars,
             stack' = frames \/ \E t \in Rest : stack' = Append(frames, Delay("update", t))
      PROVE  InSync(s)'
  <2>1. InSync(s) /\ Untouched(s)
    BY <1>2 DEF stateVars, Untouched
  <2>2. CASE stack' = frames
    BY <2>1, <2>2, MoveInSync
  <2>3. ASSUME NEW t \in Rest, stack' = Append(frames, Delay("update", t)) PROVE InSync(s)'
    BY <1>1, <2>1, <2>3, MoveInSync
  <2>. QED  BY <1>2, <2>2, <2>3
<1>3. ASSUME NEW t \in Rest, NEW state \in IsolationStates, NEW on \in BOOLEAN,
             on <=> state = Enabled, Command("update", t, state, on, frames)
      PROVE  InSync(s)'
  <2>1. CASE t = s
    BY <1>3, <2>1, CommandInSync
  <2>2. CASE t # s
    <3>1. /\ Call("update", "power", t, on) \in Frame
          /\ Honest(Call("update", "power", t, on), s)
      BY <2>2, CallIsFrame DEF Callbacks, Honest, StillSwitching, Call
    <3>2. InSync(s) /\ Untouched(s)
      BY <1>3, <2>2 DEF Command, Untouched, TypeOK, Switched
    <3>. QED  BY <1>3, <3>1, <3>2, MoveInSync DEF Command
  <2>. QED  BY <2>1, <2>2
<1>4. \/ UNCHANGED stateVars /\ stack' = frames
      \/ UNCHANGED stateVars /\ \E t \in Rest : stack' = Append(frames, Delay("update", t))
      \/ \E t \in Rest : Command("update", t, DisabledEnergy, FALSE, frames)
      \/ \E t \in Rest : Command("update", t, Enabled, TRUE, frames)
  BY UpdateMoves
<1>. QED  BY <1>2, <1>3, <1>4 DEF IsolationStates, Enabled, DisabledEnergy

(* The callback that continues keeps in sync every slot that its next command*)
(* does not overlap on.                                                      *)
LEMMA ResumeInSync ==
  ASSUME TypeOK, CheckNotReentered, Shapes, NEW s \in Switched, s \notin overlapped',
         s \in overlapped \/ InSync(s), Resume
  PROVE  InSync(s)'
<1>1. stack # <<>>
  BY DEF Resume, DisconnectNext, SignalGrant, FinishGrant, ReconnectNext, FinishPowerCycle,
         UpdateNext, WatchdogNext, SwitchBus, FinishCommand, PowerAgain, FinishReset, Returned
<1>2. /\ Below \in Seq(Frame) /\ Top \in Frame /\ Top \in Frames(stack)
      /\ Top.slot \in Slots /\ Top.on \in BOOLEAN /\ FrameShape(Top)
      /\ After(Top.slot) \in SUBSET Slots
      /\ (After(Top.slot) \cap Switched) \in SUBSET Slots
      /\ s \in Slots
  BY <1>1, FramesOfPop DEF TypeOK, Frame, Shapes, After, Switched
<1>3. IsCheck(Top) => NoGrant \/ Top.callback = "grant"
  BY <1>1, CheckIsAlone DEF NoGrant, IsCheck, Frames
<1>4. CASE UpdateNext
  <2>1. Settled(Top, s)
    BY <1>4 DEF UpdateNext, Returned, Settled, WillDisconnect, WillConnect, WillPower,
                StillSwitching
  <2>. QED  BY <1>1, <1>2, <1>4, <2>1, UpdateInSync DEF UpdateNext, isolationVars, switchVars
<1>5. ~UpdateNext => UNCHANGED <<stateVars, switchVars>>
  BY DEF Resume, DisconnectNext, SignalGrant, FinishGrant, ReconnectNext, FinishPowerCycle,
         WatchdogNext, SwitchBus, FinishCommand, PowerAgain, FinishReset
<1>6. ~UpdateNext => InSync(s)
  BY <1>5 DEF stateVars
<1>7. ~UpdateNext /\ UNCHANGED isolated => Untouched(s)
  BY <1>5 DEF Untouched, stateVars, switchVars
<1>8. CASE DisconnectNext
  <2>1. /\ Top.callback = "grant" /\ Top.switch = "i2c" /\ ~Top.on /\ isolated \in Slots
    BY <1>1, <1>2, <1>8, CheckIsAlone DEF DisconnectNext, Returned, IsCheck, Agrees, TypeOK,
                                          FrameShape
  <2>2. PICK g \in Frame : /\ stack' = Append(Below, g)
                           /\ g.callback = "grant" /\ g.switch = "i2c"
    <3>. DEFINE Rest == After(Top.slot) \cap Switched
    <3>1. Rest \in SUBSET Slots /\ IsolateFrom(Rest, isolated, Below)
      BY <1>2, <1>8 DEF DisconnectNext
    <3>. HIDE DEF Rest
    <3>. QED  BY <1>2, <2>1, <3>1, IsolateMoves DEF Call
  <2>3. Settled(Top, s)
    BY <2>1 DEF Settled, WillDisconnect, WillConnect, WillPower
  <2>4. Honest(g, s)
    <3>1. StillSwitching(g, s) => StillSwitching(Top, s)
      BY <2>1, <2>2 DEF StillSwitching
    <3>2. Honest(Top, s)
      BY <1>2, <1>5, <1>6, <1>8, <2>1 DEF InSync, Faithful, Honest, UpdateNext, Returned
    <3>. QED  BY <2>1, <2>2, <3>1, <3>2 DEF Honest
  <2>5. ~UpdateNext /\ UNCHANGED isolated
    BY <1>8, <2>1 DEF DisconnectNext, UpdateNext, Returned, isolationVars
  <2>. QED  BY <1>1, <1>6, <1>7, <2>2, <2>3, <2>4, <2>5, MoveInSync
<1>9. CASE SignalGrant \/ FinishGrant
  <2>1. ~UpdateNext /\ UNCHANGED isolated
    BY <1>9 DEF SignalGrant, FinishGrant, Returned, UpdateNext
  <2>2. Settled(Top, s)
    BY <1>9 DEF SignalGrant, FinishGrant, Returned, Settled, WillDisconnect, WillConnect,
                WillPower
  <2>3. Delay("grant", Top.slot) \in Frame /\ Honest(Delay("grant", Top.slot), s)
    BY <1>2, CallIsFrame DEF Callbacks, Honest, StillSwitching, Delay
  <2>. QED  BY <1>1, <1>6, <1>7, <1>9, <2>1, <2>2, <2>3, MoveInSync DEF SignalGrant, FinishGrant
<1>10. CASE ReconnectNext
  <2>1. /\ Top.callback = "reconnect" /\ Top.written /\ isolated = NoSlot /\ NoGrant
        /\ Top.on /\ Top.switch = "i2c"
    BY <1>1, <1>2, <1>3, <1>10, CheckIsAlone DEF ReconnectNext, Returned, IsCheck, Agrees,
                                                 FrameShape
  <2>2. ~WillDisconnect(Top, s) /\ ~WillPower(Top, s)
    BY <2>1 DEF WillDisconnect, WillPower
  <2>3. s \notin After(Top.slot) => ~WillConnect(Top, s)
    BY <1>2, <2>1, SlotsAssumption DEF After, WillConnect, StillSwitching
  <2>4. ~UpdateNext
    BY <2>1 DEF UpdateNext, Returned
  <2>. QED  BY <1>1, <1>2, <1>5, <1>6, <1>10, <2>1, <2>2, <2>3, <2>4, ReconnectInSync
            DEF ReconnectNext, stateVars, switchVars
<1>11. CASE FinishPowerCycle
  <2>1. /\ Top.callback = "timeout" /\ Top.written /\ Top.on /\ NoGrant
    BY <1>1, <1>3, <1>11 DEF FinishPowerCycle, Returned, IsCheck
  <2>2. ~WillDisconnect(Top, s) /\ ~WillPower(Top, s)
    BY <2>1 DEF WillDisconnect, WillPower
  <2>3. ~UpdateNext /\ Slots \in SUBSET Slots
    BY <2>1 DEF UpdateNext, Returned
  <2>. QED  BY <1>1, <1>2, <1>5, <1>6, <1>11, <2>1, <2>2, <2>3, ReconnectInSync
            DEF FinishPowerCycle, EndIsolation, stateVars, switchVars
<1>12. CASE WatchdogNext
  <2>1. /\ Top.callback = "watchdog" /\ Top.on /\ Top.written /\ UNCHANGED isolated
    BY <1>12 DEF WatchdogNext, Returned, isolationVars
  <2>2. Settled(Top, s) /\ ~UpdateNext
    BY <2>1 DEF Settled, WillDisconnect, WillConnect, WillPower, StillSwitching, UpdateNext,
                Returned
  <2>3. \/ stack' = Below
        \/ \E t \in Slots : stack' = Append(Below, Call("watchdog", "power", t, FALSE))
    BY <1>2, <1>12, ScanMoves DEF WatchdogNext
  <2>4. \A t \in Slots : /\ Call("watchdog", "power", t, FALSE) \in Frame
                         /\ Honest(Call("watchdog", "power", t, FALSE), s)
    BY CallIsFrame DEF Callbacks, Honest, StillSwitching, Call
  <2>. QED  BY <1>1, <1>6, <1>7, <2>1, <2>2, <2>3, <2>4, MoveInSync
<1>13. CASE SwitchBus
  <2>. DEFINE g == Call(Top.callback, "i2c", Top.slot, Top.on)
  <2>1. g \in Frame /\ stack' = Append(Below, g)
    BY <1>1, <1>2, <1>13, ThenMoves DEF SwitchBus, TypeOK
  <2>2. /\ g.callback = Top.callback /\ g.slot = Top.slot /\ g.on = Top.on
        /\ g.switch = "i2c" /\ ~g.written
    BY DEF Call
  <2>. HIDE DEF g
  <2>3. /\ Top.callback \in {"command", "update"} /\ Top.written /\ Top.switch = "power"
        /\ UNCHANGED isolated /\ ~UpdateNext
    BY <1>13 DEF SwitchBus, UpdateNext, isolationVars
  <2>4. StillSwitching(g, s) <=> StillSwitching(Top, s)
    BY <2>2, <2>3 DEF StillSwitching
  <2>5. Inherits(g, Top, s)
    BY <2>2, <2>3, <2>4 DEF Inherits, WillDisconnect, WillConnect, WillPower
  <2>6. Honest(g, s)
    BY <1>2, <1>6, <2>2, <2>3, <2>4 DEF InSync, Faithful, Honest
  <2>. QED  BY <1>1, <1>6, <1>7, <2>1, <2>3, <2>5, <2>6, MoveInSync
<1>14. CASE PowerAgain
  <2>. DEFINE g == Call(Top.callback, "power", Top.slot, TRUE)
  <2>1. g \in Frame /\ stack' = Append(Below, g)
    BY <1>1, <1>2, <1>14, ThenMoves DEF PowerAgain, TypeOK
  <2>2. /\ g.callback = Top.callback /\ g.slot = Top.slot /\ g.on
        /\ g.switch = "power" /\ ~g.written
    BY DEF Call
  <2>. HIDE DEF g
  <2>3. /\ Top.callback \in {"reset", "watchdog", "timeout"} /\ UNCHANGED isolated
        /\ ~UpdateNext
    BY <1>14 DEF PowerAgain, UpdateNext, Returned, isolationVars
  <2>4. Inherits(g, Top, s) /\ Honest(g, s)
    BY <2>2, <2>3 DEF Inherits, WillDisconnect, WillConnect, WillPower, Honest, StillSwitching
  <2>. QED  BY <1>1, <1>6, <1>7, <2>1, <2>3, <2>4, MoveInSync
<1>15. CASE FinishCommand \/ FinishReset
  <2>1. Settled(Top, s) /\ ~UpdateNext /\ stack' = Below /\ UNCHANGED isolated
    BY <1>15 DEF FinishCommand, FinishReset, Returned, Settled, WillDisconnect, WillConnect,
                 WillPower, StillSwitching, UpdateNext, isolationVars
  <2>. QED  BY <1>1, <1>6, <1>7, <2>1, MoveInSync
<1>. QED  BY <1>4, <1>8, <1>9, <1>10, <1>11, <1>12, <1>13, <1>14, <1>15 DEF Resume

(* A pass of the check keeps every slot in sync.                             *)
LEMMA CheckInSync ==
  ASSUME TypeOK, CheckNotReentered, NEW s \in Switched, InSync(s), CheckModuleInit
  PROVE  InSync(s)'
<1>1. stack \in Seq(Frame) /\ Slots \in SUBSET Slots /\ s \in Slots
  BY DEF TypeOK, Switched
<1>2. ~checkingInit /\ UNCHANGED <<stateVars, switchVars>>
  BY DEF CheckModuleInit, CheckGrant, CheckNobody, CheckReleased, CheckTimedOut, CheckPowerCycle,
         CheckStillIsolated, TookTooLong, CheckGuard
<1>3. NoGrant
  BY <1>2, CheckStartsAlone DEF NoGrant, IsCheck, Frames
<1>4. UNCHANGED isolated => Untouched(s)
  BY <1>2 DEF Untouched, stateVars, switchVars
<1>5. EndIsolation(stack) => InSync(s)'
  BY <1>1, <1>2, <1>3, ReconnectInSync DEF EndIsolation, stateVars, switchVars
<1>6. CASE CheckPowerCycle
  <2>1. isolated \in Slots
    BY <1>6 DEF CheckPowerCycle, TookTooLong, TypeOK
  <2>2. /\ Call("timeout", "power", isolated, FALSE) \in Frame
        /\ Honest(Call("timeout", "power", isolated, FALSE), s)
    BY <2>1, CallIsFrame DEF Callbacks, Honest, StillSwitching, Call
  <2>. QED  BY <1>4, <1>6, <2>2, MoveInSync DEF CheckPowerCycle
<1>7. CASE CheckNobody \/ CheckStillIsolated
  BY <1>4, <1>7, MoveInSync DEF CheckNobody, CheckStillIsolated
<1>. QED  BY <1>5, <1>6, <1>7, GrantInSync DEF CheckModuleInit, CheckReleased, CheckTimedOut

\* The inductive invariant.
Consistent == Shapes /\ \A s \in Coherent : InSync(s)

(* Every step keeps in sync the slots it leaves coherent.                    *)
LEMMA ConsistentStep ==
  ASSUME TypeOK, CheckNotReentered, Consistent, [Next]_vars
  PROVE  Consistent'
<1>1. SUFFICES ASSUME NEW s \in Switched, s \notin overlapped' PROVE InSync(s)'
  BY <1>1, ShapesStep DEF Consistent, Coherent
<1>2. Shapes /\ (s \in overlapped \/ InSync(s)) /\ s \in Slots
  BY DEF Consistent, Coherent, Switched
<1>3. stack \in Seq(Frame)
  BY DEF TypeOK
<1>4. UNCHANGED stateVars => InSync(s)
  BY <1>1, <1>2 DEF stateVars
<1>5. UNCHANGED <<stateVars, switchVars, isolated>> => Untouched(s)
  BY DEF stateVars, switchVars, Untouched
<1>6. CASE CheckModuleInit
  <2>1. UNCHANGED stateVars
    BY <1>6 DEF CheckModuleInit, CheckGrant, CheckNobody, CheckReleased, CheckTimedOut,
                CheckPowerCycle, CheckStillIsolated
  <2>. QED  BY <1>4, <1>6, <2>1, CheckInSync
<1>7. CASE Resume
  BY <1>1, <1>2, <1>7, ResumeInSync
<1>8. ASSUME NEW k \in 1..Len(stack), ExpanderWrites(k) PROVE InSync(s)'
  BY <1>2, <1>4, <1>8, WriteInSync DEF ExpanderWrites
<1>9. CASE UpdateEnergyPolicy
  <2>1. Switched \in SUBSET Slots
    BY DEF Switched
  <2>. QED  BY <1>1, <1>2, <1>3, <1>9, <2>1, UpdateInSync DEF UpdateEnergyPolicy, isolationVars,
                                                                switchVars
<1>10. CASE CheckWatchdogs
  <2>1. \/ stack' = stack
        \/ \E t \in Slots : stack' = Append(stack, Call("watchdog", "power", t, FALSE))
    <3>1. Slots \in SUBSET Slots
      OBVIOUS
    <3>. QED  BY <1>3, <1>10, <3>1, ScanMoves DEF CheckWatchdogs
  <2>2. \A t \in Slots : /\ Call("watchdog", "power", t, FALSE) \in Frame
                         /\ Honest(Call("watchdog", "power", t, FALSE), s)
    BY CallIsFrame DEF Callbacks, Honest, StillSwitching, Call
  <2>3. InSync(s) /\ Untouched(s)
    BY <1>4, <1>5, <1>10 DEF CheckWatchdogs, isolationVars
  <2>. QED  BY <2>1, <2>2, <2>3, MoveInSync
<1>11. ASSUME NEW t \in Slots, NEW state \in IsolationStates, NEW on \in BOOLEAN,
              on <=> state = Enabled, Command("command", t, state, on, stack),
              UNCHANGED <<isolationVars, switchVars>>
       PROVE  InSync(s)'
  <2>1. CASE t = s
    BY <1>1, <1>3, <1>11, <2>1, CommandInSync DEF isolationVars
  <2>2. CASE t # s
    <3>1. /\ Call("command", "power", t, on) \in Frame
          /\ Honest(Call("command", "power", t, on), s)
      BY <2>2, CallIsFrame DEF Callbacks, Honest, StillSwitching, Call
    <3>2. InSync(s) /\ Untouched(s)
      BY <1>1, <1>2, <1>11, <2>2 DEF Command, Untouched, TypeOK, isolationVars, switchVars
    <3>. QED  BY <1>11, <3>1, <3>2, MoveInSync DEF Command
  <2>. QED  BY <2>1, <2>2
<1>12. ASSUME NEW t \in Slots, Demote(t), UNCHANGED <<isolationVars, switchVars>>
       PROVE  InSync(s)'
  <2>1. InSync(s) /\ Untouched(s) /\ stack' = stack
    BY <1>1, <1>2, <1>12 DEF Demote, Untouched, TypeOK, isolationVars, switchVars
  <2>. QED  BY <2>1, MoveInSync
<1>13. UNCHANGED <<stateVars, switchVars, isolated, stack>> => InSync(s)'
  BY <1>4, <1>5, MoveInSync
<1>14. ASSUME NEW t \in Slots, Request(t) PROVE InSync(s)'
  <2>1. CASE DutyCycleMessage(t)
    BY <1>11, <2>1 DEF DutyCycleMessage, IsolationStates, DisabledDutyCycle, Enabled
  <2>2. CASE DutyCycleTimer(t)
    <3>1. UNCHANGED <<stateVars, stack>> /\ UNCHANGED <<isolationVars, switchVars>> => InSync(s)'
      BY <1>13 DEF isolationVars
    <3>2. \/ Command("command", t, Enabled, TRUE, stack)
          \/ UNCHANGED <<stateVars, stack>>
          \/ Demote(t)
      BY <2>2 DEF DutyCycleTimer
    <3>3. UNCHANGED <<isolationVars, switchVars>>
      BY <2>2 DEF DutyCycleTimer
    <3>. QED  BY <1>11, <1>12, <3>1, <3>2, <3>3 DEF IsolationStates, Enabled
  <2>3. CASE WatchdogMessage(t)
    BY <1>13, <2>3 DEF WatchdogMessage, isolationVars
  <2>4. CASE DownlinkOn(t)
    BY <1>11, <1>12, <2>4 DEF DownlinkOn, IsolationStates, Enabled
  <2>5. CASE DownlinkOff(t)
    BY <1>11, <2>5 DEF DownlinkOff, IsolationStates, DisabledOff, Enabled
  <2>6. CASE DownlinkReset(t)
    <3>1. /\ Call("reset", "power", t, FALSE) \in Frame
          /\ Honest(Call("reset", "power", t, FALSE), s)
      BY CallIsFrame DEF Callbacks, Honest, StillSwitching, Call
    <3>2. InSync(s) /\ Untouched(s)
      BY <1>4, <1>5, <2>6 DEF DownlinkReset, isolationVars
    <3>. QED  BY <2>6, <3>1, <3>2, MoveInSync DEF DownlinkReset
  <2>. QED  BY <1>14, <2>1, <2>2, <2>3, <2>4, <2>5, <2>6 DEF Request
<1>15. CASE Reboot
  BY <1>2, <1>15 DEF Reboot, Each, InSync, Faithful, Deaf, Reached, Powered, Frames, Enabled,
                     DisabledOff, DisabledDutyCycle
<1>16. CASE \/ DownlinkSignpostReset \/ (\E who \in OtherTicklers : OtherTickle(who))
  BY <1>13, <1>16 DEF DownlinkSignpostReset, OtherTickle, isolationVars
<1>17. CASE (\E t \in Slots : ModuleMovesPin(t)) \/ UNCHANGED vars
  BY <1>13, <1>17 DEF ModuleMovesPin, vars, isolationVars
<1>. QED  BY <1>6, <1>7, <1>8, <1>9, <1>10, <1>14, <1>15, <1>16, <1>17
          DEF Next, Controller, OtherCallbacks

(* At reset every slot is enabled, powered and on the bus.                   *)
LEMMA InitIsConsistent == Init => Consistent
  BY DEF Init, Each, Consistent, Shapes, InSync, Faithful, Deaf, Reached, Powered, Frames, Coherent,
         Switched, Enabled, DisabledOff, DisabledDutyCycle

(* State and switches agree with what the suspended callbacks promise.       *)
LEMMA AlwaysConsistent == Spec => []Consistent
<1>1. TypeOK /\ CheckNotReentered /\ Consistent /\ [Next]_vars => Consistent'
  BY ConsistentStep
<1>. QED  BY <1>1, InitIsConsistent, TypeCorrect, NotReentered, PTL DEF Spec

(* When nobody is isolated, an enabled slot that is off the bus is about to  *)
(* be connected, for any set of slots and any nesting of the callbacks,      *)
(* unless two commands for it overlapped (enable_all_enabled_i2c).           *)
THEOREM BusIsRestored == Spec => []BusRestored
<1>1. Consistent => BusRestored
  BY DEF Consistent, InSync, Reached, BusRestored
<1>. QED  BY <1>1, AlwaysConsistent, PTL

(* A slot turned off or sleeping is off the bus, or the callback that turned *)
(* it off is about to take it off, unless two commands for it overlapped     *)
(* (energy_api_callback, downlink_cb).                                       *)
THEOREM OffStaysDeaf == Spec => []OffIsDeaf
<1>1. Consistent => OffIsDeaf
  BY DEF Consistent, InSync, Deaf, OffIsDeaf
<1>. QED  BY <1>1, AlwaysConsistent, PTL

(* An enabled slot without power is about to be powered: by the command that *)
(* enabled it or by the power cycle that cut it off, unless two commands for *)
(* it overlapped (check_watchdogs_cb, downlink_cb, check_module_init_cb).    *)
THEOREM EnabledIsPowered == Spec => []EnabledHasPower
<1>1. Consistent => EnabledHasPower
  BY DEF Consistent, InSync, Powered, EnabledHasPower
<1>. QED  BY <1>1, AlwaysConsistent, PTL

=============================================================================
