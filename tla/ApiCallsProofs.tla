--------------------------- MODULE ApiCallsProofs ---------------------------
(***************************************************************************)
(* The calls' types, ActiveHasOwner and WokenByAnswer, for every set of    *)
(* calls, nesting and number of calls.                                     *)
(*                                                                         *)
(* ActiveHasOwner is not inductive: a call returns when its flag is set,   *)
(* and it must follow that its callback is no longer registered.  So the   *)
(* invariant adds RegisteredIsUnset: while a callback is registered its    *)
(* flag is not set.  It also says where the owner is, because a call that  *)
(* registers after its send does not own the callback before.              *)
(*                                                                         *)
(* For WokenByAnswer it says the same of every call that has reset its     *)
(* flag, and the table shows that but for the storage calls each flag is   *)
(* set by the callback of its own calls only.                              *)
(***************************************************************************)
EXTENDS ApiCalls, StackLemmas, TLAPS

Owned == Callbacks \ ({NULL} \cup LeftBehind)

RegisteredIsUnset == active \in Owned => ~flag[CallbackFlag[active]]

Owner(frame) ==
  /\ Api[frame.call].callback = active
  /\ Api[frame.call].registers = "after" => frame.at = "wait"

OwnerInProgress == active \in Owned => \E i \in DOMAIN stack : Owner(stack[i])

\* The frame's call has reset its flag.
HasReset(frame) ==
  \/ Api[frame.call].resets = "before"
  \/ Api[frame.call].resets = "after" /\ frame.at = "wait"

AnswerHeard(frame) ==
  /\ HasReset(frame) /\ Api[frame.call].flag # "storage_ready" /\ flag[Api[frame.call].flag]
  => frame.heard

SetMeansHeard == \A i \in DOMAIN stack : AnswerHeard(stack[i])

\* A call that waits has reset its flag, unless it never does.
WaitIsReset ==
  \A i \in DOMAIN stack :
    stack[i].at = "wait" => HasReset(stack[i]) \/ Api[stack[i].call].resets = "never"

ApiInv ==
  /\ ApiTypeOK
  /\ RegisteredIsUnset
  /\ OwnerInProgress
  /\ SetMeansHeard
  /\ WaitIsReset

-----------------------------------------------------------------------------
\* The callbacks that set a flag, their own or that of energy_cb.
Setters == {"storage_scan_callback", "storage_write_callback", "storage_read_callback",
            "processing_callback", "networking_callback", "energy_report_callback",
            "energy_reset_callback", "timelocation_callback", "watchdog_cb",
            "get_state_callback", "energy_query_async_callback"}

\* What the rows of the table have in common.
RowIsSafe(r) ==
  /\ r.resets \in {"before", "after", "never"}
  /\ r.callback \notin {NULL} \cup LeftBehind =>
       /\ r.flag = CallbackFlag[r.callback]
       /\ r.resets = r.registers /\ r.registers # "never"
       /\ r.sends = TRUE /\ r.waits = TRUE
       /\ r.registers = "before" => r.onSendFailure = "clear"
       /\ r.onTimeout = "clear"
  /\ r.flag = "storage_ready" => r.onSendFailure = "clear" /\ r.onTimeout \in {"clear", "none"}
  /\ r.onSendFailure = "wait" => r.resets = "before"
  /\ r.sends = FALSE => r.resets = "never" /\ r.registers = "never"
  /\ r.sends \in BOOLEAN /\ r.waits \in BOOLEAN
  /\ r.callback # NULL => /\ FlagOf(r.callback) \in {r.flag, "none", "energy_query_ready"}
                          /\ r.callback \in Setters
  /\ r.resets # "never" /\ r.flag # "storage_ready" =>
       \A a \in Setters : FlagOf(a) = r.flag => a = r.callback

(* The table, read off call by call.                                       *)
LEMMA Table ==
  ASSUME NEW c \in DOMAIN Api
  PROVE  /\ Api[c].callback \in Callbacks /\ Api[c].flag \in Flags
         /\ RowIsSafe(Api[c])
         /\ Api[c].callback # NULL => FlagOf(Api[c].callback) \in Flags
<1>1. Api[c].callback \in Callbacks /\ Api[c].flag \in Flags
  BY DEF Callbacks, Flags
<1>2. {"none", "energy_query_ready"} \subseteq Flags
  <2>1. Api["energy_query"].flag = "energy_query_ready" /\ "energy_query" \in DOMAIN Api
    BY DEF Api, EnergyQuery
  <2>2. Api["energy_query_async"].flag = "none" /\ "energy_query_async" \in DOMAIN Api
    BY DEF Api, EnergyQueryAsync
  <2>. QED  BY <2>1, <2>2 DEF Flags
<1>3. RowIsSafe(StorageScan)
  BY DEF StorageScan, RowIsSafe, LeftBehind, NULL, CallbackFlag, FlagOf, Setters
<1>4. RowIsSafe(StorageWrite)
  BY DEF StorageWrite, RowIsSafe, LeftBehind, NULL, CallbackFlag, FlagOf, Setters
<1>5. RowIsSafe(StorageRead)
  BY DEF StorageRead, RowIsSafe, LeftBehind, NULL, CallbackFlag, FlagOf, Setters
<1>6. RowIsSafe(StorageDelete)
  BY DEF StorageDelete, RowIsSafe, LeftBehind, NULL, CallbackFlag, FlagOf, Setters
<1>7. RowIsSafe(ProcessingInit)
  BY DEF ProcessingInit, RowIsSafe, LeftBehind, NULL, CallbackFlag, FlagOf, Setters
<1>8. RowIsSafe(ProcessingOnewaySend)
  BY DEF ProcessingOnewaySend, RowIsSafe, LeftBehind, NULL, CallbackFlag, FlagOf, Setters
<1>9. RowIsSafe(ProcessingTwowaySend)
  BY DEF ProcessingTwowaySend, RowIsSafe, LeftBehind, NULL, CallbackFlag, FlagOf, Setters
<1>10. RowIsSafe(ProcessingTwowayReceive)
  BY DEF ProcessingTwowayReceive, RowIsSafe, LeftBehind, NULL, CallbackFlag, FlagOf, Setters
<1>11. RowIsSafe(NetworkingPublish)
  BY DEF NetworkingPublish, RowIsSafe, LeftBehind, NULL, CallbackFlag, FlagOf, Setters
<1>12. RowIsSafe(EnergyQuery)
  BY DEF EnergyQuery, RowIsSafe, LeftBehind, NULL, CallbackFlag, FlagOf, Setters
<1>13. RowIsSafe(EnergyQueryAsync)
  BY DEF EnergyQueryAsync, RowIsSafe, LeftBehind, NULL, CallbackFlag, FlagOf, Setters
<1>14. RowIsSafe(EnergyDutyCycle)
  BY DEF EnergyDutyCycle, RowIsSafe, LeftBehind, NULL, CallbackFlag, FlagOf, Setters
<1>15. RowIsSafe(EnergyReport)
  BY DEF EnergyReport, RowIsSafe, LeftBehind, NULL, CallbackFlag, FlagOf, Setters
<1>16. RowIsSafe(EnergyReset)
  BY DEF EnergyReset, RowIsSafe, LeftBehind, NULL, CallbackFlag, FlagOf, Setters
<1>17. RowIsSafe(TimelocationSync)
  BY DEF TimelocationSync, RowIsSafe, LeftBehind, NULL, CallbackFlag, FlagOf, Setters
<1>18. RowIsSafe(Watchdog)
  BY DEF Watchdog, RowIsSafe, LeftBehind, NULL, CallbackFlag, FlagOf, Setters
<1>19. RowIsSafe(GetModuleState)
  BY DEF GetModuleState, RowIsSafe, LeftBehind, NULL, CallbackFlag, FlagOf, Setters
<1>20. /\ DOMAIN Api = {"storage_scan", "storage_write", "storage_read", "storage_delete",
                      "processing_init", "processing_oneway_send", "processing_twoway_send",
                      "processing_twoway_receive", "networking_publish", "energy_query",
                      "energy_query_async", "energy_duty_cycle", "energy_report",
                      "energy_reset", "timelocation", "watchdog", "get_module_state"}
       /\ Api["storage_scan"] = StorageScan
       /\ Api["storage_write"] = StorageWrite
       /\ Api["storage_read"] = StorageRead
       /\ Api["storage_delete"] = StorageDelete
       /\ Api["processing_init"] = ProcessingInit
       /\ Api["processing_oneway_send"] = ProcessingOnewaySend
       /\ Api["processing_twoway_send"] = ProcessingTwowaySend
       /\ Api["processing_twoway_receive"] = ProcessingTwowayReceive
       /\ Api["networking_publish"] = NetworkingPublish
       /\ Api["energy_query"] = EnergyQuery
       /\ Api["energy_query_async"] = EnergyQueryAsync
       /\ Api["energy_duty_cycle"] = EnergyDutyCycle
       /\ Api["energy_report"] = EnergyReport
       /\ Api["energy_reset"] = EnergyReset
       /\ Api["timelocation"] = TimelocationSync
       /\ Api["watchdog"] = Watchdog
       /\ Api["get_module_state"] = GetModuleState
  BY DEF Api
<1>21. RowIsSafe(Api[c])
  BY <1>3, <1>4, <1>5, <1>6, <1>7, <1>8, <1>9, <1>10, <1>11, <1>12, <1>13, <1>14, <1>15, <1>16, <1>17, <1>18, <1>19, <1>20
<1>. QED  BY <1>1, <1>2, <1>21 DEF RowIsSafe

(* The innermost call and those below it, and what remains when it returns. *)
LEMMA Returned ==
  ASSUME stack \in Seq(Frame), stack # <<>>
  PROVE  /\ Pop \in Seq(Frame) /\ Len(Pop) = Len(stack) - 1
         /\ \A i \in DOMAIN Pop : i \in DOMAIN stack /\ Pop[i] = stack[i]
         /\ \A i \in DOMAIN stack : i # Len(stack) => i \in DOMAIN Pop
         /\ Top \in Frame /\ Len(stack) \in Nat \ {0} /\ Len(stack) \in DOMAIN stack
<1>1. /\ SubSeq(stack, 1, Len(stack) - 1) \in Seq(Frame)
      /\ Len(SubSeq(stack, 1, Len(stack) - 1)) = Len(stack) - 1
      /\ \A k \in 1..(Len(stack) - 1) : SubSeq(stack, 1, Len(stack) - 1)[k] = stack[k]
      /\ Len(stack) \in Nat \ {0}
      /\ stack[Len(stack)] \in Frame
  BY PopFrame, Zenon
<1>2. /\ Pop \in Seq(Frame) /\ Len(Pop) = Len(stack) - 1
      /\ \A k \in 1..(Len(stack) - 1) : Pop[k] = stack[k]
      /\ Top \in Frame
  BY <1>1 DEF Pop, Top
<1>3. DOMAIN Pop = 1..(Len(stack) - 1) /\ DOMAIN stack = 1..Len(stack)
  BY <1>2, LenProperties
<1>. QED  BY <1>1, <1>2, <1>3

(* The innermost call goes on to its next yield point, and no other moves. *)
LEMMA Moved ==
  ASSUME stack \in Seq(Frame), stack # <<>>, NEW at \in {"send", "sent", "wait"},
         stack' = MoveTo(at)
  PROVE  /\ stack' \in Seq(Frame) /\ Len(stack') = Len(stack) /\ DOMAIN stack' = DOMAIN stack
         /\ \A i \in DOMAIN stack : i # Len(stack) => stack'[i] = stack[i]
         /\ stack'[Len(stack)].call = Top.call /\ stack'[Len(stack)].heard = Top.heard
         /\ stack'[Len(stack)].at = at
<1>. DEFINE e == [call |-> Top.call, at |-> at, receiving |-> FALSE, heard |-> Top.heard]
<1>1. Top \in Frame /\ Len(stack) \in Nat \ {0} /\ Len(stack) \in DOMAIN stack
  BY Returned
<1>2. e \in Frame /\ e.call = Top.call /\ e.heard = Top.heard /\ e.at = at
  BY <1>1 DEF Frame
<1>3. stack' = [stack EXCEPT ![Len(stack)] = e]
  BY DEF MoveTo
<1>4. DOMAIN stack = 1..Len(stack)
  BY LenProperties
<1>. HIDE DEF e
<1>5. /\ [stack EXCEPT ![Len(stack)] = e] \in Seq(Frame)
      /\ Len([stack EXCEPT ![Len(stack)] = e]) = Len(stack)
      /\ \A j \in 1 .. Len(stack) : [stack EXCEPT ![Len(stack)] = e][j]
                                      = IF j = Len(stack) THEN e ELSE stack[j]
  BY <1>1, <1>2, <1>4, ExceptSeq, Zenon
<1>6. DOMAIN stack' = 1..Len(stack')
  BY <1>3, <1>5, LenProperties
<1>. QED  BY <1>1, <1>2, <1>3, <1>4, <1>5, <1>6

(* A receive begins or ends in the innermost call, which stays where it is. *)
LEMMA Received ==
  ASSUME stack \in Seq(Frame), stack # <<>>, NEW x \in BOOLEAN,
         stack' = [stack EXCEPT ![Len(stack)].receiving = x]
  PROVE  /\ stack' \in Seq(Frame) /\ Len(stack') = Len(stack) /\ DOMAIN stack' = DOMAIN stack
         /\ \A i \in DOMAIN stack : /\ stack'[i].call = stack[i].call
                                    /\ stack'[i].at = stack[i].at
                                    /\ stack'[i].heard = stack[i].heard
<1>. DEFINE e == [Top EXCEPT !.receiving = x]
<1>1. Top \in Frame /\ Len(stack) \in Nat \ {0} /\ Len(stack) \in DOMAIN stack
  BY Returned
<1>2. e \in Frame /\ e.call = Top.call /\ e.heard = Top.heard /\ e.at = Top.at
  BY <1>1 DEF Frame
<1>3. stack' = [stack EXCEPT ![Len(stack)] = e]
  BY DEF Top
<1>4. DOMAIN stack = 1..Len(stack)
  BY LenProperties
<1>. HIDE DEF e
<1>5. /\ [stack EXCEPT ![Len(stack)] = e] \in Seq(Frame)
      /\ Len([stack EXCEPT ![Len(stack)] = e]) = Len(stack)
      /\ \A j \in 1 .. Len(stack) : [stack EXCEPT ![Len(stack)] = e][j]
                                      = IF j = Len(stack) THEN e ELSE stack[j]
  BY <1>1, <1>2, <1>4, ExceptSeq, Zenon
<1>6. DOMAIN stack' = 1..Len(stack')
  BY <1>3, <1>5, LenProperties
<1>. QED  BY <1>1, <1>2, <1>3, <1>4, <1>5, <1>6 DEF Top

(* What a frame's call, its row of the table and the callback pointer have *)
(* to do with each other (signpost_api.c, every call).                     *)
LEMMA FrameRow ==
  ASSUME NEW f \in Frame
  PROVE  /\ f.call \in DOMAIN Api /\ f.at \in {"send", "sent", "wait"} /\ f.heard \in BOOLEAN
         /\ Api[f.call].callback \in Callbacks /\ Api[f.call].flag \in Flags
         /\ RowIsSafe(Api[f.call])
  BY Table DEF Frame

(* signpost_api_send and the waits yield; whatever runs, the invariant     *)
(* stays.                                                                  *)
LEMMA ApiStep ==
  ASSUME ApiInv, Next \/ UNCHANGED vars
  PROVE  ApiInv'
<1>. USE BoundsAssumption, CallsAssumption
<1>t. /\ stack \in Seq(Frame) /\ flag \in [Flags -> BOOLEAN] /\ active \in Callbacks
      /\ pending \in [DOMAIN Api -> Nat] /\ issued \in 0..MaxIssued
      /\ energyCb \in {NULL, "sync", "application"} /\ Len(stack) \in Nat /\ Len(stack) <= MaxNesting
  BY LenProperties DEF ApiInv, ApiTypeOK
<1>d. DOMAIN stack = 1..Len(stack) /\ \A i \in DOMAIN stack : stack[i] \in Frame
  BY <1>t, LenProperties, ElementOfSeq
<1>n. NULL \in Callbacks /\ "storage_ready" \in Flags
  <2>1. Api["energy_duty_cycle"].callback = NULL /\ "energy_duty_cycle" \in DOMAIN Api
    BY DEF Api, EnergyDutyCycle, NULL
  <2>2. Api["storage_scan"].flag = "storage_ready" /\ "storage_scan" \in DOMAIN Api
    BY DEF Api, StorageScan
  <2>. QED  BY <2>1, <2>2 DEF Callbacks, Flags
<1>o. NULL \notin Owned
  BY DEF Owned
<1>1. ASSUME NEW c \in Calls, Issue(c) PROVE ApiInv'
  <2>1. c \in DOMAIN Api /\ Api[c].callback \in Callbacks /\ Api[c].flag \in Flags /\ RowIsSafe(Api[c])
    BY Table
  <2>2. flag' \in [Flags -> BOOLEAN] /\ (\A f \in Flags : flag'[f] => flag[f])
        /\ (Api[c].resets = "before" => ~flag'[Api[c].flag])
    BY <1>1, <1>t, <2>1 DEF Issue, FlagReset, SetFlag
  <2>3. CASE Busy(c)
    <3>1. UNCHANGED <<active, energyCb, stack, pending>> /\ issued' \in 0..MaxIssued
      BY <1>1, <1>t, <2>3 DEF Issue
    <3>2. ApiTypeOK'
      BY <3>1, <2>2, <1>t DEF ApiTypeOK
    <3>3. RegisteredIsUnset'
      <4>1. active \in Owned => CallbackFlag[active] \in Flags
        BY Table, <1>t DEF Owned, Callbacks, RowIsSafe
      <4>. QED  BY <3>1, <2>2, <4>1 DEF ApiInv, RegisteredIsUnset
    <3>4. OwnerInProgress'
      BY <3>1 DEF ApiInv, OwnerInProgress, Owner
    <3>5. SetMeansHeard' /\ WaitIsReset'
      BY <3>1, <2>2, <1>d, FrameRow DEF ApiInv, SetMeansHeard, AnswerHeard, WaitIsReset, HasReset
    <3>. QED  BY <3>2, <3>3, <3>4, <3>5 DEF ApiInv
  <2>4. CASE ~Busy(c)
    <3>. DEFINE new == [call |-> c, at |-> IF Api[c].sends THEN "send" ELSE "wait",
                        receiving |-> FALSE, heard |-> FALSE]
    <3>1. /\ active' = Registered(c, "before") /\ stack' = Append(stack, new)
          /\ issued' \in 0..MaxIssued /\ UNCHANGED pending
          /\ energyCb' \in {NULL, "sync", "application"} /\ Len(stack) < MaxNesting
      BY <1>1, <1>t, <2>4 DEF Issue, NULL
    <3>2. new \in Frame
      BY <2>1 DEF Frame
    <3>. HIDE DEF new
    <3>3. /\ stack' \in Seq(Frame) /\ Len(stack') = Len(stack) + 1
          /\ \A i \in DOMAIN stack : stack'[i] = stack[i]
          /\ stack'[Len(stack) + 1] = new
      BY <3>1, <3>2, <1>t, <1>d, PushFrame
    <3>4. DOMAIN stack' = DOMAIN stack \cup {Len(stack) + 1}
      BY <3>3, <1>t, <1>d, LenProperties
    <3>5. new.call = c /\ new.heard = FALSE /\ (new.at = "wait" <=> Api[c].sends = FALSE)
      BY <2>1 DEF new, RowIsSafe
    <3>6. active' \in Callbacks
      BY <3>1, <2>1, <1>t DEF Registered
    <3>7. ApiTypeOK'
      BY <3>1, <3>3, <3>6, <2>2, <1>t DEF ApiTypeOK
    <3>8. RegisteredIsUnset'
      <4>1. \A a \in Owned : CallbackFlag[a] \in Flags
        BY Table DEF Owned, Callbacks, RowIsSafe
      <4>2. CASE Api[c].registers = "before"
        BY <4>2, <3>1, <2>1, <2>2 DEF RegisteredIsUnset, Registered, RowIsSafe, Owned
      <4>3. CASE Api[c].registers # "before"
        BY <4>1, <4>3, <3>1, <2>2 DEF ApiInv, RegisteredIsUnset, Registered
      <4>. QED  BY <4>2, <4>3
    <3>9. OwnerInProgress'
      <4>1. CASE Api[c].registers = "before"
        BY <4>1, <3>1, <3>3, <3>4, <3>5 DEF OwnerInProgress, Owner, Registered
      <4>2. CASE Api[c].registers # "before"
        BY <4>2, <3>1, <3>3, <3>4 DEF ApiInv, OwnerInProgress, Owner, Registered
      <4>. QED  BY <4>1, <4>2
    <3>10. SetMeansHeard'
      <4>. SUFFICES ASSUME NEW i \in DOMAIN stack' PROVE AnswerHeard(stack[i])'
        BY DEF SetMeansHeard
      <4>1. CASE i \in DOMAIN stack
        BY <4>1, <3>3, <2>2, <1>d, FrameRow DEF ApiInv, SetMeansHeard, AnswerHeard, HasReset
      <4>2. CASE i = Len(stack) + 1
        BY <4>2, <3>3, <3>5, <2>1, <2>2 DEF AnswerHeard, HasReset, RowIsSafe
      <4>. QED  BY <4>1, <4>2, <3>4
    <3>11. WaitIsReset'
      BY <3>3, <3>4, <3>5, <2>1 DEF ApiInv, WaitIsReset, HasReset, RowIsSafe
    <3>. QED  BY <3>7, <3>8, <3>9, <3>10, <3>11 DEF ApiInv
  <2>. QED  BY <2>3, <2>4
<1>2. ASSUME NEW c \in Calls, Respond(c) PROVE ApiInv'
  <2>1. c \in DOMAIN Api
    OBVIOUS
  <2>2. /\ active' = NULL /\ UNCHANGED issued
        /\ energyCb' \in {NULL, "sync", "application"}
        /\ pending' \in [DOMAIN Api -> Nat]
        /\ stack' = [i \in DOMAIN stack |->
                       [stack[i] EXCEPT !.heard = @ \/ Api[stack[i].call].callback = active]]
        /\ flag' = IF active = NULL THEN flag ELSE SetFlag(FlagOf(active), TRUE)
    BY <1>2, <1>t, <2>1 DEF Respond
  <2>3. flag' \in [Flags -> BOOLEAN]
    <3>1. active # NULL => FlagOf(active) \in Flags
      BY Table, <1>t DEF Callbacks
    <3>. QED  BY <1>2, <1>t, <3>1 DEF Respond, SetFlag
  <2>4. /\ stack' \in Seq(Frame) /\ Len(stack') = Len(stack) /\ DOMAIN stack' = DOMAIN stack
        /\ \A i \in DOMAIN stack :
             /\ stack'[i].heard = (stack[i].heard \/ Api[stack[i].call].callback = active)
             /\ stack'[i].call = stack[i].call /\ stack'[i].at = stack[i].at
    <3>1. \A i \in 1..Len(stack) :
            /\ stack'[i] \in Frame
            /\ stack'[i].heard = (stack[i].heard \/ Api[stack[i].call].callback = active)
            /\ stack'[i].call = stack[i].call /\ stack'[i].at = stack[i].at
      BY <2>2, <1>d DEF Frame
    <3>2. stack' = [i \in 1..Len(stack) |-> stack'[i]]
      BY <2>2, <1>d
    <3>3. DOMAIN stack' = 1..Len(stack)
      BY <2>2, <1>d
    <3>4. stack' \in Seq(Frame)
      BY <3>1, <3>2, <1>t, IsASeq
    <3>5. Len(stack') = Len(stack)
      BY <3>3, <3>4, <1>t, LenProperties
    <3>. QED  BY <3>1, <3>3, <3>4, <3>5, <1>d
  <2>5. ApiTypeOK'
    BY <2>2, <2>3, <2>4, <1>t, <1>n DEF ApiTypeOK
  <2>6. RegisteredIsUnset' /\ OwnerInProgress'
    BY <2>2, <1>o DEF RegisteredIsUnset, OwnerInProgress, Owned
  <2>7. SetMeansHeard'
    <3>. SUFFICES ASSUME NEW i \in DOMAIN stack PROVE AnswerHeard(stack[i])'
      BY <2>4 DEF SetMeansHeard
    <3>f. PICK f \in Frame : f = stack[i]
      BY <1>d
    <3>1. SUFFICES ASSUME HasReset(f), Api[f.call].flag # "storage_ready",
                          flag'[Api[f.call].flag]
                   PROVE  f.heard \/ Api[f.call].callback = active
      BY <3>f, <2>4 DEF AnswerHeard, HasReset
    <3>2. CASE flag[Api[f.call].flag]
      BY <3>1, <3>2, <3>f DEF ApiInv, SetMeansHeard, AnswerHeard
    <3>3. CASE ~flag[Api[f.call].flag]
      <4>1. active # NULL
        BY <3>1, <3>3, <2>2
      <4>2. FlagOf(active) = Api[f.call].flag
        BY <3>1, <3>3, <4>1, <2>2, <1>t, FrameRow DEF SetFlag
      <4>3. active \in Setters
        BY <4>1, <1>t, Table DEF Callbacks, RowIsSafe
      <4>4. Api[f.call].resets # "never"
        BY <3>1 DEF HasReset
      <4>. QED  BY <3>1, <4>2, <4>3, <4>4, FrameRow DEF RowIsSafe
    <3>. QED  BY <3>2, <3>3
  <2>8. WaitIsReset'
    BY <2>4 DEF ApiInv, WaitIsReset, HasReset
  <2>. QED  BY <2>5, <2>6, <2>7, <2>8 DEF ApiInv
<1>3. ASSUME NEW c \in Calls, Lose(c) PROVE ApiInv'
  <2>1. UNCHANGED <<active, flag, energyCb, stack, issued>> /\ pending' \in [DOMAIN Api -> Nat]
    BY <1>3, <1>t DEF Lose
  <2>. QED  BY <2>1, <1>t DEF ApiInv, ApiTypeOK, RegisteredIsUnset, OwnerInProgress, Owner,
       SetMeansHeard, AnswerHeard, WaitIsReset, HasReset
<1>p. ASSUME stack # <<>>
      PROVE  /\ Top \in Frame /\ Len(stack) \in Nat \ {0} /\ Len(stack) \in DOMAIN stack
             /\ Top = stack[Len(stack)] /\ Top.call \in DOMAIN Api
             /\ Api[Top.call].callback \in Callbacks /\ Api[Top.call].flag \in Flags
             /\ RowIsSafe(Api[Top.call])
  BY <1>p, <1>t, Returned, FrameRow DEF Top
<1>q. ASSUME stack # <<>>, stack' = Pop
      PROVE  /\ stack' \in Seq(Frame) /\ Len(stack') <= MaxNesting
             /\ \A i \in DOMAIN stack' : i \in DOMAIN stack /\ stack'[i] = stack[i]
             /\ \A i \in DOMAIN stack : i # Len(stack) => i \in DOMAIN stack' /\ stack'[i] = stack[i]
  BY <1>q, <1>t, Returned
<1>f. /\ FailedFlag(Top.call) \in [Flags -> BOOLEAN]
      /\ \A f \in Flags : f # "storage_ready" => FailedFlag(Top.call)[f] = flag[f]
      /\ Api[Top.call].flag # "storage_ready" => FailedFlag(Top.call) = flag
  BY <1>t, <1>n DEF FailedFlag, SetFlag
<1>r. ASSUME stack # <<>>, stack' = Pop,
             \A f \in Flags : f # "storage_ready" => (flag'[f] => flag[f])
      PROVE  SetMeansHeard' /\ WaitIsReset'
  BY <1>q, <1>r, <1>d, FrameRow DEF ApiInv, SetMeansHeard, AnswerHeard, WaitIsReset, HasReset
<1>4. ASSUME SendFails PROVE ApiInv'
  <2>1. /\ stack # <<>> /\ Top.at = "send" /\ UNCHANGED <<pending, issued>>
        /\ flag' = FailedFlag(Top.call)
        /\ energyCb' \in {NULL, "sync", "application"}
        /\ active' = IF Api[Top.call].onSendFailure = "clear" THEN NULL ELSE active
    BY <1>4, <1>t DEF SendFails, Continues
  <2>2. CASE Api[Top.call].onSendFailure = "wait"
    <3>1. stack' = MoveTo("wait") /\ active' = active
      BY <1>4, <2>1, <2>2 DEF SendFails
    <3>2. flag' = flag
      BY <2>1, <2>2, <1>p, <1>f DEF RowIsSafe
    <3>3. /\ stack' \in Seq(Frame) /\ Len(stack') = Len(stack) /\ DOMAIN stack' = DOMAIN stack
          /\ \A i \in DOMAIN stack : i # Len(stack) => stack'[i] = stack[i]
          /\ stack'[Len(stack)].call = Top.call /\ stack'[Len(stack)].heard = Top.heard
          /\ stack'[Len(stack)].at = "wait"
      BY <3>1, <2>1, <1>t, Moved
    <3>4. ApiTypeOK'
      BY <2>1, <3>1, <3>2, <3>3, <1>t DEF ApiTypeOK
    <3>5. RegisteredIsUnset'
      BY <3>1, <3>2 DEF ApiInv, RegisteredIsUnset
    <3>6. OwnerInProgress'
      BY <3>1, <3>3, <2>1, <1>p DEF ApiInv, OwnerInProgress, Owner
    <3>7. SetMeansHeard' /\ WaitIsReset'
      BY <3>2, <3>3, <2>1, <2>2, <1>p DEF ApiInv, SetMeansHeard, AnswerHeard, WaitIsReset, HasReset, RowIsSafe
    <3>. QED  BY <3>4, <3>5, <3>6, <3>7 DEF ApiInv
  <2>3. CASE Api[Top.call].onSendFailure # "wait"
    <3>1. stack' = Pop
      BY <1>4, <2>1, <2>3 DEF SendFails
    <3>2. ApiTypeOK'
      BY <2>1, <3>1, <1>t, <1>n, <1>q, <1>f DEF ApiTypeOK
    <3>3. SetMeansHeard' /\ WaitIsReset'
      BY <2>1, <3>1, <1>r, <1>f
    <3>4. CASE Api[Top.call].onSendFailure = "clear"
      BY <3>2, <3>3, <3>4, <2>1, <1>o DEF ApiInv, RegisteredIsUnset, OwnerInProgress
    <3>5. CASE Api[Top.call].onSendFailure # "clear"
      <4>1. active' = active /\ flag' = flag
        BY <3>5, <2>1, <1>p, <1>f DEF RowIsSafe
      <4>2. active \in Owned => ~Owner(Top)
        BY <3>5, <2>1, <1>p DEF Owner, RowIsSafe, Owned
      <4>3. OwnerInProgress'
        BY <4>1, <4>2, <3>1, <2>1, <1>p, <1>q DEF ApiInv, OwnerInProgress, Owner
      <4>4. RegisteredIsUnset'
        BY <4>1 DEF ApiInv, RegisteredIsUnset
      <4>. QED  BY <3>2, <3>3, <4>3, <4>4 DEF ApiInv
    <3>. QED  BY <3>4, <3>5
  <2>. QED  BY <2>2, <2>3
<1>5. ASSUME Sent PROVE ApiInv'
  <2>1. /\ stack # <<>> /\ Top.at = "send" /\ stack' = MoveTo("sent")
        /\ UNCHANGED <<active, flag, energyCb, issued>>
    BY <1>5 DEF Sent, Continues
  <2>2. pending' \in [DOMAIN Api -> Nat]
    BY <1>5, <2>1, <1>t, <1>p DEF Sent
  <2>3. /\ stack' \in Seq(Frame) /\ Len(stack') = Len(stack) /\ DOMAIN stack' = DOMAIN stack
        /\ \A i \in DOMAIN stack : i # Len(stack) => stack'[i] = stack[i]
        /\ stack'[Len(stack)].call = Top.call /\ stack'[Len(stack)].heard = Top.heard
        /\ stack'[Len(stack)].at = "sent"
    BY <2>1, <1>t, Moved
  <2>4. ApiTypeOK' /\ RegisteredIsUnset'
    BY <2>1, <2>2, <2>3, <1>t DEF ApiInv, ApiTypeOK, RegisteredIsUnset
  <2>5. OwnerInProgress'
    BY <2>1, <2>3, <1>p DEF ApiInv, OwnerInProgress, Owner
  <2>6. SetMeansHeard' /\ WaitIsReset'
    BY <2>1, <2>3, <1>p DEF ApiInv, SetMeansHeard, AnswerHeard, WaitIsReset, HasReset
  <2>. QED  BY <2>4, <2>5, <2>6 DEF ApiInv
<1>6. ASSUME AfterSend PROVE ApiInv'
  <2>1. /\ stack # <<>> /\ Top.at = "sent" /\ UNCHANGED <<energyCb, pending, issued>>
        /\ active' = Registered(Top.call, "after") /\ flag' = FlagReset(Top.call, "after")
    BY <1>6 DEF AfterSend, Continues
  <2>2. /\ flag' \in [Flags -> BOOLEAN] /\ (\A f \in Flags : flag'[f] => flag[f])
        /\ (Api[Top.call].resets = "after" => ~flag'[Api[Top.call].flag])
        /\ active' \in Callbacks
    BY <2>1, <1>t, <1>p DEF FlagReset, SetFlag, Registered
  <2>3. RegisteredIsUnset'
    <3>1. \A a \in Owned : CallbackFlag[a] \in Flags
      BY Table DEF Owned, Callbacks, RowIsSafe
    <3>2. CASE Api[Top.call].registers = "after"
      BY <3>2, <2>1, <2>2, <1>p DEF RegisteredIsUnset, Registered, RowIsSafe, Owned
    <3>3. CASE Api[Top.call].registers # "after"
      BY <3>1, <3>3, <2>1, <2>2 DEF ApiInv, RegisteredIsUnset, Registered
    <3>. QED  BY <3>2, <3>3
  <2>4. CASE Api[Top.call].waits
    <3>1. stack' = MoveTo("wait")
      BY <1>6, <2>4 DEF AfterSend
    <3>2. /\ stack' \in Seq(Frame) /\ Len(stack') = Len(stack) /\ DOMAIN stack' = DOMAIN stack
          /\ \A i \in DOMAIN stack : i # Len(stack) => stack'[i] = stack[i]
          /\ stack'[Len(stack)].call = Top.call /\ stack'[Len(stack)].heard = Top.heard
          /\ stack'[Len(stack)].at = "wait"
      BY <3>1, <2>1, <1>t, Moved
    <3>3. ApiTypeOK'
      BY <2>1, <2>2, <3>2, <1>t DEF ApiTypeOK
    <3>4. OwnerInProgress'
      <4>1. CASE Api[Top.call].registers = "after"
        BY <4>1, <3>2, <2>1, <1>p DEF OwnerInProgress, Owner, Registered
      <4>2. CASE Api[Top.call].registers # "after"
        BY <4>2, <3>2, <2>1, <1>p DEF ApiInv, OwnerInProgress, Owner, Registered
      <4>. QED  BY <4>1, <4>2
    <3>5. SetMeansHeard'
      <4>. SUFFICES ASSUME NEW i \in DOMAIN stack PROVE AnswerHeard(stack[i])'
        BY <3>2 DEF SetMeansHeard
      <4>1. CASE i = Len(stack)
        BY <4>1, <3>2, <2>1, <2>2, <1>p DEF ApiInv, SetMeansHeard, AnswerHeard, HasReset
      <4>2. CASE i # Len(stack)
        BY <4>2, <3>2, <2>2, <1>d, FrameRow DEF ApiInv, SetMeansHeard, AnswerHeard, HasReset
      <4>. QED  BY <4>1, <4>2
    <3>6. WaitIsReset'
      BY <3>2, <1>p, <2>1 DEF ApiInv, WaitIsReset, HasReset, RowIsSafe
    <3>. QED  BY <3>3, <3>4, <3>5, <3>6, <2>3 DEF ApiInv
  <2>5. CASE ~Api[Top.call].waits
    <3>1. stack' = Pop
      BY <1>6, <2>5 DEF AfterSend
    <3>2. ApiTypeOK' /\ SetMeansHeard' /\ WaitIsReset'
      BY <2>1, <2>2, <3>1, <1>t, <1>q, <1>r DEF ApiTypeOK
    <3>3. Api[Top.call].callback \notin Owned
      BY <2>1, <2>5, <1>p DEF RowIsSafe, Owned
    <3>4. OwnerInProgress'
      BY <3>1, <3>3, <2>1, <1>p, <1>q DEF ApiInv, OwnerInProgress, Owner, Registered
    <3>. QED  BY <3>2, <3>4, <2>3 DEF ApiInv
  <2>. QED  BY <2>4, <2>5
<1>7. ASSUME Wake PROVE ApiInv'
  <2>1. /\ stack # <<>> /\ stack' = Pop /\ flag[Api[Top.call].flag]
        /\ UNCHANGED <<energyCb, pending, issued>>
        /\ active' \in {NULL, active}
        /\ active' = active => flag' = flag \/ active' = NULL
        /\ flag' \in {flag, FailedFlag(Top.call)}
    BY <1>7 DEF Wake, Continues
  <2>2. ApiTypeOK'
    BY <2>1, <1>t, <1>n, <1>q, <1>f DEF ApiTypeOK
  <2>3. SetMeansHeard' /\ WaitIsReset'
    BY <2>1, <1>r, <1>f
  <2>4. CASE active' = NULL
    BY <2>2, <2>3, <2>4, <1>o DEF ApiInv, RegisteredIsUnset, OwnerInProgress
  <2>5. CASE active' = active /\ active' # NULL
    <3>1. active \in Owned => ~Owner(Top)
      BY <2>1, <1>p DEF ApiInv, RegisteredIsUnset, Owner, RowIsSafe, Owned
    <3>2. OwnerInProgress'
      BY <3>1, <2>1, <2>5, <1>p, <1>q DEF ApiInv, OwnerInProgress, Owner
    <3>3. RegisteredIsUnset'
      BY <2>1, <2>5 DEF ApiInv, RegisteredIsUnset
    <3>. QED  BY <2>2, <2>3, <3>2, <3>3 DEF ApiInv
  <2>. QED  BY <2>1, <2>4, <2>5
<1>8. ASSUME Timeout PROVE ApiInv'
  <2>1. /\ stack # <<>> /\ stack' = Pop /\ Api[Top.call].onTimeout # "none"
        /\ UNCHANGED <<energyCb, pending, issued>>
        /\ active' = IF Api[Top.call].onTimeout = "clear" THEN NULL ELSE active
        /\ flag' = FailedFlag(Top.call)
    BY <1>8 DEF Timeout, Continues
  <2>2. ApiTypeOK'
    BY <2>1, <1>t, <1>n, <1>q, <1>f DEF ApiTypeOK
  <2>3. SetMeansHeard' /\ WaitIsReset'
    BY <2>1, <1>r, <1>f
  <2>4. CASE Api[Top.call].onTimeout = "clear"
    BY <2>1, <2>2, <2>3, <2>4, <1>o DEF ApiInv, RegisteredIsUnset, OwnerInProgress
  <2>5. CASE Api[Top.call].onTimeout # "clear"
    <3>1. active' = active /\ flag' = flag /\ Api[Top.call].callback \notin Owned
      BY <2>1, <2>5, <1>p, <1>f DEF RowIsSafe, Owned
    <3>2. OwnerInProgress'
      BY <3>1, <2>1, <1>p, <1>q DEF ApiInv, OwnerInProgress, Owner
    <3>3. RegisteredIsUnset'
      BY <3>1 DEF ApiInv, RegisteredIsUnset
    <3>. QED  BY <2>2, <2>3, <3>2, <3>3 DEF ApiInv
  <2>. QED  BY <2>4, <2>5
<1>9. ASSUME ReceiveBegins \/ ReceiveEnds PROVE ApiInv'
  <2>1. /\ stack # <<>> /\ UNCHANGED <<active, flag, energyCb, pending, issued>>
        /\ \E x \in BOOLEAN : stack' = [stack EXCEPT ![Len(stack)].receiving = x]
    BY <1>9 DEF ReceiveBegins, ReceiveEnds
  <2>2. /\ stack' \in Seq(Frame) /\ Len(stack') = Len(stack) /\ DOMAIN stack' = DOMAIN stack
        /\ \A i \in DOMAIN stack : /\ stack'[i].call = stack[i].call
                                   /\ stack'[i].at = stack[i].at
                                   /\ stack'[i].heard = stack[i].heard
    BY <2>1, <1>t, Received
  <2>3. ApiTypeOK' /\ RegisteredIsUnset'
    BY <2>1, <2>2, <1>t DEF ApiInv, ApiTypeOK, RegisteredIsUnset
  <2>4. OwnerInProgress'
    BY <2>1, <2>2 DEF ApiInv, OwnerInProgress, Owner
  <2>5. SetMeansHeard' /\ WaitIsReset'
    BY <2>1, <2>2 DEF ApiInv, SetMeansHeard, AnswerHeard, WaitIsReset, HasReset
  <2>. QED  BY <2>3, <2>4, <2>5 DEF ApiInv
<1>u. ASSUME UNCHANGED vars PROVE ApiInv'
  BY <1>u DEF vars, ApiInv, ApiTypeOK, RegisteredIsUnset, OwnerInProgress, Owner,
       SetMeansHeard, AnswerHeard, WaitIsReset, HasReset
<1>. QED  BY <1>1, <1>2, <1>3, <1>4, <1>5, <1>6, <1>7, <1>8, <1>9, <1>u DEF Next

(* A module starts without a call in progress.                             *)
LEMMA ApiStart == Init => ApiInv
<1>. SUFFICES ASSUME Init PROVE ApiInv
  OBVIOUS
<1>1. NULL \in Callbacks
  <2>1. Api["energy_duty_cycle"].callback = NULL /\ "energy_duty_cycle" \in DOMAIN Api
    BY DEF Api, EnergyDutyCycle, NULL
  <2>. QED  BY <2>1 DEF Callbacks
<1>2. stack = <<>> /\ stack \in Seq(Frame) /\ Len(stack) = 0 /\ DOMAIN stack = {}
  BY EmptySeq, LenProperties DEF Init
<1>3. ApiTypeOK
  BY <1>1, <1>2, BoundsAssumption DEF Init, ApiTypeOK
<1>. QED  BY <1>2, <1>3 DEF Init, ApiInv, RegisteredIsUnset, OwnerInProgress, SetMeansHeard,
     WaitIsReset, Owned

(* The inductive invariant holds throughout.                               *)
LEMMA ApiInvariant == Spec => []ApiInv
  BY ApiStart, ApiStep, PTL DEF Spec

(* Every call of signpost_api.c keeps the callback pointer, the flags and  *)
(* the calls in progress well-formed.                                      *)
THEOREM ApiTypeCorrect == Spec => []ApiTypeOK
  BY ApiInvariant, PTL DEF ApiInv

(* incoming_active_callback does not outlive the calls of the six          *)
(* functions that clear it, however calls nest and responses get lost.     *)
THEOREM CallbackHasOwner == Spec => []ActiveHasOwner
<1>1. ApiInv => ActiveHasOwner
  BY DEF ApiInv, OwnerInProgress, Owner, ActiveHasOwner, InProgress, Owned
<1>. QED  BY <1>1, ApiInvariant, PTL

(* No wait of a call that resets its flag (all but the storage calls) ends *)
(* unless a callback of its kind was given a response, whatever request it *)
(* answers, since the call was made.                                       *)
THEOREM OnlyAnswersWake == Spec => []WokenByAnswer
<1>1. ApiInv => WokenByAnswer
  BY DEF ApiInv, SetMeansHeard, AnswerHeard, WaitIsReset, WokenByAnswer
<1>. QED  BY <1>1, ApiInvariant, PTL
=============================================================================
