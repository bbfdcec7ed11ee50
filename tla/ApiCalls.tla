------------------------------ MODULE ApiCalls ------------------------------
(***************************************************************************)
(* The calls a module makes to the services of the other modules           *)
(* (libsignpost/signpost_api.c): storage, processing, networking, energy,  *)
(* time and location, watchdog and the module state.                       *)
(*                                                                         *)
(* All of them share one callback pointer, incoming_active_callback.  A    *)
(* response carries no identity of its request: the shared receive gives   *)
(* it to whatever callback is registered.  The calls differ in when they   *)
(* register their callback and reset their flag, in whether they look if   *)
(* another call is in progress, and in what they clean up on a failure;    *)
(* the table "Api" says so, call by call.                                  *)
(*                                                                         *)
(* Execution model.  A call runs from the application's main loop or from  *)
(* one of its callbacks.  It yields while it sends and while it waits, and *)
(* there other callbacks run, which may make calls of their own: "stack"   *)
(* holds the calls in progress, innermost last, and only the last can      *)
(* continue.  Messages are received in any of these places.  On Tock       *)
(* get_message runs nested in the yield; it waits for the rest of a        *)
(* message without a timeout (signbus_io_interface.c:215), and until it    *)
(* ends the call around it does not go on, though others may be made in    *)
(* its yields.  On the mbed port the receiver is a thread of its own, and  *)
(* responses come between the end of a send and the statement after it as  *)
(* well.                                                                   *)
(***************************************************************************)
EXTENDS Integers, Sequences

CONSTANTS
  Calls,        \* the calls the application makes
  MaxNesting,   \* bound: calls in progress
  MaxIssued     \* bound: calls made

-----------------------------------------------------------------------------
(* The table.  checksBusy: refused while a callback is registered.         *)
(* registers, resets: "before" or "after" the send, or "never".            *)
(* onSendFailure, onTimeout: "clear" or "keep" the registered callback,    *)
(* "wait" anyway; onTimeout "none" is a wait without a timeout.            *)
(* flag "none": nothing waits for it.                                      *)

StorageScan ==
  [flag |-> "storage_ready", callback |-> "storage_scan_callback", sends |-> TRUE,
   checksBusy |-> TRUE, registers |-> "before", resets |-> "before",
   waits |-> TRUE, onSendFailure |-> "clear", onTimeout |-> "clear"]

StorageWrite ==
  [flag |-> "storage_ready", callback |-> "storage_write_callback", sends |-> TRUE,
   checksBusy |-> TRUE, registers |-> "before", resets |-> "before",
   waits |-> FALSE, onSendFailure |-> "clear", onTimeout |-> "none"]

StorageRead ==
  [flag |-> "storage_ready", callback |-> "storage_read_callback", sends |-> TRUE,
   checksBusy |-> TRUE, registers |-> "before", resets |-> "before",
   waits |-> TRUE, onSendFailure |-> "clear", onTimeout |-> "clear"]

StorageDelete ==
  [flag |-> "storage_ready", callback |-> "storage_write_callback", sends |-> TRUE,
   checksBusy |-> TRUE, registers |-> "before", resets |-> "before",
   waits |-> FALSE, onSendFailure |-> "clear", onTimeout |-> "none"]

ProcessingInit ==
  [flag |-> "processing_ready", callback |-> "processing_callback", sends |-> TRUE,
   checksBusy |-> FALSE, registers |-> "before", resets |-> "before",
   waits |-> TRUE, onSendFailure |-> "keep", onTimeout |-> "none"]

ProcessingOnewaySend ==
  [flag |-> "processing_ready", callback |-> "processing_callback", sends |-> TRUE,
   checksBusy |-> FALSE, registers |-> "before", resets |-> "after",
   waits |-> TRUE, onSendFailure |-> "keep", onTimeout |-> "none"]

ProcessingTwowaySend ==
  [flag |-> "processing_ready", callback |-> "processing_callback", sends |-> TRUE,
   checksBusy |-> FALSE, registers |-> "before", resets |-> "after",
   waits |-> FALSE, onSendFailure |-> "keep", onTimeout |-> "none"]

ProcessingTwowayReceive ==
  [flag |-> "processing_ready", callback |-> "none", sends |-> FALSE,
   checksBusy |-> FALSE, registers |-> "never", resets |-> "never",
   waits |-> TRUE, onSendFailure |-> "keep", onTimeout |-> "none"]

NetworkingPublish ==
  [flag |-> "networking_ready", callback |-> "networking_callback", sends |-> TRUE,
   checksBusy |-> FALSE, registers |-> "before", resets |-> "before",
   waits |-> TRUE, onSendFailure |-> "clear", onTimeout |-> "clear"]

EnergyQuery ==
  [flag |-> "energy_query_ready", callback |-> "energy_query_async_callback", sends |-> TRUE,
   checksBusy |-> TRUE, registers |-> "before", resets |-> "before",
   waits |-> TRUE, onSendFailure |-> "clear", onTimeout |-> "clear"]

EnergyQueryAsync ==
  [flag |-> "none", callback |-> "energy_query_async_callback", sends |-> TRUE,
   checksBusy |-> TRUE, registers |-> "before", resets |-> "never",
   waits |-> FALSE, onSendFailure |-> "clear", onTimeout |-> "none"]

EnergyDutyCycle ==
  [flag |-> "none", callback |-> "none", sends |-> TRUE,
   checksBusy |-> FALSE, registers |-> "never", resets |-> "never",
   waits |-> FALSE, onSendFailure |-> "keep", onTimeout |-> "none"]

EnergyReport ==
  [flag |-> "energy_report_received", callback |-> "energy_report_callback", sends |-> TRUE,
   checksBusy |-> FALSE, registers |-> "after", resets |-> "after",
   waits |-> TRUE, onSendFailure |-> "keep", onTimeout |-> "clear"]

EnergyReset ==
  [flag |-> "energy_reset_received", callback |-> "energy_reset_callback", sends |-> TRUE,
   checksBusy |-> FALSE, registers |-> "after", resets |-> "after",
   waits |-> TRUE, onSendFailure |-> "keep", onTimeout |-> "clear"]

\* signpost_timelocation_sync, of get_time and of get_location
TimelocationSync ==
  [flag |-> "timelocation_query_answered", callback |-> "timelocation_callback", sends |-> TRUE,
   checksBusy |-> TRUE, registers |-> "before", resets |-> "before",
   waits |-> TRUE, onSendFailure |-> "clear", onTimeout |-> "clear"]

\* signpost_watchdog_start and signpost_watchdog_tickle
Watchdog ==
  [flag |-> "watchdog_reply", callback |-> "watchdog_cb", sends |-> TRUE,
   checksBusy |-> FALSE, registers |-> "after", resets |-> "before",
   waits |-> TRUE, onSendFailure |-> "keep", onTimeout |-> "none"]

GetModuleState ==
  [flag |-> "get_state_complete", callback |-> "get_state_callback", sends |-> TRUE,
   checksBusy |-> FALSE, registers |-> "before", resets |-> "before",
   waits |-> TRUE, onSendFailure |-> "wait", onTimeout |-> "keep"]

Api == [storage_scan |-> StorageScan, storage_write |-> StorageWrite,
        storage_read |-> StorageRead, storage_delete |-> StorageDelete,
        processing_init |-> ProcessingInit, processing_oneway_send |-> ProcessingOnewaySend,
        processing_twoway_send |-> ProcessingTwowaySend,
        processing_twoway_receive |-> ProcessingTwowayReceive,
        networking_publish |-> NetworkingPublish, energy_query |-> EnergyQuery,
        energy_query_async |-> EnergyQueryAsync, energy_duty_cycle |-> EnergyDutyCycle,
        energy_report |-> EnergyReport, energy_reset |-> EnergyReset,
        timelocation |-> TimelocationSync, watchdog |-> Watchdog,
        get_module_state |-> GetModuleState]

ASSUME CallsAssumption == Calls \subseteq DOMAIN Api
ASSUME BoundsAssumption == MaxNesting \in Nat /\ MaxIssued \in Nat

Flags == {Api[c].flag : c \in DOMAIN Api}
Callbacks == {Api[c].callback : c \in DOMAIN Api}
NULL == "none"

-----------------------------------------------------------------------------
VARIABLES
  active,    \* incoming_active_callback
  flag,      \* the flags the waits are for: storage_ready, networking_ready, ...
  energyCb,  \* energy_cb: NULL, energy_query_sync_callback or the application's
  stack,     \* the calls in progress, innermost last
  pending,   \* per call: requests sent whose response may still arrive
  issued     \* calls made so far

vars == <<active, flag, energyCb, stack, pending, issued>>

(* at: "send" while the request is being sent, "sent" between that and the *)
(* statements after it, "wait" while the call waits for its flag.          *)
(* receiving: a get_message that is nested in this call's yield waits for  *)
(* the rest of a message.  heard: a callback of the call's kind was given  *)
(* a response since the call was made; the code has no such variable.      *)
Frame == [call : DOMAIN Api, at : {"send", "sent", "wait"}, receiving : BOOLEAN,
          heard : BOOLEAN]

Init ==
  /\ active = NULL
  /\ flag = [f \in Flags |-> FALSE]
  /\ energyCb = NULL
  /\ stack = <<>>
  /\ pending = [c \in DOMAIN Api |-> 0]
  /\ issued = 0

Top == stack[Len(stack)]
Pop == SubSeq(stack, 1, Len(stack) - 1)
\* The innermost call goes on to its next yield point.
MoveTo(at) ==
  [stack EXCEPT ![Len(stack)] = [call |-> Top.call, at |-> at, receiving |-> FALSE,
                                 heard |-> Top.heard]]

\* The innermost call goes on: nothing is nested in its yield.
Continues(at) == stack # <<>> /\ Top.at = at /\ ~Top.receiving
Yielding == stack # <<>> => Top.at \in {"send", "wait"}
SetFlag(f, value) == [flag EXCEPT ![f] = value]

\* Mutant of FlagReset: the flag of the previous call is left as it is.
FlagKept(c, when) == flag

\* The flag after the assignment made before or after the send.
FlagReset(c, when) == IF Api[c].resets = when THEN SetFlag(Api[c].flag, FALSE) ELSE flag

\* Mutant of Registered: the query registers the caller's own callback.
RegisteredCaller(c, when) ==
  IF Api[c].registers # when THEN active
  ELSE IF Api[c].flag = "energy_query_ready" THEN "sync" ELSE Api[c].callback

\* The callback pointer after the assignment made before or after the send.
Registered(c, when) == IF Api[c].registers = when THEN Api[c].callback ELSE active

IsQuery(c) == Api[c].callback = "energy_query_async_callback"

\* A call finds another one in progress (PORT_EBUSY).
Busy(c) == /\ Api[c].checksBusy
           /\ active # NULL \/ (IsQuery(c) /\ energyCb # NULL)

(* A call is made, up to its send.  A busy one returns at once, after it   *)
(* has reset its flag.                                                     *)
Issue(c) ==
  /\ Yielding
  /\ Len(stack) < MaxNesting /\ issued < MaxIssued
  /\ issued' = issued + 1
  /\ flag' = FlagReset(c, "before")
  /\ UNCHANGED pending
  /\ \/ /\ Busy(c)
        /\ UNCHANGED <<active, energyCb, stack>>
     \/ /\ ~Busy(c)
        /\ active' = Registered(c, "before")
        /\ energyCb' = IF ~IsQuery(c) THEN energyCb
                       ELSE IF Api[c].waits THEN "sync" ELSE "application"
        /\ stack' = Append(stack, [call |-> c, at |-> IF Api[c].sends THEN "send" ELSE "wait",
                                   receiving |-> FALSE, heard |-> FALSE])

\* A storage call that fails marks its wait as over, with storage_ready.
FailedFlag(c) ==
  IF Api[c].flag = "storage_ready" THEN SetFlag("storage_ready", TRUE) ELSE flag

(* The send fails: the call returns the error, all but get_module_state,   *)
(* which waits for a response to a request it has not sent.                *)
SendFails ==
  /\ Continues("send")
  /\ LET c == Top.call IN
       /\ stack' = IF Api[c].onSendFailure = "wait"
                   THEN MoveTo("wait") ELSE Pop
       /\ active' = IF Api[c].onSendFailure = "clear" THEN NULL ELSE active
       /\ flag' = FailedFlag(c)
       /\ energyCb' = IF IsQuery(c) THEN NULL ELSE energyCb
  /\ UNCHANGED <<pending, issued>>

\* The request is on the bus; its response, if it has one, may arrive from now on.
Sent ==
  /\ Continues("send")
  /\ stack' = MoveTo("sent")
  /\ pending' = IF Api[Top.call].registers = "never" THEN pending
                 ELSE [pending EXCEPT ![Top.call] = @ + 1]
  /\ UNCHANGED <<active, flag, energyCb, issued>>

\* The statements after the send: the call waits, or returns.
AfterSend ==
  /\ Continues("sent")
  /\ LET c == Top.call IN
       /\ active' = Registered(c, "after")
       /\ flag' = FlagReset(c, "after")
       /\ stack' = IF Api[c].waits THEN MoveTo("wait") ELSE Pop
  /\ UNCHANGED <<energyCb, pending, issued>>

\* The flag a callback sets.
CallbackFlag ==
  [storage_scan_callback |-> "storage_ready", storage_write_callback |-> "storage_ready",
   storage_read_callback |-> "storage_ready", processing_callback |-> "processing_ready",
   networking_callback |-> "networking_ready",
   energy_report_callback |-> "energy_report_received",
   energy_reset_callback |-> "energy_reset_received",
   timelocation_callback |-> "timelocation_query_answered",
   watchdog_cb |-> "watchdog_reply", get_state_callback |-> "get_state_complete"]

\* The energy query's callback calls energy_cb, which sets a flag only if it is ours.
FlagOf(callback) ==
  IF callback = "energy_query_async_callback"
  THEN IF energyCb = "sync" THEN "energy_query_ready" ELSE "none"
  ELSE CallbackFlag[callback]

(* signpost_api_recv_callback with a response or an error: the registered  *)
(* callback is cleared and called, or there is none and the message is     *)
(* dropped.  Which request it answers plays no part.                       *)
Respond(c) ==
  /\ pending[c] > 0
  /\ pending' = [pending EXCEPT ![c] = @ - 1]
  /\ stack' = [i \in DOMAIN stack |->
                 [stack[i] EXCEPT !.heard = @ \/ Api[stack[i].call].callback = active]]
  /\ active' = NULL
  /\ flag' = IF active = NULL THEN flag ELSE SetFlag(FlagOf(active), TRUE)
  /\ energyCb' = IF active = "energy_query_async_callback" THEN NULL ELSE energyCb
  /\ UNCHANGED issued

\* A request or its response is lost, or the other module does not answer.
Lose(c) ==
  /\ pending[c] > 0
  /\ pending' = [pending EXCEPT ![c] = @ - 1]
  /\ UNCHANGED <<active, flag, energyCb, stack, issued>>

(* A get_message begins in the yield of the innermost call and does not    *)
(* end at once: it has more of a message to wait for.                      *)
ReceiveBegins ==
  /\ stack # <<>> /\ Yielding
  /\ stack' = [stack EXCEPT ![Len(stack)].receiving = TRUE]
  /\ UNCHANGED <<active, flag, energyCb, pending, issued>>

\* It ends; what it has received is in Respond, or is no response.
ReceiveEnds ==
  /\ stack # <<>> /\ Top.receiving
  /\ stack' = [stack EXCEPT ![Len(stack)].receiving = FALSE]
  /\ UNCHANGED <<active, flag, energyCb, pending, issued>>

(* The wait ends because the flag is set.  storage_scan looks at the       *)
(* result of the send instead of the wait's, which is the number of bytes, *)
(* and clears the callback as if it had timed out.                         *)
Wake ==
  /\ Continues("wait") /\ flag[Api[Top.call].flag]
  /\ stack' = Pop
  /\ active' = IF Top.call = "storage_scan" THEN NULL ELSE active
  /\ flag' = IF Top.call = "storage_scan" THEN FailedFlag(Top.call) ELSE flag
  /\ UNCHANGED <<energyCb, pending, issued>>

\* Mutant of Timeout: no call clears the callback.
TimeoutKeeping ==
  /\ Continues("wait") /\ Api[Top.call].onTimeout # "none"
  /\ stack' = Pop
  /\ flag' = FailedFlag(Top.call)
  /\ UNCHANGED <<active, energyCb, pending, issued>>

\* Mutant of Timeout: only a wait whose callback is still registered times out.
TimeoutIfRegistered ==
  /\ Continues("wait") /\ Api[Top.call].onTimeout # "none"
  /\ active = Api[Top.call].callback
  /\ stack' = Pop
  /\ active' = IF Api[Top.call].onTimeout = "clear" THEN NULL ELSE active
  /\ flag' = FailedFlag(Top.call)
  /\ UNCHANGED <<energyCb, pending, issued>>

(* The wait times out.  On the mbed port it may do so although the flag    *)
(* has just been set.  energy_query does not clear energy_cb.              *)
Timeout ==
  /\ Continues("wait") /\ Api[Top.call].onTimeout # "none"
  /\ stack' = Pop
  /\ active' = IF Api[Top.call].onTimeout = "clear" THEN NULL ELSE active
  /\ flag' = FailedFlag(Top.call)
  /\ UNCHANGED <<energyCb, pending, issued>>

Next ==
  \/ \E c \in Calls : Issue(c) \/ Respond(c) \/ Lose(c)
  \/ SendFails \/ Sent \/ AfterSend \/ Wake \/ Timeout
  \/ ReceiveBegins \/ ReceiveEnds

Spec == Init /\ [][Next]_vars

(* The I2C driver ends every write, the processor goes on after a send,    *)
(* and a timer ends every wait that has one.  The yields test what they    *)
(* wait for whenever a callback has returned, so a call that is free to go *)
(* on again and again does; that a nested receive ends is not assumed.     *)
FairSpec ==
  /\ Spec
  /\ SF_vars(Sent \/ SendFails)
  /\ WF_vars(AfterSend)
  /\ SF_vars(Wake \/ Timeout)

-----------------------------------------------------------------------------
(* Type invariant: the callback pointer is one of the calls' callbacks,    *)
(* and a call in progress is at one of its yield points.                   *)
ApiTypeOK ==
  /\ active \in Callbacks
  /\ flag \in [Flags -> BOOLEAN]
  /\ energyCb \in {NULL, "sync", "application"}
  /\ stack \in Seq(Frame) /\ Len(stack) <= MaxNesting
  /\ pending \in [DOMAIN Api -> Nat]
  /\ issued \in 0..MaxIssued

\* Callbacks that some call leaves registered when it returns.
LeftBehind == {"storage_write_callback", "energy_query_async_callback",
               "processing_callback", "get_state_callback", "watchdog_cb"}

InProgress(callback) == \E i \in DOMAIN stack : Api[stack[i].call].callback = callback

(* The callback of storage_scan, storage_read, networking_publish,         *)
(* energy_report, energy_reset and timelocation_sync is registered only    *)
(* while such a call is in progress: however the calls nest, whatever is   *)
(* lost and whatever times out, these six never block a later call with    *)
(* PORT_EBUSY.                                                             *)
ActiveHasOwner ==
  active \in Callbacks \ ({NULL} \cup LeftBehind) => InProgress(active)

(* A call that resets its flag is woken only by a response that a callback *)
(* of its own kind was given after the call was made: no flag left over    *)
(* from an earlier call, and no response that was taken by a call of       *)
(* another kind, ends a wait.  Which request the response answers is not   *)
(* asked, by the code no more than here: a late response to an earlier     *)
(* call of any kind does end it.  The storage calls are left out: one that *)
(* fails sets their common flag and wakes an outer one, which returns its  *)
(* initial result, PORT_SUCCESS.                                           *)
WokenByAnswer ==
  \A i \in DOMAIN stack :
    LET c == stack[i].call IN
      /\ stack[i].at = "wait" /\ flag[Api[c].flag]
      /\ Api[c].resets # "never" /\ Api[c].flag # "storage_ready"
      => stack[i].heard

HasTimeout(frame) == Api[frame.call].onTimeout # "none"

(* What may keep the call at place n from going on for ever: a receive     *)
(* nested in it, or in a call made from within it, and a call made from    *)
(* within it that waits without a timeout.                                 *)
Blocked(n) ==
  \E i \in n..Len(stack) : stack[i].receiving \/ (i > n /\ ~HasTimeout(stack[i]))

(* A call that waits with a timeout returns, unless from some moment on    *)
(* one of the above always keeps it from going on: the timeouts hold       *)
(* whichever callback is registered, whichever response was taken by       *)
(* another call and however the calls inside it ended.                     *)
TimedCallsReturn ==
  \A n \in 1..MaxNesting :
    []<>~Blocked(n) => (Len(stack) >= n /\ HasTimeout(stack[n])) ~> (Len(stack) < n)
=============================================================================
