---------------------------- MODULE ModuleClient ----------------------------
(***************************************************************************)
(* The asynchronous request path of IotHubModuleClient                     *)
(* (lib/src/moduleclient.rs).                                              *)
(*                                                                         *)
(* An async method boxes the sending half of a oneshot channel, turns the  *)
(* box into the void* context of a C callback and passes it to the SDK.    *)
(* From then on the SDK owns it: the callback takes the box back           *)
(* (Box::from_raw), sends the answer and frees it.  The method polls: each *)
(* poll runs the SDK (DoWork, on which the callbacks are made), looks at   *)
(* the receiving half, and asks to be polled again.                        *)
(*                                                                         *)
(* The future borrows the client mutably, so at most one is alive, but it  *)
(* can be dropped between two polls: its context then stays with the SDK,  *)
(* whose late answer is delivered during somebody else's DoWork, or when   *)
(* the client is destroyed.                                                *)
(***************************************************************************)
EXTENDS Naturals

CONSTANTS
  Requests,      \* the calls of async methods an application makes
  Codes,         \* result and confirmation codes of the SDK
  OK,            \* IOTHUB_CLIENT_OK
  ERROR,         \* IOTHUB_CLIENT_ERROR
  DESTROYED,     \* the answer to what is pending when the handle is destroyed
  NoReply,       \* "not answered"
  UpdatesFollow  \* whether a property subscription sees an update

ASSUME CodesAssumption ==
  /\ {OK, ERROR, DESTROYED} \subseteq Codes
  /\ OK # ERROR
  /\ NoReply \notin Codes

ASSUME UpdatesAssumption == UpdatesFollow \in BOOLEAN

VARIABLES
  client,    \* the client: "live", "looping" (in do_work) or "dropped"
  fut,       \* the future of each call
  call,      \* which async method each call is, once its body has run
  box,       \* the boxed sender behind the context of each call
  slot,      \* the value in each oneshot channel
  sdk,       \* what the SDK knows of each call
  reply,     \* the SDK's answer to each call
  result     \* what each future returned

vars == <<client, fut, call, box, slot, sdk, reply, result>>

-----------------------------------------------------------------------------
(***************************************************************************)
(* Rust values.  Okay and Err are the two sides of Result<_, IotError>; a  *)
(* payload is as good as its code.  Ok(()) is Okay(OK).                    *)
(***************************************************************************)
Okay(v) == [tag |-> "Ok", val |-> v]
Err(v) == [tag |-> "Err", val |-> v]
NoResult == [tag |-> "None", val |-> NoReply]
Results == [tag : {"Ok", "Err"}, val : Codes]

(* Mutant: check_sdk_result loses the Result.                               *)
CodeUnwrapped(code) == code

CheckSdkResult(code) == IF code = OK THEN Okay(OK) ELSE Err(code)

(***************************************************************************)
(* The async methods differ in the type of the sender they box, in the C   *)
(* callback they name, and in whether the SDK calls that callback again    *)
(* after its first answer.                                                 *)
(***************************************************************************)
SendEventAsync ==
  [sender |-> "Result", callback |-> "confirmation", again |-> FALSE]
SendEventToOutputAsync ==
  [sender |-> "Confirmation", callback |-> "confirmation_result", again |-> FALSE]
SendTelemetryAsync ==
  [sender |-> "Confirmation", callback |-> "confirmation_result", again |-> FALSE]
SendPropertiesAsync ==
  [sender |-> "c_int", callback |-> "property_ack", again |-> FALSE]
GetTwinAsync ==
  [sender |-> "Twin", callback |-> "get_twin", again |-> FALSE]
GetPropertiesAsync ==
  [sender |-> "Properties", callback |-> "properties_received", again |-> FALSE]
GetPropertiesAndSubscribe ==
  [sender |-> "Properties", callback |-> "properties_received", again |-> TRUE]

Methods ==
  {SendEventAsync, SendEventToOutputAsync, SendTelemetryAsync,
   SendPropertiesAsync, GetTwinAsync, GetPropertiesAsync,
   GetPropertiesAndSubscribe}

NoCall == [sender |-> "none", callback |-> "none", again |-> FALSE]

(* The type each C callback casts its context back to.                      *)
CastTo ==
  [confirmation        |-> "Result",
   confirmation_result |-> "Confirmation",
   property_ack        |-> "c_int",
   get_twin            |-> "Twin",
   properties_received |-> "Properties"]

(* Mutant: a code passed on unchecked.                                      *)
SentRaw(callback, v) == Okay(v)

(* What each C callback sends: c_async_confirmation_callback turns the code *)
(* into a Result, the others pass on what they were given.                  *)
Sent(callback, v) ==
  IF callback = "confirmation" THEN CheckSdkResult(v) ELSE Okay(v)

-----------------------------------------------------------------------------
Alive == {"called", "submitted", "awaiting"}
Listening(r) == fut[r] \in {"submitted", "awaiting"}
Borrowed == \E r \in Requests : fut[r] \in Alive

(* Once a context has been reclaimed twice the program has no meaning.      *)
Defined == \A r \in Requests : box[r] # "refreed"

Init ==
  /\ client = "live"
  /\ fut = [r \in Requests |-> "uncalled"]
  /\ call = [r \in Requests |-> NoCall]
  /\ box = [r \in Requests |-> "none"]
  /\ slot = [r \in Requests |-> NoResult]
  /\ sdk = [r \in Requests |-> "idle"]
  /\ reply = [r \in Requests |-> NoReply]
  /\ result = [r \in Requests |-> NoResult]

-----------------------------------------------------------------------------
(* The application calls an async method: a future that borrows the client  *)
(* exists; nothing of the body has run.                                     *)
Begin(r) ==
  /\ client = "live"
  /\ ~Borrowed
  /\ fut[r] = "uncalled"
  /\ fut' = [fut EXCEPT ![r] = "called"]
  /\ UNCHANGED <<client, call, box, slot, sdk, reply, result>>

(* The first poll, up to the SDK call: the SDK takes the context...         *)
Accept(r, m) ==
  /\ fut[r] = "called"
  /\ fut' = [fut EXCEPT ![r] = "submitted"]
  /\ call' = [call EXCEPT ![r] = m]
  /\ box' = [box EXCEPT ![r] = "held"]
  /\ sdk' = [sdk EXCEPT ![r] = "accepted"]
  /\ UNCHANGED <<client, slot, reply, result>>

(* Mutant: the error path forgets the box.                                  *)
RefuseLeakingBox(r, m, e) ==
  /\ fut[r] = "called"
  /\ e # OK
  /\ fut' = [fut EXCEPT ![r] = "returned"]
  /\ call' = [call EXCEPT ![r] = m]
  /\ box' = [box EXCEPT ![r] = "held"]
  /\ result' = [result EXCEPT ![r] = Err(e)]
  /\ UNCHANGED <<client, slot, sdk, reply>>

(* ... or refuses it with a code: the method takes the box back, frees it   *)
(* and returns the error.                                                   *)
Refuse(r, m, e) ==
  /\ fut[r] = "called"
  /\ e # OK
  /\ fut' = [fut EXCEPT ![r] = "returned"]
  /\ call' = [call EXCEPT ![r] = m]
  /\ box' = [box EXCEPT ![r] = "freed"]
  /\ result' = [result EXCEPT ![r] = Err(e)]
  /\ UNCHANGED <<client, slot, sdk, reply>>

(***************************************************************************)
(* The SDK.  It learns the answer to an accepted call (a confirmation from *)
(* the hub, a timeout, an error) at any time, but calls back only from     *)
(* DoWork and Destroy.                                                     *)
(***************************************************************************)
Answer(r, v) ==
  /\ client # "dropped"
  /\ sdk[r] = "accepted"
  /\ sdk' = [sdk EXCEPT ![r] = "answered"]
  /\ reply' = [reply EXCEPT ![r] = v]
  /\ UNCHANGED <<client, fut, call, box, slot, result>>

(* The hub changes a desired property that a call has subscribed to.        *)
Update(r) ==
  /\ UpdatesFollow
  /\ client # "dropped"
  /\ sdk[r] = "subscribed"
  /\ sdk' = [sdk EXCEPT ![r] = "update"]
  /\ UNCHANGED <<client, fut, call, box, slot, reply, result>>

Due == {r \in Requests : sdk[r] \in {"answered", "update"}}

(* Box::from_raw(ctx) and the drop of the sender at the end of a callback.  *)
Reclaimed(r) == IF box[r] = "held" THEN "freed" ELSE "refreed"

(* Mutant: an answer goes to whoever listens.                               *)
SlotsMisaddressed ==
  [r \in Requests |->
     IF Listening(r) /\ \E q \in Due : box[q] = "held"
     THEN LET q == CHOOSE q \in Due : box[q] = "held"
          IN Sent(call[q].callback, reply[q])
     ELSE slot[r]]

(* The channels after the callbacks: a send reaches only a receiver that    *)
(* still exists; the error of a send to a dropped one is discarded.         *)
SlotsAfterCallbacks ==
  [r \in Requests |->
     IF r \in Due /\ box[r] = "held" /\ Listening(r)
     THEN Sent(call[r].callback, reply[r])
     ELSE slot[r]]

(* Mutant: DoWork that never calls back.                                    *)
RunNoCallbacks == UNCHANGED <<box, sdk>>

(* IoTHubModuleClient_LL_DoWork: the callbacks of all that is due.          *)
RunCallbacks ==
  /\ box' = [r \in Requests |-> IF r \in Due THEN Reclaimed(r) ELSE box[r]]
  /\ sdk' = [r \in Requests |->
               IF r \in Due
               THEN IF call[r].again THEN "subscribed" ELSE "done"
               ELSE sdk[r]]

(***************************************************************************)
(* One poll of the poll_fn loop: DoWork, then try_recv.  A value resolves  *)
(* the future; an empty channel whose sender still exists means Pending,   *)
(* and the waker has been told to poll again; an empty channel whose       *)
(* sender is gone is Canceled, reported as ERROR.                          *)
(***************************************************************************)
TryRecv(r) ==
  IF SlotsAfterCallbacks[r] # NoResult THEN SlotsAfterCallbacks[r]
  ELSE IF r \notin Due /\ box[r] = "held" THEN NoResult
  ELSE Err(ERROR)

(* Mutant: a poll that does not run the SDK.                                *)
PollWithoutDoWork(r) ==
  /\ Listening(r)
  /\ fut' = [fut EXCEPT ![r] = IF slot[r] = NoResult THEN "awaiting" ELSE "returned"]
  /\ result' = [result EXCEPT ![r] = slot[r]]
  /\ UNCHANGED <<client, call, box, slot, sdk, reply>>

(* Mutant: the channel is looked at before the SDK runs.                    *)
PollLookingFirst(r) ==
  /\ Listening(r)
  /\ RunCallbacks
  /\ fut' = [fut EXCEPT ![r] = IF slot[r] = NoResult THEN "awaiting" ELSE "returned"]
  /\ slot' = IF slot[r] = NoResult THEN SlotsAfterCallbacks ELSE [slot EXCEPT ![r] = NoResult]
  /\ result' = [result EXCEPT ![r] = slot[r]]
  /\ UNCHANGED <<client, call, reply>>

Poll(r) ==
  /\ Listening(r)
  /\ RunCallbacks
  /\ fut' = [fut EXCEPT ![r] = IF TryRecv(r) = NoResult THEN "awaiting" ELSE "returned"]
  /\ slot' = [SlotsAfterCallbacks EXCEPT ![r] = NoResult]
  /\ result' = [result EXCEPT ![r] = TryRecv(r)]
  /\ UNCHANGED <<client, call, reply>>

(* Mutant: the future frees its box when dropped.                           *)
DropFutureFreeingBox(r) ==
  /\ fut[r] \in {"called", "awaiting"}
  /\ fut' = [fut EXCEPT ![r] = "cancelled"]
  /\ box' = [box EXCEPT ![r] = IF @ = "held" THEN "freed" ELSE @]
  /\ slot' = [slot EXCEPT ![r] = NoResult]
  /\ UNCHANGED <<client, call, sdk, reply, result>>

(* The application drops the future between two polls (a timeout, a lost    *)
(* select): the receiver goes, the context stays with the SDK.              *)
DropFuture(r) ==
  /\ fut[r] \in {"called", "awaiting"}
  /\ fut' = [fut EXCEPT ![r] = "cancelled"]
  /\ slot' = [slot EXCEPT ![r] = NoResult]
  /\ UNCHANGED <<client, call, box, sdk, reply, result>>

-----------------------------------------------------------------------------
(* do_work_once, called by the application while no future is alive, or by  *)
(* the loop of do_work.                                                     *)
DoWorkOnce ==
  /\ client # "dropped"
  /\ ~Borrowed
  /\ RunCallbacks
  /\ slot' = SlotsAfterCallbacks
  /\ UNCHANGED <<client, fut, call, reply, result>>

(* do_work never returns and borrows the client for good.                   *)
DoWork ==
  /\ client = "live"
  /\ ~Borrowed
  /\ client' = "looping"
  /\ UNCHANGED <<fut, call, box, slot, sdk, reply, result>>

(* Drop destroys the handle, and the SDK answers what it still holds.       *)
DropClient ==
  /\ client = "live"
  /\ ~Borrowed
  /\ client' = "dropped"
  /\ box' = [r \in Requests |->
               IF sdk[r] \in {"accepted", "answered"} THEN Reclaimed(r) ELSE box[r]]
  /\ sdk' = [r \in Requests |-> IF sdk[r] = "idle" THEN "idle" ELSE "done"]
  /\ reply' = [r \in Requests |-> IF sdk[r] = "accepted" THEN DESTROYED ELSE reply[r]]
  /\ UNCHANGED <<fut, call, slot, result>>

-----------------------------------------------------------------------------
Next ==
  /\ Defined
  /\ \/ \E r \in Requests :
          \/ Begin(r)
          \/ \E m \in Methods : Accept(r, m)
          \/ \E m \in Methods, e \in Codes : Refuse(r, m, e)
          \/ \E v \in Codes : Answer(r, v)
          \/ Update(r)
          \/ Poll(r)
          \/ DropFuture(r)
     \/ DoWorkOnce
     \/ DoWork
     \/ DropClient

Spec == Init /\ [][Next]_vars

(***************************************************************************)
(* A pending poll has woken its own task, so the executor polls again; the *)
(* loop of do_work goes round; the SDK gives every accepted call an answer *)
(* (at worst its timeout).  Nothing else is fair: an application may never *)
(* call, never poll a first time, never drop.                              *)
(***************************************************************************)
Fairness ==
  /\ \A r \in Requests : WF_vars(Defined /\ Poll(r))
  /\ \A r \in Requests : WF_vars(Defined /\ \E v \in Codes : Answer(r, v))
  /\ WF_vars(Defined /\ client = "looping" /\ DoWorkOnce)

FairSpec == Spec /\ Fairness

-----------------------------------------------------------------------------
(* Types of the variables.                                                  *)
TypeOK ==
  /\ client \in {"live", "looping", "dropped"}
  /\ fut \in [Requests -> Alive \cup {"uncalled", "returned", "cancelled"}]
  /\ call \in [Requests -> Methods \cup {NoCall}]
  /\ box \in [Requests -> {"none", "held", "freed", "refreed"}]
  /\ slot \in [Requests -> Results \cup {NoResult}]
  /\ sdk \in [Requests -> {"idle", "accepted", "answered", "done", "subscribed", "update"}]
  /\ reply \in [Requests -> Codes \cup {NoReply}]
  /\ result \in [Requests -> Results \cup {NoResult}]

(* A context the SDK has yet to call back is a boxed sender that has not    *)
(* been reclaimed, and of the type its callback will cast it to             *)
(* (Box::from_raw in the five c_async_* callbacks).                         *)
ContextSound ==
  \A r \in Requests :
    sdk[r] \in {"accepted", "answered"} =>
      /\ box[r] = "held"
      /\ call[r].sender = CastTo[call[r].callback]

(* Whatever is cancelled, answered late or refused, no context is taken     *)
(* back twice, save that of a property subscription.                        *)
ReclaimedOnce ==
  \A r \in Requests : box[r] = "refreed" => call[r].again

(* No boxed sender outlives the client: what futures dropped midway left    *)
(* behind is freed at the latest by the Destroy in Drop.                    *)
NoContextLeak ==
  client = "dropped" => \A r \in Requests : box[r] # "held"

(* A call that the SDK accepted returns what the SDK answered to that very  *)
(* call, never a neighbour's answer, and never the error the Canceled arm   *)
(* of poll_fn stands for.                                                   *)
OwnAnswer ==
  \A r \in Requests :
    fut[r] = "returned" /\ sdk[r] # "idle" =>
      /\ reply[r] # NoReply
      /\ result[r] = Sent(call[r].callback, reply[r])

(* The code relies, with no exception, on a context being taken back once:  *)
(* each c_async_* callback does Box::from_raw in an unsafe block.           *)
EveryContextReclaimedOnce ==
  \A r \in Requests : box[r] # "refreed"

(* An answer is never parked, nor taken away by somebody else's DoWork: a   *)
(* call whose future is alive is called back inside that future's own poll, *)
(* which returns the answer there and then; and a poll leaves its future    *)
(* pending only for want of an answer.                                      *)
AnsweredInOwnPoll ==
  [][\A r \in Requests :
       /\ Listening(r) /\ sdk[r] = "answered" /\ sdk'[r] # "answered" =>
            /\ fut'[r] = "returned"
            /\ result'[r] = Sent(call[r].callback, reply[r])
       /\ Poll(r) => (fut'[r] = "returned" <=> sdk[r] = "answered")]_vars

(* A future that has been polled resolves unless it is dropped.             *)
PolledResolves ==
  \A r \in Requests :
    Listening(r) ~> fut[r] \in {"returned", "cancelled"} \/ ~Defined

(* The work loop gives back the contexts that dropped futures left behind.  *)
LoopDrains ==
  \A r \in Requests :
    client = "looping" /\ box[r] = "held" ~> box[r] # "held" \/ ~Defined

-----------------------------------------------------------------------------
(* The refinement: a cancelled call's answer is nobody's business.          *)
StatusOf(r) ==
  CASE fut[r] \in {"uncalled", "called"} -> "idle"
    [] Listening(r) -> "pending"
    [] fut[r] = "cancelled" -> "abandoned"
    [] fut[r] = "returned" -> IF sdk[r] = "idle" THEN "refused" ELSE "resolved"

KindOf(r) ==
  IF sdk[r] # "idle" /\ call[r].callback = "confirmation" THEN "status" ELSE "value"

Statuses == [r \in Requests |-> StatusOf(r)]
Kinds == [r \in Requests |-> KindOf(r)]
Replies == [r \in Requests |-> IF fut[r] = "cancelled" THEN NoReply ELSE reply[r]]

AR == INSTANCE AsyncRequest WITH status <- Statuses, kind <- Kinds, reply <- Replies

(* Every behaviour of the polling client, with all its contexts, callbacks  *)
(* and channels, is one of the abstract request service.                    *)
ImplementsRequests == AR!Spec
=============================================================================
