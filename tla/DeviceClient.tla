---------------------------- MODULE DeviceClient ----------------------------
(***************************************************************************)
(* The asynchronous request path of IoTHubDeviceClient                     *)
(* (lib/src/deviceclient.rs).                                              *)
(*                                                                         *)
(* The device client sits on the SDK's multi-threaded layer: a worker      *)
(* thread of the SDK makes the C callbacks at any moment, also between the *)
(* SDK call of an async method and its first look at the channel.  The     *)
(* methods take &self, so that any number of futures are pending at a time,*)
(* and they await the receiver: a task is polled again only because its    *)
(* waker was called.  The handle is a raw pointer, which makes client and  *)
(* futures neither Send nor Sync: the application's side is one thread.    *)
(*                                                                         *)
(* The client value can be cloned.  All clones have the one SDK handle,    *)
(* and the drop of each of them destroys it.                               *)
(***************************************************************************)
EXTENDS Naturals

CONSTANTS
  Requests,   \* the calls of async methods an application makes
  Copies,     \* client values: the first one and its clones
  First,      \* the value a constructor returned
  Codes,      \* what the SDK answers
  OK,         \* the code of success
  ERROR,      \* IOTHUB_CLIENT_ERROR
  DESTROYED,  \* the answer to what is pending when the handle is destroyed
  NoReply     \* "not answered"

ASSUME CodesAssumption ==
  /\ {OK, ERROR, DESTROYED} \subseteq Codes
  /\ OK # ERROR
  /\ NoReply \notin Codes

ASSUME CopiesAssumption == First \in Copies

VARIABLES
  copy,     \* each client value: "none", "live" or "dropped"
  handle,   \* the SDK handle: "live", "destroying", "destroyed" or "misused"
  owner,    \* the client value each future borrows
  fut,      \* the future of each call
  call,     \* which async method each call is
  box,      \* the boxed sender behind the context of each call
  slot,     \* the value in each oneshot channel
  waker,    \* whether each receiver has stored its task's waker
  woken,    \* whether each task has been told to poll
  sdk,      \* what the SDK knows of each call
  reply,    \* the SDK's answer to each call
  result    \* what each future returned

handleVars == <<copy, handle, owner>>
vars == <<handleVars, fut, call, box, slot, waker, woken, sdk, reply, result>>

-----------------------------------------------------------------------------
Okay(v) == [tag |-> "Ok", val |-> v]
Err(v) == [tag |-> "Err", val |-> v]
NoResult == [tag |-> "None", val |-> NoReply]
Results == [tag : {"Ok", "Err"}, val : Codes]

SendEventAsync == [sender |-> "Confirmation", callback |-> "confirmation_result"]
SendEventToOutputAsync == [sender |-> "Confirmation", callback |-> "confirmation_result"]
GetTwinAsync == [sender |-> "Twin", callback |-> "twin_received"]

Methods == {SendEventAsync, SendEventToOutputAsync, GetTwinAsync}
NoCall == [sender |-> "none", callback |-> "none"]

(* The type each C callback casts its context back to.                      *)
CastTo == [confirmation_result |-> "Confirmation", twin_received |-> "Twin"]

Alive == {"called", "submitted", "awaiting"}
Listening(r) == fut[r] \in {"submitted", "awaiting"}
Borrowed(k) == \E r \in Requests : fut[r] \in Alive /\ owner[r] = k

Init ==
  /\ copy = [k \in Copies |-> IF k = First THEN "live" ELSE "none"]
  /\ handle = "live"
  /\ owner = [r \in Requests |-> First]
  /\ fut = [r \in Requests |-> "uncalled"]
  /\ call = [r \in Requests |-> NoCall]
  /\ box = [r \in Requests |-> "none"]
  /\ slot = [r \in Requests |-> NoResult]
  /\ waker = [r \in Requests |-> FALSE]
  /\ woken = [r \in Requests |-> FALSE]
  /\ sdk = [r \in Requests |-> "idle"]
  /\ reply = [r \in Requests |-> NoReply]
  /\ result = [r \in Requests |-> NoResult]

-----------------------------------------------------------------------------
(* The application's thread is not inside a first poll or a drop.           *)
AtLarge ==
  /\ handle # "destroying"
  /\ \A r \in Requests : fut[r] # "submitted"

(* #[derive(Clone)] copies the handle.                                      *)
Clone(k, l) ==
  /\ AtLarge
  /\ copy[k] = "live"
  /\ copy[l] = "none"
  /\ copy' = [copy EXCEPT ![l] = "live"]
  /\ UNCHANGED <<handle, owner, fut, call, box, slot, waker, woken, sdk, reply, result>>

(* The application calls an async method of a client value.                 *)
Begin(r, k) ==
  /\ AtLarge
  /\ fut[r] = "uncalled"
  /\ copy[k] = "live"
  /\ fut' = [fut EXCEPT ![r] = "called"]
  /\ owner' = [owner EXCEPT ![r] = k]
  /\ UNCHANGED <<copy, handle, call, box, slot, waker, woken, sdk, reply, result>>

(* The first poll, up to the SDK call: the SDK takes the context...         *)
Accept(r, m) ==
  /\ AtLarge
  /\ handle = "live"
  /\ fut[r] = "called"
  /\ fut' = [fut EXCEPT ![r] = "submitted"]
  /\ call' = [call EXCEPT ![r] = m]
  /\ box' = [box EXCEPT ![r] = "held"]
  /\ sdk' = [sdk EXCEPT ![r] = "accepted"]
  /\ UNCHANGED <<handleVars, slot, waker, woken, reply, result>>

(* Mutant: the error path forgets the box.                                  *)
RefuseLeakingBox(r, m, e) ==
  /\ AtLarge
  /\ handle = "live"
  /\ fut[r] = "called"
  /\ e # OK
  /\ fut' = [fut EXCEPT ![r] = "returned"]
  /\ call' = [call EXCEPT ![r] = m]
  /\ box' = [box EXCEPT ![r] = "held"]
  /\ result' = [result EXCEPT ![r] = Err(e)]
  /\ UNCHANGED <<handleVars, slot, waker, woken, sdk, reply>>

(* Mutant: the code is returned bare.                                       *)
RefuseBare(r, m, e) ==
  /\ AtLarge
  /\ handle = "live"
  /\ fut[r] = "called"
  /\ e # OK
  /\ fut' = [fut EXCEPT ![r] = "returned"]
  /\ call' = [call EXCEPT ![r] = m]
  /\ box' = [box EXCEPT ![r] = "freed"]
  /\ result' = [result EXCEPT ![r] = e]
  /\ UNCHANGED <<handleVars, slot, waker, woken, sdk, reply>>

(* ... or refuses it, and the method frees the box and returns the error.   *)
Refuse(r, m, e) ==
  /\ AtLarge
  /\ handle = "live"
  /\ fut[r] = "called"
  /\ e # OK
  /\ fut' = [fut EXCEPT ![r] = "returned"]
  /\ call' = [call EXCEPT ![r] = m]
  /\ box' = [box EXCEPT ![r] = "freed"]
  /\ result' = [result EXCEPT ![r] = Err(e)]
  /\ UNCHANGED <<handleVars, slot, waker, woken, sdk, reply>>

(* An SDK call through a handle that another clone has destroyed.           *)
UseDestroyed(r) ==
  /\ AtLarge
  /\ handle = "destroyed"
  /\ fut[r] = "called"
  /\ handle' = "misused"
  /\ UNCHANGED <<copy, owner, fut, call, box, slot, waker, woken, sdk, reply, result>>

(* Box::from_raw(ctx) and the drop of the sender at the end of a callback.  *)
Reclaimed(r) == IF box[r] = "held" THEN "freed" ELSE "refreed"

(* Mutant: the answer does not wake its task.                               *)
CallbackNotWaking(r, v) ==
  /\ sdk[r] = "accepted"
  /\ handle = "destroying" => v = DESTROYED
  /\ sdk' = [sdk EXCEPT ![r] = "done"]
  /\ reply' = [reply EXCEPT ![r] = v]
  /\ box' = [box EXCEPT ![r] = Reclaimed(r)]
  /\ slot' = [slot EXCEPT ![r] = IF Listening(r) THEN Okay(v) ELSE @]
  /\ UNCHANGED <<handleVars, fut, call, waker, woken, result>>

(* Mutant: the callback drops the sender unused.                            *)
CallbackNotSending(r, v) ==
  /\ sdk[r] = "accepted"
  /\ handle = "destroying" => v = DESTROYED
  /\ sdk' = [sdk EXCEPT ![r] = "done"]
  /\ reply' = [reply EXCEPT ![r] = v]
  /\ box' = [box EXCEPT ![r] = Reclaimed(r)]
  /\ waker' = [waker EXCEPT ![r] = FALSE]
  /\ woken' = [woken EXCEPT ![r] = @ \/ waker[r]]
  /\ UNCHANGED <<handleVars, fut, call, slot, result>>

(***************************************************************************)
(* The worker thread calls back: the callback takes the box back, sends    *)
(* the answer if somebody still listens, and drops the sender, which wakes *)
(* the task whose waker the receiver has stored.                           *)
(***************************************************************************)
Callback(r, v) ==
  /\ sdk[r] = "accepted"
  /\ handle = "destroying" => v = DESTROYED
  /\ sdk' = [sdk EXCEPT ![r] = "done"]
  /\ reply' = [reply EXCEPT ![r] = v]
  /\ box' = [box EXCEPT ![r] = Reclaimed(r)]
  /\ slot' = [slot EXCEPT ![r] = IF Listening(r) THEN Okay(v) ELSE @]
  /\ waker' = [waker EXCEPT ![r] = FALSE]
  /\ woken' = [woken EXCEPT ![r] = @ \/ waker[r]]
  /\ UNCHANGED <<handleVars, fut, call, result>>

(* receiver.await: the value if there is one, Canceled (reported as ERROR)  *)
(* if the sender is gone without one, and otherwise the waker is stored.    *)
Received(r) ==
  IF slot[r] # NoResult THEN slot[r]
  ELSE IF box[r] = "held" THEN NoResult
  ELSE Err(ERROR)

(* Mutant: a poll that stores no waker.                                     *)
PollForgettingWaker(r) ==
  /\ fut[r] = "submitted" \/ (fut[r] = "awaiting" /\ AtLarge)
  /\ fut' = [fut EXCEPT ![r] = IF Received(r) = NoResult THEN "awaiting" ELSE "returned"]
  /\ slot' = [slot EXCEPT ![r] = NoResult]
  /\ woken' = [woken EXCEPT ![r] = FALSE]
  /\ result' = [result EXCEPT ![r] = Received(r)]
  /\ UNCHANGED <<handleVars, call, box, waker, sdk, reply>>

(* The first poll follows the SDK call; the executor makes the later ones.  *)
Poll(r) ==
  /\ fut[r] = "submitted" \/ (fut[r] = "awaiting" /\ AtLarge)
  /\ fut' = [fut EXCEPT ![r] = IF Received(r) = NoResult THEN "awaiting" ELSE "returned"]
  /\ slot' = [slot EXCEPT ![r] = NoResult]
  /\ waker' = [waker EXCEPT ![r] = Received(r) = NoResult]
  /\ woken' = [woken EXCEPT ![r] = FALSE]
  /\ result' = [result EXCEPT ![r] = Received(r)]
  /\ UNCHANGED <<handleVars, call, box, sdk, reply>>

(* Mutant: the future frees its box when dropped.                           *)
DropFutureFreeingBox(r) ==
  /\ AtLarge
  /\ fut[r] \in {"called", "awaiting"}
  /\ fut' = [fut EXCEPT ![r] = "cancelled"]
  /\ box' = [box EXCEPT ![r] = IF @ = "held" THEN "freed" ELSE @]
  /\ slot' = [slot EXCEPT ![r] = NoResult]
  /\ waker' = [waker EXCEPT ![r] = FALSE]
  /\ UNCHANGED <<handleVars, call, woken, sdk, reply, result>>

(* A future dropped between polls takes its receiver with it.               *)
DropFuture(r) ==
  /\ AtLarge
  /\ fut[r] \in {"called", "awaiting"}
  /\ fut' = [fut EXCEPT ![r] = "cancelled"]
  /\ slot' = [slot EXCEPT ![r] = NoResult]
  /\ waker' = [waker EXCEPT ![r] = FALSE]
  /\ UNCHANGED <<handleVars, call, box, woken, sdk, reply, result>>

-----------------------------------------------------------------------------
(* Mutant: futures that do not borrow the client.                           *)
DropWhileBorrowed(k) ==
  /\ AtLarge
  /\ copy[k] = "live"
  /\ copy' = [copy EXCEPT ![k] = "dropped"]
  /\ handle' = IF handle = "live" THEN "destroying" ELSE "misused"
  /\ UNCHANGED <<owner, fut, call, box, slot, waker, woken, sdk, reply, result>>

(* A client value is dropped, and destroys the handle it has...             *)
Drop(k) ==
  /\ AtLarge
  /\ copy[k] = "live"
  /\ ~Borrowed(k)
  /\ copy' = [copy EXCEPT ![k] = "dropped"]
  /\ handle' = IF handle = "live" THEN "destroying" ELSE "misused"
  /\ UNCHANGED <<owner, fut, call, box, slot, waker, woken, sdk, reply, result>>

(* ... which is done once all that was pending has been called back.        *)
Destroyed ==
  /\ handle = "destroying"
  /\ \A r \in Requests : sdk[r] # "accepted"
  /\ handle' = "destroyed"
  /\ UNCHANGED <<copy, owner, fut, call, box, slot, waker, woken, sdk, reply, result>>

Next ==
  /\ handle # "misused"
  /\ \/ \E k, l \in Copies : Clone(k, l)
     \/ \E r \in Requests :
          \/ \E k \in Copies : Begin(r, k)
          \/ \E m \in Methods : Accept(r, m)
          \/ \E m \in Methods, e \in Codes : Refuse(r, m, e)
          \/ UseDestroyed(r)
          \/ \E v \in Codes : Callback(r, v)
          \/ Poll(r)
          \/ DropFuture(r)
     \/ \E k \in Copies : Drop(k)
     \/ Destroyed

Spec == Init /\ [][Next]_vars

(***************************************************************************)
(* An executor finishes a poll it has begun and polls a task it was woken  *)
(* for (it may poll others too); the SDK answers what it accepted, and     *)
(* its Destroy returns.                                                    *)
(***************************************************************************)
Fairness ==
  /\ \A r \in Requests :
       WF_vars(handle # "misused" /\ (fut[r] = "submitted" \/ woken[r]) /\ Poll(r))
  /\ \A r \in Requests :
       WF_vars(handle # "misused" /\ \E v \in Codes : Callback(r, v))
  /\ WF_vars(Destroyed)

FairSpec == Spec /\ Fairness

-----------------------------------------------------------------------------
(* Types of the variables.                                                  *)
TypeOK ==
  /\ copy \in [Copies -> {"none", "live", "dropped"}]
  /\ handle \in {"live", "destroying", "destroyed", "misused"}
  /\ owner \in [Requests -> Copies]
  /\ fut \in [Requests -> Alive \cup {"uncalled", "returned", "cancelled"}]
  /\ call \in [Requests -> Methods \cup {NoCall}]
  /\ box \in [Requests -> {"none", "held", "freed", "refreed"}]
  /\ slot \in [Requests -> Results \cup {NoResult}]
  /\ waker \in [Requests -> BOOLEAN]
  /\ woken \in [Requests -> BOOLEAN]
  /\ sdk \in [Requests -> {"idle", "accepted", "done"}]
  /\ reply \in [Requests -> Codes \cup {NoReply}]
  /\ result \in [Requests -> Results \cup {NoResult}]

(* The worker thread only ever gets contexts that box an unreclaimed sender *)
(* of the type the callback casts to, whatever the futures do meanwhile,    *)
(* and reclaims none twice.                                                 *)
ContextSound ==
  \A r \in Requests :
    /\ box[r] # "refreed"
    /\ sdk[r] = "accepted" =>
         box[r] = "held" /\ call[r].sender = CastTo[call[r].callback]

(* No boxed sender outlives the handle.                                     *)
NoContextLeak ==
  handle = "destroyed" => \A r \in Requests : box[r] # "held"

(* Of all the calls in flight each returns its own answer, and none of them *)
(* the error that stands for a sender that vanished.                        *)
OwnAnswer ==
  \A r \in Requests :
    fut[r] = "returned" /\ sdk[r] # "idle" =>
      reply[r] # NoReply /\ result[r] = Okay(reply[r])

(* A task that waits for an answer that has come has been woken: the        *)
(* callback never slips between a poll and its waker.                       *)
NoLostWakeup ==
  \A r \in Requests : fut[r] = "awaiting" /\ sdk[r] = "done" => woken[r]

(* No wakeup is spurious: the poll that follows one returns the answer that *)
(* woke it, unless the future is dropped first; and any poll, the first     *)
(* included, leaves its future pending only for want of an answer.          *)
WakesResolve ==
  [][\A r \in Requests :
       /\ fut[r] = "awaiting" /\ woken[r] /\ ~woken'[r] =>
            fut'[r] = "returned" /\ result'[r] = Okay(reply[r])
       /\ Poll(r) => (fut'[r] = "returned" <=> sdk[r] = "done")]_vars

(* A future that was polled resolves unless it is dropped.                  *)
PolledResolves ==
  \A r \in Requests :
    Listening(r) ~> fut[r] \in {"returned", "cancelled"} \/ handle = "misused"

(* The borrow of its futures keeps a client's handle for as long as they    *)
(* need it: only a clone can make one be used or destroyed once it is gone. *)
OnlyClonesMisuse ==
  handle = "misused" => \E k \in Copies \ {First} : copy[k] # "none"

(* No client value, a clone or not, uses or destroys a handle that is gone. *)
HandleNeverMisused == handle # "misused"

-----------------------------------------------------------------------------
(* The refinement, as for the module client.                                *)
StatusOf(r) ==
  CASE fut[r] \in {"uncalled", "called"} -> "idle"
    [] Listening(r) -> "pending"
    [] fut[r] = "cancelled" -> "abandoned"
    [] fut[r] = "returned" -> IF sdk[r] = "idle" THEN "refused" ELSE "resolved"

Statuses == [r \in Requests |-> StatusOf(r)]
Kinds == [r \in Requests |-> "value"]
Replies == [r \in Requests |-> IF fut[r] = "cancelled" THEN NoReply ELSE reply[r]]

AR == INSTANCE AsyncRequest WITH status <- Statuses, kind <- Kinds, reply <- Replies

(* The device client too is an implementation of the abstract service, with *)
(* worker thread, wakers and clones in place of polling.                    *)
ImplementsRequests == AR!Spec
=============================================================================
