------------------------- MODULE DeviceClientProofs -------------------------
(***************************************************************************)
(* Proofs about the request path of IoTHubDeviceClient, for any number of  *)
(* concurrent calls, clones and codes.                                     *)
(*                                                                         *)
(* Here the channels do hold values between steps.  Slots says which: just *)
(* those of calls that were called back while their receiver was alive and *)
(* have not been polled since.  Wakers says that their tasks are awake.    *)
(***************************************************************************)
EXTENDS DeviceClient, TLAPS

Owned ==
  \A r \in Requests :
    box[r] # "refreed" /\ (sdk[r] = "accepted" <=> box[r] = "held")

(* How far the SDK is with a call, by how far its future is.                *)
Progress ==
  \A r \in Requests :
    /\ fut[r] \in {"uncalled", "called"} => sdk[r] = "idle"
    /\ Listening(r) => sdk[r] # "idle"
    /\ fut[r] = "returned" => sdk[r] # "accepted"
    /\ fut[r] # "returned" => result[r] = NoResult

Named == \A r \in Requests : sdk[r] # "idle" => call[r] \in Methods

Replied == \A r \in Requests : sdk[r] = "done" <=> reply[r] # NoReply

Slots ==
  \A r \in Requests :
    slot[r] = IF Listening(r) /\ sdk[r] = "done" THEN Okay(reply[r]) ELSE NoResult

Wakers ==
  \A r \in Requests :
    /\ fut[r] = "awaiting" => IF sdk[r] = "done" THEN woken[r] ELSE waker[r]
    /\ woken[r] => sdk[r] = "done"

(* Destroy returns only when nothing is pending, and nothing new is         *)
(* accepted afterwards.                                                     *)
Drained == handle = "destroyed" => \A r \in Requests : sdk[r] # "accepted"

IInv ==
  /\ TypeOK
  /\ Owned
  /\ Progress
  /\ Named
  /\ Replied
  /\ Slots
  /\ Wakers
  /\ OwnAnswer

(* Every async method names the callback that casts to the type it boxed.   *)
LEMMA MethodsSound == \A m \in Methods : m.sender = CastTo[m.callback]
<1>1. SendEventAsync.sender = CastTo[SendEventAsync.callback]
  BY DEF SendEventAsync, CastTo
<1>2. SendEventToOutputAsync.sender = CastTo[SendEventToOutputAsync.callback]
  BY DEF SendEventToOutputAsync, CastTo
<1>3. GetTwinAsync.sender = CastTo[GetTwinAsync.callback]
  BY DEF GetTwinAsync, CastTo
<1>4. QED  BY <1>1, <1>2, <1>3 DEF Methods

(* The answer that a channel carries is a result.                           *)
LEMMA OkayType == \A v \in Codes : Okay(v) \in Results /\ Okay(v) # NoResult
BY CodesAssumption DEF Okay, Results, NoResult

LEMMA InitInv == Init => IInv
BY CopiesAssumption
   DEF Init, IInv, TypeOK, Owned, Progress, Named, Replied, Slots, Wakers,
       OwnAnswer, Alive, Listening

(* A poll finds the answer exactly if the SDK has given it, and returns it; *)
(* otherwise it stores its waker.                                           *)
LEMMA PollEffect ==
  ASSUME IInv, NEW r \in Requests, Poll(r)
  PROVE  /\ Listening(r) /\ sdk[r] \in {"accepted", "done"}
         /\ Received(r) = slot[r]
         /\ sdk[r] = "accepted" =>
              /\ Received(r) = NoResult
              /\ fut'[r] = "awaiting" /\ result'[r] = NoResult /\ waker'[r]
         /\ sdk[r] = "done" =>
              /\ Received(r) # NoResult
              /\ fut'[r] = "returned" /\ result'[r] = Okay(reply[r])
<1> USE CodesAssumption DEF IInv, Owned, Progress, Replied, Slots, Listening
<1>1. Listening(r) /\ sdk[r] \in {"accepted", "done"}
  BY DEF Poll, TypeOK
<1>2. Received(r) = slot[r] /\ (slot[r] = NoResult <=> sdk[r] = "accepted")
  <2>1. CASE sdk[r] = "accepted"
    BY <1>1, <2>1 DEF Received
  <2>2. CASE sdk[r] = "done"
    <3>1. reply[r] \in Codes /\ slot[r] = Okay(reply[r])
      BY <1>1, <2>2 DEF TypeOK
    <3>2. QED  BY <2>2, <3>1, OkayType DEF Received
  <2>3. QED  BY <1>1, <2>1, <2>2
<1>3. /\ sdk[r] = "accepted" =>
           fut'[r] = "awaiting" /\ result'[r] = NoResult /\ waker'[r]
      /\ sdk[r] = "done" =>
           fut'[r] = "returned" /\ result'[r] = Okay(reply[r])
  BY <1>1, <1>2 DEF Poll, TypeOK
<1>4. QED  BY <1>1, <1>2, <1>3

LEMMA StepInv == IInv /\ [Next]_vars => IInv'
<1> SUFFICES ASSUME IInv, [Next]_vars PROVE IInv'
  OBVIOUS
<1> USE CodesAssumption
    DEF IInv, Owned, Progress, Named, Replied, Slots, Wakers, OwnAnswer,
        Listening
<1>1. ASSUME NEW k \in Copies, NEW l \in Copies, Clone(k, l) PROVE IInv'
  BY <1>1 DEF Clone, TypeOK
<1>2. ASSUME NEW r \in Requests, NEW k \in Copies, Begin(r, k) PROVE IInv'
  BY <1>2 DEF Begin, TypeOK, Alive
<1>3. ASSUME NEW r \in Requests, NEW m \in Methods, Accept(r, m) PROVE IInv'
  BY <1>3 DEF Accept, handleVars, TypeOK, Alive
<1>4. ASSUME NEW r \in Requests, NEW m \in Methods, NEW e \in Codes,
             Refuse(r, m, e)
      PROVE  IInv'
  BY <1>4 DEF Refuse, handleVars, TypeOK, Alive, Err, Results
<1>5. ASSUME NEW r \in Requests, UseDestroyed(r) PROVE IInv'
  BY <1>5 DEF UseDestroyed, TypeOK
<1>6. ASSUME NEW r \in Requests, NEW v \in Codes, Callback(r, v) PROVE IInv'
  BY <1>6, OkayType DEF Callback, handleVars, TypeOK, Reclaimed
<1>7. ASSUME NEW r \in Requests, Poll(r) PROVE IInv'
  <2>1. Listening(r) /\ sdk[r] \in {"accepted", "done"}
    BY <1>7, PollEffect
  <2>2. Received(r) = slot[r] /\ (slot[r] = NoResult <=> sdk[r] = "accepted")
    BY <1>7, PollEffect
  <2>3. TypeOK'
    BY <1>7, <2>2 DEF Poll, handleVars, TypeOK, Alive
  <2>4. (Owned /\ Named /\ Replied)'
    BY <1>7 DEF Poll
  <2>5. /\ UNCHANGED <<sdk, reply>> /\ slot'[r] = NoResult
        /\ sdk[r] = "accepted" =>
             fut'[r] = "awaiting" /\ result'[r] = NoResult /\ waker'[r]
        /\ sdk[r] = "done" =>
             fut'[r] = "returned" /\ result'[r] = Okay(reply[r])
    <3>1. UNCHANGED <<sdk, reply>>
      BY <1>7 DEF Poll
    <3>2. slot'[r] = NoResult
      BY <1>7 DEF Poll, TypeOK
    <3>3. QED  BY <1>7, <3>1, <3>2, PollEffect, Zenon DEF IInv
  <2>6. \A q \in Requests \ {r} :
          /\ fut'[q] = fut[q] /\ slot'[q] = slot[q] /\ result'[q] = result[q]
          /\ waker'[q] = waker[q] /\ woken'[q] = woken[q]
    BY <1>7 DEF Poll, TypeOK
  <2>7. (Progress /\ OwnAnswer)'
    BY <2>1, <2>5, <2>6
  <2>8. Slots'
    BY <2>1, <2>5, <2>6
  <2>9. Wakers'
    <3>1. woken'[r] = FALSE
      BY <1>7 DEF Poll, TypeOK
    <3>2. QED  BY <2>1, <2>5, <2>6, <3>1
  <2>10. QED  BY <2>3, <2>4, <2>7, <2>8, <2>9
<1>8. ASSUME NEW r \in Requests, DropFuture(r) PROVE IInv'
  BY <1>8 DEF DropFuture, handleVars, TypeOK, Alive
<1>9. ASSUME NEW k \in Copies, Drop(k) PROVE IInv'
  BY <1>9 DEF Drop, TypeOK
<1>10. CASE Destroyed
  BY <1>10 DEF Destroyed, TypeOK
<1>11. CASE UNCHANGED vars
  BY <1>11 DEF vars, handleVars, TypeOK
<1>12. QED
  BY <1>1, <1>2, <1>3, <1>4, <1>5, <1>6, <1>7, <1>8, <1>9, <1>10, <1>11 DEF Next

LEMMA Inductive == Spec => []IInv
BY InitInv, StepInv, PTL DEF Spec

-----------------------------------------------------------------------------
(* The variables keep their types.                                          *)
THEOREM TypeCorrect == Spec => []TypeOK
BY Inductive, PTL DEF IInv

(* The worker thread never gets a context that is freed or of another type. *)
THEOREM ContextsAreSound == Spec => []ContextSound
<1>1. IInv => ContextSound
  BY MethodsSound DEF IInv, Owned, Named, ContextSound
<1>2. QED  BY <1>1, Inductive, PTL

(* Every call that resolves returns its own answer.                         *)
THEOREM AnswersAreOwn == Spec => []OwnAnswer
BY Inductive, PTL DEF IInv

(* No wakeup is lost, whatever the order of polls and callbacks.            *)
THEOREM WakeupsAreNotLost == Spec => []NoLostWakeup
<1>1. IInv => NoLostWakeup
  BY DEF IInv, Wakers, NoLostWakeup
<1>2. QED  BY <1>1, Inductive, PTL

(* Whatever the order of polls and callbacks, a poll after a wakeup returns *)
(* the answer that woke it, and none leaves an answer behind.               *)
THEOREM WakeupsResolve == Spec => WakesResolve
<1> DEFINE Resolves(r) ==
      /\ fut[r] = "awaiting" /\ woken[r] /\ ~woken'[r] =>
           fut'[r] = "returned" /\ result'[r] = Okay(reply[r])
      /\ Poll(r) => (fut'[r] = "returned" <=> sdk[r] = "done")
<1>1. ASSUME IInv, [Next]_vars, NEW r \in Requests PROVE Resolves(r)
  <2>1. Poll(r) => /\ sdk[r] \in {"accepted", "done"}
                   /\ fut'[r] = "returned" <=> sdk[r] = "done"
                   /\ sdk[r] = "done" => result'[r] = Okay(reply[r])
    BY <1>1, PollEffect
  <2>2. ASSUME fut[r] = "awaiting", woken[r], ~woken'[r] PROVE Poll(r)
    <3>1. ASSUME NEW q \in Requests, Poll(q) PROVE q = r
      BY <1>1, <2>2, <3>1 DEF Poll, IInv, TypeOK
    <3>2. ASSUME NEW q \in Requests, NEW v \in Codes, Callback(q, v) PROVE FALSE
      BY <1>1, <2>2, <3>2 DEF Callback, IInv, TypeOK
    <3>3. UNCHANGED woken \/ \E q \in Requests : Poll(q)
      BY <1>1, <3>2
         DEF Next, vars, handleVars, Clone, Begin, Accept, Refuse, UseDestroyed,
             DropFuture, Drop, Destroyed
    <3>4. QED  BY <2>2, <3>1, <3>3
  <2>3. woken[r] => sdk[r] = "done"
    BY <1>1 DEF IInv, Wakers
  <2>4. QED  BY <2>1, <2>2, <2>3
<1> HIDE DEF Resolves
<1>2. IInv /\ [Next]_vars => [\A r \in Requests : Resolves(r)]_vars
  BY <1>1
<1>3. Spec => [][\A r \in Requests : Resolves(r)]_vars
  BY <1>2, Inductive, PTL DEF Spec
<1>4. QED  BY <1>3 DEF WakesResolve, Resolves

(* When Destroy has returned no boxed sender is left.                       *)
THEOREM ContextsDoNotLeak == Spec => []NoContextLeak
<1>1. Init => Drained
  BY DEF Init, Drained
<1>2. Drained /\ [Next]_vars => Drained'
  BY DEF Drained, Next, vars, handleVars, Clone, Begin, Accept, Refuse,
         UseDestroyed, Callback, Poll, DropFuture, Drop, Destroyed
<1>3. IInv /\ Drained => NoContextLeak
  BY DEF IInv, Owned, Drained, NoContextLeak
<1>4. QED  BY <1>1, <1>2, <1>3, Inductive, PTL DEF Spec

-----------------------------------------------------------------------------
(* A client that was never cloned: the borrow of every future keeps it, and *)
(* with it the handle, until nobody can use the handle any more.            *)
Uncloned == \A k \in Copies : k # First => copy[k] = "none"

Alone ==
  /\ copy[First] # "none"
  /\ Uncloned =>
       /\ handle = "live" <=> copy[First] = "live"
       /\ handle # "live" => \A r \in Requests : fut[r] # "called"
       /\ handle # "misused"
       /\ \A r \in Requests : owner[r] = First

LEMMA AloneStep == IInv /\ Alone /\ [Next]_vars => Alone'
<1> SUFFICES ASSUME IInv, Alone, [Next]_vars PROVE Alone'
  OBVIOUS
<1> USE CopiesAssumption DEF IInv, TypeOK, Alone, Uncloned
<1>1. ASSUME NEW k \in Copies, NEW l \in Copies, Clone(k, l) PROVE Alone'
  <2>1. l # First
    BY <1>1 DEF Clone
  <2>2. copy'[l] = "live" /\ copy'[First] = copy[First]
    BY <1>1, <2>1 DEF Clone
  <2>3. QED  BY <2>1, <2>2
<1>2. ASSUME NEW r \in Requests, NEW k \in Copies, Begin(r, k) PROVE Alone'
  BY <1>2 DEF Begin
<1>3. ASSUME NEW k \in Copies, Drop(k) PROVE Alone'
  BY <1>3 DEF Drop, Borrowed, Alive
<1>4. CASE Destroyed
  BY <1>4 DEF Destroyed
<1>5. CASE UNCHANGED vars
  BY <1>5 DEF vars, handleVars
<1>6. CASE \E r \in Requests :
             \/ \E m \in Methods : Accept(r, m)
             \/ \E m \in Methods, e \in Codes : Refuse(r, m, e)
             \/ UseDestroyed(r)
             \/ \E v \in Codes : Callback(r, v)
             \/ Poll(r)
             \/ DropFuture(r)
  BY <1>6 DEF Accept, Refuse, UseDestroyed, Callback, Poll, DropFuture,
              handleVars, Received
<1>7. QED  BY <1>1, <1>2, <1>3, <1>4, <1>5, <1>6 DEF Next

LEMMA AloneAlways == Spec => []Alone
<1>1. Init => Alone
  BY CopiesAssumption DEF Init, Alone, Uncloned
<1>2. QED  BY <1>1, AloneStep, Inductive, PTL DEF Spec

(* A handle is used after its destruction, or destroyed twice, only if the  *)
(* client was cloned.                                                       *)
THEOREM MisuseTakesAClone == Spec => []OnlyClonesMisuse
<1>1. Alone => OnlyClonesMisuse
  BY DEF Alone, Uncloned, OnlyClonesMisuse
<1>2. QED  BY <1>1, AloneAlways, PTL

(* Where clones are ruled out, so is any misuse of the handle.              *)
THEOREM UnclonedHandleIsSafe ==
  ASSUME Copies = {First} PROVE Spec => []HandleNeverMisused
<1>1. Alone => HandleNeverMisused
  BY DEF Alone, Uncloned, HandleNeverMisused
<1>2. QED  BY <1>1, AloneAlways, PTL

-----------------------------------------------------------------------------
(* The refinement.  A callback answers (or stutters, if its future is gone);*)
(* a poll that finds the answer resolves.                                   *)
LEMMA InitRefines == Init => AR!Init
BY DEF Init, AR!Init, Statuses, Kinds, Replies, StatusOf, Listening,
       NoResult, AR!NoResult

(* The mapped variables change only where the call's own variables do.      *)
LEMMA MappedAt ==
  ASSUME NEW r \in Requests,
         \A q \in Requests \ {r} :
           fut'[q] = fut[q] /\ sdk'[q] = sdk[q] /\ reply'[q] = reply[q]
  PROVE  /\ Statuses' = [Statuses EXCEPT ![r] = StatusOf(r)']
         /\ Replies' = [Replies EXCEPT ![r] = Replies'[r]]
         /\ Kinds' = Kinds
<1>1. \A q \in Requests \ {r} : StatusOf(q)' = StatusOf(q)
  BY DEF StatusOf, Listening
<1>2. QED  BY <1>1 DEF Statuses, Replies, Kinds

LEMMA MappedSame ==
  ASSUME NEW r \in Requests,
         \A q \in Requests \ {r} :
           fut'[q] = fut[q] /\ sdk'[q] = sdk[q] /\ reply'[q] = reply[q],
         StatusOf(r)' = StatusOf(r)
  PROVE  /\ Statuses' = Statuses
         /\ Replies'[r] = Replies[r] => Replies' = Replies
<1>1. \A q \in Requests : StatusOf(q)' = StatusOf(q)
  BY DEF StatusOf, Listening
<1>2. QED  BY <1>1 DEF Statuses, Replies

LEMMA StepRefines == IInv /\ IInv' /\ [Next]_vars => [AR!Next]_(AR!vars)
<1> SUFFICES ASSUME IInv, IInv', [Next]_vars PROVE [AR!Next]_(AR!vars)
  OBVIOUS
<1>1. ASSUME NEW r \in Requests, NEW k \in Copies, Begin(r, k)
      PROVE  UNCHANGED AR!vars
  <2>1. fut[r] = "uncalled" /\ fut'[r] = "called"
    BY <1>1 DEF Begin, IInv, TypeOK
  <2>2. StatusOf(r) = "idle" /\ StatusOf(r)' = "idle" /\ Replies'[r] = Replies[r]
    BY <1>1, <2>1 DEF Begin, StatusOf, Listening, Replies
  <2>3. Statuses' = Statuses /\ Replies' = Replies /\ Kinds' = Kinds
    BY <1>1, <2>2, MappedSame DEF Begin, IInv, TypeOK, Kinds
  <2>4. QED  BY <1>1, <2>3 DEF Begin, AR!vars
<1>2. ASSUME NEW r \in Requests, NEW m \in Methods, Accept(r, m)
      PROVE  AR!Accept(r, "value")
  <2>1. StatusOf(r) = "idle" /\ StatusOf(r)' = "pending" /\ Replies'[r] = Replies[r]
    BY <1>2 DEF Accept, StatusOf, Listening, Replies, IInv, TypeOK
  <2>2. /\ Statuses' = [Statuses EXCEPT ![r] = "pending"]
        /\ Replies' = Replies /\ Kinds' = Kinds
    BY <1>2, <2>1, MappedAt DEF Accept, IInv, TypeOK, Replies
  <2>3. Statuses[r] = "idle" /\ Kinds' = [Kinds EXCEPT ![r] = "value"]
    BY <2>1, <2>2 DEF Statuses, Kinds
  <2>4. QED  BY <1>2, <2>2, <2>3 DEF Accept, AR!Accept
<1>3. ASSUME NEW r \in Requests, NEW m \in Methods, NEW e \in Codes,
             Refuse(r, m, e)
      PROVE  AR!Refuse(r, e)
  <2>1. StatusOf(r) = "idle" /\ StatusOf(r)' = "refused" /\ Replies'[r] = Replies[r]
    BY <1>3 DEF Refuse, handleVars, StatusOf, Listening, Replies, IInv, TypeOK, Progress
  <2>2. /\ Statuses' = [Statuses EXCEPT ![r] = "refused"]
        /\ Replies' = Replies /\ Kinds' = Kinds
    BY <1>3, <2>1, MappedAt DEF Refuse, IInv, TypeOK, Replies
  <2>3. Statuses[r] = "idle"
    BY <2>1 DEF Statuses
  <2>4. QED  BY <1>3, <2>2, <2>3 DEF Refuse, Err, AR!Refuse, AR!Err
<1>4. ASSUME NEW r \in Requests, NEW v \in Codes, Callback(r, v)
      PROVE  AR!Answer(r, v) \/ UNCHANGED AR!vars
  <2>1. StatusOf(r)' = StatusOf(r) /\ fut[r] \notin {"uncalled", "called", "returned"}
    BY <1>4 DEF Callback, StatusOf, Listening, IInv, Progress
  <2>2. /\ Statuses' = Statuses /\ Kinds' = Kinds /\ result' = result
        /\ Replies' = [Replies EXCEPT ![r] = Replies'[r]]
    <3>1. \A q \in Requests \ {r} :
            fut'[q] = fut[q] /\ sdk'[q] = sdk[q] /\ reply'[q] = reply[q]
      BY <1>4 DEF Callback, IInv, TypeOK
    <3>2. result' = result
      BY <1>4 DEF Callback
    <3>3. QED  BY <2>1, <3>1, <3>2, MappedAt, MappedSame
  <2>3. CASE fut[r] = "cancelled"
    <3>1. Replies'[r] = Replies[r]
      BY <1>4, <2>3 DEF Callback, Replies
    <3>2. QED  BY <2>2, <3>1 DEF Replies, AR!vars
  <2>4. CASE fut[r] # "cancelled"
    <3>1. Statuses[r] = "pending"
      BY <2>1, <2>4 DEF Statuses, StatusOf, Listening, IInv, TypeOK, Alive
    <3>2. Replies[r] = NoReply /\ Replies'[r] = v
      BY <1>4, <2>4 DEF Callback, Replies, IInv, TypeOK, Replied
    <3>3. QED  BY <2>2, <3>1, <3>2 DEF AR!Answer
  <2>5. QED  BY <2>3, <2>4
<1>5. ASSUME NEW r \in Requests, Poll(r)
      PROVE  AR!Resolve(r) \/ UNCHANGED AR!vars
  <2>1. UNCHANGED <<sdk, reply>> /\ fut[r] \in {"submitted", "awaiting"}
    BY <1>5 DEF Poll
  <2>2. StatusOf(r) = "pending" /\ Statuses[r] = "pending"
    BY <2>1 DEF StatusOf, Listening, Statuses
  <2>3. CASE Received(r) = NoResult
    <3>1. fut' = [fut EXCEPT ![r] = "awaiting"] /\ result' = [result EXCEPT ![r] = NoResult]
      BY <1>5, <2>3 DEF Poll
    <3>2. StatusOf(r)' = "pending" /\ Replies'[r] = Replies[r]
      BY <2>1, <3>1 DEF StatusOf, Listening, Replies, IInv, TypeOK
    <3>3. Statuses' = Statuses /\ Replies' = Replies /\ Kinds' = Kinds
      BY <2>1, <2>2, <3>1, <3>2, MappedSame DEF IInv, TypeOK, Kinds
    <3>4. result' = result
      BY <2>1, <3>1 DEF IInv, TypeOK, Progress
    <3>5. QED  BY <3>3, <3>4 DEF AR!vars
  <2>4. CASE Received(r) # NoResult
    <3>1. /\ fut' = [fut EXCEPT ![r] = "returned"]
          /\ result' = [result EXCEPT ![r] = Received(r)]
      BY <1>5, <2>4 DEF Poll
    <3>2. /\ fut'[r] = "returned" /\ sdk[r] # "idle" /\ reply[r] # NoReply
          /\ result'[r] = Okay(reply[r])
      BY <2>1, <3>1 DEF IInv, TypeOK, Progress, OwnAnswer, Listening
    <3>3. StatusOf(r)' = "resolved" /\ Replies'[r] = Replies[r] /\ Replies[r] = reply[r]
      BY <2>1, <3>2 DEF StatusOf, Listening, Replies
    <3>4. /\ Statuses' = [Statuses EXCEPT ![r] = "resolved"]
          /\ Replies' = Replies /\ Kinds' = Kinds
      BY <2>1, <3>1, <3>3, MappedAt DEF IInv, TypeOK, Replies
    <3>5. result' = [result EXCEPT ![r] = AR!Reported(Kinds[r], Replies[r])]
      BY <3>1, <3>2, <3>3 DEF IInv, TypeOK, Kinds, AR!Reported, AR!Okay, Okay
    <3>6. QED  BY <2>2, <3>2, <3>3, <3>4, <3>5 DEF AR!Resolve
  <2>5. QED  BY <2>3, <2>4
<1>6. ASSUME NEW r \in Requests, DropFuture(r) PROVE AR!Abandon(r)
  <2>1. StatusOf(r) \in {"idle", "pending"} /\ StatusOf(r)' = "abandoned"
    BY <1>6 DEF DropFuture, StatusOf, Listening, IInv, TypeOK
  <2>2. Replies'[r] = NoReply
    BY <1>6 DEF DropFuture, Replies, IInv, TypeOK
  <2>3. /\ Statuses' = [Statuses EXCEPT ![r] = "abandoned"]
        /\ Replies' = [Replies EXCEPT ![r] = NoReply] /\ Kinds' = Kinds
    BY <1>6, <2>1, <2>2, MappedAt DEF DropFuture, IInv, TypeOK
  <2>4. Statuses[r] \in {"idle", "pending"}
    BY <2>1 DEF Statuses
  <2>5. QED  BY <1>6, <2>3, <2>4 DEF DropFuture, AR!Abandon
<1>7. CASE UNCHANGED <<fut, sdk, reply, result>>
  <2>1. \A r \in Requests : StatusOf(r)' = StatusOf(r)
    BY <1>7 DEF StatusOf, Listening
  <2>2. QED  BY <1>7, <2>1 DEF Statuses, Replies, Kinds, AR!vars
<1>8. CASE \/ \E k, l \in Copies : Clone(k, l)
           \/ \E r \in Requests : UseDestroyed(r)
           \/ \E k \in Copies : Drop(k)
           \/ Destroyed
           \/ UNCHANGED vars
  BY <1>7, <1>8 DEF Clone, UseDestroyed, Drop, Destroyed, vars
<1>9. QED
  BY <1>1, <1>2, <1>3, <1>4, <1>5, <1>6, <1>8 DEF Next, AR!Next

(* Every behaviour of the device client, clones and misuse included, is one *)
(* of the abstract service.                                                 *)
THEOREM Refinement == Spec => ImplementsRequests
BY InitRefines, StepRefines, Inductive, PTL DEF Spec, AR!Spec, ImplementsRequests
=============================================================================
