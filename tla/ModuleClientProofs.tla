------------------------- MODULE ModuleClientProofs -------------------------
(***************************************************************************)
(* Proofs about the request path of IotHubModuleClient, for any number of  *)
(* calls and any set of codes.                                             *)
(*                                                                         *)
(* Every safety property follows from one inductive invariant, IInv.  Its  *)
(* heart is Owned, which says that the SDK waits to call back exactly      *)
(* those calls whose box is held, and LoneFuture, which says that futures  *)
(* never overlap (they borrow the client mutably): a callback that finds   *)
(* its receiver alive is therefore made inside that receiver's own poll,   *)
(* and the channels are empty between any two steps.                       *)
(***************************************************************************)
EXTENDS ModuleClient, TLAPS

Waiting == {"accepted", "answered"}
Served == {"done", "subscribed", "update"}

(* The mutable borrow: one future at a time, and none under do_work or      *)
(* after the drop of the client.                                            *)
LoneFuture ==
  /\ \A r, q \in Requests : fut[r] \in Alive /\ fut[q] \in Alive => r = q
  /\ client # "live" => ~Borrowed

ChannelsEmpty == \A r \in Requests : slot[r] = NoResult

Owned == \A r \in Requests : sdk[r] \in Waiting <=> box[r] = "held"

(* Before its first poll a call is unknown to the SDK; between polls the    *)
(* SDK has it; once it returned, either was it never accepted or it is      *)
(* served.                                                                  *)
Progress ==
  \A r \in Requests :
    /\ fut[r] \in {"uncalled", "called"} => sdk[r] = "idle"
    /\ Listening(r) => sdk[r] \in Waiting
    /\ fut[r] = "returned" => sdk[r] = "idle" \/ sdk[r] \in Served
    /\ fut[r] # "returned" => result[r] = NoResult

Named == \A r \in Requests : sdk[r] # "idle" => call[r] \in Methods

Replied ==
  \A r \in Requests : sdk[r] \in {"idle", "accepted"} <=> reply[r] = NoReply

(* Only a subscription is called back again, and nothing is after Destroy.  *)
Subscribed ==
  /\ \A r \in Requests :
       sdk[r] \in {"subscribed", "update"} \/ box[r] = "refreed" => call[r].again
  /\ client = "dropped" => \A r \in Requests : sdk[r] \in {"idle", "done"}

IInv ==
  /\ TypeOK
  /\ LoneFuture
  /\ ChannelsEmpty
  /\ Owned
  /\ Progress
  /\ Named
  /\ Replied
  /\ Subscribed
  /\ OwnAnswer

-----------------------------------------------------------------------------
(* Every async method names the callback that casts its context back to the *)
(* very type it boxed.                                                      *)
LEMMA MethodsSound ==
  \A m \in Methods : m.sender = CastTo[m.callback] /\ m.again \in BOOLEAN
<1> DEFINE Sound(m) == m.sender = CastTo[m.callback] /\ m.again \in BOOLEAN
<1>1. Sound(SendEventAsync)
  BY DEF SendEventAsync, CastTo
<1>2. Sound(SendEventToOutputAsync) /\ Sound(SendTelemetryAsync)
  BY DEF SendEventToOutputAsync, SendTelemetryAsync, CastTo
<1>3. Sound(SendPropertiesAsync)
  BY DEF SendPropertiesAsync, CastTo
<1>4. Sound(GetTwinAsync)
  BY DEF GetTwinAsync, CastTo
<1>5. Sound(GetPropertiesAsync) /\ Sound(GetPropertiesAndSubscribe)
  BY DEF GetPropertiesAsync, GetPropertiesAndSubscribe, CastTo
<1> HIDE DEF Sound
<1>6. \A m \in Methods : Sound(m)
  BY <1>1, <1>2, <1>3, <1>4, <1>5 DEF Methods
<1>7. QED  BY <1>6 DEF Sound

(* What a callback sends for a code is a result, and no empty one.          *)
LEMMA SentType ==
  \A c, v : v \in Codes => Sent(c, v) \in Results /\ Sent(c, v) # NoResult
BY CodesAssumption
   DEF Sent, CheckSdkResult, Okay, Err, Results, NoResult

(* After DoWork, the calls that were due are served, the others untouched.  *)
LEMMA CallbacksEffect ==
  ASSUME TypeOK, IInv, RunCallbacks, NEW r \in Requests
  PROVE  /\ r \notin Due => box'[r] = box[r] /\ sdk'[r] = sdk[r]
         /\ r \in Due => /\ sdk'[r] = IF call[r].again THEN "subscribed" ELSE "done"
                         /\ sdk[r] = "answered" => box'[r] = "freed"
                         /\ sdk[r] = "update" => box'[r] \in {"freed", "refreed"}
BY DEF TypeOK, IInv, Owned, Waiting, RunCallbacks, Due, Reclaimed

LEMMA CallbacksType ==
  ASSUME TypeOK, RunCallbacks
  PROVE  /\ box' \in [Requests -> {"none", "held", "freed", "refreed"}]
         /\ sdk' \in [Requests -> {"idle", "accepted", "answered", "done", "subscribed", "update"}]
BY DEF TypeOK, RunCallbacks, Reclaimed

(* A poll of an answered call takes the answer, one of a call that still    *)
(* waits finds nothing; and there is no other future to answer.             *)
LEMMA PollEffect ==
  ASSUME IInv, NEW r \in Requests, Poll(r)
  PROVE  /\ Listening(r) /\ sdk[r] \in Waiting /\ client = "live"
         /\ \A q \in Requests : fut[q] \in Alive => q = r
         /\ sdk[r] = "accepted" => /\ TryRecv(r) = NoResult
                                  /\ fut'[r] = "awaiting"
                                  /\ sdk'[r] = "accepted"
         /\ sdk[r] = "answered" => /\ reply[r] \in Codes
                                  /\ TryRecv(r) = Sent(call[r].callback, reply[r])
                                  /\ TryRecv(r) \in Results
                                  /\ TryRecv(r) # NoResult
                                  /\ fut'[r] = "returned"
                                  /\ result'[r] = TryRecv(r)
                                  /\ sdk'[r] \in Served
<1> USE DEF IInv, LoneFuture, ChannelsEmpty, Owned, Progress, Replied,
            Waiting, Served, Alive, Listening, Borrowed
<1>1. /\ Listening(r) /\ sdk[r] \in Waiting /\ client = "live"
      /\ \A q \in Requests : fut[q] \in Alive => q = r
  BY DEF Poll
<1>2. sdk[r] = "accepted" => /\ TryRecv(r) = NoResult
                             /\ sdk'[r] = "accepted"
  BY <1>1, CallbacksEffect DEF Poll, TryRecv, SlotsAfterCallbacks, Due
<1>3. sdk[r] = "answered" => /\ reply[r] \in Codes
                             /\ TryRecv(r) = Sent(call[r].callback, reply[r])
                             /\ TryRecv(r) \in Results
                             /\ TryRecv(r) # NoResult
                             /\ sdk'[r] \in Served
  BY <1>1, CallbacksEffect, SentType
     DEF Poll, TryRecv, SlotsAfterCallbacks, Due, TypeOK
<1>4. /\ fut'[r] = IF TryRecv(r) = NoResult THEN "awaiting" ELSE "returned"
      /\ result'[r] = TryRecv(r)
  BY DEF Poll, TypeOK
<1>5. QED  BY <1>1, <1>2, <1>3, <1>4

-----------------------------------------------------------------------------
LEMMA InitInv == Init => IInv
BY DEF Init, IInv, TypeOK, LoneFuture, ChannelsEmpty, Owned, Progress, Named,
       Replied, Subscribed, OwnAnswer, Waiting, Served, Alive, Listening,
       Borrowed, NoResult, Results

(* Each step keeps the invariant.  Only Poll, DoWorkOnce and DropClient     *)
(* make callbacks, and the last two while no receiver is alive.             *)
LEMMA StepInv == IInv /\ [Next]_vars => IInv'
<1> SUFFICES ASSUME IInv, [Next]_vars PROVE IInv'
  OBVIOUS
<1> USE DEF IInv, LoneFuture, ChannelsEmpty, Owned, Progress, Named, Replied,
            Subscribed, OwnAnswer, Waiting, Served, Alive, Listening, Borrowed
<1>1. ASSUME NEW r \in Requests, Begin(r) PROVE IInv'
  BY <1>1 DEF Begin, TypeOK
<1>2. ASSUME NEW r \in Requests, NEW m \in Methods, Accept(r, m) PROVE IInv'
  BY <1>2 DEF Accept, TypeOK
<1>3. ASSUME NEW r \in Requests, NEW m \in Methods, NEW e \in Codes,
             Refuse(r, m, e)
      PROVE  IInv'
  BY <1>3 DEF Refuse, TypeOK, Err, Results
<1>4. ASSUME NEW r \in Requests, NEW v \in Codes, Answer(r, v) PROVE IInv'
  BY <1>4, CodesAssumption DEF Answer, TypeOK
<1>5. ASSUME NEW r \in Requests, Update(r) PROVE IInv'
  BY <1>5 DEF Update, TypeOK
<1>6. ASSUME NEW r \in Requests, Poll(r) PROVE IInv'
  <2>1. /\ Listening(r) /\ sdk[r] \in Waiting /\ client = "live"
        /\ \A q \in Requests : fut[q] \in Alive => q = r
    BY <1>6, PollEffect
  <2>2. sdk[r] = "accepted" => TryRecv(r) = NoResult /\ sdk'[r] = "accepted"
    BY <1>6, PollEffect
  <2>3. sdk[r] = "answered" => /\ reply[r] \in Codes
                               /\ TryRecv(r) = Sent(call[r].callback, reply[r])
                               /\ TryRecv(r) \in Results
                               /\ TryRecv(r) # NoResult
                               /\ sdk'[r] \in Served
    BY <1>6, PollEffect
  <2>4. \A q \in Requests : q # r => SlotsAfterCallbacks[q] = NoResult
    BY <2>1 DEF SlotsAfterCallbacks
  <2>5. /\ slot' \in [Requests -> Results \cup {NoResult}]
        /\ ChannelsEmpty'
    <3>1. slot' = [SlotsAfterCallbacks EXCEPT ![r] = NoResult]
      BY <1>6 DEF Poll
    <3>2. \A q \in Requests : slot'[q] = NoResult
      BY <3>1, <2>4 DEF SlotsAfterCallbacks
    <3>3. slot' = [q \in Requests |-> slot'[q]]
      BY <3>1 DEF SlotsAfterCallbacks
    <3>4. QED  BY <3>2, <3>3
  <2>6. TypeOK'
    BY <1>6, <2>1, <2>2, <2>3, <2>5, CallbacksType DEF Poll, TypeOK
  <2>7. LoneFuture'
    BY <1>6, <2>1 DEF Poll, TypeOK
  <2>8. (Owned /\ Named /\ Replied /\ Subscribed)'
    BY <1>6, <2>1, CallbacksEffect, MethodsSound DEF Poll, Due, TypeOK
  <2>9. (Progress /\ OwnAnswer)'
    BY <1>6, <2>1, <2>2, <2>3, CallbacksEffect DEF Poll, Due, TypeOK
  <2>10. QED  BY <2>5, <2>6, <2>7, <2>8, <2>9
<1>7. ASSUME NEW r \in Requests, DropFuture(r) PROVE IInv'
  BY <1>7 DEF DropFuture, TypeOK
<1>8. CASE DoWorkOnce
  <2>1. client # "dropped" /\ \A q \in Requests : fut[q] \notin Alive
    BY <1>8 DEF DoWorkOnce
  <2>2. SlotsAfterCallbacks = [q \in Requests |-> NoResult]
    BY <2>1 DEF SlotsAfterCallbacks
  <2>3. TypeOK' /\ ChannelsEmpty'
    BY <1>8, <2>2, CallbacksType DEF DoWorkOnce, TypeOK
  <2>4. LoneFuture'
    BY <1>8 DEF DoWorkOnce
  <2>5. (Owned /\ Named /\ Replied /\ Subscribed)'
    BY <1>8, <2>1, CallbacksEffect, MethodsSound DEF DoWorkOnce, Due, TypeOK
  <2>6. (Progress /\ OwnAnswer)'
    BY <1>8, <2>1, CallbacksEffect DEF DoWorkOnce, Due, TypeOK
  <2>7. QED  BY <2>3, <2>4, <2>5, <2>6
<1>9. CASE DoWork
  BY <1>9 DEF DoWork, TypeOK
<1>10. CASE DropClient
  <2>1. client = "live" /\ \A q \in Requests : fut[q] \notin Alive
    BY <1>10 DEF DropClient
  <2>2. TypeOK'
    BY <1>10, CodesAssumption DEF DropClient, TypeOK, Reclaimed
  <2>3. (LoneFuture /\ ChannelsEmpty)'
    BY <1>10 DEF DropClient
  <2>4. (Owned /\ Named /\ Replied /\ Subscribed)'
    BY <1>10, <2>1, CodesAssumption DEF DropClient, TypeOK, Reclaimed
  <2>5. (Progress /\ OwnAnswer)'
    BY <1>10, <2>1 DEF DropClient, TypeOK
  <2>6. QED  BY <2>2, <2>3, <2>4, <2>5
<1>11. CASE UNCHANGED vars
  BY <1>11 DEF vars, TypeOK
<1>12. QED
  BY <1>1, <1>2, <1>3, <1>4, <1>5, <1>6, <1>7, <1>8, <1>9, <1>10, <1>11 DEF Next

LEMMA Inductive == Spec => []IInv
BY InitInv, StepInv, PTL DEF Spec

-----------------------------------------------------------------------------
(* The variables keep their types through every step of every action.       *)
THEOREM TypeCorrect == Spec => []TypeOK
BY Inductive, PTL DEF IInv

(* No C callback is ever handed a context that was freed before, or that    *)
(* boxes a sender of another type than the one it casts to.                 *)
THEOREM ContextsAreSound == Spec => []ContextSound
<1>1. IInv => ContextSound
  BY MethodsSound DEF IInv, Owned, Named, Waiting, ContextSound
<1>2. QED  BY <1>1, Inductive, PTL

(* Only the context of a property subscription can be reclaimed twice.      *)
THEOREM OnlySubscriptionsReclaimTwice == Spec => []ReclaimedOnce
<1>1. IInv => ReclaimedOnce
  BY DEF IInv, Subscribed, ReclaimedOnce
<1>2. QED  BY <1>1, Inductive, PTL

(* When the client is gone no boxed sender is left.                         *)
THEOREM ContextsDoNotLeak == Spec => []NoContextLeak
<1>1. IInv => NoContextLeak
  BY DEF IInv, Subscribed, Owned, Waiting, NoContextLeak
<1>2. QED  BY <1>1, Inductive, PTL

(* Every call that resolves returns its own answer.                         *)
THEOREM AnswersAreOwn == Spec => []OwnAnswer
BY Inductive, PTL DEF IInv

(* Whatever other calls wait for, a call that somebody still awaits is      *)
(* called back in its own poll, and that poll returns the answer.           *)
THEOREM AnswersArriveInOwnPoll == Spec => AnsweredInOwnPoll
<1> DEFINE Decides(r) ==
      /\ Listening(r) /\ sdk[r] = "answered" /\ sdk'[r] # "answered" =>
           /\ fut'[r] = "returned"
           /\ result'[r] = Sent(call[r].callback, reply[r])
      /\ Poll(r) => (fut'[r] = "returned" <=> sdk[r] = "answered")
<1>1. ASSUME IInv, [Next]_vars, NEW r \in Requests PROVE Decides(r)
  <2>1. Poll(r) => /\ fut'[r] = "returned" <=> sdk[r] = "answered"
                   /\ sdk[r] = "answered" => result'[r] = Sent(call[r].callback, reply[r])
    BY <1>1, PollEffect DEF Waiting
  <2>2. ASSUME Listening(r), sdk[r] = "answered", sdk'[r] # "answered" PROVE Poll(r)
    <3>1. ASSUME NEW q \in Requests, Poll(q) PROVE q = r
      BY <1>1, <2>2, <3>1, PollEffect DEF Listening, Alive
    <3>2. Borrowed
      BY <2>2 DEF Borrowed, Listening, Alive
    <3>3. ~Begin(r) /\ ~DoWorkOnce /\ ~DoWork /\ ~DropClient
      BY <2>2, <3>2 DEF Begin, DoWorkOnce, DoWork, DropClient
    <3>4. ASSUME NEW q \in Requests, NEW m \in Methods, Accept(q, m) PROVE FALSE
      BY <1>1, <2>2, <3>4 DEF Accept, Listening, IInv, TypeOK
    <3>5. ASSUME NEW q \in Requests, NEW v \in Codes, Answer(q, v) PROVE FALSE
      BY <1>1, <2>2, <3>5 DEF Answer, IInv, TypeOK
    <3>6. ASSUME NEW q \in Requests, Update(q) PROVE FALSE
      BY <1>1, <2>2, <3>6 DEF Update, IInv, TypeOK
    <3>7. UNCHANGED sdk \/ \E q \in Requests : Poll(q)
      BY <1>1, <3>3, <3>4, <3>5, <3>6
         DEF Next, vars, Begin, Refuse, DropFuture
    <3>8. QED  BY <2>2, <3>1, <3>7
  <2>3. QED  BY <2>1, <2>2
<1> HIDE DEF Decides
<1>2. IInv /\ [Next]_vars => [\A r \in Requests : Decides(r)]_vars
  BY <1>1
<1>3. Spec => [][\A r \in Requests : Decides(r)]_vars
  BY <1>2, Inductive, PTL DEF Spec
<1>4. QED  BY <1>3 DEF AnsweredInOwnPoll, Decides

-----------------------------------------------------------------------------
(* Without property updates nothing is called back a second time.           *)
Quiet == \A r \in Requests : sdk[r] # "update" /\ box[r] # "refreed"

LEMMA QuietStep ==
  ASSUME ~UpdatesFollow PROVE IInv /\ Quiet /\ [Next]_vars => Quiet'
<1> SUFFICES ASSUME IInv, Quiet, [Next]_vars PROVE Quiet'
  OBVIOUS
<1>1. ASSUME RunCallbacks PROVE Quiet'
  <2>1. ASSUME NEW r \in Requests PROVE sdk'[r] # "update" /\ box'[r] # "refreed"
    <3>1. TypeOK
      BY DEF IInv
    <3>2. r \in Due => sdk[r] = "answered"
      BY DEF Due, Quiet
    <3>3. QED  BY <1>1, <3>1, <3>2, CallbacksEffect DEF Quiet
  <2>2. QED  BY <2>1 DEF Quiet
<1>2. CASE DropClient
  BY <1>2 DEF DropClient, Quiet, Reclaimed, IInv, Owned, Waiting
<1>3. CASE DoWorkOnce \/ \E r \in Requests : Poll(r)
  BY <1>1, <1>3 DEF DoWorkOnce, Poll
<1>4. ASSUME NEW r \in Requests, NEW m \in Methods, Accept(r, m) PROVE Quiet'
  BY <1>4 DEF Accept, Quiet, IInv, TypeOK
<1>5. ASSUME NEW r \in Requests, NEW m \in Methods, NEW e \in Codes,
             Refuse(r, m, e)
      PROVE  Quiet'
  BY <1>5 DEF Refuse, Quiet, IInv, TypeOK
<1>6. ASSUME NEW r \in Requests, NEW v \in Codes, Answer(r, v) PROVE Quiet'
  BY <1>6 DEF Answer, Quiet, IInv, TypeOK
<1>7. CASE UNCHANGED <<box, sdk>>
  BY <1>7 DEF Quiet
<1>8. QED
  BY <1>2, <1>3, <1>4, <1>5, <1>6, <1>7
     DEF Next, vars, Begin, Update, DropFuture, DoWork

(* An application whose subscriptions see no update reclaims every context  *)
(* once, those of subscriptions included: of all that can happen to a       *)
(* context only an update breaks what the callbacks of moduleclient.rs rely *)
(* on.                                                                      *)
THEOREM WithoutUpdatesReclaimedOnce ==
  ASSUME ~UpdatesFollow PROVE Spec => []EveryContextReclaimedOnce
<1>1. Init => Quiet
  BY DEF Init, Quiet
<1>2. Quiet => EveryContextReclaimedOnce
  BY DEF Quiet, EveryContextReclaimedOnce
<1>3. QED  BY <1>1, <1>2, QuietStep, Inductive, PTL DEF Spec

-----------------------------------------------------------------------------
(* The refinement: Accept, Refuse, Answer, a poll that resolves and the     *)
(* drop of a future are the steps of the abstract service; the others, and  *)
(* whatever happens to a cancelled call, stutter.                           *)
LEMMA InitRefines == Init => AR!Init
BY DEF Init, AR!Init, Statuses, Kinds, Replies, StatusOf, KindOf, Listening,
       NoResult, AR!NoResult

(* The mapped variables change only where the call's own variables do.      *)
LEMMA MappedAt ==
  ASSUME NEW r \in Requests,
         \A q \in Requests \ {r} :
           /\ fut'[q] = fut[q] /\ call'[q] = call[q] /\ result'[q] = result[q]
           /\ fut[q] # "cancelled" => reply'[q] = reply[q]
           /\ sdk'[q] = "idle" <=> sdk[q] = "idle"
  PROVE  /\ Statuses' = [Statuses EXCEPT ![r] = StatusOf(r)']
         /\ Kinds' = [Kinds EXCEPT ![r] = KindOf(r)']
         /\ Replies' = [Replies EXCEPT ![r] = Replies'[r]]
<1>1. \A q \in Requests \ {r} : StatusOf(q)' = StatusOf(q)
  BY DEF StatusOf, Listening
<1>2. \A q \in Requests \ {r} : KindOf(q)' = KindOf(q)
  BY DEF KindOf
<1>3. QED
  BY <1>1, <1>2 DEF Statuses, Kinds, Replies

(* A step that leaves every call's own variables alone stutters.            *)
LEMMA MappedStutter ==
  ASSUME UNCHANGED <<fut, call, result>>,
         \A q \in Requests :
           /\ fut[q] # "cancelled" => reply'[q] = reply[q]
           /\ sdk'[q] = "idle" <=> sdk[q] = "idle"
  PROVE  UNCHANGED AR!vars
<1>1. \A q \in Requests : StatusOf(q)' = StatusOf(q) /\ KindOf(q)' = KindOf(q)
  BY DEF StatusOf, KindOf, Listening
<1>2. QED
  BY <1>1 DEF Statuses, Kinds, Replies, AR!vars

LEMMA StepRefines == IInv /\ IInv' /\ [Next]_vars => [AR!Next]_(AR!vars)
<1> SUFFICES ASSUME IInv, IInv', [Next]_vars PROVE [AR!Next]_(AR!vars)
  OBVIOUS
<1>1. ASSUME NEW r \in Requests, Begin(r) PROVE UNCHANGED AR!vars
  <2>1. \A q \in Requests : StatusOf(q)' = StatusOf(q)
    <3>1. \A q \in Requests \ {r} : fut'[q] = fut[q]
      BY <1>1 DEF Begin, IInv, TypeOK
    <3>2. \A q \in Requests \ {r} : StatusOf(q)' = StatusOf(q)
      BY <1>1, <3>1 DEF Begin, StatusOf, Listening
    <3>3. fut[r] = "uncalled" /\ fut'[r] = "called"
      BY <1>1 DEF Begin, IInv, TypeOK
    <3>4. StatusOf(r) = "idle" /\ StatusOf(r)' = "idle"
      BY <3>3 DEF StatusOf, Listening
    <3>5. QED  BY <3>2, <3>4
  <2>2. \A q \in Requests : KindOf(q)' = KindOf(q)
    BY <1>1 DEF Begin, KindOf
  <2>3. Replies' = Replies
    BY <1>1 DEF Begin, Replies, IInv, TypeOK
  <2>4. QED  BY <1>1, <2>1, <2>2, <2>3 DEF Begin, Statuses, Kinds, AR!vars
<1>2. ASSUME NEW r \in Requests, NEW m \in Methods, Accept(r, m)
      PROVE  \E k \in {"status", "value"} : AR!Accept(r, k)
  <2>1. StatusOf(r) = "idle" /\ StatusOf(r)' = "pending"
    BY <1>2 DEF Accept, StatusOf, Listening, IInv, TypeOK
  <2>2. KindOf(r)' \in {"status", "value"}
    BY DEF KindOf
  <2>3. /\ Statuses' = [Statuses EXCEPT ![r] = "pending"]
        /\ Kinds' = [Kinds EXCEPT ![r] = KindOf(r)']
    <3>1. \A q \in Requests \ {r} :
            /\ fut'[q] = fut[q] /\ call'[q] = call[q] /\ result'[q] = result[q]
            /\ reply'[q] = reply[q]
            /\ sdk'[q] = "idle" <=> sdk[q] = "idle"
      BY <1>2 DEF Accept, IInv, TypeOK
    <3>2. QED  BY <2>1, <3>1, MappedAt
  <2>4. Replies' = Replies /\ result' = result
    BY <1>2 DEF Accept, Replies, IInv, TypeOK
  <2>5. Statuses[r] = "idle"
    BY <2>1 DEF Statuses
  <2>6. QED  BY <2>2, <2>3, <2>4, <2>5 DEF AR!Accept
<1>3. ASSUME NEW r \in Requests, NEW m \in Methods, NEW e \in Codes,
             Refuse(r, m, e)
      PROVE  AR!Refuse(r, e)
  <2>1. StatusOf(r) = "idle" /\ StatusOf(r)' = "refused"
    BY <1>3 DEF Refuse, StatusOf, Listening, IInv, TypeOK, Progress
  <2>2. KindOf(r)' = KindOf(r)
    BY <1>3 DEF Refuse, KindOf, IInv, Progress
  <2>3. /\ Statuses' = [Statuses EXCEPT ![r] = "refused"]
        /\ Kinds' = [Kinds EXCEPT ![r] = KindOf(r)]
    BY <1>3, <2>1, <2>2, MappedAt DEF Refuse, IInv, TypeOK
  <2>4. Replies' = Replies
    BY <1>3 DEF Refuse, Replies, IInv, TypeOK
  <2>5. Statuses[r] = "idle" /\ Kinds' = Kinds
    BY <2>1, <2>3 DEF Statuses, Kinds
  <2>6. QED
    BY <1>3, <2>3, <2>4, <2>5 DEF Refuse, Err, AR!Refuse, AR!Err
<1>4. ASSUME NEW r \in Requests, NEW v \in Codes, Answer(r, v)
      PROVE  AR!Answer(r, v) \/ UNCHANGED AR!vars
  <2>1. CASE fut[r] = "cancelled"
    <3>1. UNCHANGED <<fut, call, result>>
      BY <1>4 DEF Answer
    <3>2. \A q \in Requests :
            /\ fut[q] # "cancelled" => reply'[q] = reply[q]
            /\ sdk'[q] = "idle" <=> sdk[q] = "idle"
      BY <1>4, <2>1 DEF Answer, IInv, TypeOK
    <3>3. QED  BY <3>1, <3>2, MappedStutter
  <2>2. CASE fut[r] # "cancelled"
    <3>1. Listening(r)
      BY <1>4, <2>2
         DEF Answer, IInv, TypeOK, Progress, Listening, Waiting, Served, Alive
    <3>2. StatusOf(r) = "pending" /\ StatusOf(r)' = "pending"
      BY <1>4, <3>1 DEF Answer, StatusOf, Listening
    <3>3. KindOf(r)' = KindOf(r) /\ Replies[r] = NoReply /\ Replies'[r] = v
      BY <1>4, <2>2 DEF Answer, KindOf, Replies, IInv, TypeOK, Replied
    <3>4. /\ Statuses' = [Statuses EXCEPT ![r] = "pending"]
          /\ Kinds' = [Kinds EXCEPT ![r] = KindOf(r)]
          /\ Replies' = [Replies EXCEPT ![r] = v]
      BY <1>4, <3>2, <3>3, MappedAt DEF Answer, IInv, TypeOK
    <3>5. Statuses[r] = "pending" /\ Statuses' = Statuses /\ Kinds' = Kinds
      BY <3>2, <3>4 DEF Statuses, Kinds
    <3>6. QED
      BY <1>4, <3>3, <3>4, <3>5 DEF Answer, AR!Answer
  <2>3. QED  BY <2>1, <2>2
<1>5. ASSUME NEW r \in Requests, Update(r) PROVE UNCHANGED AR!vars
  BY <1>5, MappedStutter DEF Update, IInv, TypeOK
<1>6. ASSUME NEW r \in Requests, Poll(r)
      PROVE  AR!Resolve(r) \/ UNCHANGED AR!vars
  <2>1. \A q \in Requests : sdk'[q] = "idle" <=> sdk[q] = "idle"
    <3>1. RunCallbacks
      BY <1>6 DEF Poll
    <3>2. QED  BY <3>1, CallbacksEffect DEF Due, IInv
  <2>2. UNCHANGED <<call, reply>> /\ Replies' = Replies
    BY <1>6, <2>1 DEF Poll, Replies, IInv, TypeOK, Listening
  <2>3. sdk[r] \in Waiting /\ Listening(r)
    BY <1>6 DEF Poll, IInv, Progress
  <2>4. CASE TryRecv(r) = NoResult
    <3>1. fut' = [fut EXCEPT ![r] = "awaiting"] /\ result' = [result EXCEPT ![r] = NoResult]
      BY <1>6, <2>4 DEF Poll
    <3>2. result[r] = NoResult
      BY <2>3 DEF IInv, Progress, Listening
    <3>3. \A q \in Requests : StatusOf(q)' = StatusOf(q) /\ KindOf(q)' = KindOf(q)
      BY <2>1, <2>2, <2>3, <3>1 DEF StatusOf, KindOf, Listening, IInv, TypeOK
    <3>4. QED
      BY <2>2, <3>1, <3>2, <3>3 DEF Statuses, Kinds, AR!vars, IInv, TypeOK
  <2>5. CASE TryRecv(r) # NoResult
    <3>1. /\ fut' = [fut EXCEPT ![r] = "returned"]
          /\ result' = [result EXCEPT ![r] = TryRecv(r)]
      BY <1>6, <2>5 DEF Poll
    <3>2. fut'[r] = "returned" /\ sdk'[r] # "idle" /\ reply[r] # NoReply
          /\ result'[r] = Sent(call[r].callback, reply[r])
      BY <2>1, <2>2, <2>3, <3>1 DEF IInv, TypeOK, OwnAnswer, Waiting
    <3>3. StatusOf(r) = "pending" /\ StatusOf(r)' = "resolved"
      BY <2>3, <3>2 DEF StatusOf, Listening
    <3>4. KindOf(r)' = KindOf(r)
      BY <2>1, <2>2 DEF KindOf
    <3>5. /\ Statuses' = [Statuses EXCEPT ![r] = "resolved"]
          /\ Kinds' = [Kinds EXCEPT ![r] = KindOf(r)]
      BY <2>1, <2>2, <3>1, <3>3, <3>4, MappedAt DEF IInv, TypeOK
    <3>6. Statuses[r] = "pending" /\ Kinds[r] = KindOf(r) /\ Kinds' = Kinds
      BY <3>3, <3>5 DEF Statuses, Kinds
    <3>7. Replies[r] = reply[r]
      BY <2>3 DEF Replies, Listening
    <3>8. Sent(call[r].callback, reply[r]) = AR!Reported(KindOf(r), reply[r])
      BY <2>3 DEF Sent, CheckSdkResult, Okay, Err, KindOf, Waiting,
                  AR!Reported, AR!Okay, AR!Err
    <3>9. result' = [result EXCEPT ![r] = AR!Reported(Kinds[r], Replies[r])]
      BY <3>1, <3>2, <3>6, <3>7, <3>8 DEF IInv, TypeOK
    <3>10. QED
      BY <2>2, <3>2, <3>5, <3>6, <3>7, <3>9 DEF AR!Resolve
  <2>6. QED  BY <2>4, <2>5
<1>7. ASSUME NEW r \in Requests, DropFuture(r) PROVE AR!Abandon(r)
  <2>1. StatusOf(r) \in {"idle", "pending"} /\ StatusOf(r)' = "abandoned"
    BY <1>7 DEF DropFuture, StatusOf, Listening, IInv, TypeOK
  <2>2. KindOf(r)' = KindOf(r) /\ Replies'[r] = NoReply
    BY <1>7 DEF DropFuture, KindOf, Replies, IInv, TypeOK
  <2>3. /\ Statuses' = [Statuses EXCEPT ![r] = "abandoned"]
        /\ Kinds' = [Kinds EXCEPT ![r] = KindOf(r)]
        /\ Replies' = [Replies EXCEPT ![r] = NoReply]
    BY <1>7, <2>1, <2>2, MappedAt DEF DropFuture, IInv, TypeOK
  <2>4. Statuses[r] \in {"idle", "pending"} /\ Kinds' = Kinds
    BY <2>1, <2>3 DEF Statuses, Kinds
  <2>5. QED  BY <1>7, <2>3, <2>4 DEF DropFuture, AR!Abandon
<1>8. CASE DoWorkOnce
  BY <1>8, CallbacksEffect, MappedStutter DEF DoWorkOnce, IInv, Due
<1>9. CASE DoWork
  BY <1>9, MappedStutter DEF DoWork
<1>10. CASE DropClient
  <2>1. UNCHANGED <<fut, call, result>>
    BY <1>10 DEF DropClient
  <2>2. \A q \in Requests : fut[q] # "cancelled" => reply'[q] = reply[q]
    BY <1>10 DEF DropClient, IInv, TypeOK, Progress, Served, Alive, Borrowed
  <2>3. \A q \in Requests : sdk'[q] = "idle" <=> sdk[q] = "idle"
    BY <1>10 DEF DropClient
  <2>4. QED  BY <2>1, <2>2, <2>3, MappedStutter
<1>11. CASE UNCHANGED vars
  BY <1>11, MappedStutter DEF vars
<1>12. QED
  BY <1>1, <1>2, <1>3, <1>4, <1>5, <1>6, <1>7, <1>8, <1>9, <1>10, <1>11 DEF Next, AR!Next

(* Every behaviour of the polling client is one of the abstract service.    *)
THEOREM Refinement == Spec => ImplementsRequests
BY InitRefines, StepRefines, Inductive, PTL DEF Spec, AR!Spec, ImplementsRequests
=============================================================================
