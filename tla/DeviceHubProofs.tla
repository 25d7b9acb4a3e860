--------------------------- MODULE DeviceHubProofs ---------------------------
(***************************************************************************)
(* Proofs about the events of a device client and about what lives on it,  *)
(* for any number of clones, places and uploads.  That a handler finds its *)
(* client rests on what every context names, pending or running; that      *)
(* initialize_callbacks is complete, on what the registrations made so far *)
(* name.                                                                   *)
(***************************************************************************)
EXTENDS DeviceResources, TLAPS

(* A call is one on a value that is there, with a live handle.              *)
CallsOwn ==
  call = Idle \/ (/\ call.op \in {"initialize", "drop"} /\ call.by \in Copies
                  /\ at[call.by] # NoPlace /\ handle = "live")

(* What the SDK holds goes with the handle, and names the place of a value  *)
(* that keeps it.                                                           *)
Names(x) == x # NoContext => handle = "live" /\ (x.by \notin Relocatable => x.place = at[x.by])
ContextsNamed ==
  /\ \A k \in Kinds : Names(ctx[k])
  /\ \A x \in once : Names(x)
  /\ Names(running)

(* What initialize_callbacks has registered so far, and what it registered  *)
(* last.                                                                    *)
Progress ==
  call.op = "initialize" =>
    /\ complete = Nobody
    /\ \A i \in 1 .. call.made : ctx[Registrations[i]].by = call.by
Completed ==
  complete # Nobody =>
    /\ handle = "live" /\ at[complete] # NoPlace
    /\ \A k \in HubKinds : ctx[k].by = complete

EInv == TypeOK /\ CallsOwn /\ ContextsNamed /\ Progress /\ Completed

-----------------------------------------------------------------------------
LEMMA RegistrationFacts ==
  /\ Len(Registrations) = 5
  /\ \A i \in 1 .. 5 : Registrations[i] \in HubKinds
  /\ \A k \in HubKinds : \E i \in 1 .. 5 : Registrations[i] = k
  /\ HubKinds \subseteq Kinds /\ "command" \in Kinds /\ "input" \in Kinds
<1>1. /\ Registrations[1] = "message" /\ Registrations[2] = "input"
      /\ Registrations[3] = "twin" /\ Registrations[4] = "method"
      /\ Registrations[5] = "status" /\ Len(Registrations) = 5
  BY DEF Registrations
<1>2. \A i \in 1 .. 5 : i = 1 \/ i = 2 \/ i = 3 \/ i = 4 \/ i = 5
  OBVIOUS
<1>3. \A i \in 1 .. 5 : Registrations[i] \in HubKinds
  BY <1>1, <1>2, Zenon DEF HubKinds
<1>4. 1 \in 1 .. 5 /\ 2 \in 1 .. 5 /\ 3 \in 1 .. 5 /\ 4 \in 1 .. 5 /\ 5 \in 1 .. 5
  OBVIOUS
<1>5. \A k \in HubKinds : \E i \in 1 .. 5 : Registrations[i] = k
  BY <1>1, <1>4, Zenon DEF HubKinds
<1>6. QED  BY <1>1, <1>3, <1>5, Zenon DEF HubKinds, Kinds

LEMMA SelfType ==
  ASSUME TypeOK, NEW c \in Copies, at[c] # NoPlace
  PROVE  /\ Self(c) \in Contexts /\ Self(c) # NoContext
         /\ Self(c).by = c /\ Self(c).place = at[c]
  BY CopiesAssumption DEF TypeOK, Self, Contexts, NoContext

LEMMA IdleFacts ==
  /\ Idle.op = "none" /\ Idle.by = Nobody /\ Idle.made = 0
  /\ Idle \in [op : {"none", "initialize", "drop"}, by : Copies \cup {Nobody},
               made : 0 .. Len(Registrations)]
  BY RegistrationFacts DEF Idle

LEMMA EInvInit == Init => EInv
<1>1. SUFFICES ASSUME Init PROVE EInv
  OBVIOUS
<1>2. TypeOK
  BY <1>1, IdleFacts DEF Init, TypeOK
<1>3. CallsOwn /\ Progress
  BY <1>1, IdleFacts DEF Init, CallsOwn, Progress
<1>4. ContextsNamed /\ Completed
  BY <1>1 DEF Init, ContextsNamed, Names, Completed
<1>5. QED  BY <1>2, <1>3, <1>4 DEF EInv

-----------------------------------------------------------------------------
(* A value comes to live in a place: it is new, with a new handle or a live *)
(* one, or it was moved.                                                    *)
Occupies(e, p) ==
  /\ at' = [at EXCEPT ![e] = p]
  /\ UNCHANGED <<call, ctx, once, running, complete>>
  /\ \/ handle = "none" /\ handle' = "live"
     \/ at[e] = NoPlace /\ UNCHANGED handle
     \/ e \in Relocatable /\ UNCHANGED handle

LEMMA OccupiesStep ==
  ASSUME EInv, NEW e \in Copies, NEW p \in Places, Occupies(e, p)
  PROVE  EInv'
<1>0. /\ at' = [at EXCEPT ![e] = p]
      /\ UNCHANGED <<call, ctx, once, running, complete>>
      /\ \/ handle = "none" /\ handle' = "live"
         \/ at[e] = NoPlace /\ UNCHANGED handle
         \/ e \in Relocatable /\ UNCHANGED handle
  BY DEF Occupies
<1>1. TypeOK'
  BY <1>0 DEF EInv, TypeOK
<1>2. CallsOwn'
  BY <1>0, PlacesAssumption DEF EInv, TypeOK, CallsOwn
<1> DEFINE Later(x) == x # NoContext => handle' = "live"
                                         /\ (x.by \notin Relocatable => x.place = at'[x.by])
<1>3. ASSUME NEW x \in Contexts \cup {NoContext}, Names(x)
      PROVE  Later(x)
  <2>1. x # NoContext => x.by \in Copies /\ x.place \in Places
    BY DEF Contexts
  <2>2. CASE x = NoContext
    BY <2>2 DEF Names
  <2>3. CASE x # NoContext /\ x.by = e
    BY <1>0, <1>3, <2>1, <2>3, PlacesAssumption DEF Names, EInv, TypeOK
  <2>4. CASE x # NoContext /\ x.by # e
    BY <1>0, <1>3, <2>1, <2>4 DEF Names, EInv, TypeOK
  <2>5. QED  BY <2>2, <2>3, <2>4
<1>4. ContextsNamed'
  <2>1. ctx \in [Kinds -> Contexts \cup {NoContext}] /\ once \subseteq Contexts
        /\ running \in Contexts \cup {NoContext}
    BY DEF EInv, TypeOK
  <2>2. ctx' = ctx /\ once' = once /\ running' = running
    BY <1>0
  <2> HIDE DEF Later
  <2>3. ASSUME NEW k \in Kinds PROVE Later(ctx[k])
    BY <1>3, <2>1 DEF EInv, ContextsNamed
  <2>4. ASSUME NEW x \in once PROVE Later(x)
    BY <1>3, <2>1 DEF EInv, ContextsNamed
  <2>5. Later(running)
    BY <1>3, <2>1 DEF EInv, ContextsNamed
  <2>6. QED
    BY <2>2, <2>3, <2>4, <2>5 DEF ContextsNamed, Names, Later
<1>5. Progress'
  BY <1>0 DEF EInv, Progress
<1>6. Completed'
  BY <1>0, PlacesAssumption DEF EInv, TypeOK, Completed
<1>7. QED  BY <1>1, <1>2, <1>4, <1>5, <1>6 DEF EInv

(* A call begins, or ends with nothing registered.                          *)
LEMMA CallsStep ==
  ASSUME EInv, NEW c \in Copies,
         BeginInitialize(c) \/ BeginDrop(c) \/ RegisterFails \/ Initialized
  PROVE  EInv'
<1>0. UNCHANGED <<at, handle, ctx, once, running>>
  BY DEF BeginInitialize, BeginDrop, RegisterFails, Initialized
<1>1. TypeOK'
  <2>1. CASE BeginInitialize(c)
    BY <2>1, RegistrationFacts DEF EInv, TypeOK, BeginInitialize
  <2>2. CASE BeginDrop(c)
    BY <2>2, RegistrationFacts DEF EInv, TypeOK, BeginDrop
  <2>3. CASE RegisterFails
    BY <2>3, IdleFacts DEF EInv, TypeOK, RegisterFails
  <2>4. CASE Initialized
    BY <2>4, IdleFacts DEF EInv, TypeOK, Initialized
  <2>5. QED  BY <2>1, <2>2, <2>3, <2>4
<1>2. CallsOwn'
  BY <1>0 DEF EInv, CallsOwn, BeginInitialize, BeginDrop, RegisterFails, Initialized, Ready
<1>3. ContextsNamed'
  BY <1>0 DEF EInv, ContextsNamed, Names
<1>4. Progress'
  <2>1. CASE BeginInitialize(c)
    BY <2>1 DEF Progress, BeginInitialize
  <2>2. CASE BeginDrop(c)
    BY <2>2 DEF Progress, BeginDrop
  <2>3. CASE RegisterFails \/ Initialized
    BY <2>3, IdleFacts DEF Progress, RegisterFails, Initialized
  <2>4. QED  BY <2>1, <2>2, <2>3
<1>5. Completed'
  <2>1. CASE BeginInitialize(c)
    BY <2>1 DEF Completed, BeginInitialize
  <2>2. CASE BeginDrop(c) \/ RegisterFails
    BY <1>0, <2>2 DEF EInv, Completed, BeginDrop, RegisterFails
  <2>3. CASE Initialized
    <3>1. /\ complete' = call.by /\ call.op = "initialize" /\ call.made = 5
      BY <2>3, RegistrationFacts DEF Initialized
    <3>2. handle = "live" /\ at[call.by] # NoPlace
      BY <3>1, IdleFacts DEF EInv, CallsOwn
    <3>3. \A i \in 1 .. 5 : ctx[Registrations[i]].by = call.by
      BY <3>1 DEF EInv, Progress
    <3>4. \A k \in HubKinds : ctx[k].by = call.by
      BY <3>3, RegistrationFacts
    <3>5. QED  BY <1>0, <3>1, <3>2, <3>4 DEF Completed
  <2>4. QED  BY <2>1, <2>2, <2>3
<1>6. QED  BY <1>1, <1>2, <1>3, <1>4, <1>5 DEF EInv

(* A context of kind k is set to a value that is there.                     *)
LEMMA RegisterStep ==
  ASSUME EInv, NEW c \in Copies,
         Register \/ SubscribeToCommands(c) \/ SetInputMessageCallback(c)
  PROVE  EInv'
<1>0. PICK k \in Kinds, e \in Copies :
        /\ ctx' = [ctx EXCEPT ![k] = Self(e)] /\ at[e] # NoPlace /\ handle = "live"
        /\ UNCHANGED <<at, handle, once, running>>
  <2>1. CASE Register
    <3>1. call.op = "initialize" /\ call.made \in 0 .. 4
      BY <2>1, RegistrationFacts DEF EInv, TypeOK, Register
    <3>2. Registrations[call.made + 1] \in Kinds
      BY <3>1, RegistrationFacts
    <3>3. call.by \in Copies /\ at[call.by] # NoPlace /\ handle = "live"
      BY <3>1, IdleFacts DEF EInv, CallsOwn
    <3>4. QED  BY <2>1, <3>2, <3>3, Zenon DEF Register
  <2>2. CASE SubscribeToCommands(c)
    BY <2>2, RegistrationFacts, Zenon DEF SubscribeToCommands, Ready
  <2>3. CASE SetInputMessageCallback(c)
    BY <2>3, RegistrationFacts, Zenon DEF SetInputMessageCallback, Ready
  <2>4. QED  BY <2>1, <2>2, <2>3
<1>1. /\ Self(e) \in Contexts /\ Self(e) # NoContext
      /\ Self(e).by = e /\ Self(e).place = at[e]
  BY <1>0, SelfType DEF EInv
<1>2. TypeOK'
  <2>1. ctx' \in [Kinds -> Contexts \cup {NoContext}]
    BY <1>0, <1>1 DEF EInv, TypeOK
  <2>2. complete' \in Copies \cup {Nobody}
    BY DEF EInv, TypeOK, Register, SubscribeToCommands, SetInputMessageCallback
  <2>3. call' \in [op : {"none", "initialize", "drop"}, by : Copies \cup {Nobody},
                   made : 0 .. Len(Registrations)]
    BY RegistrationFacts
    DEF EInv, TypeOK, Register, SubscribeToCommands, SetInputMessageCallback
  <2>4. QED  BY <1>0, <2>1, <2>2, <2>3 DEF EInv, TypeOK
<1>3. CallsOwn'
  <2>1. CASE Register
    <3>1. call' = [call EXCEPT !.made = @ + 1] /\ call.op = "initialize"
      BY <2>1 DEF Register
    <3>2. call'.op = call.op /\ call'.by = call.by
      BY <3>1 DEF EInv, TypeOK
    <3>3. QED  BY <1>0, <3>1, <3>2, IdleFacts DEF EInv, CallsOwn
  <2>2. CASE SubscribeToCommands(c) \/ SetInputMessageCallback(c)
    BY <1>0, <2>2 DEF EInv, CallsOwn, SubscribeToCommands, SetInputMessageCallback
  <2>3. QED  BY <2>1, <2>2
<1>4. ContextsNamed'
  BY <1>0, <1>1 DEF EInv, TypeOK, ContextsNamed, Names
<1>5. Progress'
  <2>1. CASE Register
    <3>1. call.op = "initialize" /\ call.made \in 0 .. 4
      BY <2>1, RegistrationFacts DEF EInv, TypeOK, Register
    <3>2. /\ call'.op = "initialize" /\ call'.by = call.by /\ call'.made = call.made + 1
          /\ complete' = complete
          /\ ctx' = [ctx EXCEPT ![Registrations[call.made + 1]] = Self(call.by)]
      BY <2>1, <3>1 DEF EInv, TypeOK, Register
    <3>3. Self(call.by).by = call.by
      BY DEF Self
    <3>4. ASSUME NEW i \in 1 .. call'.made
          PROVE  ctx'[Registrations[i]].by = call'.by
      <4>1. i \in 1 .. 5 /\ (i \in 1 .. call.made \/ i = call.made + 1)
        BY <3>1, <3>2
      <4>2. Registrations[i] \in Kinds
        BY <4>1, RegistrationFacts
      <4>3. ctx \in [Kinds -> Contexts \cup {NoContext}]
        BY DEF EInv, TypeOK
      <4>4. i \in 1 .. call.made => ctx[Registrations[i]].by = call.by
        BY <3>1 DEF EInv, Progress
      <4> HIDE DEF Registrations
      <4>5. QED  BY <3>2, <3>3, <4>1, <4>2, <4>3, <4>4
    <3>5. QED  BY <3>1, <3>2, <3>4 DEF EInv, Progress
  <2>2. CASE SubscribeToCommands(c) \/ SetInputMessageCallback(c)
    BY <2>2, IdleFacts DEF Progress, SubscribeToCommands, SetInputMessageCallback, Ready
  <2>3. QED  BY <2>1, <2>2
<1>6. Completed'
  <2>1. CASE Register
    BY <2>1 DEF EInv, Progress, Completed, Register
  <2>2. CASE SubscribeToCommands(c)
    <3>1. "command" \notin HubKinds
      BY DEF HubKinds
    <3>2. \A h \in HubKinds : ctx'[h] = ctx[h]
      BY <2>2, <3>1, RegistrationFacts DEF EInv, TypeOK, SubscribeToCommands
    <3>3. QED  BY <1>0, <2>2, <3>2 DEF EInv, Completed, SubscribeToCommands
  <2>3. CASE SetInputMessageCallback(c)
    <3>1. /\ ctx' = [ctx EXCEPT !["input"] = Self(c)]
          /\ complete' = (IF complete = c THEN c ELSE Nobody)
      BY <2>3 DEF SetInputMessageCallback
    <3>2. Self(c).by = c
      BY DEF Self
    <3>3. ctx \in [Kinds -> Contexts \cup {NoContext}]
      BY DEF EInv, TypeOK
    <3>4. complete = c => \A h \in HubKinds : ctx'[h].by = c
      BY <3>1, <3>2, <3>3, CopiesAssumption, RegistrationFacts DEF EInv, Completed
    <3>5. QED  BY <1>0, <3>1, <3>4 DEF EInv, Completed
  <2>4. QED  BY <2>1, <2>2, <2>3
<1>7. QED  BY <1>2, <1>3, <1>4, <1>5, <1>6 DEF EInv

(* A context to be used once is added, or a callback begins or ends.        *)
LEMMA WorkerStep ==
  ASSUME EInv,
         \/ \E c \in Copies : SendReportedState(c) \/ GenericMethodInvoke(c)
         \/ \E k \in Kinds : BeginCallback(k)
         \/ \E x \in once : BeginOnce(x)
         \/ EndCallback
  PROVE  EInv'
<1>0. UNCHANGED <<at, handle, call, ctx, complete>>
  BY DEF SendReportedState, GenericMethodInvoke, BeginCallback, BeginOnce, EndCallback
<1> DEFINE Ok == /\ once' \subseteq Contexts /\ running' \in Contexts \cup {NoContext}
                 /\ \A y \in once' : Names(y)
                 /\ Names(running')
<1>1. Ok
  <2>1. ASSUME NEW c \in Copies, SendReportedState(c) \/ GenericMethodInvoke(c)
        PROVE  Ok
    <3>1. at[c] # NoPlace /\ handle = "live" /\ once' = once \cup {Self(c)} /\ running' = running
      BY <2>1 DEF SendReportedState, GenericMethodInvoke, Ready
    <3>2. Self(c) \in Contexts /\ Names(Self(c))
      BY <3>1, SelfType DEF EInv, Names
    <3>3. QED  BY <3>1, <3>2 DEF EInv, TypeOK, ContextsNamed
  <2>2. ASSUME NEW k \in Kinds, BeginCallback(k) PROVE Ok
    <3>1. running' = ctx[k] /\ once' = once
      BY <2>2 DEF BeginCallback
    <3>2. ctx[k] \in Contexts \cup {NoContext} /\ Names(ctx[k])
      BY DEF EInv, TypeOK, ContextsNamed
    <3>3. QED  BY <3>1, <3>2 DEF EInv, TypeOK, ContextsNamed
  <2>3. ASSUME NEW x \in once, BeginOnce(x) PROVE Ok
    BY <2>3 DEF EInv, TypeOK, ContextsNamed, BeginOnce
  <2>4. CASE EndCallback
    <3>1. running' = NoContext /\ once' = once /\ Names(NoContext)
      BY <2>4 DEF EndCallback, Names
    <3>2. QED  BY <3>1 DEF EInv, TypeOK, ContextsNamed
  <2> HIDE DEF Ok
  <2>5. QED  BY <2>1, <2>2, <2>3, <2>4
<1>2. TypeOK'
  BY <1>0, <1>1 DEF EInv, TypeOK
<1>3. CallsOwn' /\ Progress' /\ Completed'
  BY <1>0 DEF EInv, CallsOwn, Progress, Completed
<1>4. ContextsNamed'
  BY <1>0, <1>1 DEF EInv, ContextsNamed, Names
<1>5. QED  BY <1>2, <1>3, <1>4 DEF EInv

LEMMA EndDropStep ==
  ASSUME EInv, EndDrop
  PROVE  EInv'
<1>1. /\ handle' = "destroyed" /\ call' = Idle /\ once' = {} /\ complete' = Nobody
      /\ ctx' = [k \in Kinds |-> NoContext] /\ running' = NoContext
      /\ at' = [at EXCEPT ![call.by] = NoPlace]
  BY DEF EndDrop
<1>2. TypeOK'
  BY <1>1, IdleFacts DEF EInv, TypeOK
<1>3. CallsOwn' /\ Completed' /\ Progress'
  BY <1>1, IdleFacts DEF CallsOwn, Completed, Progress
<1>4. ContextsNamed'
  BY <1>1 DEF ContextsNamed, Names
<1>5. QED  BY <1>2, <1>3, <1>4 DEF EInv

LEMMA EventStepInv == EInv /\ EventStep => EInv'
<1>1. SUFFICES ASSUME EInv, EventStep PROVE EInv'
  OBVIOUS
<1>2. First \in Copies
  BY DEF Copies
<1>3. ASSUME NEW c \in Copies, NEW p \in Places, Move(c, p) PROVE EInv'
  <2>1. Occupies(c, p)
    BY <1>3 DEF Move, Occupies
  <2>2. QED  BY <1>1, <2>1, OccupiesStep
<1>4. ASSUME NEW c \in Copies,
             \/ BeginInitialize(c) \/ SubscribeToCommands(c) \/ SetInputMessageCallback(c)
             \/ SendReportedState(c) \/ GenericMethodInvoke(c) \/ BeginDrop(c)
      PROVE  EInv'
  <2>1. CASE BeginInitialize(c) \/ BeginDrop(c)
    BY <1>1, <2>1, CallsStep
  <2>2. CASE SubscribeToCommands(c) \/ SetInputMessageCallback(c)
    BY <1>1, <2>2, RegisterStep
  <2>3. CASE SendReportedState(c) \/ GenericMethodInvoke(c)
    BY <1>1, <2>3, WorkerStep
  <2>4. QED  BY <1>4, <2>1, <2>2, <2>3
<1>5. CASE RegisterFails \/ Initialized
  BY <1>1, <1>2, <1>5, CallsStep
<1>6. CASE Register
  BY <1>1, <1>2, <1>6, RegisterStep
<1>7. CASE (\E k \in Kinds : BeginCallback(k)) \/ (\E x \in once : BeginOnce(x)) \/ EndCallback
  BY <1>1, <1>7, WorkerStep
<1>8. QED
  BY <1>1, <1>3, <1>4, <1>5, <1>6, <1>7 DEF EventStep

LEMMA EInvStep == EInv /\ [Next]_vars => EInv'
<1>1. SUFFICES ASSUME EInv, [Next]_vars PROVE EInv'
  OBVIOUS
<1>2. ASSUME NEW p \in Places, Create(p) PROVE EInv'
  <2>1. Occupies(First, p) /\ First \in Copies
    BY <1>2 DEF Create, Occupies, Copies
  <2>2. QED  BY <1>1, <2>1, OccupiesStep
<1>3. ASSUME NEW c \in Copies, NEW d \in Clones, NEW p \in Places, Clone(c, d, p) PROVE EInv'
  <2>1. Occupies(d, p) /\ d \in Copies
    BY <1>3 DEF Clone, Occupies, Copies
  <2>2. QED  BY <1>1, <2>1, OccupiesStep
<1>4. CASE EventStep
  BY <1>1, <1>4, EventStepInv
<1>5. CASE EndDrop
  BY <1>1, <1>5, EndDropStep
<1>6. CASE UNCHANGED vars
  BY <1>1, <1>6 DEF EInv, TypeOK, CallsOwn, ContextsNamed, Names, Progress, Completed, vars
<1>7. QED  BY <1>1, <1>2, <1>3, <1>4, <1>5, <1>6 DEF Next

LEMMA EInvImplies == EInv => CallbacksOnTheirClient /\ InitializedIsComplete
<1>1. SUFFICES ASSUME EInv PROVE CallbacksOnTheirClient /\ InitializedIsComplete
  OBVIOUS
<1>2. CallbacksOnTheirClient
  BY <1>1 DEF EInv, ContextsNamed, Names, CallbacksOnTheirClient
<1>3. ASSUME NEW c \in Copies, complete = c, NEW k \in HubKinds
      PROVE  ctx[k].by = c /\ (c \notin Relocatable => ctx[k].place = at[c])
  <2>1. ctx[k].by = c /\ k \in Kinds
    BY <1>1, <1>3, CopiesAssumption, RegistrationFacts DEF EInv, Completed
  <2>2. ctx[k] # NoContext
    BY <2>1, CopiesAssumption DEF NoContext
  <2>3. QED  BY <1>1, <2>1, <2>2 DEF EInv, ContextsNamed, Names
<1>4. InitializedIsComplete
  BY <1>1, <1>3, CopiesAssumption DEF EInv, Completed, InitializedIsComplete
<1>5. QED  BY <1>2, <1>4

(* The events of the device client keep their invariant.                    *)
THEOREM EventsInvariant == Spec => []EInv
  BY EInvInit, EInvStep, PTL DEF Spec

-----------------------------------------------------------------------------
(* What lives on the client.                                                *)

(* What there is was made; a shared handle had a transport, and only clones *)
(* are there besides the first value.                                       *)
Origins ==
  /\ shared => TheTransport \in spent
  /\ \A x \in Uploads \cup {TheTransport} : x \in alive => x \in spent
  /\ handle = "none" => ~ shared /\ \A c \in Copies : c \notin alive
  /\ ~ cloned => (/\ \A d \in Clones : d \notin alive
                  /\ First \in alive <=> handle = "live")

(* Nested and without clones, everything stands on what was made before.    *)
Standing ==
  nested /\ ~ cloned =>
    /\ \A u \in Uploads : u \in alive => First \in alive /\ u \in after[First]
    /\ shared /\ First \in alive => TheTransport \in alive /\ First \in after[TheTransport]

RInv == EInv /\ ResourcesTypeOK /\ Origins /\ Standing /\ OnlyClonesBreakNesting

(* Every step is a step of the events.                                      *)
LEMMA LayerStep == [ResourcesNext]_<<vars, resources>> => [Next]_vars
<1>1. SUFFICES ASSUME [ResourcesNext]_<<vars, resources>> PROVE [Next]_vars
  OBVIOUS
<1>2. CASE UNCHANGED <<vars, resources>>
  BY <1>2
<1>3. CASE ResourcesNext
  <2>0. ~ Astray
    BY <1>3 DEF ResourcesNext
  <2>1. CASE TransportFrom \/ TransportDrop
    BY <2>1 DEF TransportFrom, TransportDrop
  <2>2. ASSUME NEW p \in Places, CreateAlone(p) \/ CreateWithTransport(p) PROVE [Next]_vars
    BY <2>0, <2>2 DEF CreateAlone, CreateWithTransport, Next
  <2>3. ASSUME NEW c \in Copies, NEW d \in Clones, NEW p \in Places, CloneClient(c, d, p)
        PROVE  [Next]_vars
    BY <2>0, <2>3 DEF CloneClient, Next
  <2>4. CASE ClientUses \/ DropEnds
    BY <2>0, <2>4 DEF ClientUses, DropEnds, Next
  <2>5. ASSUME NEW c \in Copies, CallStale(c) \/ NotifyUploadCompletion(c) PROVE [Next]_vars
    BY <2>5 DEF CallStale, NotifyUploadCompletion
  <2>6. ASSUME NEW c \in Copies, NEW u \in Uploads, AzureStorageCreateClient(c, u)
        PROVE  [Next]_vars
    BY <2>6 DEF AzureStorageCreateClient
  <2>7. ASSUME NEW u \in Uploads, PutBlock(u) \/ PutBlockList(u) \/ DropUpload(u)
        PROVE  [Next]_vars
    BY <2>7 DEF PutBlock, PutBlockList, DropUpload
  <2>8. QED
    BY <1>3, <2>1, <2>2, <2>3, <2>4, <2>5, <2>6, <2>7, Zenon DEF ResourcesNext
<1>4. QED  BY <1>1, <1>2, <1>3

LEMMA RInvInit == ResourcesInit => RInv
<1>1. SUFFICES ASSUME ResourcesInit PROVE RInv
  OBVIOUS
<1>2. EInv
  BY <1>1, EInvInit DEF ResourcesInit
<1>3. ResourcesTypeOK
  BY <1>1, <1>2 DEF ResourcesInit, Init, EInv, ResourcesTypeOK
<1>4. Origins /\ Standing /\ OnlyClonesBreakNesting
  BY <1>1 DEF ResourcesInit, Init, Origins, Standing, OnlyClonesBreakNesting
<1>5. QED  BY <1>2, <1>3, <1>4 DEF RInv

(* A handle is sound where things stand.                                    *)
LEMMA SoundFacts ==
  ASSUME RInv, nested, ~ cloned
  PROVE  /\ handle = "live" => Sound
         /\ \A u \in Uploads : u \in alive => Sound
         /\ \A c \in Copies : c \in alive => handle = "live"
  BY DEF RInv, Origins, Standing, Sound, Copies

(* An object comes.                                                         *)
LEMMA BornStep ==
  ASSUME RInv, NEW x \in Objects, Born(x), x \notin alive
  PROVE  /\ after' \in [Objects -> SUBSET Objects] /\ alive' = alive \cup {x} /\ nested' = nested
         /\ \A y \in Objects : /\ y \in alive => after'[y] = after[y] \cup {x}
                               /\ after'[x] = {}
  BY DEF RInv, ResourcesTypeOK, Born

LEMMA DiesStep ==
  ASSUME RInv, NEW x \in Objects, Dies(x)
  PROVE  /\ after' \in [Objects -> SUBSET Objects] /\ alive' = alive \ {x}
         /\ nested' \in BOOLEAN /\ (nested' => nested /\ after[x] = {})
         /\ \A y \in Objects : after'[y] = after[y] \ {x}
<1>1. \A y \in Objects : after[y] \in SUBSET Objects
  BY DEF RInv, ResourcesTypeOK
<1>2. nested' \in BOOLEAN /\ (nested' => nested /\ after[x] = {})
  BY DEF Dies
<1>3. QED  BY <1>1, <1>2 DEF Dies

LEMMA DistinctObjects ==
  /\ First \in Copies /\ First \in Objects /\ TheTransport \in Objects
  /\ \A d \in Clones : d \in Copies /\ d # First
  /\ \A c \in Copies : c \in Objects /\ c \notin Uploads /\ c # TheTransport
  /\ \A u \in Uploads : u \in Objects /\ u # First /\ u \notin Copies /\ u # TheTransport
  BY CopiesAssumption, ObjectsAssumption DEF Copies, Objects

Rest == ResourcesTypeOK /\ Origins /\ Standing /\ OnlyClonesBreakNesting

LEMMA TransportStep ==
  ASSUME RInv, TypeOK', TransportFrom \/ TransportDrop
  PROVE  Rest'
<1>1. CASE TransportFrom
  <2>1. /\ UNCHANGED <<vars, shared, cloned, misused>> /\ TheTransport \notin spent
        /\ spent' = spent \cup {TheTransport} /\ TheTransport \notin alive
    BY <1>1 DEF TransportFrom, RInv, Origins
  <2>2. /\ after' \in [Objects -> SUBSET Objects] /\ alive' = alive \cup {TheTransport}
        /\ nested' = nested
        /\ \A y \in Objects : y \in alive => after'[y] = after[y] \cup {TheTransport}
    BY <1>1, <2>1, BornStep, DistinctObjects DEF TransportFrom
  <2>3. ResourcesTypeOK'
    BY <2>1, <2>2, DistinctObjects DEF RInv, ResourcesTypeOK, vars, Objects
  <2>4. Origins'
    BY <2>1, <2>2, DistinctObjects DEF RInv, Origins, vars
  <2>5. Standing'
    BY <2>1, <2>2, DistinctObjects DEF RInv, Origins, Standing
  <2>6. OnlyClonesBreakNesting'
    BY <2>1, <2>2 DEF RInv, OnlyClonesBreakNesting
  <2>7. QED  BY <2>3, <2>4, <2>5, <2>6 DEF Rest
<1>2. CASE TransportDrop
  <2>1. UNCHANGED <<vars, spent, shared, cloned, misused>>
    BY <1>2 DEF TransportDrop
  <2>2. /\ after' \in [Objects -> SUBSET Objects] /\ alive' = alive \ {TheTransport}
        /\ nested' \in BOOLEAN /\ (nested' => nested /\ after[TheTransport] = {})
        /\ \A y \in Objects : after'[y] = after[y] \ {TheTransport}
    BY <1>2, DiesStep, DistinctObjects DEF TransportDrop
  <2>3. ResourcesTypeOK'
    BY <2>1, <2>2, DistinctObjects DEF RInv, ResourcesTypeOK, vars
  <2>4. Origins'
    BY <2>1, <2>2, DistinctObjects DEF RInv, Origins, vars
  <2>5. Standing'
    BY <2>1, <2>2, DistinctObjects DEF RInv, Standing
  <2>6. OnlyClonesBreakNesting'
    BY <2>1, <2>2 DEF RInv, OnlyClonesBreakNesting
  <2>7. QED  BY <2>3, <2>4, <2>5, <2>6 DEF Rest
<1>3. QED  BY <1>1, <1>2

LEMMA CreateStep ==
  ASSUME RInv, TypeOK', NEW p \in Places, CreateAlone(p) \/ CreateWithTransport(p)
  PROVE  Rest'
<1>1. /\ handle = "none" /\ handle' = "live" /\ at' = [at EXCEPT ![First] = p]
      /\ Born(First) /\ UNCHANGED <<spent, cloned, misused>>
      /\ (shared' = shared \/ (shared' = TRUE /\ TheTransport \in alive))
  BY DEF CreateAlone, CreateWithTransport, Create
<1>2. \A c \in Copies : c \notin alive
  BY <1>1 DEF RInv, Origins
<1>3. /\ after' \in [Objects -> SUBSET Objects] /\ alive' = alive \cup {First}
      /\ nested' = nested
      /\ \A y \in Objects : y \in alive => after'[y] = after[y] \cup {First}
  BY <1>1, <1>2, BornStep, DistinctObjects
<1>4. ResourcesTypeOK'
  <2>1. \A c \in Copies : c \in alive' <=> at'[c] # NoPlace
    BY <1>1, <1>3, DistinctObjects, PlacesAssumption DEF RInv, ResourcesTypeOK, TypeOK
  <2>2. shared' \in BOOLEAN
    BY <1>1 DEF RInv, ResourcesTypeOK
  <2>3. QED  BY <1>1, <1>3, <2>1, <2>2, DistinctObjects DEF RInv, ResourcesTypeOK
<1>5. Origins'
  BY <1>1, <1>2, <1>3, DistinctObjects DEF RInv, Origins
<1>6. Standing'
  <2>1. SUFFICES ASSUME nested', ~ cloned' PROVE Standing'
    BY DEF Standing
  <2>2. nested /\ ~ cloned
    BY <1>1, <1>3, <2>1
  <2>3. \A u \in Uploads : u \notin alive
    BY <1>2, <2>2, DistinctObjects DEF RInv, Standing
  <2>4. \A u \in Uploads : u \notin alive'
    BY <1>3, <2>3, DistinctObjects
  <2>5. TheTransport \in alive => TheTransport \in alive' /\ First \in after'[TheTransport]
    BY <1>3, DistinctObjects
  <2>6. shared' => TheTransport \in alive
    <3>1. CASE TheTransport \in alive
      BY <3>1
    <3>2. CASE shared' = shared
      BY <1>1, <3>2 DEF RInv, Origins
    <3>3. QED  BY <1>1, <3>1, <3>2
  <2>7. QED  BY <2>4, <2>5, <2>6 DEF Standing
<1>7. OnlyClonesBreakNesting'
  BY <1>1, <1>3 DEF RInv, OnlyClonesBreakNesting
<1>8. QED  BY <1>4, <1>5, <1>6, <1>7 DEF Rest

LEMMA CloneStep ==
  ASSUME RInv, TypeOK', NEW c \in Copies, NEW d \in Clones, NEW p \in Places,
         CloneClient(c, d, p)
  PROVE  Rest'
<1>1. /\ handle = "live" /\ handle' = handle /\ at' = [at EXCEPT ![d] = p] /\ at[d] = NoPlace
      /\ Born(d) /\ UNCHANGED <<spent, shared, misused>> /\ cloned' = TRUE
  BY DEF CloneClient, Clone, Ready
<1>2. d \notin alive
  BY <1>1, DistinctObjects DEF RInv, ResourcesTypeOK
<1>3. /\ after' \in [Objects -> SUBSET Objects] /\ alive' = alive \cup {d}
      /\ nested' = nested
  BY <1>1, <1>2, BornStep, DistinctObjects
<1>4. ResourcesTypeOK'
  <2>1. \A e \in Copies : e \in alive' <=> at'[e] # NoPlace
    BY <1>1, <1>3, DistinctObjects, PlacesAssumption DEF RInv, ResourcesTypeOK, TypeOK
  <2>2. QED  BY <1>1, <1>3, <2>1, DistinctObjects DEF RInv, ResourcesTypeOK
<1>5. Origins'
  BY <1>1, <1>3, DistinctObjects DEF RInv, Origins
<1>6. Standing' /\ OnlyClonesBreakNesting'
  BY <1>1 DEF Standing, OnlyClonesBreakNesting
<1>7. QED  BY <1>4, <1>5, <1>6 DEF Rest

(* What is used and neither comes nor goes.                                 *)
LEMMA UsesStep ==
  ASSUME RInv, TypeOK', UNCHANGED <<alive, spent, shared, after, nested, cloned, handle>>,
         \A c \in Copies : at'[c] = NoPlace <=> at[c] = NoPlace,
         Uses \/ UNCHANGED misused,
         Uses => handle = "live" \/ (\E x \in Copies \cup Uploads : x \in alive)
  PROVE  Rest'
<1>1. ResourcesTypeOK'
  <2>1. misused' \in BOOLEAN
    BY DEF RInv, ResourcesTypeOK, Uses
  <2>2. QED  BY <2>1 DEF RInv, ResourcesTypeOK
<1>2. Origins' /\ Standing'
  BY DEF RInv, Origins, Standing
<1>3. OnlyClonesBreakNesting'
  <2>1. CASE UNCHANGED misused
    BY <2>1 DEF RInv, OnlyClonesBreakNesting
  <2>2. CASE Uses /\ nested /\ ~ cloned
    <3>1. Sound
      BY <2>2, SoundFacts
    <3>2. QED  BY <2>2, <3>1 DEF RInv, OnlyClonesBreakNesting, Uses
  <2>3. CASE ~ nested \/ cloned
    BY <2>3 DEF OnlyClonesBreakNesting
  <2>4. QED  BY <2>1, <2>2, <2>3
<1>4. QED  BY <1>1, <1>2, <1>3 DEF Rest

LEMMA ClientStep ==
  ASSUME RInv, TypeOK', ClientUses
  PROVE  Rest'
<1>1. UNCHANGED <<alive, spent, shared, after, nested, cloned>> /\ EventStep
      /\ IF handle = "live" THEN Uses ELSE UNCHANGED misused
  BY DEF ClientUses
<1>2. handle' = handle /\ \A c \in Copies : at'[c] = NoPlace <=> at[c] = NoPlace
  <2>1. ASSUME NEW e \in Copies, NEW p \in Places, Move(e, p)
        PROVE  handle' = handle /\ \A c \in Copies : at'[c] = NoPlace <=> at[c] = NoPlace
    BY <2>1, PlacesAssumption DEF Move, RInv, EInv, TypeOK
  <2>2. CASE UNCHANGED <<at, handle>>
    BY <2>2
  <2>3. QED
    BY <1>1, <2>1, <2>2
    DEF EventStep, BeginInitialize, SubscribeToCommands, SetInputMessageCallback,
        SendReportedState, GenericMethodInvoke, BeginDrop, Register, RegisterFails,
        Initialized, BeginCallback, BeginOnce, EndCallback
<1>3. CASE handle = "live"
  BY <1>1, <1>2, <1>3, UsesStep
<1>4. CASE handle # "live"
  <2>1. UNCHANGED misused
    BY <1>1, <1>4
  <2>2. Rest'
    <3>1. ResourcesTypeOK'
      BY <1>1, <1>2, <2>1 DEF RInv, ResourcesTypeOK
    <3>2. Origins' /\ Standing' /\ OnlyClonesBreakNesting'
      BY <1>1, <1>2, <2>1 DEF RInv, Origins, Standing, OnlyClonesBreakNesting
    <3>3. QED  BY <3>1, <3>2 DEF Rest
  <2>3. QED  BY <2>2
<1>5. QED  BY <1>3, <1>4

(* Calls that use the handle, or an upload, and leave all as it is.         *)
LEMMA CallStep ==
  ASSUME RInv, TypeOK',
         \/ \E c \in Copies : CallStale(c) \/ NotifyUploadCompletion(c)
         \/ \E u \in Uploads : PutBlock(u) \/ PutBlockList(u)
  PROVE  Rest'
<1>1. UNCHANGED <<vars, alive, spent, shared, after, nested, cloned>> /\ Uses
  BY DEF CallStale, NotifyUploadCompletion, PutBlock, PutBlockList
<1>2. handle = "live" \/ (\E x \in Copies \cup Uploads : x \in alive)
  BY DEF CallStale, NotifyUploadCompletion, PutBlock, PutBlockList, Ready
<1>3. UNCHANGED <<at, handle>>
  BY <1>1 DEF vars
<1>4. QED  BY <1>1, <1>2, <1>3, UsesStep

LEMMA UploadStep ==
  ASSUME RInv, TypeOK', NEW c \in Copies, NEW u \in Uploads, AzureStorageCreateClient(c, u)
  PROVE  Rest'
<1>1. /\ handle = "live" /\ c \in alive /\ Uses /\ Born(u) /\ u \notin spent /\ u \notin alive
      /\ spent' = spent \cup {u} /\ UNCHANGED <<vars, shared, cloned>>
  BY DEF AzureStorageCreateClient, Ready, RInv, ResourcesTypeOK, Origins
<1>2. /\ after' \in [Objects -> SUBSET Objects] /\ alive' = alive \cup {u} /\ nested' = nested
      /\ \A y \in Objects : y \in alive => after'[y] = after[y] \cup {u}
  BY <1>1, BornStep, DistinctObjects
<1>3. handle' = handle /\ at' = at
  BY <1>1 DEF vars
<1>4. ResourcesTypeOK'
  <2>1. misused' \in BOOLEAN
    BY <1>1 DEF RInv, ResourcesTypeOK, Uses
  <2>2. QED  BY <1>1, <1>2, <1>3, <2>1, DistinctObjects DEF RInv, ResourcesTypeOK
<1>5. Origins'
  BY <1>1, <1>2, <1>3, DistinctObjects DEF RInv, Origins
<1>6. Standing'
  <2>1. SUFFICES ASSUME nested', ~ cloned' PROVE Standing'
    BY DEF Standing
  <2>2. nested /\ ~ cloned /\ First \in alive
    BY <1>1, <1>2, <2>1 DEF RInv, Origins
  <2>3. QED  BY <1>1, <1>2, <2>2, DistinctObjects DEF RInv, Standing
<1>7. OnlyClonesBreakNesting'
  BY <1>1, <1>2, SoundFacts DEF RInv, OnlyClonesBreakNesting, Uses
<1>8. QED  BY <1>4, <1>5, <1>6, <1>7 DEF Rest

LEMMA DropUploadStep ==
  ASSUME RInv, TypeOK', NEW u \in Uploads, DropUpload(u)
  PROVE  Rest'
<1>1. u \in alive /\ Uses /\ Dies(u) /\ UNCHANGED <<vars, spent, shared, cloned>>
  BY DEF DropUpload
<1>2. /\ after' \in [Objects -> SUBSET Objects] /\ alive' = alive \ {u}
      /\ nested' \in BOOLEAN /\ (nested' => nested /\ after[u] = {})
      /\ \A y \in Objects : after'[y] = after[y] \ {u}
  BY <1>1, DiesStep, DistinctObjects
<1>3. handle' = handle /\ at' = at
  BY <1>1 DEF vars
<1>4. ResourcesTypeOK'
  <2>1. misused' \in BOOLEAN
    BY <1>1 DEF RInv, ResourcesTypeOK, Uses
  <2>2. QED  BY <1>1, <1>2, <1>3, <2>1, DistinctObjects DEF RInv, ResourcesTypeOK
<1>5. Origins'
  BY <1>1, <1>2, <1>3, DistinctObjects DEF RInv, Origins
<1>6. Standing'
  BY <1>1, <1>2, DistinctObjects DEF RInv, Standing
<1>7. OnlyClonesBreakNesting'
  BY <1>1, <1>2, SoundFacts DEF RInv, OnlyClonesBreakNesting, Uses
<1>8. QED  BY <1>4, <1>5, <1>6, <1>7 DEF Rest

(* The first value is dropped when nothing stands on it, or the nesting is  *)
(* broken.                                                                  *)
LEMMA DropStep ==
  ASSUME RInv, TypeOK', DropEnds
  PROVE  Rest'
<1> DEFINE c == call.by
<1>1. /\ call.op = "drop" /\ handle' = "destroyed" /\ at' = [at EXCEPT ![c] = NoPlace]
      /\ Dies(c) /\ Uses /\ UNCHANGED <<spent, shared, cloned>>
  BY DEF DropEnds, EndDrop
<1>2. c \in Copies /\ at[c] # NoPlace /\ handle = "live"
  BY <1>1, IdleFacts DEF RInv, EInv, CallsOwn
<1> HIDE DEF c
<1>3. /\ after' \in [Objects -> SUBSET Objects] /\ alive' = alive \ {c}
      /\ nested' \in BOOLEAN /\ (nested' => nested /\ after[c] = {})
      /\ \A y \in Objects : after'[y] = after[y] \ {c}
  BY <1>1, <1>2, DiesStep, DistinctObjects
<1>4. ResourcesTypeOK'
  <2>1. misused' \in BOOLEAN
    BY <1>1 DEF RInv, ResourcesTypeOK, Uses
  <2>2. \A e \in Copies : e \in alive' <=> at'[e] # NoPlace
    BY <1>1, <1>2, <1>3 DEF RInv, ResourcesTypeOK, TypeOK
  <2>3. QED  BY <1>1, <1>3, <2>1, <2>2 DEF RInv, ResourcesTypeOK
<1>5. ~ cloned => c = First
  BY <1>2 DEF RInv, ResourcesTypeOK, Origins, Copies
<1>6. Origins'
  BY <1>1, <1>2, <1>3, <1>5, DistinctObjects DEF RInv, Origins
<1>7. Standing'
  <2>1. SUFFICES ASSUME nested', ~ cloned' PROVE Standing'
    BY DEF Standing
  <2>2. nested /\ ~ cloned /\ c = First /\ after[First] = {}
    BY <1>1, <1>3, <1>5, <2>1
  <2>3. \A u \in Uploads : u \notin alive
    BY <2>2 DEF RInv, Standing
  <2>4. First \notin alive' /\ \A u \in Uploads : u \notin alive'
    BY <1>3, <2>2, <2>3
  <2>5. QED  BY <2>4 DEF Standing
<1>8. OnlyClonesBreakNesting'
  BY <1>1, <1>2, <1>3, SoundFacts DEF RInv, OnlyClonesBreakNesting, Uses
<1>9. QED  BY <1>4, <1>6, <1>7, <1>8 DEF Rest

LEMMA RInvStep == RInv /\ [ResourcesNext]_<<vars, resources>> => RInv'
<1>1. SUFFICES ASSUME RInv, [ResourcesNext]_<<vars, resources>> PROVE RInv'
  OBVIOUS
<1>2. EInv'
  BY <1>1, LayerStep, EInvStep DEF RInv
<1>3. TypeOK'
  BY <1>2 DEF EInv
<1>4. ASSUME Rest' PROVE RInv'
  BY <1>2, <1>4 DEF RInv, Rest
<1>5. CASE UNCHANGED <<vars, resources>>
  <2>1. ResourcesTypeOK'
    BY <1>1, <1>3, <1>5 DEF RInv, ResourcesTypeOK, vars, resources
  <2>2. Origins' /\ Standing' /\ OnlyClonesBreakNesting'
    BY <1>1, <1>5 DEF RInv, Origins, Standing, OnlyClonesBreakNesting, vars, resources
  <2>3. QED  BY <1>4, <2>1, <2>2 DEF Rest
<1>6. CASE ResourcesNext
  <2>1. CASE TransportFrom \/ TransportDrop
    BY <1>1, <1>3, <1>4, <2>1, TransportStep
  <2>2. ASSUME NEW p \in Places, CreateAlone(p) \/ CreateWithTransport(p) PROVE RInv'
    BY <1>1, <1>3, <1>4, <2>2, CreateStep
  <2>3. ASSUME NEW c \in Copies, NEW d \in Clones, NEW p \in Places, CloneClient(c, d, p)
        PROVE  RInv'
    BY <1>1, <1>3, <1>4, <2>3, CloneStep
  <2>4. CASE ClientUses
    BY <1>1, <1>3, <1>4, <2>4, ClientStep
  <2>5. CASE DropEnds
    BY <1>1, <1>3, <1>4, <2>5, DropStep
  <2>6. CASE \/ \E c \in Copies : CallStale(c) \/ NotifyUploadCompletion(c)
             \/ \E u \in Uploads : PutBlock(u) \/ PutBlockList(u)
    BY <1>1, <1>3, <1>4, <2>6, CallStep
  <2>7. ASSUME NEW c \in Copies, NEW u \in Uploads, AzureStorageCreateClient(c, u) PROVE RInv'
    BY <1>1, <1>3, <1>4, <2>7, UploadStep
  <2>8. ASSUME NEW u \in Uploads, DropUpload(u) PROVE RInv'
    BY <1>1, <1>3, <1>4, <2>8, DropUploadStep
  <2>9. QED
    BY <1>6, <2>1, <2>2, <2>3, <2>4, <2>5, <2>6, <2>7, <2>8, Zenon DEF ResourcesNext
<1>7. QED  BY <1>1, <1>5, <1>6

(* The device client and what lives on it keep their invariant.             *)
THEOREM ResourcesInvariant == ResourcesSpec => []RInv
  BY RInvInit, RInvStep, PTL DEF ResourcesSpec

(* Uploads and transports do not disturb the events: each step is one of    *)
(* theirs or leaves them alone.                                             *)
THEOREM ResourcesKeepTheEvents == ResourcesSpec => Spec
<1>1. ResourcesInit => Init
  BY DEF ResourcesInit
<1>2. QED  BY <1>1, LayerStep, PTL DEF ResourcesSpec, Spec

(* The state is of its type, for any clones, places and uploads.            *)
THEOREM TypeCorrect == ResourcesSpec => []ResourcesTypeOK
<1>1. RInv => ResourcesTypeOK
  BY DEF RInv
<1>2. QED  BY <1>1, ResourcesInvariant, PTL

(* A handler works on the client it was registered for from its beginning   *)
(* to its end, if that client keeps its place.                              *)
THEOREM HandlersFindTheirClient == ResourcesSpec => []CallbacksOnTheirClient
<1>1. RInv => CallbacksOnTheirClient
  BY EInvImplies DEF RInv
<1>2. QED  BY <1>1, ResourcesInvariant, PTL

(* A successful initialize_callbacks is complete, whatever failed before.   *)
THEOREM SuccessIsComplete == ResourcesSpec => []InitializedIsComplete
<1>1. RInv => InitializedIsComplete
  BY EInvImplies DEF RInv
<1>2. QED  BY <1>1, ResourcesInvariant, PTL

(* In nested scopes and without clones, nothing is used after what it needs *)
(* is gone.                                                                 *)
THEOREM NestingIsSafe == ResourcesSpec => []OnlyClonesBreakNesting
<1>1. RInv => OnlyClonesBreakNesting
  BY DEF RInv
<1>2. QED  BY <1>1, ResourcesInvariant, PTL

-----------------------------------------------------------------------------
(* What an application can do to be safe.                                   *)

(* Where no value is ever given another place, no handler is ever astray,   *)
(* whatever is cloned, fails half way or is dropped.                        *)
THEOREM NothingMovesNothingStrays ==
  ASSUME Relocatable = {} PROVE ResourcesSpec => []~ Astray
<1>1. RInv => ~ Astray
  BY DEF RInv, EInv, ContextsNamed, Names, Astray
<1>2. QED  BY <1>1, ResourcesInvariant, PTL

(* A handler is never cut short: as long as it runs, the handle it was      *)
(* called by is live, and its client, unless it may be relocated, is there  *)
(* and stays where it is, while the application calls, fails and drops.     *)
HandlersUndisturbed ==
  [][running # NoContext /\ running' = running =>
       /\ handle' = "live"
       /\ running.by \notin Relocatable =>
            at[running.by] = running.place /\ at'[running.by] = running.place]_vars

THEOREM HandlersAreUndisturbed == ResourcesSpec => HandlersUndisturbed
<1>1. EInv /\ EInv' =>
        (running # NoContext /\ running' = running =>
           /\ handle' = "live"
           /\ running.by \notin Relocatable =>
                at[running.by] = running.place /\ at'[running.by] = running.place)
  BY DEF EInv, ContextsNamed, Names
<1>2. QED  BY <1>1, EventsInvariant, ResourcesKeepTheEvents, PTL DEF HandlersUndisturbed

(* A client that cannot be cloned and is dropped in the reverse order of its*)
(* making, as in one scope, is never used after what it needs is gone.      *)
THEOREM OneScopeIsSafe ==
  ASSUME Clones = {} PROVE ResourcesSpec => [](nested => ~ misused)
<1> DEFINE Uncloned == ~ cloned
<1>1. ResourcesInit => Uncloned
  BY DEF ResourcesInit
<1>2. Uncloned /\ [ResourcesNext]_<<vars, resources>> => Uncloned'
  <2>1. SUFFICES ASSUME ~ cloned, [ResourcesNext]_<<vars, resources>> PROVE ~ cloned'
    OBVIOUS
  <2>2. CASE UNCHANGED <<vars, resources>>
    BY <2>1, <2>2 DEF resources
  <2>3. CASE ResourcesNext
    BY <2>1, <2>3
       DEF ResourcesNext, TransportFrom, TransportDrop, CreateAlone, CreateWithTransport,
           ClientUses, DropEnds, CallStale, NotifyUploadCompletion, AzureStorageCreateClient,
           PutBlock, PutBlockList, DropUpload
  <2>4. QED  BY <2>1, <2>2, <2>3
<1>3. Uncloned /\ OnlyClonesBreakNesting => (nested => ~ misused)
  BY DEF OnlyClonesBreakNesting
<1> HIDE DEF Uncloned
<1>4. QED  BY <1>1, <1>2, <1>3, NestingIsSafe, PTL DEF ResourcesSpec
=============================================================================
