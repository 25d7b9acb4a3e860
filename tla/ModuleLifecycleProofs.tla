------------------------ MODULE ModuleLifecycleProofs ------------------------
(***************************************************************************)
(* Proofs about the life of module clients, for any number of clients and  *)
(* places.  What does not depend on where a client lives is proved of every*)
(* client; what contexts name is proved of the clients that the application*)
(* leaves where the constructor put them, whatever it does with the others.*)
(***************************************************************************)
EXTENDS ModuleLifecycle, TLAPS

Living == {"registering", "held"}

(* Value and handle live and die together.                                  *)
Together ==
  \A c \in Clients :
    /\ phase[c] \in Living <=> at[c] # NoPlace
    /\ phase[c] \in Living <=> sdk[c] = "live"

(* The registrations made so far are on record until the drop.              *)
Recorded ==
  \A c \in Clients :
    /\ phase[c] \in Living =>
         \A i \in 1 .. done[c] : ctx[c][Registrations[i]] # NoPlace
    /\ phase[c] = "held" => done[c] = Len(Registrations)
    /\ phase[c] = "unborn" => done[c] = 0

(* Nothing is registered for a client that does not exist.                  *)
Forgotten ==
  \A c \in Clients :
    phase[c] \notin Living => ctx[c] = NoContexts /\ reports[c] = {}

IInv == TypeOK /\ Together /\ Recorded /\ Forgotten

(* The five registrations are the five kinds of hub callback.               *)
LEMMA RegistrationsFacts ==
  /\ Len(Registrations) = 5
  /\ \A i \in 1 .. 5 : Registrations[i] \in HubKinds
  /\ \A k \in HubKinds : \E i \in 1 .. 5 : Registrations[i] = k
  /\ HubKinds \subseteq Kinds
BY DEF Registrations, HubKinds, Kinds

LEMMA InitInv == Init => IInv
BY PlacesAssumption, RegistrationsFacts
   DEF Init, IInv, TypeOK, Together, Recorded, Forgotten, Living, NoContexts

LEMMA StepInv == IInv /\ [Next]_vars => IInv'
<1> SUFFICES ASSUME IInv, [Next]_vars PROVE IInv'
  OBVIOUS
<1> USE PlacesAssumption, RegistrationsFacts
    DEF IInv, TypeOK, Together, Recorded, Forgotten, Living
<1>1. ASSUME NEW c \in Clients, NEW p \in Places, Create(c, p) PROVE IInv'
  <2>1. done[c] = 0
    BY <1>1 DEF Create
  <2>2. (TypeOK /\ Together /\ Forgotten)'
    BY <1>1 DEF Create
  <2>3. Recorded'
    BY <1>1, <2>1 DEF Create
  <2>4. QED  BY <2>2, <2>3
<1>2. ASSUME NEW c \in Clients, Register(c) PROVE IInv'
  <2> DEFINE n == done[c] + 1
             k == Registrations[n]
  <2>1. n \in 1 .. 5 /\ k \in Kinds /\ at[c] \in Places
    BY <1>2 DEF Register
  <2>2. done' = [done EXCEPT ![c] = n] /\ ctx' = [ctx EXCEPT ![c][k] = at[c]]
    BY <1>2 DEF Register
  <2>3. ctx' \in [Clients -> [Kinds -> Places \cup {NoPlace}]]
    BY <2>1, <2>2
  <2>4. /\ ctx'[c][k] = at[c]
        /\ \A j \in Kinds \ {k} : ctx'[c][j] = ctx[c][j]
        /\ \A d \in Clients \ {c} : ctx'[d] = ctx[d]
    BY <2>1, <2>2
  <2> HIDE DEF k
  <2>5. TypeOK' /\ Together' /\ Forgotten'
    BY <1>2, <2>1, <2>2, <2>3, <2>4 DEF Register
  <2>6. \A i \in 1 .. n : ctx'[c][Registrations[i]] # NoPlace
    BY <1>2, <2>1, <2>4 DEF Register, k
  <2>7. Recorded'
    BY <1>2, <2>1, <2>2, <2>4, <2>6 DEF Register
  <2>8. QED  BY <2>5, <2>7
<1>3. ASSUME NEW c \in Clients, DestroyedIs(c), UNCHANGED done
      PROVE  IInv'
  BY <1>3 DEF DestroyedIs, NoContexts
<1>4. ASSUME NEW c \in Clients, NEW p \in Places, Return(c, p) PROVE IInv'
  BY <1>4 DEF Return
<1>5. ASSUME NEW c \in Clients, NEW p \in Places, Move(c, p) PROVE IInv'
  BY <1>5 DEF Move
<1>6. ASSUME NEW c \in Clients, SubscribeToCommands(c) PROVE IInv'
  <2>1. at[c] \in Places /\ "command" \in Kinds
    BY <1>6 DEF SubscribeToCommands, Kinds
  <2>2. /\ ctx' \in [Clients -> [Kinds -> Places \cup {NoPlace}]]
        /\ \A d \in Clients, k \in Kinds :
             ctx[d][k] # NoPlace => ctx'[d][k] # NoPlace
        /\ \A d \in Clients \ {c} : ctx'[d] = ctx[d]
    <3>1. ctx' = [ctx EXCEPT ![c] = [@ EXCEPT !["command"] = at[c]]]
      BY <1>6 DEF SubscribeToCommands
    <3>2. [ctx[c] EXCEPT !["command"] = at[c]] \in [Kinds -> Places \cup {NoPlace}]
      BY <2>1
    <3>3. QED  BY <2>1, <3>1, <3>2
  <2>3. TypeOK' /\ Together' /\ Forgotten'
    BY <1>6, <2>2 DEF SubscribeToCommands
  <2>4. \A d \in Clients : \A i \in 1 .. done[d] : Registrations[i] \in Kinds
    OBVIOUS
  <2>5. UNCHANGED <<phase, at, done, sdk>>
    BY <1>6 DEF SubscribeToCommands
  <2>6. Recorded'
    BY <2>2, <2>4, <2>5
  <2>7. QED  BY <2>3, <2>6
<1>7. ASSUME NEW c \in Clients, SendReportedState(c) PROVE IInv'
  BY <1>7 DEF SendReportedState
<1>8. ASSUME NEW c \in Clients, NEW k \in Kinds, Dispatch(c, k) PROVE IInv'
  BY <1>8 DEF Dispatch
<1>9. ASSUME NEW c \in Clients, NEW p \in Places, Acknowledge(c, p) PROVE IInv'
  BY <1>9 DEF Acknowledge
<1>10. CASE UNCHANGED vars
  BY <1>10 DEF vars
<1>11. QED
  BY <1>1, <1>2, <1>3, <1>4, <1>5, <1>6, <1>7, <1>8, <1>9, <1>10
     DEF Next, ClientStep, RegisterFails, Drop

LEMMA Inductive == Spec => []IInv
BY InitInv, StepInv, PTL DEF Spec

-----------------------------------------------------------------------------
(* The variables keep their types.                                          *)
THEOREM TypeCorrect == Spec => []TypeOK
BY Inductive, PTL DEF IInv

(* No failing registration leaks a handle, and no drop spares one.          *)
THEOREM HandlesAreBalanced == Spec => []HandlesBalanced
<1>1. IInv => HandlesBalanced
  BY DEF IInv, Together, HandlesBalanced
<1>2. QED  BY <1>1, Inductive, PTL

(* A constructor that returns a client has made all of its registrations.   *)
THEOREM HeldClientsAreComplete == Spec => []HeldIsComplete
<1>1. IInv => HeldIsComplete
  <2> SUFFICES ASSUME IInv, NEW c \in Clients, phase[c] = "held", NEW k \in HubKinds
               PROVE  ctx[c][k] # NoPlace
    BY DEF HeldIsComplete
  <2>1. done[c] = 5 /\ \A i \in 1 .. 5 : ctx[c][Registrations[i]] # NoPlace
    BY RegistrationsFacts DEF IInv, Recorded, Living
  <2>2. PICK i \in 1 .. 5 : Registrations[i] = k
    BY RegistrationsFacts
  <2>3. QED  BY <2>1, <2>2
<1>2. QED  BY <1>1, Inductive, PTL

-----------------------------------------------------------------------------
(* The same life, seen by the clients that the application does not move.   *)
(* The constructor registers the place of a local variable, and its return  *)
(* may give the client another: of these callbacks nothing can be said.  But*)
(* a context of a later registration is the address that the client keeps   *)
(* until the drop forgets it, and nobody else can come to be there.         *)
OnlyHubKindsStray ==
  \A c \in Clients \ Relocatable, k \in Kinds \cup {"reported"} :
    <<c, k>> \in stray => k \in HubKinds

(* A constructor registers the hub's callbacks only.                        *)
HubKindsFirst ==
  \A c \in Clients :
    phase[c] = "registering" => ctx[c].command = NoPlace /\ reports[c] = {}

SettledInv == ContextsName /\ OnlyHubKindsStray /\ HubKindsFirst

LEMMA SettledStep == IInv /\ SettledInv /\ [Next]_vars => SettledInv'
<1> SUFFICES ASSUME IInv, SettledInv, [Next]_vars PROVE SettledInv'
  OBVIOUS
<1>k. /\ HubKinds \subseteq Kinds /\ "command" \in Kinds
      /\ \A k \in Kinds : k \in HubKinds \/ k = "command"
  BY DEF Kinds, HubKinds
<1> USE PlacesAssumption, <1>k
    DEF IInv, TypeOK, Together, Forgotten, Living, SettledInv, ContextsName, OnlyHubKindsStray,
        HubKindsFirst
<1>1. ASSUME NEW c \in Clients, NEW p \in Places, Create(c, p) PROVE SettledInv'
  BY <1>1 DEF Create, Free, NoContexts
<1>2. ASSUME NEW c \in Clients, Register(c) PROVE SettledInv'
  <2>1. /\ UNCHANGED <<phase, at, sdk, reports, stray>>
        /\ \A d \in Clients, k \in Kinds : ctx'[d][k] \in {ctx[d][k], at[d]}
    BY <1>2 DEF Register
  <2>2. \A d \in Clients : ctx'[d].command = ctx[d].command
    <3>1. Registrations[done[c] + 1] \in HubKinds /\ "command" \notin HubKinds
      BY <1>2, RegistrationsFacts DEF Register, HubKinds
    <3>2. QED  BY <1>2, <3>1 DEF Register
  <2>3. QED  BY <2>1, <2>2
<1>3. ASSUME NEW c \in Clients, phase[c] \in Living, DestroyedIs(c) PROVE SettledInv'
  <2>1. c \notin Relocatable => stray' = stray
    BY <1>3 DEF DestroyedIs
  <2>2. OnlyHubKindsStray'
    BY <1>3, <2>1 DEF DestroyedIs
  <2>3. ContextsName'
    BY <1>3 DEF DestroyedIs
  <2>4. HubKindsFirst'
    BY <1>3 DEF DestroyedIs
  <2>5. QED  BY <2>2, <2>3, <2>4
<1>4. ASSUME NEW c \in Clients, NEW p \in Places, Return(c, p) PROVE SettledInv'
  <2>1. /\ UNCHANGED <<sdk, ctx, reports, stray>>
        /\ at' = [at EXCEPT ![c] = p] /\ phase' = [phase EXCEPT ![c] = "held"]
        /\ phase[c] = "registering" /\ (p = at[c] \/ Free(p))
    BY <1>4 DEF Return
  <2>2. CASE p = at[c]
    <3>1. at' = at
      BY <2>1, <2>2
    <3>2. QED  BY <2>1, <3>1
  <2>3. CASE Free(p)
    <3>1. \A d \in Clients \ {c} : at'[d] = at[d] /\ at'[c] # at'[d] /\ phase'[d] = phase[d]
      BY <2>1, <2>3 DEF Free
    <3>2. ctx'[c].command = NoPlace /\ reports'[c] = {} /\ phase'[c] = "held"
      BY <2>1
    <3>3. QED  BY <2>1, <3>1, <3>2
  <2>4. QED  BY <2>1, <2>2, <2>3
<1>5. ASSUME NEW c \in Clients, NEW p \in Places, Move(c, p) PROVE SettledInv'
  <2>1. /\ UNCHANGED <<phase, sdk, ctx, reports, stray>>
        /\ at' = [at EXCEPT ![c] = p] /\ c \in Relocatable
        /\ \A d \in Clients \ {c} : at'[d] = at[d] /\ at'[c] # at'[d]
    BY <1>5 DEF Move, Free
  <2>2. QED  BY <2>1
<1>6. ASSUME NEW c \in Clients, SubscribeToCommands(c) PROVE SettledInv'
  <2>1. /\ UNCHANGED <<phase, at, sdk, reports, stray>>
        /\ \A d \in Clients, k \in Kinds : ctx'[d][k] \in {ctx[d][k], at[d]}
    BY <1>6 DEF SubscribeToCommands
  <2>2. phase[c] = "held" /\ \A d \in Clients \ {c} : ctx'[d] = ctx[d]
    BY <1>6 DEF SubscribeToCommands
  <2>3. ContextsName' /\ OnlyHubKindsStray'
    BY <2>1
  <2>4. HubKindsFirst'
    BY <2>1, <2>2
  <2>5. QED  BY <2>3, <2>4
<1>7. ASSUME NEW c \in Clients, SendReportedState(c) PROVE SettledInv'
  BY <1>7 DEF SendReportedState
<1>8. ASSUME NEW c \in Clients, NEW k \in Kinds, Dispatch(c, k) PROVE SettledInv'
  <2>1. UNCHANGED <<phase, at, sdk, ctx, reports>> /\ phase[c] = "held" /\ ctx[c][k] # NoPlace
    BY <1>8 DEF Dispatch
  <2>2. c \notin Relocatable /\ k = "command" => stray' = stray
    BY <1>8, <2>1 DEF Dispatch
  <2>3. stray' = stray \/ stray' = stray \cup {<<c, k>>}
    BY <1>8 DEF Dispatch
  <2>4. QED  BY <2>1, <2>2, <2>3
<1>9. ASSUME NEW c \in Clients, NEW p \in Places, Acknowledge(c, p) PROVE SettledInv'
  BY <1>9 DEF Acknowledge
<1>10. CASE UNCHANGED vars
  BY <1>10 DEF vars
<1>11. QED
  BY <1>1, <1>2, <1>3, <1>4, <1>5, <1>6, <1>7, <1>8, <1>9, <1>10
     DEF Next, ClientStep, RegisterFails, Drop

LEMMA SettledInductive == Spec => []SettledInv
<1>1. Init => SettledInv
  BY DEF Init, SettledInv, ContextsName, OnlyHubKindsStray, HubKindsFirst
<1>2. QED  BY <1>1, SettledStep, Inductive, PTL DEF Spec

(* What a client that is not moved registers after its construction names   *)
(* that client for good.                                                    *)
THEOREM SettledContextsName == Spec => []ContextsName
BY SettledInductive, PTL DEF SettledInv

(* Though the return of a constructor moves the client: where that is the   *)
(* only move, subscribed commands and reported states, those acknowledged at*)
(* the destruction included, always find it.  Only the five callbacks that  *)
(* the constructor itself registered can miss it.                           *)
THEOREM LaterRegistrationsHold ==
  ASSUME Relocatable = {} PROVE Spec => [](stray \subseteq Clients \X HubKinds)
<1>1. IInv /\ SettledInv => stray \subseteq Clients \X HubKinds
  <2> SUFFICES ASSUME IInv, SettledInv, NEW x \in stray PROVE x \in Clients \X HubKinds
    OBVIOUS
  <2>1. PICK c \in Clients, k \in Kinds \cup {"reported"} : x = <<c, k>>
    BY DEF IInv, TypeOK
  <2>2. QED  BY <2>1 DEF SettledInv, OnlyHubKindsStray
<1>2. QED  BY <1>1, SettledInductive, Inductive, PTL
=============================================================================
