--------------------------- MODULE ModuleLifecycle ---------------------------
(***************************************************************************)
(* The life of an IotHubModuleClient value (lib/src/moduleclient.rs): its  *)
(* construction, the registration of the hub's callbacks, the dispatch of  *)
(* the hub's events, and its drop.                                         *)
(*                                                                         *)
(* The constructor registers five callbacks, each with the address of its  *)
(* own local variable as the context, and then returns the client by       *)
(* value.  A callback casts its context to the client it believes to find  *)
(* there.  Where a value lives is therefore part of the state: a move, be  *)
(* it the return itself, an unwrap or an assignment, gives the client      *)
(* another place and tells the SDK nothing.                                *)
(***************************************************************************)
EXTENDS Naturals, Sequences, FiniteSets

CONSTANTS
  Clients,    \* the clients an application constructs, each with its handle
  Places,     \* places in memory
  NoPlace,    \* no place
  Relocatable \* the clients that the application may move; the others stay
              \* where the return of the constructor left them

ASSUME PlacesAssumption == NoPlace \notin Places
ASSUME RelocatableAssumption == Relocatable \subseteq Clients

(* The order of the registrations in initialize_callbacks.                  *)
Registrations == <<"input", "message", "method", "twin", "status">>
HubKinds == {"input", "message", "method", "twin", "status"}
Kinds == HubKinds \cup {"command"}

VARIABLES
  phase,    \* the client value: "unborn", "registering", "held" or "gone"
  at,       \* where it lives
  done,     \* how many registrations the constructor has made
  sdk,      \* its handle: "none", "live" or "destroyed"
  ctx,      \* the context the SDK keeps for each kind of callback
  reports,  \* the contexts of reported states not yet acknowledged
  stray     \* the callbacks whose context was not their client

vars == <<phase, at, done, sdk, ctx, reports, stray>>

NoContexts == [k \in Kinds |-> NoPlace]
Free(p) == \A c \in Clients : at[c] # p

Init ==
  /\ phase = [c \in Clients |-> "unborn"]
  /\ at = [c \in Clients |-> NoPlace]
  /\ done = [c \in Clients |-> 0]
  /\ sdk = [c \in Clients |-> "none"]
  /\ ctx = [c \in Clients |-> NoContexts]
  /\ reports = [c \in Clients |-> {}]
  /\ stray = {}

-----------------------------------------------------------------------------
(* The SDK gives the constructor a handle (a null one is an error that      *)
(* leaves nothing behind), and the client comes to be as a local variable.  *)
Create(c, p) ==
  /\ phase[c] = "unborn"
  /\ Free(p)
  /\ phase' = [phase EXCEPT ![c] = "registering"]
  /\ at' = [at EXCEPT ![c] = p]
  /\ sdk' = [sdk EXCEPT ![c] = "live"]
  /\ UNCHANGED <<done, ctx, reports, stray>>

(* initialize_callbacks makes its next registration.                        *)
Register(c) ==
  /\ phase[c] = "registering"
  /\ done[c] < Len(Registrations)
  /\ done' = [done EXCEPT ![c] = @ + 1]
  /\ ctx' = [ctx EXCEPT ![c][Registrations[done[c] + 1]] = at[c]]
  /\ UNCHANGED <<phase, at, sdk, reports, stray>>

(* A value goes out of scope: Drop destroys the handle, which calls back    *)
(* for the reported states in flight and forgets all that was registered.   *)
DestroyedIs(c) ==
  /\ phase' = [phase EXCEPT ![c] = "gone"]
  /\ at' = [at EXCEPT ![c] = NoPlace]
  /\ sdk' = [sdk EXCEPT ![c] = "destroyed"]
  /\ ctx' = [ctx EXCEPT ![c] = NoContexts]
  /\ reports' = [reports EXCEPT ![c] = {}]
  /\ stray' = IF reports[c] \subseteq {at[c]} THEN stray ELSE stray \cup {<<c, "reported">>}

(* Mutant: a failed registration is ignored.                                *)
RegisterIgnoring(c) ==
  /\ phase[c] = "registering"
  /\ done[c] < Len(Registrations)
  /\ done' = [done EXCEPT ![c] = @ + 1]
  /\ UNCHANGED <<phase, at, sdk, ctx, reports, stray>>

(* Mutant: a failed constructor forgets the client.                         *)
RegisterForgetting(c) ==
  /\ phase[c] = "registering"
  /\ done[c] < Len(Registrations)
  /\ phase' = [phase EXCEPT ![c] = "gone"]
  /\ at' = [at EXCEPT ![c] = NoPlace]
  /\ UNCHANGED <<done, sdk, ctx, reports, stray>>

(* The SDK refuses a registration: the ? returns early, which drops the     *)
(* half registered client.                                                  *)
RegisterFails(c) ==
  /\ phase[c] = "registering"
  /\ done[c] < Len(Registrations)
  /\ DestroyedIs(c)
  /\ UNCHANGED done

(* Ok(client): the client moves out of the constructor, be it to another    *)
(* place or built where it is to be.                                        *)
Return(c, p) ==
  /\ phase[c] = "registering"
  /\ done[c] = Len(Registrations)
  /\ p = at[c] \/ Free(p)
  /\ phase' = [phase EXCEPT ![c] = "held"]
  /\ at' = [at EXCEPT ![c] = p]
  /\ UNCHANGED <<done, sdk, ctx, reports, stray>>

(* The application moves the client: an unwrap, an assignment, a Box.       *)
Move(c, p) ==
  /\ phase[c] = "held"
  /\ c \in Relocatable /\ Free(p)
  /\ at' = [at EXCEPT ![c] = p]
  /\ UNCHANGED <<phase, done, sdk, ctx, reports, stray>>

(* Mutant: the context of the constructor's registrations is used again.    *)
SubscribeReusing(c) ==
  /\ phase[c] = "held"
  /\ ctx' = [ctx EXCEPT ![c].command = ctx[c].message]
  /\ UNCHANGED <<phase, at, done, sdk, reports, stray>>

(* Registered with the address the client has now.                          *)
SubscribeToCommands(c) ==
  /\ phase[c] = "held"
  /\ ctx' = [ctx EXCEPT ![c].command = at[c]]
  /\ UNCHANGED <<phase, at, done, sdk, reports, stray>>

SendReportedState(c) ==
  /\ phase[c] = "held"
  /\ reports' = [reports EXCEPT ![c] = @ \cup {at[c]}]
  /\ UNCHANGED <<phase, at, done, sdk, ctx, stray>>

(* A DoWork in which the hub has an event of kind k for the client: the     *)
(* C callback dereferences its context.                                     *)
Dispatch(c, k) ==
  /\ phase[c] = "held"
  /\ ctx[c][k] # NoPlace
  /\ stray' = IF ctx[c][k] = at[c] THEN stray ELSE stray \cup {<<c, k>>}
  /\ UNCHANGED <<phase, at, done, sdk, ctx, reports>>

(* A DoWork in which the hub acknowledges a reported state.                 *)
Acknowledge(c, p) ==
  /\ phase[c] = "held"
  /\ p \in reports[c]
  /\ reports' = [reports EXCEPT ![c] = @ \ {p}]
  /\ stray' = IF p = at[c] THEN stray ELSE stray \cup {<<c, "reported">>}
  /\ UNCHANGED <<phase, at, done, sdk, ctx>>

Drop(c) ==
  /\ phase[c] = "held"
  /\ DestroyedIs(c)
  /\ UNCHANGED done

(* The steps of one client, with the hub's events of the given kinds.       *)
ClientStep(c, kinds) ==
  \/ \E p \in Places : Create(c, p) \/ Return(c, p) \/ Move(c, p)
  \/ Register(c)
  \/ RegisterFails(c)
  \/ SubscribeToCommands(c)
  \/ SendReportedState(c)
  \/ \E k \in kinds : Dispatch(c, k)
  \/ \E p \in Places : Acknowledge(c, p)
  \/ Drop(c)

(* The program has no meaning once a callback took other memory for its     *)
(* client.                                                                  *)
Next ==
  /\ stray = {}
  /\ \E c \in Clients : ClientStep(c, Kinds)

Spec == Init /\ [][Next]_vars

-----------------------------------------------------------------------------
(* Types of the variables.                                                  *)
TypeOK ==
  /\ phase \in [Clients -> {"unborn", "registering", "held", "gone"}]
  /\ at \in [Clients -> Places \cup {NoPlace}]
  /\ done \in [Clients -> 0 .. Len(Registrations)]
  /\ sdk \in [Clients -> {"none", "live", "destroyed"}]
  /\ ctx \in [Clients -> [Kinds -> Places \cup {NoPlace}]]
  /\ reports \in [Clients -> SUBSET Places]
  /\ stray \subseteq Clients \X (Kinds \cup {"reported"})

(* Whichever registration fails, no SDK handle is left without a client and *)
(* no client without its handle.                                            *)
HandlesBalanced ==
  \A c \in Clients : sdk[c] = "live" <=> at[c] # NoPlace

(* An application that was given a client gets every kind of event: no      *)
(* registration was skipped or overwritten on the way.                      *)
HeldIsComplete ==
  \A c \in Clients :
    phase[c] = "held" => \A k \in HubKinds : ctx[c][k] # NoPlace

(* Every callback finds its own client behind its context.                  *)
NoStray == stray = {}

(* The contexts of a client that stays where the constructor put it name    *)
(* that very client, even where places are used again by others: those of   *)
(* the constructor until it returns, and those registered later until the   *)
(* drop (initialize_callbacks, subscribe_to_commands, send_reported_state). *)
ContextsName ==
  \A c \in Clients \ Relocatable :
    sdk[c] = "live" =>
      /\ phase[c] = "registering" => \A k \in Kinds : ctx[c][k] \in {NoPlace, at[c]}
      /\ ctx[c].command \in {NoPlace, at[c]}
      /\ reports[c] \subseteq {at[c]}
      /\ \A d \in Clients \ {c} : at[d] # at[c]
=============================================================================
