---------------------------- MODULE DeviceEvents ----------------------------
(***************************************************************************)
(* The events of an IoTHubDeviceClient (lib/src/deviceclient.rs).  Unlike  *)
(* the module client, whose callbacks run inside its do_work, the device   *)
(* client is called back by a worker thread of the SDK, at any moment and  *)
(* for as long as a handler takes.  What the worker thread is given is the *)
(* address of the client value that made the registration.                 *)
(*                                                                         *)
(* The application, on one thread as the client is not Send, calls         *)
(* initialize_callbacks whenever it likes, on the client or on a clone,    *)
(* again after it failed half way, and it moves and drops the values.      *)
(***************************************************************************)
EXTENDS Naturals, Sequences

CONSTANTS
  First,       \* the client that is constructed
  Clones,      \* the values its clones may have
  Nobody,      \* no value
  Places,      \* places in memory
  NoPlace,     \* no place
  Relocatable  \* the values that a move may give another place

Copies == {First} \cup Clones

ASSUME CopiesAssumption == First \notin Clones /\ Nobody \notin Copies
ASSUME PlacesAssumption == NoPlace \notin Places

(* The order of the registrations in initialize_callbacks.                  *)
Registrations == <<"message", "input", "twin", "method", "status">>
HubKinds == {"message", "input", "twin", "method", "status"}
Kinds == HubKinds \cup {"command"}

(* A context: an address, and as a ghost the value that lived there.        *)
Contexts == [by : Copies, place : Places]
NoContext == [by |-> Nobody, place |-> NoPlace]

Idle == [op |-> "none", by |-> Nobody, made |-> 0]

VARIABLES
  at,        \* where each value lives
  handle,    \* the handle they share: "none", "live" or "destroyed"
  call,      \* the call the application is in, and the registrations it made
  ctx,       \* the context the SDK keeps for each kind of callback
  once,      \* the contexts of callbacks it will make once
  running,   \* the context of the handler the worker thread is in
  complete   \* the value whose initialize_callbacks was the last to succeed,
             \* with no registration by another since

vars == <<at, handle, call, ctx, once, running, complete>>

FreePlace(p) == \A c \in Copies : at[c] # p

(* context_ptr                                                              *)
Self(c) == [by |-> c, place |-> at[c]]

(* The application, outside any call, has the value and may use its handle. *)
Ready(c) == call = Idle /\ at[c] # NoPlace /\ handle = "live"

Init ==
  /\ at = [c \in Copies |-> NoPlace]
  /\ handle = "none"
  /\ call = Idle
  /\ ctx = [k \in Kinds |-> NoContext]
  /\ once = {}
  /\ running = NoContext
  /\ complete = Nobody

-----------------------------------------------------------------------------
(* Values.                                                                  *)

(* A constructor got a handle.                                              *)
Create(p) ==
  /\ handle = "none" /\ call = Idle
  /\ at' = [at EXCEPT ![First] = p]
  /\ handle' = "live"
  /\ UNCHANGED <<call, ctx, once, running, complete>>

(* clone copies the handle and not what is registered with it.              *)
Clone(c, d, p) ==
  /\ Ready(c) /\ at[d] = NoPlace /\ FreePlace(p)
  /\ at' = [at EXCEPT ![d] = p]
  /\ UNCHANGED <<handle, call, ctx, once, running, complete>>

(* A return, an unwrap, an assignment, a Box.                               *)
Move(c, p) ==
  /\ call = Idle /\ at[c] # NoPlace
  /\ c \in Relocatable /\ FreePlace(p)
  /\ at' = [at EXCEPT ![c] = p]
  /\ UNCHANGED <<handle, call, ctx, once, running, complete>>

-----------------------------------------------------------------------------
(* Registrations.  A single one the SDK refuses changes nothing.            *)

BeginInitialize(c) ==
  /\ Ready(c)
  /\ call' = [op |-> "initialize", by |-> c, made |-> 0]
  /\ complete' = Nobody
  /\ UNCHANGED <<at, handle, ctx, once, running>>

Register ==
  /\ call.op = "initialize" /\ call.made < Len(Registrations)
  /\ ctx' = [ctx EXCEPT ![Registrations[call.made + 1]] = Self(call.by)]
  /\ call' = [call EXCEPT !.made = @ + 1]
  /\ UNCHANGED <<at, handle, once, running, complete>>

(* Mutant: a failed registration is ignored.                                *)
RegisterFailsIgnored ==
  /\ call.op = "initialize" /\ call.made < Len(Registrations)
  /\ call' = [call EXCEPT !.made = @ + 1]
  /\ UNCHANGED <<at, handle, ctx, once, running, complete>>

(* The ? returns early; the registrations made so far stay.                 *)
RegisterFails ==
  /\ call.op = "initialize" /\ call.made < Len(Registrations)
  /\ call' = Idle
  /\ UNCHANGED <<at, handle, ctx, once, running, complete>>

Initialized ==
  /\ call.op = "initialize" /\ call.made = Len(Registrations)
  /\ call' = Idle
  /\ complete' = call.by
  /\ UNCHANGED <<at, handle, ctx, once, running>>

SubscribeToCommands(c) ==
  /\ Ready(c)
  /\ ctx' = [ctx EXCEPT !["command"] = Self(c)]
  /\ UNCHANGED <<at, handle, call, once, running, complete>>

(* For the input that initialize_callbacks registers, it replaces that.     *)
SetInputMessageCallback(c) ==
  /\ Ready(c)
  /\ ctx' = [ctx EXCEPT !["input"] = Self(c)]
  /\ complete' = IF complete = c THEN c ELSE Nobody
  /\ UNCHANGED <<at, handle, call, once, running>>

(* Mutant: a context that is not there.                                     *)
SendReportedStateAnonymous(c) ==
  /\ Ready(c)
  /\ once' = once \cup {NoContext}
  /\ UNCHANGED <<at, handle, call, ctx, running, complete>>

SendReportedState(c) ==
  /\ Ready(c)
  /\ once' = once \cup {Self(c)}
  /\ UNCHANGED <<at, handle, call, ctx, running, complete>>

GenericMethodInvoke(c) ==
  /\ Ready(c)
  /\ once' = once \cup {Self(c)}
  /\ UNCHANGED <<at, handle, call, ctx, running, complete>>

-----------------------------------------------------------------------------
(* The worker thread, which runs until the handle is destroyed.             *)

BeginCallback(k) ==
  /\ handle = "live" /\ running = NoContext
  /\ ctx[k] # NoContext
  /\ running' = ctx[k]
  /\ UNCHANGED <<at, handle, call, ctx, once, complete>>

BeginOnce(x) ==
  /\ handle = "live" /\ running = NoContext
  /\ x \in once
  /\ running' = x
  /\ once' = once \ {x}
  /\ UNCHANGED <<at, handle, call, ctx, complete>>

EndCallback ==
  /\ running # NoContext
  /\ running' = NoContext
  /\ UNCHANGED <<at, handle, call, ctx, once, complete>>

-----------------------------------------------------------------------------
(* Mutant: the value is taken apart before its handle is destroyed.         *)
BeginDropTakingApart(c) ==
  /\ Ready(c)
  /\ call' = [op |-> "drop", by |-> c, made |-> 0]
  /\ at' = [at EXCEPT ![c] = NoPlace]
  /\ UNCHANGED <<handle, ctx, once, running, complete>>

(* Drop calls destroy, which asks the worker thread to stop.                *)
BeginDrop(c) ==
  /\ Ready(c)
  /\ call' = [op |-> "drop", by |-> c, made |-> 0]
  /\ UNCHANGED <<at, handle, ctx, once, running, complete>>

(* It has stopped: destroy returns, and the fields of the value go.         *)
EndDrop ==
  /\ call.op = "drop" /\ running = NoContext
  /\ handle' = "destroyed"
  /\ ctx' = [k \in Kinds |-> NoContext] /\ once' = {} /\ complete' = Nobody
  /\ at' = [at EXCEPT ![call.by] = NoPlace]
  /\ call' = Idle
  /\ UNCHANGED running

(* A handler works on a place that its client has left.                     *)
Astray == running # NoContext /\ at[running.by] # running.place

(* The steps at which no value comes or goes.                               *)
EventStep ==
  \/ \E c \in Copies, p \in Places : Move(c, p)
  \/ \E c \in Copies :
       \/ BeginInitialize(c) \/ SubscribeToCommands(c) \/ SetInputMessageCallback(c)
       \/ SendReportedState(c) \/ GenericMethodInvoke(c) \/ BeginDrop(c)
  \/ Register \/ RegisterFails \/ Initialized
  \/ \E k \in Kinds : BeginCallback(k)
  \/ \E x \in once : BeginOnce(x)
  \/ EndCallback

(* The program has no meaning once a handler is astray.                     *)
Next ==
  /\ ~ Astray
  /\ \/ \E p \in Places : Create(p)
     \/ \E c \in Copies, d \in Clones, p \in Places : Clone(c, d, p)
     \/ EventStep
     \/ EndDrop

Spec == Init /\ [][Next]_vars

-----------------------------------------------------------------------------
(* Types of the variables.                                                  *)
TypeOK ==
  /\ at \in [Copies -> Places \cup {NoPlace}]
  /\ handle \in {"none", "live", "destroyed"}
  /\ call \in [op : {"none", "initialize", "drop"}, by : Copies \cup {Nobody},
               made : 0 .. Len(Registrations)]
  /\ ctx \in [Kinds -> Contexts \cup {NoContext}]
  /\ once \subseteq Contexts
  /\ running \in Contexts \cup {NoContext}
  /\ complete \in Copies \cup {Nobody}

(* From its beginning to its end a handler works on the client it was       *)
(* registered for, whatever the application does meanwhile and whoever else *)
(* registers or is dropped, if that client is never moved (the callbacks of *)
(* deviceclient.rs, and destroy in its drop).                               *)
CallbacksOnTheirClient ==
  \A c \in Copies \ Relocatable :
    running # NoContext /\ running.by = c => running.place = at[c]

(* After initialize_callbacks has succeeded, and until another value        *)
(* registers, every kind of event goes to this client, whatever attempts,   *)
(* its own or those of other values, failed half way before.                *)
InitializedIsComplete ==
  \A c \in Copies :
    complete = c =>
      /\ handle = "live" /\ at[c] # NoPlace
      /\ \A k \in HubKinds :
           ctx[k].by = c /\ (c \notin Relocatable => ctx[k].place = at[c])
=============================================================================
