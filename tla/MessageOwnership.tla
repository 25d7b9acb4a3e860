-------------------------- MODULE MessageOwnership --------------------------
(***************************************************************************)
(* Who destroys a message (lib/src/message.rs and the message callbacks of *)
(* the two clients).                                                       *)
(*                                                                         *)
(* An IotHubMessage is a handle of the SDK and a flag: a wrapper that owns *)
(* its handle destroys it when it is dropped, one that does not leaves it  *)
(* alone.  A message that the SDK delivers to a callback is the SDK's: it  *)
(* destroys it when the callback returns, or, if the callback defers its   *)
(* verdict, when the application sends the disposition.  The callback gets *)
(* the wrapper by value, with no lifetime, and may keep it.  The address   *)
(* of a destroyed message is given to later ones.                          *)
(***************************************************************************)

CONSTANTS
  Handles,       \* addresses of messages
  Wrappers,      \* IotHubMessage values
  NoHandle,      \* no message
  CallbacksOwn   \* the flag of the wrappers that callbacks make

ASSUME HandlesAssumption == NoHandle \notin Handles
ASSUME CallbacksAssumption == CallbacksOwn \in BOOLEAN

(* The module client's callbacks wrap with from_handle, the device client's *)
(* with from.                                                               *)
ModuleCallbacksOwn == FALSE
DeviceCallbacksOwn == TRUE

VARIABLES
  object,    \* each address: "free", or a "live" message
  claim,     \* the SDK's claim on it: "none", "callback" or "deferred"
  inside,    \* the message of the callback that runs
  of,        \* the handle of each wrapper; NoHandle: there is no such value
  own,       \* the flag of each wrapper
  misuse     \* "none", or what a handle was after its destruction

vars == <<object, claim, inside, of, own, misuse>>

Owners(h) == {w \in Wrappers : of[w] = h /\ own[w]}

Init ==
  /\ object = [h \in Handles |-> "free"]
  /\ claim = [h \in Handles |-> "none"]
  /\ inside = NoHandle
  /\ of = [w \in Wrappers |-> NoHandle]
  /\ own = [w \in Wrappers |-> FALSE]
  /\ misuse = "none"

-----------------------------------------------------------------------------
(* A wrapper w comes to be around a new message h.                          *)
Wraps(w, h, flag) ==
  /\ of[w] = NoHandle
  /\ object[h] = "free"
  /\ of' = [of EXCEPT ![w] = h]
  /\ own' = [own EXCEPT ![w] = flag]
  /\ object' = [object EXCEPT ![h] = "live"]

(* IoTHubMessage_Destroy, of a message that may be gone.                    *)
Destroys(h) ==
  IF object[h] = "live"
  THEN object' = [object EXCEPT ![h] = "free"] /\ UNCHANGED misuse
  ELSE misuse' = "destroyed" /\ UNCHANGED object

(* The application makes a message of its own and wraps it with from.       *)
From(w, h) ==
  /\ Wraps(w, h, TRUE)
  /\ UNCHANGED <<claim, inside, misuse>>

(* The SDK delivers a message to a callback, one at a time.                 *)
Callback(w, h) ==
  /\ inside = NoHandle
  /\ Wraps(w, h, CallbacksOwn)
  /\ inside' = h
  /\ claim' = [claim EXCEPT ![h] = "callback"]
  /\ UNCHANGED misuse

(* The callback returns a verdict, and the SDK destroys its message...      *)
Return ==
  /\ inside # NoHandle
  /\ Destroys(inside)
  /\ claim' = [claim EXCEPT ![inside] = "none"]
  /\ inside' = NoHandle
  /\ UNCHANGED <<of, own>>

(* ... or it defers the verdict, and the SDK waits for the disposition.     *)
Defer ==
  /\ inside # NoHandle
  /\ claim' = [claim EXCEPT ![inside] = "deferred"]
  /\ inside' = NoHandle
  /\ UNCHANGED <<object, of, own, misuse>>

(* send_message_disposition takes the wrapper by reference: it is still     *)
(* there when the SDK has destroyed the message.                            *)
SendMessageDisposition(w) ==
  /\ inside = NoHandle
  /\ of[w] # NoHandle
  /\ claim[of[w]] = "deferred"
  /\ Destroys(of[w])
  /\ claim' = [claim EXCEPT ![of[w]] = "none"]
  /\ UNCHANGED <<inside, of, own>>

(* Reading the body, sending it, or sending its disposition once more,      *)
(* through a wrapper whose message is gone.                                 *)
UseStale(w) ==
  /\ of[w] # NoHandle
  /\ object[of[w]] = "free"
  /\ misuse' = "used"
  /\ UNCHANGED <<object, claim, inside, of, own>>

(* Mutant: the copy has the handle of the original.                         *)
CloneSharing(w, v, h) ==
  /\ of[w] # NoHandle
  /\ object[of[w]] = "live"
  /\ of[v] = NoHandle
  /\ of' = [of EXCEPT ![v] = of[w]]
  /\ own' = [own EXCEPT ![v] = own[w]]
  /\ UNCHANGED <<object, claim, inside, misuse>>

(* Mutant: a null pointer is not noticed.                                   *)
CloneUnchecked(w, v, h) ==
  /\ of[w] # NoHandle
  /\ object[of[w]] = "live"
  /\ of[v] = NoHandle
  /\ of' = [of EXCEPT ![v] = "null"]
  /\ own' = [own EXCEPT ![v] = TRUE]
  /\ UNCHANGED <<object, claim, inside, misuse>>

(* clone() makes the SDK copy the message, and owns the copy, whether or    *)
(* not the original was owned.  (Out of memory it panics.)                  *)
Clone(w, v, h) ==
  /\ of[w] # NoHandle
  /\ object[of[w]] = "live"
  /\ Wraps(v, h, TRUE)
  /\ UNCHANGED <<claim, inside, misuse>>

(* Mutant: the flag is forgotten.                                           *)
DropAlwaysDestroying(w) ==
  /\ of[w] # NoHandle
  /\ Destroys(of[w])
  /\ of' = [of EXCEPT ![w] = NoHandle]
  /\ own' = [own EXCEPT ![w] = FALSE]
  /\ UNCHANGED <<claim, inside>>

Drop(w) ==
  /\ of[w] # NoHandle
  /\ IF own[w] THEN Destroys(of[w]) ELSE UNCHANGED <<object, misuse>>
  /\ of' = [of EXCEPT ![w] = NoHandle]
  /\ own' = [own EXCEPT ![w] = FALSE]
  /\ UNCHANGED <<claim, inside>>

Next ==
  /\ misuse = "none"
  /\ \/ \E w \in Wrappers :
          \/ \E h \in Handles : From(w, h) \/ Callback(w, h)
          \/ \E v \in Wrappers, h \in Handles : Clone(w, v, h)
          \/ SendMessageDisposition(w)
          \/ UseStale(w)
          \/ Drop(w)
     \/ Return
     \/ Defer

Spec == Init /\ [][Next]_vars

-----------------------------------------------------------------------------
(* Types of the variables.                                                  *)
TypeOK ==
  /\ object \in [Handles -> {"free", "live"}]
  /\ claim \in [Handles -> {"none", "callback", "deferred"}]
  /\ inside \in Handles \cup {NoHandle}
  /\ of \in [Wrappers -> Handles \cup {NoHandle}]
  /\ own \in [Wrappers -> BOOLEAN]
  /\ misuse \in {"none", "used", "destroyed"}

(* Every message has exactly one owner, the SDK or one wrapper, from its    *)
(* creation to its destruction, and a destroyed one has none: wrappers that *)
(* own are never stale, and no message leaks when its wrappers are gone.    *)
SoleOwner ==
  \A h \in Handles :
    IF object[h] = "live" /\ claim[h] = "none"
    THEN \E w \in Wrappers : Owners(h) = {w}
    ELSE /\ Owners(h) = {}
         /\ object[h] = "live" <=> claim[h] # "none"

(* No message is destroyed twice, be it that a callback keeps its wrapper,  *)
(* clones it, defers the verdict or drops it first.                         *)
DestroyedOnce == misuse # "destroyed"
=============================================================================
