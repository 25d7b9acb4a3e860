---------------------------- MODULE AsyncRequest ----------------------------
(***************************************************************************)
(* What an asynchronous method of a client promises to its caller, with no *)
(* word of channels, boxed senders or C callbacks.  A call is either       *)
(* refused at once or left pending; a pending call is answered at most     *)
(* once and then resolves with its own answer; the caller may walk away    *)
(* from a call at any time before it resolves.                             *)
(***************************************************************************)
CONSTANTS
  Requests,    \* the calls
  Codes,       \* what the SDK can answer; OK is one of them, NoReply is not
  OK,          \* the code of success
  NoReply      \* "not answered"

VARIABLES
  status,      \* where each call stands
  kind,        \* how the call reports: a bare status, or the answer itself
  reply,       \* the answer to each pending call
  result       \* what the caller was given

vars == <<status, kind, reply, result>>

Okay(v) == [tag |-> "Ok", val |-> v]
Err(v) == [tag |-> "Err", val |-> v]
NoResult == [tag |-> "None", val |-> NoReply]

(* A "status" call is Ok only for the answer OK and an error otherwise; a   *)
(* "value" call hands over whatever the answer is.                          *)
Reported(k, v) == IF k = "status" /\ v # OK THEN Err(v) ELSE Okay(v)

Init ==
  /\ status = [r \in Requests |-> "idle"]
  /\ kind = [r \in Requests |-> "value"]
  /\ reply = [r \in Requests |-> NoReply]
  /\ result = [r \in Requests |-> NoResult]

Accept(r, k) ==
  /\ status[r] = "idle"
  /\ status' = [status EXCEPT ![r] = "pending"]
  /\ kind' = [kind EXCEPT ![r] = k]
  /\ UNCHANGED <<reply, result>>

Refuse(r, e) ==
  /\ status[r] = "idle"
  /\ e # OK
  /\ status' = [status EXCEPT ![r] = "refused"]
  /\ result' = [result EXCEPT ![r] = Err(e)]
  /\ UNCHANGED <<kind, reply>>

Answer(r, v) ==
  /\ status[r] = "pending"
  /\ reply[r] = NoReply
  /\ reply' = [reply EXCEPT ![r] = v]
  /\ UNCHANGED <<status, kind, result>>

Resolve(r) ==
  /\ status[r] = "pending"
  /\ reply[r] # NoReply
  /\ status' = [status EXCEPT ![r] = "resolved"]
  /\ result' = [result EXCEPT ![r] = Reported(kind[r], reply[r])]
  /\ UNCHANGED <<kind, reply>>

(* An answer that comes for an abandoned call has no reader.                *)
Abandon(r) ==
  /\ status[r] \in {"idle", "pending"}
  /\ status' = [status EXCEPT ![r] = "abandoned"]
  /\ reply' = [reply EXCEPT ![r] = NoReply]
  /\ UNCHANGED <<kind, result>>

Next ==
  \E r \in Requests :
    \/ \E k \in {"status", "value"} : Accept(r, k)
    \/ \E c \in Codes : Refuse(r, c) \/ Answer(r, c)
    \/ Resolve(r)
    \/ Abandon(r)

Spec == Init /\ [][Next]_vars
=============================================================================
