------------------------------- MODULE HubInit -------------------------------
(***************************************************************************)
(* The process-wide initialisation of the SDK (lib/src/hub.rs) and its use *)
(* by the constructors.                                                    *)
(*                                                                         *)
(* IotHub::ensure_initialized runs IoTHub_Init inside OnceLock::get_or_init*)
(* and keeps the code it returned for good: the first caller runs the      *)
(* closure, whoever comes meanwhile blocks, whoever comes later reads.     *)
(* Most constructors call it before they ask the SDK for a handle; three   *)
(* do not.                                                                 *)
(***************************************************************************)
EXTENDS Naturals

CONSTANTS
  Threads,      \* threads that construct clients and transports
  Codes,        \* what IoTHub_Init may return
  OK,           \* the code of success
  NoCode,       \* "nothing returned yet"
  Constructors  \* the constructors an application uses

ASSUME CodesAssumption == OK \in Codes /\ NoCode \notin Codes

(* A constructor is known by whether it calls ensure_initialized.           *)
ModuleCreateFromEnvironment == [name |-> "module env", ensures |-> TRUE]
ModuleCreateFromConnectionString == [name |-> "module string", ensures |-> TRUE]
DeviceCreateFromConnectionString == [name |-> "device string", ensures |-> TRUE]
DeviceCreateFromDeviceAuth == [name |-> "device auth", ensures |-> TRUE]
DeviceCreateFromEnvironment == [name |-> "device env", ensures |-> TRUE]
DeviceCreate == [name |-> "device config", ensures |-> FALSE]
DeviceCreateWithTransport == [name |-> "device transport", ensures |-> FALSE]
TransportFrom == [name |-> "transport", ensures |-> FALSE]

Ensuring ==
  {ModuleCreateFromEnvironment, ModuleCreateFromConnectionString,
   DeviceCreateFromConnectionString, DeviceCreateFromDeviceAuth,
   DeviceCreateFromEnvironment}

AllConstructors ==
  Ensuring \cup {DeviceCreate, DeviceCreateWithTransport, TransportFrom}

ASSUME ConstructorsAssumption == Constructors \subseteq AllConstructors

VARIABLES
  once,     \* the OnceLock: "incomplete", "running" or "complete"
  hub,      \* the code inside IOTHUB
  inits,    \* how often IoTHub_Init has run
  pc,       \* where each thread is
  result,   \* the local variable of the closure, in each thread
  verdict,  \* what ensure_initialized last told each thread
  via       \* the constructor each thread is in, or holds a handle from

vars == <<once, hub, inits, pc, result, verdict, via>>

NoConstructor == [name |-> "none", ensures |-> FALSE]

Init ==
  /\ once = "incomplete"
  /\ hub = NoCode
  /\ inits = 0
  /\ pc = [t \in Threads |-> "idle"]
  /\ result = [t \in Threads |-> NoCode]
  /\ verdict = [t \in Threads |-> NoCode]
  /\ via = [t \in Threads |-> NoConstructor]

-----------------------------------------------------------------------------
(* A thread with no handle calls a constructor.                             *)
Construct(t, c) ==
  /\ pc[t] = "idle"
  /\ via[t] = NoConstructor
  /\ via' = [via EXCEPT ![t] = c]
  /\ pc' = [pc EXCEPT ![t] = IF c.ensures THEN "ensuring" ELSE "creating"]
  /\ UNCHANGED <<once, hub, inits, result, verdict>>

(* Mutant: the value is tested, not the lock.                               *)
EnterUnlocked(t) ==
  /\ pc[t] = "ensuring"
  /\ hub = NoCode
  /\ once' = "running"
  /\ pc' = [pc EXCEPT ![t] = "initializing"]
  /\ UNCHANGED <<hub, inits, result, verdict, via>>

(* get_or_init finds the cell empty: this thread runs the closure.          *)
Enter(t) ==
  /\ pc[t] = "ensuring"
  /\ once = "incomplete"
  /\ once' = "running"
  /\ pc' = [pc EXCEPT ![t] = "initializing"]
  /\ UNCHANGED <<hub, inits, result, verdict, via>>

(* IoTHub_Init returns.                                                     *)
RunInit(t, code) ==
  /\ pc[t] = "initializing"
  /\ inits' = inits + 1
  /\ result' = [result EXCEPT ![t] = code]
  /\ pc' = [pc EXCEPT ![t] = "publishing"]
  /\ UNCHANGED <<once, hub, verdict, via>>

(* Mutant: the value is never stored.                                       *)
PublishNothing(t) ==
  /\ pc[t] = "publishing"
  /\ pc' = [pc EXCEPT ![t] = "ensuring"]
  /\ UNCHANGED <<once, hub, inits, result, verdict, via>>

(* Mutant: a flag is stored for the code.                                   *)
PublishFlag(t) ==
  /\ pc[t] = "publishing"
  /\ hub' = (result[t] = OK)
  /\ once' = "complete"
  /\ pc' = [pc EXCEPT ![t] = "ensuring"]
  /\ UNCHANGED <<inits, result, verdict, via>>

(* The closure's value becomes the value of the cell, whatever the code.    *)
Publish(t) ==
  /\ pc[t] = "publishing"
  /\ hub' = result[t]
  /\ once' = "complete"
  /\ pc' = [pc EXCEPT ![t] = "ensuring"]
  /\ UNCHANGED <<inits, result, verdict, via>>

(* Mutant: the result of ensure_initialized is dropped.                     *)
CheckIgnored(t) ==
  /\ pc[t] = "ensuring"
  /\ once = "complete"
  /\ verdict' = [verdict EXCEPT ![t] = hub]
  /\ pc' = [pc EXCEPT ![t] = "creating"]
  /\ UNCHANGED <<once, hub, inits, result, via>>

(* get_or_init finds a value, and check_sdk_result turns it into success or *)
(* into the constructor's error.                                            *)
Check(t) ==
  /\ pc[t] = "ensuring"
  /\ once = "complete"
  /\ verdict' = [verdict EXCEPT ![t] = hub]
  /\ \/ /\ hub = OK
        /\ pc' = [pc EXCEPT ![t] = "creating"]
        /\ UNCHANGED via
     \/ /\ hub # OK
        /\ pc' = [pc EXCEPT ![t] = "idle"]
        /\ via' = [via EXCEPT ![t] = NoConstructor]
  /\ UNCHANGED <<once, hub, inits, result>>

(* The SDK hands out a handle...                                            *)
Created(t) ==
  /\ pc[t] = "creating"
  /\ pc' = [pc EXCEPT ![t] = "holding"]
  /\ UNCHANGED <<once, hub, inits, result, verdict, via>>

(* ... or a null pointer, which the constructor reports as an error.        *)
NotCreated(t) ==
  /\ pc[t] = "creating"
  /\ pc' = [pc EXCEPT ![t] = "idle"]
  /\ via' = [via EXCEPT ![t] = NoConstructor]
  /\ UNCHANGED <<once, hub, inits, result, verdict>>

(* The client or transport is dropped.                                      *)
Drop(t) ==
  /\ pc[t] = "holding"
  /\ pc' = [pc EXCEPT ![t] = "idle"]
  /\ via' = [via EXCEPT ![t] = NoConstructor]
  /\ UNCHANGED <<once, hub, inits, result, verdict>>

EnsureStep(t) ==
  \/ Enter(t)
  \/ \E code \in Codes : RunInit(t, code)
  \/ Publish(t)
  \/ Check(t)

Next ==
  \E t \in Threads :
    \/ \E c \in Constructors : Construct(t, c)
    \/ EnsureStep(t)
    \/ Created(t)
    \/ NotCreated(t)
    \/ Drop(t)

Spec == Init /\ [][Next]_vars

(* The operating system runs every thread that can run, and IoTHub_Init     *)
(* returns.                                                                 *)
FairSpec == Spec /\ \A t \in Threads : WF_vars(EnsureStep(t))

-----------------------------------------------------------------------------
(* Types of the variables.                                                  *)
TypeOK ==
  /\ once \in {"incomplete", "running", "complete"}
  /\ hub \in Codes \cup {NoCode}
  /\ inits \in Nat
  /\ pc \in [Threads -> {"idle", "ensuring", "initializing", "publishing",
                         "creating", "holding"}]
  /\ result \in [Threads -> Codes \cup {NoCode}]
  /\ verdict \in [Threads -> Codes \cup {NoCode}]
  /\ via \in [Threads -> Constructors \cup {NoConstructor}]

(* However many threads race for it, IoTHub_Init runs at most once in the   *)
(* life of the process, and is not tried again after a failure.             *)
InitOnce == inits <= 1

(* All threads are told the same: the code of that one run.                 *)
SameVerdict ==
  \A t, u \in Threads :
    verdict[t] # NoCode /\ verdict[u] # NoCode => verdict[t] = verdict[u]

(* A constructor that ensures initialisation asks the SDK for a handle only *)
(* after IoTHub_Init returned success, never after a failure and never      *)
(* while another thread is still inside IoTHub_Init.                        *)
EnsuredBeforeUse ==
  \A t \in Threads :
    pc[t] \in {"creating", "holding"} /\ via[t].ensures => hub = OK

(* No constructor at all gets a handle from an SDK that is not initialised: *)
(* what the sys tests and the older lib/deviceclient.rs do.                 *)
InitBeforeHandles ==
  \A t \in Threads : pc[t] = "holding" => hub = OK

(* Nobody blocks in ensure_initialized for ever.                            *)
EnsureReturns ==
  \A t \in Threads : pc[t] = "ensuring" ~> pc[t] \in {"creating", "idle"}
-----------------------------------------------------------------------------
(* The refinement: the outcome is decided where IoTHub_Init returns, before *)
(* the cell has it.                                                         *)
Outcome ==
  IF \E t \in Threads : pc[t] = "publishing"
  THEN result[CHOOSE t \in Threads : pc[t] = "publishing"]
  ELSE hub

Ensured ==
  {t \in Threads : pc[t] \in {"creating", "holding"} /\ via[t].ensures}

OI == INSTANCE OnceInit WITH outcome <- Outcome, told <- verdict, using <- Ensured

(* However the threads race, the OnceLock and its closure are an            *)
(* initialisation decided once, of which all are told the same and which    *)
(* the ensuring constructors rely on only after a success.                  *)
ImplementsOnceInit == OI!Spec
=============================================================================
