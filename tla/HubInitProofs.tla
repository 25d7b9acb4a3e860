---------------------------- MODULE HubInitProofs ----------------------------
(***************************************************************************)
(* Proofs about the initialisation of the SDK, for any number of threads   *)
(* and constructors.                                                       *)
(***************************************************************************)
EXTENDS HubInit, TLAPS

Inside(t) == pc[t] \in {"initializing", "publishing"}

(* What each state of the OnceLock says of the code inside it, of the       *)
(* number of runs, and of the thread that is in the closure.                *)
CellInv ==
  /\ once = "incomplete" =>
       hub = NoCode /\ inits = 0 /\ \A t \in Threads : ~Inside(t)
  /\ once = "running" =>
       /\ hub = NoCode
       /\ \A t, u \in Threads : Inside(t) /\ Inside(u) => t = u
       /\ \A t \in Threads :
            /\ pc[t] = "initializing" => inits = 0
            /\ pc[t] = "publishing" => inits = 1 /\ result[t] \in Codes
       /\ inits <= 1
  /\ once = "complete" =>
       hub \in Codes /\ inits = 1 /\ \A t \in Threads : ~Inside(t)

Told ==
  \A t \in Threads : verdict[t] # NoCode => once = "complete" /\ verdict[t] = hub

(* A thread is busy on behalf of a constructor, and inside                  *)
(* ensure_initialized only for one that ensures.                            *)
Busy ==
  \A t \in Threads :
    /\ pc[t] # "idle" => via[t] \in Constructors
    /\ pc[t] = "ensuring" \/ Inside(t) => via[t].ensures

IInv == TypeOK /\ CellInv /\ Told /\ Busy /\ EnsuredBeforeUse

LEMMA InitInv == Init => IInv
BY CodesAssumption
   DEF Init, IInv, TypeOK, CellInv, Told, Busy, EnsuredBeforeUse, Inside

LEMMA StepInv == IInv /\ [Next]_vars => IInv'
<1> SUFFICES ASSUME IInv, [Next]_vars PROVE IInv'
  OBVIOUS
<1> USE CodesAssumption
    DEF IInv, TypeOK, CellInv, Told, Busy, EnsuredBeforeUse, Inside
<1>1. ASSUME NEW t \in Threads, NEW c \in Constructors, Construct(t, c)
      PROVE  IInv'
  BY <1>1 DEF Construct
<1>2. ASSUME NEW t \in Threads, Enter(t) PROVE IInv'
  BY <1>2 DEF Enter
<1>3. ASSUME NEW t \in Threads, NEW code \in Codes, RunInit(t, code)
      PROVE  IInv'
  BY <1>3 DEF RunInit
<1>4. ASSUME NEW t \in Threads, Publish(t) PROVE IInv'
  BY <1>4 DEF Publish
<1>5. ASSUME NEW t \in Threads, Check(t) PROVE IInv'
  BY <1>5 DEF Check
<1>6. ASSUME NEW t \in Threads, Created(t) PROVE IInv'
  BY <1>6 DEF Created
<1>7. ASSUME NEW t \in Threads, NotCreated(t) PROVE IInv'
  BY <1>7 DEF NotCreated
<1>8. ASSUME NEW t \in Threads, Drop(t) PROVE IInv'
  BY <1>8 DEF Drop
<1>9. CASE UNCHANGED vars
  BY <1>9 DEF vars
<1>10. QED
  BY <1>1, <1>2, <1>3, <1>4, <1>5, <1>6, <1>7, <1>8, <1>9 DEF Next, EnsureStep

LEMMA Inductive == Spec => []IInv
BY InitInv, StepInv, PTL DEF Spec

-----------------------------------------------------------------------------
(* The variables keep their types.                                          *)
THEOREM TypeCorrect == Spec => []TypeOK
BY Inductive, PTL DEF IInv

(* IoTHub_Init runs at most once, whatever the number of racing threads.    *)
THEOREM InitRunsOnce == Spec => []InitOnce
<1>1. IInv => InitOnce
  BY DEF IInv, TypeOK, CellInv, InitOnce
<1>2. QED  BY <1>1, Inductive, PTL

(* Every thread is told the code of that one run.                           *)
THEOREM VerdictIsShared == Spec => []SameVerdict
<1>1. IInv => SameVerdict
  BY DEF IInv, Told, SameVerdict
<1>2. QED  BY <1>1, Inductive, PTL

(* No ensuring constructor uses the SDK before the one run succeeded.       *)
THEOREM UseIsEnsured == Spec => []EnsuredBeforeUse
BY Inductive, PTL DEF IInv

(* An application whose constructors all ensure initialisation, as the      *)
(* module client's do, never holds a handle of an SDK that is not           *)
(* initialised: only the three that do not can break InitBeforeHandles.     *)
THEOREM EnsuringConstructorsSuffice ==
  ASSUME Constructors \subseteq Ensuring PROVE Spec => []InitBeforeHandles
<1>1. \A c \in Ensuring : c.ensures
  <2>1. /\ ModuleCreateFromEnvironment.ensures
        /\ ModuleCreateFromConnectionString.ensures
        /\ DeviceCreateFromConnectionString.ensures
        /\ DeviceCreateFromDeviceAuth.ensures
        /\ DeviceCreateFromEnvironment.ensures
    BY DEF ModuleCreateFromEnvironment, ModuleCreateFromConnectionString,
           DeviceCreateFromConnectionString, DeviceCreateFromDeviceAuth,
           DeviceCreateFromEnvironment
  <2>2. QED  BY <2>1, Zenon DEF Ensuring
<1>2. IInv => InitBeforeHandles
  BY <1>1 DEF IInv, Busy, EnsuredBeforeUse, InitBeforeHandles
<1>3. QED  BY <1>2, Inductive, PTL

-----------------------------------------------------------------------------
(* The refinement.  Decide is the return of IoTHub_Init, Admit and Reject   *)
(* are the two outcomes of Check, Leave is the loss or the drop of a handle *)
(* that was asked for after them; all else stutters.                        *)

(* The outcome is the result of the one thread that publishes, if there is  *)
(* one, and the value of the cell otherwise.                                *)
LEMMA OutcomeIs ==
  ASSUME IInv
  PROVE  /\ \A t \in Threads : pc[t] = "publishing" => Outcome = result[t]
         /\ (\A t \in Threads : pc[t] # "publishing") => Outcome = hub
<1>1. ASSUME NEW t \in Threads, pc[t] = "publishing" PROVE Outcome = result[t]
  <2>1. \A u \in Threads : pc[u] = "publishing" => u = t
    BY <1>1 DEF IInv, TypeOK, CellInv, Inside
  <2>2. (CHOOSE u \in Threads : pc[u] = "publishing") = t
    BY <1>1, <2>1
  <2>3. QED  BY <1>1, <2>2 DEF Outcome
<1>2. QED  BY <1>1 DEF Outcome

LEMMA InitRefines == Init => OI!Init
BY DEF Init, OI!Init, Outcome, Ensured

(* The outcome stays where no thread enters or leaves the state in which it *)
(* publishes, and neither its result nor the cell change.                   *)
LEMMA OutcomeStays ==
  ASSUME UNCHANGED <<hub, result>>,
         \A t \in Threads : pc'[t] = "publishing" <=> pc[t] = "publishing"
  PROVE  Outcome' = Outcome
BY DEF Outcome

LEMMA StepRefines == IInv /\ IInv' /\ [Next]_vars => [OI!Next]_(OI!vars)
<1> SUFFICES ASSUME IInv, IInv', [Next]_vars PROVE [OI!Next]_(OI!vars)
  OBVIOUS
<1>0. (/\ \A t \in Threads : pc[t] = "publishing" => Outcome = result[t]
       /\ (\A t \in Threads : pc[t] # "publishing") => Outcome = hub)'
  <2>1. (IInv => /\ \A t \in Threads : pc[t] = "publishing" => Outcome = result[t]
                 /\ (\A t \in Threads : pc[t] # "publishing") => Outcome = hub)'
    BY OutcomeIs, PTL
  <2>2. QED  BY <2>1
<1>1. ASSUME NEW t \in Threads, NEW c \in Constructors, Construct(t, c)
      PROVE  UNCHANGED OI!vars
  <2>1. Outcome' = Outcome
    BY <1>1, OutcomeStays DEF Construct, IInv, TypeOK
  <2>2. Ensured' = Ensured
    BY <1>1 DEF Construct, Ensured, IInv, TypeOK
  <2>3. QED  BY <1>1, <2>1, <2>2 DEF Construct, OI!vars
<1>2. ASSUME NEW t \in Threads, Enter(t) PROVE UNCHANGED OI!vars
  <2>1. Outcome' = Outcome
    BY <1>2, OutcomeStays DEF Enter, IInv, TypeOK
  <2>2. Ensured' = Ensured
    BY <1>2 DEF Enter, Ensured, IInv, TypeOK
  <2>3. QED  BY <1>2, <2>1, <2>2 DEF Enter, OI!vars
<1>3. ASSUME NEW t \in Threads, NEW code \in Codes, RunInit(t, code)
      PROVE  OI!Decide(code)
  <2>1. once = "running" /\ hub = NoCode /\ \A u \in Threads : pc[u] # "publishing"
    BY <1>3 DEF RunInit, IInv, TypeOK, CellInv, Inside
  <2>2. Outcome = NoCode
    BY <2>1, OutcomeIs
  <2>3. pc'[t] = "publishing" /\ result'[t] = code
    BY <1>3 DEF RunInit, IInv, TypeOK
  <2>4. Outcome' = code
    BY <1>0, <2>3
  <2>5. Ensured' = Ensured
    BY <1>3 DEF RunInit, Ensured, IInv, TypeOK
  <2>6. QED  BY <1>3, <2>2, <2>4, <2>5 DEF RunInit, OI!Decide
<1>4. ASSUME NEW t \in Threads, Publish(t) PROVE UNCHANGED OI!vars
  <2>1. Outcome = result[t] /\ hub' = result[t]
    BY <1>4, OutcomeIs DEF Publish
  <2>2. \A u \in Threads : pc'[u] # "publishing"
    BY <1>4 DEF Publish, IInv, TypeOK, CellInv, Inside
  <2>3. Outcome' = hub'
    BY <1>0, <2>2
  <2>4. Ensured' = Ensured
    BY <1>4 DEF Publish, Ensured, IInv, TypeOK
  <2>5. QED  BY <1>4, <2>1, <2>3, <2>4 DEF Publish, OI!vars
<1>5. ASSUME NEW t \in Threads, Check(t) PROVE OI!Admit(t) \/ OI!Reject(t)
  <2>1. hub \in Codes /\ \A u \in Threads : pc[u] # "publishing"
    BY <1>5 DEF Check, IInv, CellInv, Inside
  <2>2. Outcome = hub /\ Outcome # NoCode
    BY <2>1, OutcomeIs, CodesAssumption
  <2>3. Outcome' = Outcome
    BY <1>5, OutcomeStays DEF Check, IInv, TypeOK
  <2>4. OI!Tells(t)
    BY <1>5, <2>2, <2>3 DEF Check, OI!Tells
  <2>5. CASE hub = OK
    <3>1. via[t].ensures /\ via' = via /\ pc' = [pc EXCEPT ![t] = "creating"]
      BY <1>5, <2>5 DEF Check, IInv, Busy
    <3>2. Ensured' = Ensured \cup {t}
      BY <3>1 DEF Ensured, IInv, TypeOK
    <3>3. QED  BY <2>2, <2>4, <2>5, <3>2 DEF OI!Admit
  <2>6. CASE hub # OK
    <3>1. Ensured' = Ensured
      BY <1>5, <2>6 DEF Check, Ensured, IInv, TypeOK
    <3>2. QED  BY <2>2, <2>4, <2>6, <3>1 DEF OI!Reject
  <2>7. QED  BY <2>5, <2>6
<1>6. ASSUME NEW t \in Threads, Created(t) PROVE UNCHANGED OI!vars
  <2>1. Outcome' = Outcome
    BY <1>6, OutcomeStays DEF Created, IInv, TypeOK
  <2>2. Ensured' = Ensured
    BY <1>6 DEF Created, Ensured, IInv, TypeOK
  <2>3. QED  BY <1>6, <2>1, <2>2 DEF Created, OI!vars
<1>7. ASSUME NEW t \in Threads, NotCreated(t) \/ Drop(t)
      PROVE  OI!Leave(t) \/ UNCHANGED OI!vars
  <2>1. Outcome' = Outcome /\ verdict' = verdict
    BY <1>7, OutcomeStays DEF NotCreated, Drop, IInv, TypeOK
  <2>2. Ensured' = Ensured \ {t}
    BY <1>7 DEF NotCreated, Drop, Ensured, IInv, TypeOK
  <2>3. CASE t \in Ensured
    BY <2>1, <2>2, <2>3 DEF OI!Leave
  <2>4. CASE t \notin Ensured
    BY <2>1, <2>2, <2>4 DEF OI!vars
  <2>5. QED  BY <2>3, <2>4
<1>8. CASE UNCHANGED vars
  BY <1>8 DEF vars, OI!vars, Outcome, Ensured
<1>9. QED
  BY <1>1, <1>2, <1>3, <1>4, <1>5, <1>6, <1>7, <1>8 DEF Next, EnsureStep, OI!Next

(* Every race of threads through the OnceLock is a behaviour of the         *)
(* initialisation that is decided once.                                     *)
THEOREM Refinement == Spec => ImplementsOnceInit
BY InitRefines, StepRefines, Inductive, PTL DEF Spec, OI!Spec, ImplementsOnceInit

-----------------------------------------------------------------------------
(* What EnsureReturns rests on besides fairness: a thread that waits for the*)
(* closure waits for one that is inside it, and can never be left waiting   *)
(* for a lock that nobody holds (OnceLock::get_or_init).                    *)
SomebodyInside == once = "running" => \E t \in Threads : Inside(t)

WaitersHaveARunner ==
  \A t \in Threads :
    pc[t] = "ensuring" => once \in {"incomplete", "complete"} \/ \E u \in Threads : Inside(u)

LEMMA InsideStep == IInv /\ SomebodyInside /\ [Next]_vars => SomebodyInside'
<1>1. SUFFICES ASSUME IInv, SomebodyInside, [Next]_vars, once' = "running"
               PROVE  \E t \in Threads : Inside(t)'
  BY DEF SomebodyInside
<1> USE DEF IInv, TypeOK, SomebodyInside, Inside
<1>2. ASSUME NEW t \in Threads, Enter(t) PROVE Inside(t)'
  BY <1>1, <1>2 DEF Enter
<1>3. ASSUME NEW t \in Threads, NEW code \in Codes, RunInit(t, code) PROVE Inside(t)'
  BY <1>1, <1>3 DEF RunInit
<1>4. ASSUME NEW t \in Threads, Publish(t) \/ Check(t) PROVE FALSE
  BY <1>1, <1>4 DEF Publish, Check
<1>5. ASSUME NEW t \in Threads,
             \/ \E c \in Constructors : Construct(t, c)
             \/ Created(t) \/ NotCreated(t) \/ Drop(t)
      PROVE  \E u \in Threads : Inside(u)'
  <2>1. once = "running" /\ ~ Inside(t) /\ \A u \in Threads \ {t} : pc'[u] = pc[u]
    BY <1>1, <1>5 DEF Construct, Created, NotCreated, Drop
  <2>2. QED  BY <1>1, <2>1
<1>6. CASE UNCHANGED vars
  BY <1>1, <1>6 DEF vars
<1>7. QED  BY <1>1, <1>2, <1>3, <1>4, <1>5, <1>6 DEF Next, EnsureStep

THEOREM NobodyWaitsForNobody == Spec => []WaitersHaveARunner
<1>1. Init => SomebodyInside
  BY DEF Init, SomebodyInside
<1>2. IInv /\ SomebodyInside => WaitersHaveARunner
  BY DEF IInv, TypeOK, SomebodyInside, WaitersHaveARunner
<1>3. QED  BY <1>1, <1>2, InsideStep, Inductive, PTL DEF Spec
=============================================================================
