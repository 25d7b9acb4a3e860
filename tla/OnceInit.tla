------------------------------ MODULE OnceInit ------------------------------
(***************************************************************************)
(* What the initialisation of the SDK promises to the constructors of the  *)
(* clients, with no word of locks, closures or counters.  Its outcome is   *)
(* decided once and for good; a constructor is told the outcome, and goes  *)
(* on to use the SDK only if it is success.                                *)
(***************************************************************************)
CONSTANTS
  Threads,   \* the threads that construct
  Codes,     \* the possible outcomes; OK is one of them, NoCode is not
  OK,        \* success
  NoCode     \* "not decided", "not told"

VARIABLES
  outcome,   \* the outcome of the initialisation
  told,      \* what each thread was told last
  using      \* the threads that use the SDK on the strength of it

vars == <<outcome, told, using>>

Init ==
  /\ outcome = NoCode
  /\ told = [t \in Threads |-> NoCode]
  /\ using = {}

Decide(code) ==
  /\ outcome = NoCode
  /\ outcome' = code
  /\ UNCHANGED <<told, using>>

Tells(t) ==
  /\ outcome # NoCode
  /\ told' = [told EXCEPT ![t] = outcome]
  /\ UNCHANGED outcome

Admit(t) ==
  /\ Tells(t)
  /\ outcome = OK
  /\ using' = using \cup {t}

Reject(t) ==
  /\ Tells(t)
  /\ outcome # OK
  /\ UNCHANGED using

Leave(t) ==
  /\ t \in using
  /\ using' = using \ {t}
  /\ UNCHANGED <<outcome, told>>

Next ==
  \/ \E code \in Codes : Decide(code)
  \/ \E t \in Threads : Admit(t) \/ Reject(t) \/ Leave(t)

Spec == Init /\ [][Next]_vars
=============================================================================
