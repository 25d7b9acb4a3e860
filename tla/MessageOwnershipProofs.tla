----------------------- MODULE MessageOwnershipProofs -----------------------
(***************************************************************************)
(* Proofs about the ownership of messages, for any number of messages and  *)
(* wrappers, on the condition that callbacks do not own what they wrap, as *)
(* those of the module client do not.                                      *)
(***************************************************************************)
EXTENDS MessageOwnership, TLAPS

(* The message of the running callback is the one the SDK claims for it.    *)
Running == \A h \in Handles : claim[h] = "callback" <=> inside = h

Claimed(h) == claim[h] # "none"
Owns(w, h) == of[w] = h /\ own[w]

(* SoleOwner without sets.                                                  *)
Sole ==
  \A h \in Handles :
    /\ Claimed(h) => object[h] = "live" /\ \A w \in Wrappers : ~Owns(w, h)
    /\ object[h] = "free" => \A w \in Wrappers : ~Owns(w, h)
    /\ object[h] = "live" /\ ~Claimed(h) =>
         /\ \E w \in Wrappers : Owns(w, h)
         /\ \A v, w \in Wrappers : Owns(v, h) /\ Owns(w, h) => v = w

IInv == TypeOK /\ Running /\ Sole /\ DestroyedOnce

LEMMA InitInv == Init => IInv
BY HandlesAssumption
   DEF Init, IInv, TypeOK, Running, Sole, Claimed, Owns, DestroyedOnce

(* A new message gets the wrapper as its owner, or the SDK, and nothing     *)
(* changes for the others.                                                  *)
LEMMA WrapsEffect ==
  ASSUME IInv, NEW w \in Wrappers, NEW h \in Handles, NEW flag \in BOOLEAN,
         Wraps(w, h, flag)
  PROVE  /\ object' \in [Handles -> {"free", "live"}]
         /\ of' \in [Wrappers -> Handles \cup {NoHandle}]
         /\ own' \in [Wrappers -> BOOLEAN]
         /\ object'[h] = "live" /\ ~Claimed(h)
         /\ \A g \in Handles \ {h} :
              /\ object'[g] = object[g]
              /\ \A v \in Wrappers : Owns(v, g)' <=> Owns(v, g)
         /\ \A v \in Wrappers : Owns(v, h)' <=> (v = w /\ flag)
BY HandlesAssumption
   DEF IInv, TypeOK, Sole, Wraps, Owns, Claimed

LEMMA SoleAfterWraps ==
  ASSUME IInv, NEW w \in Wrappers, NEW h \in Handles, NEW flag \in BOOLEAN,
         Wraps(w, h, flag),
         \A g \in Handles \ {h} : claim'[g] = claim[g],
         claim'[h] = "none" <=> flag
  PROVE  Sole'
<1> SUFFICES ASSUME NEW g \in Handles
             PROVE  /\ claim'[g] # "none" =>
                         object'[g] = "live" /\ \A v \in Wrappers : ~Owns(v, g)'
                    /\ object'[g] = "free" => \A v \in Wrappers : ~Owns(v, g)'
                    /\ object'[g] = "live" /\ claim'[g] = "none" =>
                         /\ \E v \in Wrappers : Owns(v, g)'
                         /\ \A u, v \in Wrappers : Owns(u, g)' /\ Owns(v, g)' => u = v
  BY DEF Sole, Claimed
<1>1. CASE g = h
  BY <1>1, WrapsEffect
<1>2. CASE g # h
  <2>1. object'[g] = object[g] /\ claim'[g] = claim[g]
    BY <1>2, WrapsEffect
  <2>2. \A v \in Wrappers : Owns(v, g)' <=> Owns(v, g)
    BY <1>2, WrapsEffect
  <2>3. QED  BY <2>1, <2>2 DEF IInv, Sole, Claimed
<1>3. QED  BY <1>1, <1>2

LEMMA StepInv ==
  ASSUME ~CallbacksOwn PROVE IInv /\ [Next]_vars => IInv'
<1> SUFFICES ASSUME IInv, [Next]_vars PROVE IInv'
  OBVIOUS
<1> USE HandlesAssumption DEF IInv
<1>1. ASSUME NEW w \in Wrappers, NEW h \in Handles, From(w, h) PROVE IInv'
  <2>1. Wraps(w, h, TRUE) /\ UNCHANGED <<claim, inside, misuse>>
    BY <1>1 DEF From
  <2>2. TypeOK' /\ Running' /\ DestroyedOnce'
    BY <2>1, WrapsEffect DEF TypeOK, Running, DestroyedOnce
  <2>3. Sole'
    <3>1. claim'[h] = "none"
      BY <2>1, WrapsEffect DEF Claimed
    <3>2. QED  BY <2>1, <3>1, SoleAfterWraps
  <2>4. QED  BY <2>2, <2>3
<1>2. ASSUME NEW w \in Wrappers, NEW h \in Handles, Callback(w, h) PROVE IInv'
  <2>1. /\ Wraps(w, h, FALSE) /\ UNCHANGED misuse
        /\ inside = NoHandle /\ inside' = h
        /\ claim' = [claim EXCEPT ![h] = "callback"]
    BY <1>2, CallbacksAssumption DEF Callback
  <2>2. TypeOK' /\ Running' /\ DestroyedOnce'
    BY <2>1, WrapsEffect DEF TypeOK, Running, DestroyedOnce
  <2>3. Sole'
    <3>1. claim'[h] = "callback" /\ \A g \in Handles \ {h} : claim'[g] = claim[g]
      BY <2>1 DEF TypeOK
    <3>2. QED  BY <2>1, <3>1, SoleAfterWraps
  <2>4. QED  BY <2>2, <2>3
<1>3. ASSUME NEW w \in Wrappers, NEW v \in Wrappers, NEW h \in Handles,
             Clone(w, v, h)
      PROVE  IInv'
  <2>1. Wraps(v, h, TRUE) /\ UNCHANGED <<claim, inside, misuse>>
    BY <1>3 DEF Clone
  <2>2. TypeOK' /\ Running' /\ DestroyedOnce'
    BY <2>1, WrapsEffect DEF TypeOK, Running, DestroyedOnce
  <2>3. Sole'
    <3>1. claim'[h] = "none"
      BY <2>1, WrapsEffect DEF Claimed
    <3>2. QED  BY <2>1, <3>1, SoleAfterWraps
  <2>4. QED  BY <2>2, <2>3
<1>4. ASSUME NEW w \in Wrappers, SendMessageDisposition(w) PROVE IInv'
  BY <1>4 DEF SendMessageDisposition, Destroys, TypeOK, Running, Sole,
              Claimed, Owns, DestroyedOnce
<1>5. ASSUME NEW w \in Wrappers, UseStale(w) PROVE IInv'
  BY <1>5 DEF UseStale, TypeOK, Running, Sole, Claimed, Owns, DestroyedOnce
<1>6. ASSUME NEW w \in Wrappers, Drop(w) PROVE IInv'
  BY <1>6 DEF Drop, Destroys, TypeOK, Running, Sole, Claimed, Owns,
              DestroyedOnce
<1>7. CASE Return
  BY <1>7 DEF Return, Destroys, TypeOK, Running, Sole, Claimed, Owns,
              DestroyedOnce
<1>8. CASE Defer
  BY <1>8 DEF Defer, TypeOK, Running, Sole, Claimed, Owns, DestroyedOnce
<1>9. CASE UNCHANGED vars
  BY <1>9 DEF vars, TypeOK, Running, Sole, Claimed, Owns, DestroyedOnce
<1>10. QED
  BY <1>1, <1>2, <1>3, <1>4, <1>5, <1>6, <1>7, <1>8, <1>9 DEF Next

LEMMA Inductive == ASSUME ~CallbacksOwn PROVE Spec => []IInv
BY InitInv, StepInv, PTL DEF Spec

-----------------------------------------------------------------------------
(* Every message has one owner from its creation to its destruction if      *)
(* callbacks wrap without owning.                                           *)
THEOREM OwnersAreSole == ASSUME ~CallbacksOwn PROVE Spec => []SoleOwner
<1>1. IInv => SoleOwner
  <2> SUFFICES ASSUME IInv, NEW h \in Handles
               PROVE  IF object[h] = "live" /\ claim[h] = "none"
                      THEN \E w \in Wrappers : Owners(h) = {w}
                      ELSE /\ Owners(h) = {}
                           /\ object[h] = "live" <=> claim[h] # "none"
    BY DEF SoleOwner
  <2>1. \A w : w \in Owners(h) <=> w \in Wrappers /\ Owns(w, h)
    BY DEF Owners, Owns
  <2>2. CASE object[h] = "live" /\ claim[h] = "none"
    <3>1. PICK w \in Wrappers : Owns(w, h)
      BY <2>2 DEF IInv, Sole, Claimed
    <3>2. Owners(h) = {w}
      BY <2>1, <2>2, <3>1 DEF IInv, Sole, Claimed
    <3>3. QED  BY <2>2, <3>2
  <2>3. CASE ~(object[h] = "live" /\ claim[h] = "none")
    BY <2>1, <2>3 DEF IInv, TypeOK, Sole, Claimed
  <2>4. QED  BY <2>2, <2>3
<1>2. QED  BY <1>1, Inductive, PTL

(* No message is then destroyed twice.                                      *)
THEOREM DestroyedAtMostOnce == ASSUME ~CallbacksOwn PROVE Spec => []DestroyedOnce
BY Inductive, PTL DEF IInv

(* The variables keep their types, whatever callbacks own.                  *)
THEOREM TypeCorrect == Spec => []TypeOK
<1>1. Init => TypeOK
  BY DEF Init, TypeOK
<1>2. TypeOK /\ [Next]_vars => TypeOK'
  <2> SUFFICES ASSUME TypeOK, [Next]_vars PROVE TypeOK'
    OBVIOUS
  <2> USE DEF TypeOK
  <2>1. ASSUME NEW w \in Wrappers, NEW h \in Handles, From(w, h) PROVE TypeOK'
    BY <2>1 DEF From, Wraps
  <2>2. ASSUME NEW w \in Wrappers, NEW h \in Handles, Callback(w, h) PROVE TypeOK'
    BY <2>2, CallbacksAssumption DEF Callback, Wraps
  <2>3. ASSUME NEW w \in Wrappers, NEW v \in Wrappers, NEW h \in Handles,
               Clone(w, v, h)
        PROVE  TypeOK'
    BY <2>3 DEF Clone, Wraps
  <2>4. ASSUME NEW w \in Wrappers, SendMessageDisposition(w) PROVE TypeOK'
    BY <2>4 DEF SendMessageDisposition, Destroys
  <2>5. ASSUME NEW w \in Wrappers, UseStale(w) PROVE TypeOK'
    BY <2>5 DEF UseStale
  <2>6. ASSUME NEW w \in Wrappers, Drop(w) PROVE TypeOK'
    BY <2>6 DEF Drop, Destroys
  <2>7. CASE Return \/ Defer
    BY <2>7 DEF Return, Defer, Destroys
  <2>8. CASE UNCHANGED vars
    BY <2>8 DEF vars
  <2>9. QED  BY <2>1, <2>2, <2>3, <2>4, <2>5, <2>6, <2>7, <2>8 DEF Next
<1>3. QED  BY <1>1, <1>2, PTL DEF Spec
=============================================================================
