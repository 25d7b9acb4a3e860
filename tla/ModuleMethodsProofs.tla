------------------------- MODULE ModuleMethodsProofs -------------------------
(***************************************************************************)
(* Proofs about direct methods, for any number of clients and any heap.    *)
(* Leaving the methods out, what is left is the life cycle, whose theorems *)
(* hold for the composition as well.                                       *)
(***************************************************************************)
EXTENDS ModuleMethods, ModuleLifecycleProofs

(* What is on the heap, seen from both sides.                               *)
Held ==
  /\ \A c \in Clients, m \in Cells :
       /\ InHand(c, m) => memory[m] = Reply(c, answer[c].code, answer[c].size)
       /\ thread[c] = "handling" /\ response[c].ptr = m => memory[m] = Response(c)
  /\ \A m \in Cells :
       /\ memory[m].what = "reply" => memory[m].of \in Clients
       /\ memory[m].what = "reply" /\ (memory[m].size # 0 \/ memory[m].code = "error") =>
            InHand(memory[m].of, m)
       /\ memory[m].what = "response" =>
            /\ memory[m].of \in Clients
            /\ thread[memory[m].of] = "handling"
            /\ response[memory[m].of].ptr = m

(* An invocation copies only what there is, and copies it once.             *)
Copied ==
  \A c \in Clients :
    thread[c] = "copied" =>
      /\ copied[c] = Reply(c, "ok", 1)
      /\ answer[c].ptr \in Cells /\ answer[c].code = "ok" /\ answer[c].size = 1

HeapInv == HeapTypeOK /\ Held /\ Copied

(* What a cell may hold, one field at a time.                               *)
LEMMA ContentFacts ==
  /\ Unused \in Contents /\ Other \in Contents
  /\ Unused.what = "free" /\ Other.what = "other"
  /\ \A c \in Clients, k \in Codes, f \in {0, 1} :
       /\ Reply(c, k, f) \in Contents /\ Reply(c, k, f).what = "reply"
       /\ Reply(c, k, f).of = c /\ Reply(c, k, f).code = k /\ Reply(c, k, f).size = f
  /\ \A c \in Clients :
       /\ Response(c) \in Contents /\ Response(c).what = "response"
       /\ Response(c).of = c
BY DEF Unused, Other, Reply, Response, Content, Contents, Codes

-----------------------------------------------------------------------------
(* The life cycle inside: a step of the composition is a step of a client   *)
(* or leaves the clients alone.                                             *)
LEMMA LifecycleStep == [HubNext]_hubVars => [Next]_vars
<1> SUFFICES ASSUME [HubNext]_hubVars PROVE [Next]_vars
  OBVIOUS
<1>1. ASSUME stray = {}, NEW c \in Clients, ClientStep(c, Kinds \ {"method"})
      PROVE  Next
  <2>1. ClientStep(c, Kinds)
    BY <1>1 DEF ClientStep
  <2>2. QED  BY <1>1, <2>1 DEF Next
<1>2. ASSUME stray = {}, NEW c \in Clients, Dispatch(c, "method") PROVE Next
  <2>1. "method" \in Kinds
    BY DEF Kinds, HubKinds
  <2>2. ClientStep(c, Kinds)
    BY <1>2, <2>1 DEF ClientStep
  <2>3. QED  BY <1>2, <2>2 DEF Next
<1>3. ASSUME NEW c \in Clients, MethodStep(c)
      PROVE  Dispatch(c, "method") \/ UNCHANGED vars
  BY <1>3 DEF MethodStep, DeviceMethodInvoke, ModuleMethodInvoke, Invoke, Answer,
     Fail, ReturnEmpty, Copy, Release, Returns, Handle, Respond, Transmit
<1>4. CASE HubNext
  BY <1>1, <1>2, <1>3, <1>4 DEF HubNext, Elsewhere
<1>5. CASE UNCHANGED hubVars
  BY <1>5 DEF hubVars
<1>6. QED  BY <1>4, <1>5

(* A client that has methods invoked, and invokes methods, lives as one     *)
(* that has not: methods add no way to miss it, to lose its handle or to    *)
(* leave a registration out (c_module_method_callback and *_method_invoke   *)
(* touch neither the client nor its contexts).                              *)
THEOREM MethodsKeepTheLifecycle == HubSpec => Spec
<1>1. HubInit => Init
  BY DEF HubInit
<1>2. QED  BY <1>1, LifecycleStep, PTL DEF HubSpec, Spec

-----------------------------------------------------------------------------
LEMMA HeapInit == HubInit => HeapInv
BY ContentFacts, HeapAssumption
   DEF HubInit, HeapInv, HeapTypeOK, Held, Copied, InHand,
       Answers, Codes, NoAnswer, Responses, NoResponse, Outcomes

LEMMA HeapStep == HeapInv /\ [HubNext]_hubVars => HeapInv'
<1> SUFFICES ASSUME HeapInv, [HubNext]_hubVars PROVE HeapInv'
  OBVIOUS
<1> USE ContentFacts, HeapAssumption DEF HeapInv, Becomes
<1>1. ASSUME NEW c \in Clients, Invoke(c) PROVE HeapInv'
  <2>1. HeapTypeOK'
    BY <1>1 DEF Invoke, HeapTypeOK
  <2>2. Held'
    BY <1>1 DEF Invoke, HeapTypeOK, Held, Copied, InHand
  <2>3. Copied'
    BY <1>1 DEF Invoke, HeapTypeOK, Held, Copied, InHand
  <2>4. QED  BY <2>1, <2>2, <2>3
<1>2. ASSUME NEW c \in Clients, NEW a \in Answers, Answer(c, a) PROVE HeapInv'
  <2>1. HeapTypeOK'
    BY <1>2 DEF Answer, Answers, Codes, HeapTypeOK
  <2>2. Held'
    <3>1. \A m \in Cells : m # a.ptr => memory'[m] = memory[m]
      BY <1>2 DEF Answer
    <3>2. a.ptr \in Cells => memory[a.ptr] = Unused /\ memory'[a.ptr] = Reply(c, a.code, a.size)
      BY <1>2 DEF Answer
    <3>3. /\ response' = response
          /\ thread[c] = "invoking" /\ thread'[c] = "answered" /\ answer'[c] = a
          /\ \A d \in Clients : d # c => thread'[d] = thread[d] /\ answer'[d] = answer[d]
      BY <1>2 DEF Answer, HeapTypeOK
    <3>4. a.code \in Codes /\ a.size \in {0, 1}
      BY DEF Answers
    <3>5. \A d \in Clients, m \in Cells :
            /\ InHand(d, m)' => memory'[m] = Reply(d, answer'[d].code, answer'[d].size)
            /\ thread'[d] = "handling" /\ response'[d].ptr = m => memory'[m] = Response(d)
      <4>1. ASSUME NEW d \in Clients, NEW m \in Cells, d = c, InHand(d, m)'
            PROVE  memory'[m] = Reply(d, answer'[d].code, answer'[d].size)
        BY <3>2, <3>3, <4>1 DEF InHand
      <4>2. ASSUME NEW d \in Clients, NEW m \in Cells, d # c, InHand(d, m)'
            PROVE  memory'[m] = Reply(d, answer'[d].code, answer'[d].size)
        <5>1. InHand(d, m)
          BY <3>3, <4>2 DEF InHand
        <5>2. memory[m] = Reply(d, answer[d].code, answer[d].size) /\ memory[m] # Unused
          <6>1. memory[m] = Reply(d, answer[d].code, answer[d].size)
            BY <5>1 DEF Held
          <6>2. Reply(d, answer[d].code, answer[d].size) # Unused
            BY DEF Reply, Unused, Content
          <6>3. QED  BY <6>1, <6>2
        <5>3. QED  BY <3>1, <3>2, <3>3, <4>2, <5>2
      <4>3. ASSUME NEW d \in Clients, NEW m \in Cells,
                   thread'[d] = "handling", response'[d].ptr = m
            PROVE  memory'[m] = Response(d)
        <5>1. d # c /\ thread[d] = "handling" /\ response[d].ptr = m
          BY <3>3, <4>3
        <5>2. memory[m] = Response(d) /\ memory[m] # Unused
          BY <5>1 DEF Held, Response, Unused, Content
        <5>3. QED  BY <3>1, <3>2, <5>2
      <4>4. QED  BY <4>1, <4>2, <4>3
    <3> DEFINE Has(d, m) == thread'[d] \in {"answered", "copied"} /\ answer'[d].ptr = m
               Named(m, content) ==
                 /\ content.what = "reply" => content.of \in Clients
                 /\ content.what = "reply" /\ (content.size # 0 \/ content.code = "error") =>
                      Has(content.of, m)
                 /\ content.what = "response" =>
                      /\ content.of \in Clients
                      /\ thread'[content.of] = "handling"
                      /\ response'[content.of].ptr = m
    <3>6. ASSUME NEW m \in Cells, m = a.ptr PROVE Named(m, memory'[m])
      <4>1. Has(c, m)
        BY <3>3, <3>6
      <4>2. memory'[m].what = "reply" /\ memory'[m].of = c
        BY <3>2, <3>4, <3>6
      <4>3. QED  BY <4>1, <4>2
    <3>7. ASSUME NEW m \in Cells, m # a.ptr PROVE Named(m, memory'[m])
      <4>1. \A d \in Clients : InHand(d, m) => Has(d, m)
        BY <3>3 DEF InHand
      <4>2. memory[m].what = "reply" =>
              /\ memory[m].of \in Clients
              /\ memory[m].size # 0 \/ memory[m].code = "error" => Has(memory[m].of, m)
        BY <4>1 DEF Held
      <4>3. memory[m].what = "response" =>
              /\ memory[m].of \in Clients
              /\ thread'[memory[m].of] = "handling"
              /\ response'[memory[m].of].ptr = m
        BY <3>3 DEF Held
      <4>4. memory'[m] = memory[m]
        BY <3>1, <3>7
      <4>5. QED  BY <4>2, <4>3, <4>4
    <3>8. \A m \in Cells : Named(m, memory'[m])
      BY <3>6, <3>7
    <3>9. QED  BY <3>5, <3>8 DEF Held, InHand
  <2>3. Copied'
    BY <1>2 DEF Answer, HeapTypeOK, Copied
  <2>4. QED  BY <2>1, <2>2, <2>3
<1>3. ASSUME NEW c \in Clients, Fail(c) PROVE HeapInv'
  <2>1. HeapTypeOK'
    BY <1>3 DEF Fail, Returns, Freed, NoAnswer, Answers, Codes, HeapTypeOK
  <2>2. Held'
    BY <1>3 DEF Fail, Returns, Freed, NoAnswer, Answers, Codes, HeapTypeOK, Held, Copied, InHand
  <2>3. Copied'
    BY <1>3 DEF Fail, Returns, Freed, NoAnswer, Answers, Codes, HeapTypeOK, Held, Copied, InHand
  <2>4. QED  BY <2>1, <2>2, <2>3
<1>4. ASSUME NEW c \in Clients, ReturnEmpty(c) PROVE HeapInv'
  <2>1. HeapTypeOK'
    BY <1>4 DEF ReturnEmpty, Blank, Returns, NoAnswer, Answers, Codes, HeapTypeOK
  <2>2. Held'
    BY <1>4 DEF ReturnEmpty, Blank, Returns, NoAnswer, Answers, Codes, HeapTypeOK, Held, Copied, InHand
  <2>3. Copied'
    BY <1>4 DEF ReturnEmpty, Blank, Returns, NoAnswer, Answers, Codes, HeapTypeOK, Held, Copied, InHand
  <2>4. QED  BY <2>1, <2>2, <2>3
<1>5. ASSUME NEW c \in Clients, Copy(c) PROVE HeapInv'
  <2>1. HeapTypeOK'
    BY <1>5 DEF Copy, Blank, Answers, Codes, HeapTypeOK
  <2>2. Held'
    BY <1>5 DEF Copy, Blank, Answers, Codes, HeapTypeOK, Held, Copied, InHand
  <2>3. Copied'
    <3>1. answer[c].ptr \in Cells /\ answer[c].size # 0
      BY <1>5 DEF Copy, Blank, Answers, Codes, HeapTypeOK
    <3>2. answer[c].size = 1 /\ answer[c].code = "ok"
      BY <1>5, <3>1 DEF Copy, HeapTypeOK, Answers, Codes
    <3>3. memory[answer[c].ptr] = Reply(c, "ok", 1)
      BY <1>5, <3>1, <3>2 DEF Copy, Held, InHand
    <3>4. QED  BY <1>5, <3>1, <3>2, <3>3 DEF Copy, HeapTypeOK, Copied
  <2>4. QED  BY <2>1, <2>2, <2>3
<1>6. ASSUME NEW c \in Clients, Release(c) PROVE HeapInv'
  <2>1. HeapTypeOK'
    BY <1>6 DEF Release, Returns, Freed, NoAnswer, Answers, Codes, HeapTypeOK
  <2>2. Held'
    BY <1>6 DEF Release, Returns, Freed, NoAnswer, Answers, Codes, HeapTypeOK, Held, Copied, InHand
  <2>3. Copied'
    BY <1>6 DEF Release, Returns, Freed, NoAnswer, Answers, Codes, HeapTypeOK, Held, Copied, InHand
  <2>4. QED  BY <2>1, <2>2, <2>3
<1>7. ASSUME NEW c \in Clients, NEW from \in Outcomes, NEW ptr \in Buffers[from],
             Handle(c, from, ptr)
      PROVE HeapInv'
  <2>1. HeapTypeOK'
    BY <1>7 DEF Handle, Buffers, Responses, Outcomes, HeapTypeOK
  <2>2. Held'
    <3>1. \A m \in Cells : m # ptr => memory'[m] = memory[m]
      BY <1>7 DEF Handle, HeapTypeOK
    <3>2. ptr \in Cells => memory[ptr] = Unused /\ memory'[ptr] = Response(c)
      BY <1>7 DEF Handle, HeapTypeOK
    <3>3. /\ answer' = answer
          /\ thread[c] = "idle" /\ thread' = [thread EXCEPT ![c] = "handling"]
          /\ \A d \in Clients : d # c => response'[d] = response[d]
          /\ response'[c].ptr = ptr
      BY <1>7 DEF Handle, HeapTypeOK
    <3>4. /\ c \notin {d \in Clients : thread[d] \in {"answered", "copied", "handling"}}
          /\ thread'[c] = "handling"
          /\ \A d \in Clients : d # c => thread'[d] = thread[d]
      BY <3>3 DEF HeapTypeOK
    <3>5. \A d \in Clients, m \in Cells :
            /\ InHand(d, m)' => memory'[m] = Reply(d, answer'[d].code, answer'[d].size)
            /\ thread'[d] = "handling" /\ response'[d].ptr = m => memory'[m] = Response(d)
      <4>1. ASSUME NEW d \in Clients, NEW m \in Cells, d # c,
                   InHand(d, m) \/ (thread[d] = "handling" /\ response[d].ptr = m)
            PROVE  memory'[m] = memory[m]
        <5>1. memory[m] = Reply(d, answer[d].code, answer[d].size) \/ memory[m] = Response(d)
          BY <4>1 DEF Held
        <5>2. memory[m] # Unused
          BY <5>1 DEF Reply, Response, Unused, Content
        <5>3. QED  BY <3>1, <3>2, <5>2
      <4>2. ASSUME NEW d \in Clients, NEW m \in Cells, InHand(d, m)'
            PROVE  d # c /\ InHand(d, m)
        BY <3>3, <3>4, <4>2 DEF InHand
      <4>3. ASSUME NEW m \in Cells, ptr = m PROVE memory'[m] = Response(c)
        BY <3>2, <4>3
      <4>4. ASSUME NEW d \in Clients, NEW m \in Cells, InHand(d, m)'
            PROVE  memory'[m] = Reply(d, answer'[d].code, answer'[d].size)
        <5>1. d # c /\ InHand(d, m)
          BY <4>2, <4>4
        <5>2. memory'[m] = memory[m]
          BY <4>1, <5>1
        <5>3. memory[m] = Reply(d, answer[d].code, answer[d].size)
          BY <5>1 DEF Held
        <5>4. QED  BY <3>3, <5>2, <5>3
      <4>5. ASSUME NEW d \in Clients, NEW m \in Cells,
                   thread'[d] = "handling", response'[d].ptr = m
            PROVE  memory'[m] = Response(d)
        <5>1. CASE d = c
          BY <3>3, <4>3, <4>5, <5>1
        <5>2. CASE d # c
          <6>1. thread[d] = "handling" /\ response[d].ptr = m
            BY <3>3, <3>4, <4>5, <5>2
          <6>2. memory'[m] = memory[m] /\ memory[m] = Response(d)
            BY <4>1, <5>2, <6>1 DEF Held
          <6>3. QED  BY <6>2
        <5>3. QED  BY <5>1, <5>2
      <4>6. QED  BY <4>4, <4>5
    <3>6. \A m \in Cells :
            /\ memory'[m].what = "reply" => m # ptr
            /\ memory'[m].what = "response" => memory'[m].of \in Clients
      BY <3>1, <3>2 DEF Held
    <3>7. QED  BY <3>1, <3>2, <3>3, <3>4, <3>5, <3>6 DEF Held, InHand
  <2>3. Copied'
    BY <1>7 DEF Handle, Responses, Outcomes, HeapTypeOK, Held, Copied, InHand
  <2>4. QED  BY <2>1, <2>2, <2>3
<1>8. ASSUME NEW c \in Clients, Respond(c) PROVE HeapInv'
  <2> DEFINE r == [response[c] EXCEPT !.size = IF response[c].from = "payload" THEN 1 ELSE 0]
  <2>a. r \in Responses /\ r.from = response[c].from /\ r.ptr = response[c].ptr
    BY DEF Responses, HeapTypeOK
  <2>b. response' = [response EXCEPT ![c] = r]
    BY <1>8 DEF Respond
  <2> HIDE DEF r
  <2>1. HeapTypeOK'
    BY <1>8, <2>a, <2>b DEF Respond, Freed, HeapTypeOK
  <2>2. Held'
    BY <1>8, <2>a, <2>b DEF Respond, Freed, HeapTypeOK, Held, InHand, Answers, Codes
  <2>3. Copied'
    BY <1>8 DEF Respond, Freed, Responses, HeapTypeOK, Held, Copied, InHand
  <2>4. QED  BY <2>1, <2>2, <2>3
<1>9. ASSUME NEW c \in Clients, Transmit(c) PROVE HeapInv'
  <2>1. HeapTypeOK'
    BY <1>9 DEF Transmit, Responses, NoResponse, Outcomes, HeapTypeOK
  <2>2. Held'
    BY <1>9 DEF Transmit, Responses, NoResponse, Outcomes, HeapTypeOK, Held, Copied, InHand
  <2>3. Copied'
    BY <1>9 DEF Transmit, Responses, NoResponse, Outcomes, HeapTypeOK, Held, Copied, InHand
  <2>4. QED  BY <2>1, <2>2, <2>3
<1>10. ASSUME NEW m \in Cells, Elsewhere(m) PROVE HeapInv'
  <2>1. HeapTypeOK'
    BY <1>10 DEF Elsewhere, HeapTypeOK
  <2>2. Held'
    <3>1. /\ memory[m].what \in {"free", "other"} /\ memory'[m].what \in {"free", "other"}
          /\ \A n \in Cells : n # m => memory'[n] = memory[n]
      BY <1>10 DEF Elsewhere, HeapTypeOK
    <3>2. UNCHANGED <<thread, answer, response>>
      BY <1>10 DEF Elsewhere
    <3>3. ASSUME NEW d \in Clients, NEW n \in Cells
          PROVE  /\ InHand(d, n)' => n # m /\ InHand(d, n)
                 /\ thread'[d] = "handling" /\ response'[d].ptr = n =>
                      n # m /\ thread[d] = "handling" /\ response[d].ptr = n
      <4>1. Reply(d, answer[d].code, answer[d].size).what = "reply" /\ Response(d).what = "response"
        BY DEF Reply, Response, Content
      <4>2. QED  BY <3>1, <3>2, <4>1 DEF Held, InHand
    <3>4. \A d \in Clients, n \in Cells : InHand(d, n)' <=> InHand(d, n)
      BY <3>2 DEF InHand
    <3>5. \A n \in Cells : memory'[n].what \in {"reply", "response"} => n # m /\ memory'[n] = memory[n]
      BY <3>1
    <3>6. QED  BY <3>1, <3>2, <3>3, <3>4, <3>5 DEF Held, InHand
  <2>3. Copied'
    BY <1>10 DEF Elsewhere, HeapTypeOK, Held, Copied, InHand
  <2>4. QED  BY <2>1, <2>2, <2>3
<1>11. CASE UNCHANGED heapVars
  <2>1. HeapTypeOK'
    BY <1>11 DEF heapVars, HeapTypeOK
  <2>2. Held'
    BY <1>11 DEF heapVars, Held, InHand
  <2>3. Copied'
    BY <1>11 DEF heapVars, Copied
  <2>4. QED  BY <2>1, <2>2, <2>3
<1>12. CASE HubNext
  BY <1>1, <1>2, <1>3, <1>4, <1>5, <1>6, <1>7, <1>8, <1>9, <1>10, <1>11, <1>12
     DEF HubNext, MethodStep, DeviceMethodInvoke, ModuleMethodInvoke
<1>13. QED  BY <1>11, <1>12 DEF hubVars

LEMMA HeapInductive == HubSpec => []HeapInv
BY HeapInit, HeapStep, PTL DEF HubSpec

(* The variables keep their types, those of the life cycle included.        *)
THEOREM MethodsTypeCorrect == HubSpec => []MethodsTypeOK
<1>1. TypeOK /\ HeapInv => MethodsTypeOK
  BY DEF HeapInv, MethodsTypeOK
<1>2. QED  BY <1>1, HeapInductive, MethodsKeepTheLifecycle, TypeCorrect, PTL

(* An invocation frees its own living reply, once, and returns its bytes.   *)
THEOREM RepliesAreSound == HubSpec => []RepliesSound
<1>1. HeapInv => RepliesSound
  BY DEF HeapInv, Held, Copied, RepliesSound
<1>2. QED  BY <1>1, HeapInductive, PTL

(* Only replies of no bytes to invocations that succeeded stay behind.      *)
THEOREM NothingElseLeaks == HubSpec => []OnlyEmptyRepliesLeak
<1>1. HeapInv => OnlyEmptyRepliesLeak
  <2>1. SUFFICES ASSUME HeapInv, NEW m \in Cells
                 PROVE  /\ memory[m].what = "reply" =>
                             \/ \E c \in Clients : InHand(c, m)
                             \/ memory[m].code = "ok" /\ memory[m].size = 0
                        /\ memory[m].what = "response" => thread[memory[m].of] = "handling"
    BY Zenon DEF OnlyEmptyRepliesLeak
  <2>2. memory[m].code \in Codes /\ memory[m].size \in {0, 1}
    BY <2>1 DEF HeapInv, HeapTypeOK, Contents, Codes
  <2>3. QED  BY <2>1, <2>2 DEF HeapInv, Held, Codes
<1>2. QED  BY <1>1, HeapInductive, PTL

(* What is known of the life cycle is known of the composition: with methods*)
(* in flight, handles stay balanced, clients complete, and contexts of what *)
(* stays name it.                                                           *)
THEOREM LifecycleHoldsWithMethods ==
  HubSpec => [](HandlesBalanced /\ HeldIsComplete /\ ContextsName)
BY MethodsKeepTheLifecycle, HandlesAreBalanced, HeldClientsAreComplete, SettledContextsName, PTL
=============================================================================
