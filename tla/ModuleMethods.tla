---------------------------- MODULE ModuleMethods ----------------------------
(***************************************************************************)
(* Direct methods of the module client (lib/src/moduleclient.rs), on top of*)
(* its life cycle: the buffers that cross the boundary when a client       *)
(* invokes a method elsewhere and when the hub invokes one of the client's.*)
(*                                                                         *)
(* A reply to an invocation is a buffer the SDK allocated and the client   *)
(* has to free.  A response of the client is a Vec of its handler, which   *)
(* the callback lends to the SDK and drops when it returns.  Both live in a*)
(* heap that other threads of the process use as well, so that memory freed*)
(* too early may hold anything by the time it is read.                     *)
(***************************************************************************)
EXTENDS ModuleLifecycle

CONSTANTS
  Cells,    \* blocks of the heap, each big enough for one buffer
  Null,     \* the null pointer
  Dangling, \* a pointer that is not null, to no block of the heap
  NoClient  \* the owner of what belongs to no client

ASSUME HeapAssumption ==
  /\ Null \notin Cells /\ Dangling \notin Cells /\ Null # Dangling
  /\ NoClient \notin Clients

VARIABLES
  memory,    \* what each cell holds
  thread,    \* what the thread of each client is doing with a method
  answer,    \* the out-parameters of its invocation
  copied,    \* the bytes its invocation copied from the reply
  response,  \* the out-parameters of its method callback
  misread    \* the responses the SDK read from other memory

heapVars == <<memory, thread, answer, copied, response, misread>>
hubVars == <<vars, heapVars>>

(* What a cell holds: of a reply also the code the SDK came with, by which  *)
(* one left behind can be told from another.                                *)
Content(what, c, code, size) == [what |-> what, of |-> c, code |-> code, size |-> size]
Unused == Content("free", NoClient, "ok", 0)
Other == Content("other", NoClient, "ok", 1)
Reply(c, code, size) == Content("reply", c, code, size)
Response(c) == Content("response", c, "ok", 1)
Codes == {"ok", "error"}
Contents ==
  [what : {"free", "other", "reply", "response"},
   of : Clients \cup {NoClient}, code : Codes, size : {0, 1}]

(* Where the bytes of a handler's result are: an empty Vec may have memory, *)
(* and points somewhere in any case.                                        *)
Outcomes == {"payload", "empty", "error"}
Buffers ==
  [payload |-> Cells, empty |-> Cells \cup {Dangling}, error |-> {Null}]

Answers == [code : Codes, ptr : Cells \cup {Null}, size : {0, 1}]
Responses == [from : Outcomes, ptr : Cells \cup {Null, Dangling}, size : {0, 1}]

(* Out-parameters as they are initialised.                                  *)
NoAnswer == [code |-> "error", ptr |-> Null, size |-> 0]
NoResponse == [from |-> "error", ptr |-> Null, size |-> 0]

HubInit ==
  /\ Init
  /\ memory = [m \in Cells |-> Unused]
  /\ thread = [c \in Clients |-> "idle"]
  /\ answer = [c \in Clients |-> NoAnswer]
  /\ copied = [c \in Clients |-> Unused]
  /\ response = [c \in Clients |-> NoResponse]
  /\ misread = {}

Becomes(c, from, to) == thread[c] = from /\ thread' = [thread EXCEPT ![c] = to]

(* What free does; a null pointer is left alone.                            *)
Freed(ptr) == [m \in Cells |-> IF m = ptr THEN Unused ELSE memory[m]]

-----------------------------------------------------------------------------
(* The client asks the SDK to invoke a method and waits.                    *)
Invoke(c) ==
  /\ phase[c] = "held"
  /\ Becomes(c, "idle", "invoking")
  /\ UNCHANGED <<vars, memory, answer, copied, response, misread>>

(* The SDK comes back with a code, and perhaps with a buffer, be it with an *)
(* error or of no bytes.                                                    *)
Answer(c, a) ==
  /\ Becomes(c, "invoking", "answered")
  /\ a.ptr \in Cells => memory[a.ptr] = Unused
  /\ answer' = [answer EXCEPT ![c] = a]
  /\ memory' = [m \in Cells |-> IF m = a.ptr THEN Reply(c, a.code, a.size) ELSE memory[m]]
  /\ UNCHANGED <<vars, copied, response, misread>>

(* The invocation returns, and its variables go out of scope.               *)
Returns(c, from) ==
  /\ Becomes(c, from, "idle")
  /\ answer' = [answer EXCEPT ![c] = NoAnswer]
  /\ copied' = [copied EXCEPT ![c] = Unused]
  /\ UNCHANGED <<vars, response, misread>>

(* Mutant: the error is not returned after the buffer was freed.            *)
FailGoingOn(c) ==
  /\ answer[c].code = "error" /\ thread[c] = "answered"
  /\ answer' = [answer EXCEPT ![c].code = "ok"]
  /\ memory' = Freed(answer[c].ptr)
  /\ UNCHANGED <<vars, thread, copied, response, misread>>

(* Mutant: the buffer of a failed invocation is freed if it has bytes.      *)
FailSkippingEmpty(c) ==
  /\ answer[c].code = "error"
  /\ Returns(c, "answered")
  /\ memory' = IF answer[c].size > 0 THEN Freed(answer[c].ptr) ELSE memory

(* An error is returned, after its buffer was freed if there is one.        *)
Fail(c) ==
  /\ answer[c].code = "error"
  /\ Returns(c, "answered")
  /\ memory' = Freed(answer[c].ptr)

Blank(c) == answer[c].ptr = Null \/ answer[c].size = 0

(* Nothing to copy: an empty payload is returned, and nothing is freed.     *)
ReturnEmpty(c) ==
  /\ answer[c].code = "ok" /\ Blank(c)
  /\ Returns(c, "answered")
  /\ UNCHANGED memory

(* The bytes of the reply are copied ...                                    *)
Copy(c) ==
  /\ answer[c].code = "ok" /\ ~ Blank(c)
  /\ Becomes(c, "answered", "copied")
  /\ copied' = [copied EXCEPT ![c] = memory[answer[c].ptr]]
  /\ UNCHANGED <<vars, memory, answer, response, misread>>

(* ... and the reply is freed.                                              *)
Release(c) ==
  /\ Returns(c, "copied")
  /\ memory' = Freed(answer[c].ptr)

(* The two invocations differ in the SDK function they call.                *)
DeviceMethodInvoke(c) == Invoke(c) \/ Fail(c) \/ ReturnEmpty(c) \/ Copy(c) \/ Release(c)
ModuleMethodInvoke(c) == DeviceMethodInvoke(c)

-----------------------------------------------------------------------------
(* The hub invokes a method of the client: the handler makes its result.    *)
Handle(c, from, ptr) ==
  /\ Becomes(c, "idle", "handling")
  /\ Dispatch(c, "method")
  /\ ptr \in Buffers[from]
  /\ ptr \in Cells => memory[ptr] = Unused
  /\ response' = [response EXCEPT ![c] = [from |-> from, ptr |-> ptr, size |-> 0]]
  /\ memory' = [m \in Cells |-> IF m = ptr THEN Response(c) ELSE memory[m]]
  /\ UNCHANGED <<answer, copied, misread>>

(* Mutant: the length counts a terminator.                                  *)
RespondTerminated(c) ==
  /\ Becomes(c, "handling", "responding")
  /\ response' = [response EXCEPT ![c].size = IF response[c].from = "payload" THEN 2 ELSE 1]
  /\ memory' = Freed(response[c].ptr)
  /\ UNCHANGED <<vars, answer, copied, misread>>

(* The callback points the SDK to the bytes of the handler's Vec and drops  *)
(* the Vec as it returns; an error is null and no bytes.                    *)
Respond(c) ==
  /\ Becomes(c, "handling", "responding")
  /\ response' = [response EXCEPT ![c].size = IF response[c].from = "payload" THEN 1 ELSE 0]
  /\ memory' = Freed(response[c].ptr)
  /\ UNCHANGED <<vars, answer, copied, misread>>

(* The SDK sends as many bytes as it was told, from where it was told: if   *)
(* there are any, their memory is no longer the handler's.                  *)
Transmit(c) ==
  /\ Becomes(c, "responding", "idle")
  /\ misread' = IF response[c].size = 0 \/ \E m \in Cells : m = response[c].ptr /\ memory[m] = Response(c)
                THEN misread ELSE misread \cup {<<c, response[c].from>>}
  /\ response' = [response EXCEPT ![c] = NoResponse]
  /\ UNCHANGED <<vars, memory, answer, copied>>

(* Other threads of the process allocate and free memory of their own.      *)
Elsewhere(m) ==
  /\ memory[m] \in {Unused, Other}
  /\ memory' = [memory EXCEPT ![m] = IF @ = Unused THEN Other ELSE Unused]
  /\ UNCHANGED <<vars, thread, answer, copied, response, misread>>

MethodStep(c) ==
  \/ DeviceMethodInvoke(c) \/ ModuleMethodInvoke(c)
  \/ \E a \in Answers : Answer(c, a)
  \/ \E from \in Outcomes : \E ptr \in Buffers[from] : Handle(c, from, ptr)
  \/ Respond(c)
  \/ Transmit(c)

(* A client that is busy with a method is borrowed: it does nothing else.   *)
(* The program has no meaning once memory was mistaken for something else.  *)
HubNext ==
  /\ stray = {} /\ misread = {}
  /\ \/ \E c \in Clients :
          \/ thread[c] = "idle" /\ ClientStep(c, Kinds \ {"method"}) /\ UNCHANGED heapVars
          \/ MethodStep(c)
     \/ \E m \in Cells : Elsewhere(m)

HubSpec == HubInit /\ [][HubNext]_hubVars

-----------------------------------------------------------------------------
(* Types of the heap and of what points into it.                            *)
HeapTypeOK ==
  /\ memory \in [Cells -> Contents]
  /\ thread \in [Clients -> {"idle", "invoking", "answered", "copied",
                             "handling", "responding"}]
  /\ answer \in [Clients -> Answers]
  /\ copied \in [Clients -> Contents]
  /\ response \in [Clients -> Responses]
  /\ misread \subseteq Clients \X Outcomes

(* Types of the variables, of the life cycle and of the methods.            *)
MethodsTypeOK == TypeOK /\ HeapTypeOK

(* The buffer an invocation has in hand.                                    *)
InHand(c, m) == thread[c] \in {"answered", "copied"} /\ answer[c].ptr = m

(* What an invocation is about to free is a living reply to that very       *)
(* invocation, and what it returns are the bytes of that reply, however     *)
(* much other clients and other threads allocate and free in between        *)
(* (device_method_invoke, module_method_invoke).                            *)
RepliesSound ==
  \A c \in Clients :
    /\ \A m \in Cells : InHand(c, m) => memory[m] = Reply(c, answer[c].code, answer[c].size)
    /\ thread[c] = "copied" => copied[c] = Reply(c, "ok", 1)

(* The only buffers never freed are replies of no bytes to invocations that *)
(* succeeded: whatever an invocation leaves behind otherwise, be it by an   *)
(* error or after the copy, was freed; and no response outlives its callback*)
(* (device_method_invoke, module_method_invoke, c_module_method_callback).  *)
OnlyEmptyRepliesLeak ==
  \A m \in Cells :
    /\ memory[m].what = "reply" =>
         \/ \E c \in Clients : InHand(c, m)
         \/ memory[m].code = "ok" /\ memory[m].size = 0
    /\ memory[m].what = "response" => thread[memory[m].of] = "handling"
=============================================================================
