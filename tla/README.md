# A verification development for azure-iot-rs

`azure-iot-rs` wraps the C SDK of Azure IoT Hub for Rust. Almost all that can go
wrong in it happens where the two languages meet: who owns a pointer that
crossed the boundary, when the SDK calls back, and what the Rust side has done
in the meantime. The modules in this directory model those protocols in TLA+.
TLC checks them on small instances, and TLAPS proves their safety properties and
refinements for all values of the constants.

All paths below are relative to the repository; `moduleclient.rs`,
`deviceclient.rs` and so on are files of `lib/src`.

## 1. Inventory

| component | code | state it keeps | operations | modelled by |
|---|---|---|---|---|
| module client, async requests | `moduleclient.rs` 238-287, 334-386, 434-447, 516-598, 716-887, 911-917 | boxed oneshot senders owned by the SDK, receivers in futures | seven async methods, five callbacks, `do_work_once`, `do_work`, drop | `ModuleClient` |
| device client, async requests | `deviceclient.rs` 41-45, 178-203, 287-319, 421-445, 514-544, 603-610 | the same, plus wakers, and a handle shared by clones | three async methods, two callbacks on a worker thread, clone, drop | `DeviceClient` |
| module client, life cycle | `moduleclient.rs` 108-235, 289-332, 498-514, 758-767 | the address of the client registered as callback context | constructors, five registrations, events, moves, drop | `ModuleLifecycle` |
| process-wide initialisation | `hub.rs`, constructors of both clients and `transport.rs` | a `OnceLock` with the code of `IoTHub_Init` | `ensure_initialized` | `HubInit` |
| device client, hub events | `deviceclient.rs` 52-176, 384-400, 447-456, 546-585 | callback contexts used by a worker thread | `initialize_callbacks`, later registrations, callbacks, moves, clone, drop | `DeviceEvents` |
| messages | `message.rs`, `moduleclient.rs` 117-138, 703-714, `deviceclient.rs` 56-72, 587-600 | ownership of message handles | from, from_handle, clone, drop, disposition | `MessageOwnership` |
| methods | `moduleclient.rs` 162-192, 600-701, `deviceclient.rs` 96-126 | buffers that cross the boundary | invoke, respond | `ModuleMethods` |
| uploads | `storage.rs`, `deviceclient.rs` 458-512 | upload contexts on a client's handle | create, put blocks, notify, drop | `DeviceResources` |
| transport | `transport.rs`, `deviceclient.rs` 230-255 | a transport handle, shared by clients | from, create on it, drop | `HubInit` (initialisation), `DeviceResources` (lifetime) |
| options, retry policy, status | both clients | none in the crate | one SDK call each | those of the device client as uses of its handle, `DeviceResources` |
| configuration, errors, re-exports | `config.rs`, `error.rs`, `lib.rs` | none that changes | | `check_sdk_result` only |
| wrapper generator | `sys/build.rs` 9-232, 257-331 | names given so far | enum and structure wrappers | `EnumWrappers` |

How they interact. An application constructs a client; the constructor (usually)
runs `ensure_initialized`, asks the SDK for a handle and registers C callbacks
whose context is the client's address. An async method boxes the sender of a
oneshot channel, gives the box to the SDK as the context of a C callback, and
waits on the receiver. In the *module* client the SDK runs only inside `DoWork`,
which each poll of the method's future calls: the callbacks of every pending
request, and of every hub event, are made on the polling thread. In the *device*
client a worker thread of the SDK makes them at any time.

What is hard here: futures dropped between two polls while the SDK still owns
their context; answers that come late, inside somebody else's poll or during
`Destroy`; callbacks between an SDK call and the first look at the channel;
wakers; values that move although their address is registered; clones of a value
that owns a handle; a worker thread inside a handler while its client is
re-registered, moved or dropped; registrations that fail half way; buffers freed
on the wrong side of the boundary, or too early; objects of the SDK that need
others and are dropped on their own; racing first constructions and their
failures. In the build script it is names: of variants made up from the text of
the bindings, which must not clash.
`PROJECT.json` lists these hazards at their lines with the properties that
cover them.

## 2. Modules

    AsyncRequest            what an async call promises            (abstract)
      ^ implemented by ModuleClient   (module client's requests)   -- ModuleClientProofs
      ^ implemented by DeviceClient   (device client's requests)   -- DeviceClientProofs
    ModuleLifecycle         construction, events, moves, drop      -- ModuleLifecycleProofs
      ^ extended by ModuleMethods     (buffers of methods)         -- ModuleMethodsProofs
    DeviceEvents            registrations, handlers, moves, drops  -- DeviceHubProofs
      ^ extended by DeviceResources   (uploads and transport)      -- DeviceHubProofs
    OnceInit                an initialisation decided once         (abstract)
      ^ implemented by HubInit        (OnceLock initialisation)    -- HubInitProofs
    MessageOwnership        who destroys a message                 -- MessageOwnershipProofs
    EnumWrappers            the names the build script makes up    -- EnumWrappersProofs
    MC*                     model values and symmetry for TLC

Two pairs of modules are layers: the upper one extends the lower one with
variables of its own, takes its steps together with the lower one's or leaves its
variables alone, and is shown to do nothing else to them (`MethodsKeepTheLifecycle`,
`ResourcesKeepTheEvents`: every behaviour of the layer is one of the module below,
so that what is proved there holds of both).

Operators named `...Leaking...`, `...Ignoring` and so on, each introduced by
"Mutant:", are the mistakes a property must notice: the action after each of
them is replaced by it to see that TLC reports the property violated. No
specification uses them.

### AsyncRequest
A call is refused at once or left pending; a pending call is answered at most
once and then resolves with its own answer; a caller may walk away before. A
"status" call reports a code other than OK as an error, a "value" call hands
over whatever the answer is. The module has no word about channels, boxes or
callbacks; it is the refinement target of both clients.

### ModuleClient
`fut` is the future of each call (`uncalled`, `called` but not polled,
`submitted` between the SDK call and the first poll of the channel, `awaiting`,
`returned`, `cancelled`); `box` the boxed sender behind its context (`held`,
`freed`, `refreed` after a second `Box::from_raw`); `slot` the value in the
channel; `sdk` what the SDK knows of the call; `reply` its answer. `call` records
which of the seven methods it is: they differ in the sender type they box, in the
callback they name (whose cast `CastTo` records) and in whether the SDK calls
that callback again.

| action | code |
|---|---|
| `Begin` | calling an async method: a future that borrows the client |
| `Accept`, `Refuse` | the body up to the SDK call, and its error path, which takes the box back |
| `Answer`, `Update` | the SDK learns an answer, or a property update (external) |
| `Poll` | one round of `poll_fn`: `DoWork` with all due callbacks, then `try_recv` |
| `DropFuture` | the future is dropped between two polls |
| `DoWorkOnce`, `DoWork` | called directly, and the endless loop |
| `DropClient` | `Drop`: `Destroy` answers everything pending |

The futures borrow the client mutably (`Borrowed`), so one is alive at a time,
but any number of cancelled calls can still have contexts in the SDK. Payloads
are abstracted to codes; the confirmation code is turned into a `Result` by
`check_sdk_result` in one callback (`Sent`). Confirmation codes and result codes
are taken from one set. After a second reclaim the program has no meaning and the
model stops (`Defined`).

### DeviceClient
The same vocabulary, with `waker` (the receiver has stored its task's waker),
`woken` (the task was told to poll), and the client values: `copy`, the `owner`
each future borrows, and the one `handle`. `Callback` is the worker thread and is
enabled whenever a call is accepted, also between `Accept` and the first `Poll`.
The raw handle makes client and futures neither `Send` nor `Sync`, so the
application's own steps are those of one thread: while it is between an SDK call
and the end of that first poll, or inside `Destroy`, only the worker thread moves
(`AtLarge`). `Drop` starts `Destroy`; `Destroyed` ends it when every pending call
has been called back. `UseDestroyed`, and `Drop` on a handle that is no longer
live, put the handle into `misused`, where the model stops.

### ModuleLifecycle
Where a value lives is part of the state (`at`). `Create`, five `Register` steps
(each of which may fail: `RegisterFails` is the `?` that drops the client) and
`Return` are the constructor; `Move` is whatever the application does with the
value. `ctx` holds the context the SDK was given for each callback and `reports`
those of reported states in flight. `Dispatch` and `Acknowledge` are a `DoWork`
with an event, whose callback dereferences its context: if that is not its
client, the callback is recorded in `stray` and the model stops. `Drop` and
`RegisterFails` destroy the handle, which calls back for the reported states in
flight, so that one can stray there as well. Every `Return` may give the client
another place or leave it where it is, as the compiler likes; `Relocatable` is the set
of clients that the application moves afterwards, the others stay where `Return` put them.

### ModuleMethods
A heap of `Cells` is added to `ModuleLifecycle`. `thread` is what the thread of a
client does with a method: `Invoke`, the SDK's `Answer` with a code and perhaps a
buffer (with an error too, or of no bytes), then `Fail`, `ReturnEmpty`, or `Copy`
and `Release`, which are the four ways through `device_method_invoke`; or `Handle`,
`Respond` and the SDK's `Transmit`, the method callback. Freeing and reading are
steps of their own because other clients' threads and `Elsewhere`, the rest of the
process, use the heap in between: a buffer read after it was freed may by then be
somebody else's. A client busy with a method is borrowed and does nothing else.
`module_method_invoke` differs from `device_method_invoke` in the SDK function it
calls, `c_device_method_callback` has the body of `c_module_method_callback`.
How many bytes a payload has is abstracted to some or none. A cell with a reply also
holds, as a ghost, the code the SDK came with, by which a reply left behind by an
invocation that succeeded differs from one of an invocation that failed. An empty `Vec`
has a pointer that is not null, to memory of its own or to none (`Dangling`). That the
SDK reads a response after the callback has returned is an assumption about it: it has no
other moment to. A response it reads from memory that is no longer the handler's is
recorded in `misread`, and the model stops.

### DeviceEvents
The worker thread is in a handler from `BeginCallback` (or `BeginOnce`, for reported
states and method invocations) to `EndCallback`; `running` is the context it was
given. Meanwhile the application, on one thread, may do anything it likes:
`BeginInitialize`, then `Register` five times or `RegisterFails`, whose `?` returns
and leaves the earlier registrations as they are; the registrations of other
methods; `Clone`, `Move`, `BeginDrop`. `EndDrop` is the return of `Destroy`, which
waits for the handler to end; that it does is assumed of the SDK. The handle is
the one all clones share, and what is registered with it is the address of
whichever value registered last. A context carries as a ghost the value that lived
at its address. A handler whose client has left its place is `Astray`, where the
program has no meaning and the model stops.

### DeviceResources
`alive` holds the values of client, clones, uploads and transport, `after` for each
those made later and still there, so that `nested` says whether drops came in the
reverse order of the constructions. A use of the handle, by any method, by the
worker thread, by an upload or by a drop, is a misuse if the handle was destroyed
or if it was created on a transport that is gone. That an upload context works on
the client it was made by, and a client on its transport, is taken from the SDK.
The uses without state of their own (options, retry policy, status, times,
dispositions) are in `Uses` and `CallStale`.

### EnumWrappers
One step per iteration of the loops of `generate_enum_wrappers` and
`generate_struct_wrappers`. A C name is the sequence of its tokens, a token a
sequence of symbols, so that `ToPascalCase`, which drops the underscores, can make
one name of two: `OK_2` and `OK2`. A word is one symbol; only digits are symbols of their
own, because what `NumberedVariant` appends are digits, in decimal (`Numeral`), and the
clashes are between these and digits that were there: the 12th `Ok` and the second `Ok1`
are both `Ok12`. `Belongs` is the text search of the code, which finds the marker
(`A_TAG_` for an alias `A`) anywhere, also where it starts in the middle of a token, and
so takes in the constants of any enumeration whose name ends with the alias. The code
searches the whole line; the model searches the name, since type and value of a constant
hold no marker (the value is a number, and no name of a type has `_TAG_` in it). `Suffix`
takes the marker off as often as the name starts with it, and leaves a foreign name
whole. `FromRaw` and `AsRaw` are the conversions of the generated code. Names are in
lower case: upper case marks where tokens begin, which the sequence does by itself.
Case and extra underscores of a C name make no difference to what becomes of it, so
that the bindings may have one sequence of tokens twice; a name that ends in the letters
`TAG` stands for one with an underscore after it. `enums` records, beside the name of a wrapper, the position
of its alias, which tells wrappers of one name apart. What is said of
the output is that names differ, not that it compiles: a variant that starts with a
digit, for one, would not.

### OnceInit
An outcome that is decided once, told to whoever asks, and acted on only if it is a
success: what the constructors need of `ensure_initialized`, with no word about locks,
closures or threads inside them.

### HubInit
`ensure_initialized` step by step for several threads: entering the closure,
`IoTHub_Init`, publication, reading the value. Constructors are known by whether
they call it; three do not. For the refinement, `Outcome` is the code from the moment
`IoTHub_Init` returns it, which is before the cell has it.

### MessageOwnership
Addresses of messages (`object`), the SDK's `claim` on them, and the wrappers
around them (`of`, `own`). A delivered message belongs to the SDK until the
callback returns its verdict (`Return`) or, if it left the verdict to
`send_message_disposition` (`Defer`), until that is sent. The wrapper may be kept,
cloned or dropped at any time; an address is given to later messages as soon as it
is free. `CallbacksOwn` is the flag of the wrappers the callbacks make: the module
client's use `from_handle`, the device client's `from`. When the SDK destroys a
message is not written in the repository; the module takes it from the module
client, which relies on it.

## 3. Runs

| run | instance | shows |
|---|---|---|
| `module_client` | 2 calls, 3 codes, updates | `TypeOK`, `ContextSound`, `ReclaimedOnce`, `NoContextLeak`, `OwnAnswer`, `ImplementsRequests`, `AnsweredInOwnPoll`, and under `FairSpec` `PolledResolves`, `LoopDrains` |
| `module_subscribe` | the same | **violated** `EveryContextReclaimedOnce` |
| `device_client` | 2 calls, a client and a clone, 3 codes | `TypeOK`, `ContextSound`, `NoContextLeak`, `NoLostWakeup`, `WakesResolve`, `OnlyClonesMisuse`, `ImplementsRequests`, and under `FairSpec` `PolledResolves` |
| `device_clone` | the same | **violated** `HandleNeverMisused` |
| `lifecycle` | 2 clients, either moved by the constructor's return, one by the application, 3 places, a heap of 2 cells | `MethodsTypeOK` (which contains `TypeOK`), `HandlesBalanced`, `HeldIsComplete`, `ContextsName`, `RepliesSound`, `OnlyEmptyRepliesLeak` |
| `lifecycle_moved` | without methods, both clients moved by the application too | **violated** `NoStray` |
| `hub_init` | 3 threads, 2 ways to fail | `TypeOK`, `InitOnce`, `ImplementsOnceInit`, `EnsureReturns` |
| `hub_before` | every constructor | **violated** `InitBeforeHandles` |
| `message_module` | 3 addresses, 4 wrappers, module callbacks | `TypeOK`, `SoleOwner`, `DestroyedOnce` |
| `message_device` | the same, device callbacks | **violated** `DestroyedOnce` |
| `device_hub` | a client that stays, a clone that may move, 3 places, an upload, a transport | `ResourcesTypeOK`, `CallbacksOnTheirClient`, `InitializedIsComplete`, `OnlyClonesBreakNesting` |
| `enum_wrappers` | an enumeration, one whose name ends with its name in mid-token, up to 3 constants of 7 suffixes, 2 values and an unknown one; 14 constants of two names; 2 enumerations that read alike | `TypeOK`, `OnlyNamesakesClash`, `RawSurvives`, `KnownValuesNamed` |

`AnsweredInOwnPoll` and `WakesResolve` are properties of steps: which poll may take an
answer, and what the poll after a wakeup returns. `OwnAnswer` of the device client, and
`SameVerdict` and `EnsuredBeforeUse` of `HubInit`, are not checked again where a
refinement that implies them is; all three are proved.

Bounds. In `device_hub` the constraint
`Bounds` lets one callback that is made once be pending (`MaxOnce`), since the
worker thread makes them one by one, and does not go on after a drop that breaks the
nesting: `OnlyClonesBreakNesting` is true from then on. The generator of `EnumWrappers`
ends on whatever it is given, so that its inputs are the only bound. In the others each call
and each client is a constant that is used once, so the number of calls and
clients is the only bound. Two calls are enough for one to be cancelled and
answered while the other is polled, or refused while the other's context is with
the SDK; the codes hold a success, an error, and the answer to what is pending
at destruction. Two clients and three places let a client be created where
another lived or moved from. Three threads give one that runs the closure, one
that waits and one that comes late, and two failures tell a first verdict from a
second. Three addresses and four wrappers let a message be delivered, cloned and
kept while another takes the address it had. A heap of two cells holds a reply and what
took the place of a freed one. Three constants are the fewest for a clash of variants: two
that get one name, and a third that is called what the second is renamed to; 12 of one
name and 2 of another are the fewest for two numbers to meet, which takes one of two
digits; and two aliases that read alike in CamelCase make one enum twice. The proofs
remove the bounds for the safety properties.

Deadlock is checked in `HubInit`. In the others an application may have made its
last call, the last client may be gone with its handle, or the generator has ended, so
that nothing is left to do.

Fairness. *ModuleClient*: a poll that returns Pending has called
`wake_by_ref` on its own task, so an executor polls it again; the loop of
`do_work` never stops; the SDK answers every accepted call, at worst with its
message timeout. *DeviceClient*: an executor finishes a poll it has begun and
polls a task that was *woken*, and no other is owed a poll, which is what makes
`PolledResolves` depend on wakers; the worker thread calls back; `Destroy`
returns. *HubInit*: threads are scheduled and `IoTHub_Init` returns. Applications
are never fair: they need not call, poll a first time, drop or move anything.

## 4. What disagrees with the code's own statements

* `module_subscribe`: a property subscription gives the SDK a one-shot boxed
  sender, and the SDK calls back again for each update.
* `hub_before`: `IoTHubDeviceClient::create`, `create_with_transport` and
  `Transport::from` do not initialise the SDK, which the tests of `sys` and the
  earlier `lib/deviceclient.rs` do first.
* `lifecycle_moved`: constructors register the address of a local variable and
  then return it by value.
* `device_clone`: the device client derives `Clone` and destroys the handle in
  every drop.
* `message_device`: the device client's callbacks own the message the SDK lends
  them; those of the module client do not.

Each has a positive counterpart that says how far the trouble goes, and a theorem that
says what suffices for the violated property to hold after all, or for how much of it:

| violated | how far it goes | it holds if | theorem |
|---|---|---|---|
| `EveryContextReclaimedOnce` | `ReclaimedOnce`: only subscriptions | no update follows an answer | `WithoutUpdatesReclaimedOnce` |
| `InitBeforeHandles` | `EnsuredBeforeUse`: only constructors that do not ensure | every constructor in use ensures | `EnsuringConstructorsSuffice` |
| `NoStray` | `ContextsName`: what a client that the application does not move registers after its construction names it | nothing an application can do, for the constructor itself moves the client; without other moves, only the constructor's five registrations stray | `SettledContextsName`, `LaterRegistrationsHold` |
| `HandleNeverMisused` | `OnlyClonesMisuse`: only after a clone | there are no clones | `UnclonedHandleIsSafe` |
| `DestroyedOnce` (device) | `DestroyedOnce` of the module client | callbacks do not own what they wrap | `DestroyedAtMostOnce` |

What the other positive properties leave open is as real, although no doc or test of
the repository speaks of it. A reply of no bytes to an invocation that succeeded is
never freed (`OnlyEmptyRepliesLeak`). Two variants of a wrapper can be one
(`OnlyNamesakesClash`): constants `A_OK2`, `A_OK_2` and `A_OK22` would make `Ok22` of the
last two; and so can the enums of two aliases, since
`generate_enum_wrappers` has no set of the names it wrote, as
`generate_struct_wrappers` has. An upload or a client may outlive what it lives on
(`OnlyClonesBreakNesting`). And no property says of a method response with a payload
what could not be said: the SDK reads it after its `Vec` was dropped, always
(`Respond`, `Transmit`).

## 5. Proofs

All safety properties of the passing runs are theorems, for every value of the
constants that satisfies the named assumptions (the codes contain OK, ERROR and
DESTROYED with OK different from ERROR and "no reply" not a code; the first
client value is one of the copies; "no place" is not a place; null and the dangling pointer
differ and are not cells; uploads, clients and the transport are different; `unknown` is
reserved, and the ten digits and the tokens the generator knows are symbols).

* `ModuleClientProofs`. No property is inductive by itself; `IInv` adds to the
  types: `LoneFuture`, the mutable borrow (futures never overlap, none is alive
  once the client loops or is gone); `ChannelsEmpty`, which holds because an
  answer with a living receiver is always delivered inside that receiver's own
  poll; `Owned`, that the boxes still held are exactly those of the calls the SDK
  has yet to answer, which gives `ContextSound` and `NoContextLeak`; and how
  future, SDK and reply progress together. Only `Subscribed` knows of second
  reclaims, and confines them to subscriptions.
  `Refinement` maps `fut`, `call` and `reply` to the abstract status, kind and
  reply. A `Poll` that finds an answer is `Resolve`; one that finds none is a
  stutter, although it may deliver answers to calls that were cancelled.
  `PollEffect` says what a poll does to every call; from it and `IInv` follows
  `AnswersArriveInOwnPoll`, the step property on which `PolledResolves` rests: given
  polls and an answer, there is no third thing to wait for. `WithoutUpdatesReclaimedOnce`
  needs one more invariant, that an answered call is never called back again (`Quiet`).
* `DeviceClientProofs`. In addition, `Wakers`: an awaiting task whose sender
  still exists has its waker stored, one whose sender is gone is woken, and none is
  woken for less. That is `WakeupsAreNotLost` as a state and `WakeupsResolve` as a step.
  `MisuseTakesAClone` rests on `Alone`: as long as nothing but the first value
  exists, every future borrows it, so that the handle is destroyed only when no
  future can use it. `UnclonedHandleIsSafe` follows for a program without clones.
* `ModuleLifecycleProofs`. Handles are balanced because every early return drops
  the client. `SettledInv` is about the clients that the application does not move: until
  the constructor returns, and then for all that is registered later, every context is
  the place the client is at, and nobody else can move there (`ContextsName`); the
  five registrations of the constructor are all it does not speak of, since `Return`
  moves away from them, and they are what `LaterRegistrationsHold` excepts.
* `HubInitProofs`. `inits` is tied to the state of the cell and to the one thread
  inside the closure, and a published code to the code every thread was told.
  `Refinement` maps the return of `IoTHub_Init` to the decision, its publication and
  whatever happens inside the lock to stutters, and each reading of the cell to an
  admission or a rejection. `NobodyWaitsForNobody` is the safe half of `EnsureReturns`:
  who is blocked is blocked by a thread that is inside the closure.
  `EnsuringConstructorsSuffice` needs to know on whose behalf a thread is busy (`Busy`).
* `MessageOwnershipProofs`. `SoleOwner` is inductive once it is stated without
  sets (`Sole`) and the running callback is tied to the SDK's claim (`Running`);
  `CallbacksOwn = FALSE` is used in exactly one step, the delivery.
* `ModuleMethodsProofs`. `HeapInv` ties each cell to the one invocation or callback
  that has it in hand (`Held`, from both sides) and what was copied to the reply it was
  copied from (`Copied`). Two
  invocations never have one cell, since the SDK allocates only what is free and other
  threads free only what is theirs. The life cycle is not proved again:
  `MethodsKeepTheLifecycle` maps every step to one of `ModuleLifecycle` or to a stutter,
  and `LifecycleHoldsWithMethods` restates its invariants for the composition.
* `DeviceHubProofs`. In `EInv`, `ContextsNamed` says that whatever context the SDK
  keeps, or the worker is in, names the place of its value if that value keeps it;
  `CallsOwn` that a call has a value and a live handle; `Progress` and `Completed` what
  the registrations name so far and after the last one. `RInv` adds where things come
  from (`Origins`: without clones the first value is there exactly as long as the handle)
  and `Standing`: while drops nest, an upload has its client and a shared client its
  transport, each made before it. `OnlyClonesBreakNesting` is read off it.
  `HandlersAreUndisturbed` is the property of steps behind `CallbacksOnTheirClient`: what
  is named stays named until the handler ends, by no drop, failure or registration cut
  short. Two corollaries are for applications: without moves no handler is ever astray
  (`NothingMovesNothingStrays`), and one scope without clones is safe (`OneScopeIsSafe`).
* `EnumWrappersProofs`. `Numbered` says that a variant is its base with a number below
  the count of that base, `SameBaseApart` that two variants of one base differ. So two
  that are alike have different bases and become one name by the digits after
  them, hence one base is the other with digits (`NumberingClash`). That rests on
  `Numeral`: that the recursive function exists (`NumeralIs`), writes digits
  (`NumeralType`) and no two numbers alike (`NumeralInjective`), each by a least
  counterexample. That
  no variant is `Unknown` rests on what is appended being digits or `value`.
  `AliasesBefore` says that wrappers are those of aliases passed, so that no alias has two.
  `RoundTrip` is the conversion there and back for a wrapper whose variants differ.
  `KInv` follows
  the two passes over the bindings: what is collected are the values of the constants
  read so far (`Collected`), what is named is what was collected, in its order
  (`ArmsFollow`), and every alias that was passed has its wrapper (`AliasesDone`);
  `KnownValuesAreNamed` is read off it. `TrimmingKeepsApart` is about the operators
  alone: the tokens that `CommonTokenPrefixLen` counts are common to all values
  (`PrefixIsCommon`), so that trimming them merges no two different values, except one
  that is that prefix, which is not trimmed to nothing, and one that is the prefix twice.

Only model-checked: the liveness properties (`PolledResolves`, `LoopDrains`,
`EnsureReturns`), which depend on fairness and so on ENABLED; of the last and of
`PolledResolves` the safe half is proved, as said above. `AsyncRequest` and `OnceInit` have
no proofs of their own. What `FlattenSeq` computes is defined by recursion over the
sequence; the proofs know its type (`Flattened`, by a least counterexample) and nothing else,
so that what becomes of two different names by `ToPascalCase` is left to TLC.

## 6. Not modelled

Options, retry policy, status and receive time are single SDK calls without state in
the crate; in the device client they count as uses of the handle, in the module client
nothing can come between. Conversions of single arguments and results (timeouts of 32
bits, negative times, the two enumerations whose zero is OK) are properties of one
expression, which a unit test with a boundary value settles; `PROJECT.json` lists them
with that note. The two strings of `initialize_upload` belong to the application once
they are returned. The configuration builder does not change after `build`. The
bindings are generated, `main` of the build script runs other programs, the file
`lib/deviceclient.rs` is compiled by nothing, and the example is an application. The SDK
itself is not in the repository and appears only as the external actions described above.

What might be added: events and answers of the module client in the same `DoWork`
(`ModuleLifecycle` and `ModuleClient` share the client and no other state, so that their
properties could only be conjoined); async calls of the device client next to its
events; liveness of `DeviceEvents`, which would have to assume of handlers that they
return, and so say little of this code.
