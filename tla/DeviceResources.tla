--------------------------- MODULE DeviceResources ---------------------------
(***************************************************************************)
(* What lives on a device client and what a device client lives on: upload *)
(* contexts (lib/src/storage.rs) keep using the client they were made by,  *)
(* and a client made by create_with_transport keeps using the transport    *)
(* (lib/src/transport.rs).  No lifetime ties them together: each is dropped*)
(* when the application pleases, and takes its SDK object along.           *)
(***************************************************************************)
EXTENDS DeviceEvents

CONSTANTS
  Uploads,     \* upload contexts
  TheTransport \* the transport

Objects == Copies \cup Uploads \cup {TheTransport}

ASSUME ObjectsAssumption ==
  /\ Copies \cap Uploads = {}
  /\ TheTransport \notin Copies \cup Uploads

VARIABLES
  alive,   \* the values there are
  spent,   \* the uploads, and the transport, that were made
  shared,  \* whether the handle was created with the transport
  after,   \* for each object, those made after it that are still there
  nested,  \* no object was dropped before one made after it
  cloned,  \* the client was cloned
  misused  \* an SDK object was used that is gone, or that needs one that is

resources == <<alive, spent, shared, after, nested, cloned, misused>>

(* The handle can be used.                                                  *)
Sound == handle = "live" /\ (shared => TheTransport \in alive)

Born(x) ==
  /\ alive' = alive \cup {x}
  /\ after' = [y \in Objects |-> IF y \in alive THEN after[y] \cup {x} ELSE {}]
  /\ UNCHANGED nested

Dies(x) ==
  /\ alive' = alive \ {x}
  /\ after' = [y \in Objects |-> after[y] \ {x}]
  /\ nested' = (nested /\ after[x] = {})

Uses == misused' = (misused \/ ~ Sound)

ResourcesInit ==
  /\ Init
  /\ alive = {} /\ spent = {}
  /\ shared = FALSE /\ nested = TRUE /\ cloned = FALSE /\ misused = FALSE
  /\ after = [x \in Objects |-> {}]

-----------------------------------------------------------------------------
(* Transport::from, or from_raw.                                            *)
TransportFrom ==
  /\ call = Idle /\ TheTransport \notin spent
  /\ Born(TheTransport)
  /\ spent' = spent \cup {TheTransport}
  /\ UNCHANGED <<vars, shared, cloned, misused>>

(* The SDK objects made on it stay.                                         *)
TransportDrop ==
  /\ call = Idle /\ TheTransport \in alive
  /\ Dies(TheTransport)
  /\ UNCHANGED <<vars, spent, shared, cloned, misused>>

(* The other constructors.                                                  *)
CreateAlone(p) ==
  /\ Create(p)
  /\ Born(First)
  /\ UNCHANGED <<spent, shared, cloned, misused>>

(* Mutant: the transport is moved into the constructor.                     *)
CreateWithTransportMoved(p) ==
  /\ TheTransport \in alive
  /\ Create(p)
  /\ shared' = TRUE
  /\ alive' = (alive \ {TheTransport}) \cup {First}
  /\ UNCHANGED <<spent, after, nested, cloned, misused>>

(* create_with_transport borrows the transport for as long as it runs.      *)
CreateWithTransport(p) ==
  /\ TheTransport \in alive
  /\ Create(p)
  /\ Born(First)
  /\ shared' = TRUE
  /\ UNCHANGED <<spent, cloned, misused>>

CloneClient(c, d, p) ==
  /\ Clone(c, d, p)
  /\ Born(d)
  /\ cloned' = TRUE
  /\ UNCHANGED <<spent, shared, misused>>

-----------------------------------------------------------------------------
(* Calls on the client, and the steps of its worker thread, use the handle. *)
ClientUses ==
  /\ EventStep
  /\ IF handle = "live" THEN Uses ELSE UNCHANGED misused
  /\ UNCHANGED <<alive, spent, shared, after, nested, cloned>>

DropEnds ==
  /\ EndDrop
  /\ Dies(call.by)
  /\ Uses
  /\ UNCHANGED <<spent, shared, cloned>>

(* Whatever is called on a value whose handle another one destroyed, its    *)
(* drop included.                                                           *)
CallStale(c) ==
  /\ call = Idle /\ c \in alive /\ handle = "destroyed"
  /\ Uses
  /\ UNCHANGED <<vars, alive, spent, shared, after, nested, cloned>>

NotifyUploadCompletion(c) ==
  /\ Ready(c)
  /\ Uses
  /\ UNCHANGED <<vars, alive, spent, shared, after, nested, cloned>>

AzureStorageCreateClient(c, u) ==
  /\ Ready(c) /\ u \notin spent
  /\ Uses
  /\ Born(u)
  /\ spent' = spent \cup {u}
  /\ UNCHANGED <<vars, shared, cloned>>

PutBlock(u) ==
  /\ call = Idle /\ u \in alive
  /\ Uses
  /\ UNCHANGED <<vars, alive, spent, shared, after, nested, cloned>>

PutBlockList(u) ==
  /\ call = Idle /\ u \in alive
  /\ Uses
  /\ UNCHANGED <<vars, alive, spent, shared, after, nested, cloned>>

DropUpload(u) ==
  /\ call = Idle /\ u \in alive
  /\ Uses
  /\ Dies(u)
  /\ UNCHANGED <<vars, spent, shared, cloned>>

ResourcesNext ==
  /\ ~ Astray /\ ~ misused
  /\ \/ TransportFrom \/ TransportDrop
     \/ \E p \in Places : CreateAlone(p) \/ CreateWithTransport(p)
     \/ \E c \in Copies, d \in Clones, p \in Places : CloneClient(c, d, p)
     \/ ClientUses \/ DropEnds
     \/ \E c \in Copies : CallStale(c) \/ NotifyUploadCompletion(c)
     \/ \E c \in Copies, u \in Uploads : AzureStorageCreateClient(c, u)
     \/ \E u \in Uploads : PutBlock(u) \/ PutBlockList(u) \/ DropUpload(u)

ResourcesSpec == ResourcesInit /\ [][ResourcesNext]_<<vars, resources>>

-----------------------------------------------------------------------------
(* Types of the variables, those of the events included, and which values   *)
(* there are.                                                               *)
ResourcesTypeOK ==
  /\ TypeOK
  /\ alive \subseteq Objects /\ spent \subseteq Uploads \cup {TheTransport}
  /\ \A c \in Copies : c \in alive <=> at[c] # NoPlace
  /\ after \in [Objects -> SUBSET Objects]
  /\ shared \in BOOLEAN /\ nested \in BOOLEAN
  /\ cloned \in BOOLEAN /\ misused \in BOOLEAN

(* Nothing of the SDK is used, by the application or by the worker thread,  *)
(* after what it needs is gone, as long as nothing is dropped before what   *)
(* was made after it, as in one scope: except that a clone, which is made   *)
(* last and dropped first, takes the handle of all along (the drops of      *)
(* deviceclient.rs, storage.rs and transport.rs).                           *)
OnlyClonesBreakNesting == misused => cloned \/ ~ nested
=============================================================================
