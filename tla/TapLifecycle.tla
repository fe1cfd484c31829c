---------------------------- MODULE TapLifecycle ----------------------------
(***************************************************************************)
(* The life of an adapter context: AdapterCreate allocates it, registers   *)
(* its devices and puts it on the global list; applications open the       *)
(* device and find the context on the list; AdapterHalt takes it off the   *)
(* list and destroys the devices.  The context is freed by whoever drops   *)
(* the last reference.                                                     *)
(*                                                                         *)
(* A section under GlobalData.Lock is one step, and so is an interlocked   *)
(* instruction.  The state of a context (its queues, its counts) is the    *)
(* subject of TapSendPath and TapReceivePath.                              *)
(***************************************************************************)
EXTENDS Integers, FiniteSets

CONSTANTS
  Adapters,       \* the adapter contexts NDIS ever asks for
  TapFiles,       \* file objects for the TAP device
  DiagFiles,      \* file objects for the diagnostic device (GlobalData.EnableTapDiag)
  Readers,        \* read calls, each with its thread and its IRP
  NoAdapter, NoFile,
  NdisRef, ListRef \* the references of AdapterCreate and of the global list

Files == TapFiles \cup DiagFiles

ASSUME FilesAssumption ==
  /\ IsFiniteSet(TapFiles) /\ IsFiniteSet(DiagFiles)
  /\ TapFiles \cap DiagFiles = {}
  /\ NoFile \notin Files /\ NoAdapter \notin Adapters
  /\ NdisRef # ListRef /\ {NdisRef, ListRef} \cap Files = {}

VARIABLES
  ndisPc,           \* where AdapterCreate or AdapterHalt of each adapter is
  context,          \* none, live or freed
  refCount,         \* Adapter->RefCount
  globalList,       \* the contexts on GlobalData.AdapterList
  deviceHandle,     \* the adapters whose TAP device is registered
  diagDeviceHandle, \* the adapters whose diagnostic device is registered
  instanceId,       \* the adapters whose NetCfgInstanceId was read
  tapFileObject,    \* Adapter->TapFileObject
  tapFileIsOpen,    \* the adapters with TapFileIsOpen = 1
  fileState,        \* where each file is in its life
  device,           \* the adapter whose device a file is for
  readPc,           \* where each read call is
  readFile,         \* the file it reads from
  readContext,      \* the context it took from FsContext of that file
  readIrps          \* the reads whose IRP is not yet completed

ndisVars == <<ndisPc, globalList, deviceHandle, diagDeviceHandle, instanceId>>
refVars == <<context, refCount>>
fileVars == <<tapFileObject, tapFileIsOpen, fileState, device>>
readVars == <<readPc, readFile, readContext, readIrps>>
vars == <<ndisVars, refVars, fileVars, readVars>>

NdisStep(a, from, to) == ndisPc[a] = from /\ ndisPc' = [ndisPc EXCEPT ![a] = to]
FileStep(f, from, to) == fileState[f] = from /\ fileState' = [fileState EXCEPT ![f] = to]

\* tapAdapterContextReference
Reference(a) ==
  /\ refCount' = [refCount EXCEPT ![a] = @ + 1]
  /\ UNCHANGED context

\* tapAdapterContextDereference, and tapAdapterContextFree at zero
Dereference(a) ==
  /\ refCount' = [refCount EXCEPT ![a] = @ - 1]
  /\ context' = IF refCount[a] = 1 THEN [context EXCEPT ![a] = "freed"] ELSE context

-----------------------------------------------------------------------------
(* AdapterCreate and AdapterHalt                                           *)

\* The context is allocated; reading NetCfgInstanceId may fail, and its status is
\* overwritten by the next call.
CreateBegin(a) ==
  /\ NdisStep(a, "none", "configured")
  /\ context' = [context EXCEPT ![a] = "live"]
  /\ refCount' = [refCount EXCEPT ![a] = 1]
  /\ instanceId' \in {instanceId, instanceId \cup {a}}
  /\ UNCHANGED <<globalList, deviceHandle, diagDeviceHandle, fileVars, readVars>>

\* NdisMSetMiniportAttributes or NdisRegisterDeviceEx fails.
CreateFails(a) ==
  /\ NdisStep(a, "configured", "destroy") \/ NdisStep(a, "tapDevice", "destroy")
  /\ UNCHANGED <<globalList, deviceHandle, diagDeviceHandle, instanceId, refVars, fileVars,
                 readVars>>

\* CreateTapDevice: the device, whose name is made from NetCfgInstanceId whether
\* or not that was read.
RegisterDevice(a) ==
  /\ NdisStep(a, "configured", "tapDevice")
  /\ deviceHandle' = deviceHandle \cup {a}
  /\ UNCHANGED <<globalList, diagDeviceHandle, instanceId, refVars, fileVars, readVars>>

RegisterDiagDevice(a) ==
  /\ NdisStep(a, "tapDevice", "registered")
  /\ diagDeviceHandle' = IF DiagFiles = {} THEN diagDeviceHandle ELSE diagDeviceHandle \cup {a}
  /\ UNCHANGED <<globalList, deviceHandle, instanceId, refVars, fileVars, readVars>>

\* Mutant: the list has no reference of its own.
AddUnreferenced(a) ==
  /\ NdisStep(a, "registered", "created")
  /\ globalList' = globalList \cup {a}
  /\ UNCHANGED <<deviceHandle, diagDeviceHandle, instanceId, refVars, fileVars, readVars>>

AddToGlobalList(a) ==
  /\ NdisStep(a, "registered", "created")
  /\ globalList' = globalList \cup {a}
  /\ Reference(a)
  /\ UNCHANGED <<deviceHandle, diagDeviceHandle, instanceId, fileVars, readVars>>

\* Mutant: AdapterHalt leaves the context on the list.
HaltListed(a) ==
  /\ NdisStep(a, "created", "destroy")
  /\ Dereference(a)
  /\ UNCHANGED <<globalList, deviceHandle, diagDeviceHandle, instanceId, fileVars, readVars>>

\* AdapterHalt begins: tapAdapterContextRemoveFromGlobalList.
RemoveFromGlobalList(a) ==
  /\ NdisStep(a, "created", "destroy")
  /\ globalList' = globalList \ {a}
  /\ Dereference(a)
  /\ UNCHANGED <<deviceHandle, diagDeviceHandle, instanceId, fileVars, readVars>>

\* tapFlushIrpQueues completes the reads that are queued; those of calls that have
\* not come so far stay.  Then the devices are deregistered.
DestroyTapDevice(a) ==
  /\ NdisStep(a, "destroy", "release")
  /\ deviceHandle' = deviceHandle \ {a}
  /\ diagDeviceHandle' = diagDeviceHandle \ {a}
  /\ readIrps' = {r \in readIrps : readContext[r] # a \/ readPc[r] = "ready"}
  /\ UNCHANGED <<globalList, instanceId, refVars, fileVars, readPc, readFile, readContext>>

\* The reference of tapAdapterContextAllocate is dropped.
Release(a) ==
  /\ NdisStep(a, "release", "gone")
  /\ Dereference(a)
  /\ UNCHANGED <<globalList, deviceHandle, diagDeviceHandle, instanceId, fileVars, readVars>>

NdisCall(a) ==
  \/ CreateFails(a) \/ RegisterDevice(a) \/ RegisterDiagDevice(a) \/ AddToGlobalList(a)
  \/ DestroyTapDevice(a) \/ Release(a)

-----------------------------------------------------------------------------
(* TapDeviceCreate, TapDiagDeviceCreate, TapDeviceCleanup, TapDeviceClose, *)
(* TapDiagDeviceClose                                                      *)

\* The I/O manager dispatches an open of a registered device.
OpenRequest(f, a) ==
  /\ a \in (IF f \in TapFiles THEN deviceHandle ELSE diagDeviceHandle)
  /\ FileStep(f, "closed", "lookup")
  /\ device' = [device EXCEPT ![f] = a]
  /\ UNCHANGED <<ndisVars, refVars, tapFileObject, tapFileIsOpen, readVars>>

\* Mutant: the context is found without a reference being taken.
LookupUnreferenced(f) ==
  /\ device[f] \in globalList
  /\ FileStep(f, "lookup", "found")
  /\ UNCHANGED <<ndisVars, refVars, tapFileObject, tapFileIsOpen, device, readVars>>

\* tapAdapterContextFromDeviceObject finds the context.
Lookup(f) ==
  /\ device[f] \in globalList
  /\ FileStep(f, "lookup", "found")
  /\ Reference(device[f])
  /\ UNCHANGED <<ndisVars, tapFileObject, tapFileIsOpen, device, readVars>>

\* It does not find it, and the open is refused.
LookupFails(f) ==
  /\ device[f] \notin globalList
  /\ FileStep(f, "lookup", "notFound")
  /\ UNCHANGED <<ndisVars, refVars, tapFileObject, tapFileIsOpen, device, readVars>>

OpenNotFound(f) ==
  /\ FileStep(f, "notFound", "closed")
  /\ device' = [device EXCEPT ![f] = NoAdapter]
  /\ UNCHANGED <<ndisVars, refVars, tapFileObject, tapFileIsOpen, readVars>>

\* Mutant: exclusiveness is decided by the flag that is set last.
TakeExclusiveFlag(f) ==
  /\ f \in TapFiles
  /\ FileStep(f, "found", "reset")
  /\ device[f] \notin tapFileIsOpen
  /\ tapFileObject' = [tapFileObject EXCEPT ![device[f]] = f]
  /\ UNCHANGED <<ndisVars, refVars, tapFileIsOpen, device, readVars>>

\* InterlockedCompareExchangePointer on TapFileObject enforces exclusive access.
TakeExclusive(f) ==
  /\ f \in TapFiles
  /\ FileStep(f, "found", "reset")
  /\ tapFileObject[device[f]] = NoFile
  /\ tapFileObject' = [tapFileObject EXCEPT ![device[f]] = f]
  /\ UNCHANGED <<ndisVars, refVars, tapFileIsOpen, device, readVars>>

OpenRefused(f) ==
  /\ f \in TapFiles
  /\ FileStep(f, "found", "release")
  /\ tapFileObject[device[f]] # NoFile
  /\ UNCHANGED <<ndisVars, refVars, tapFileObject, tapFileIsOpen, device, readVars>>

\* The tunnel configuration is reset and the device is open.
OpenFinish(f) ==
  /\ f \in TapFiles
  /\ FileStep(f, "reset", "open")
  /\ tapFileIsOpen' = tapFileIsOpen \cup {device[f]}
  /\ UNCHANGED <<ndisVars, refVars, tapFileObject, device, readVars>>

DiagOpen(f) ==
  /\ f \in DiagFiles
  /\ FileStep(f, "found", "open")
  /\ UNCHANGED <<ndisVars, refVars, tapFileObject, tapFileIsOpen, device, readVars>>

\* The last handle is closed: the queued reads are completed.
Cleanup(f) ==
  /\ f \in TapFiles
  /\ FileStep(f, "open", "cleaned")
  /\ tapFileIsOpen' = tapFileIsOpen \ {device[f]}
  /\ readIrps' = {r \in readIrps : readContext[r] # device[f] \/ readPc[r] = "ready"}
  /\ UNCHANGED <<ndisVars, refVars, tapFileObject, device, readPc, readFile, readContext>>

\* The I/O manager closes a file once no IRP refers to it.
Close(f) ==
  /\ f \in TapFiles
  /\ \A r \in readIrps : readFile[r] # f
  /\ FileStep(f, "cleaned", "release")
  /\ tapFileObject' = [tapFileObject EXCEPT ![device[f]] = NoFile]
  /\ UNCHANGED <<ndisVars, refVars, tapFileIsOpen, device, readVars>>

DiagClose(f) ==
  /\ f \in DiagFiles
  /\ FileStep(f, "open", "release")
  /\ UNCHANGED <<ndisVars, refVars, tapFileObject, tapFileIsOpen, device, readVars>>

\* Mutant: the reference of the open is kept.
KeepFile(f) ==
  /\ FileStep(f, "release", "closed")
  /\ device' = [device EXCEPT ![f] = NoAdapter]
  /\ UNCHANGED <<ndisVars, refVars, tapFileObject, tapFileIsOpen, readVars>>

\* The reference taken by Lookup is dropped, after a refused open or a close.
ReleaseFile(f) ==
  /\ FileStep(f, "release", "closed")
  /\ Dereference(device[f])
  /\ device' = [device EXCEPT ![f] = NoAdapter]
  /\ UNCHANGED <<ndisVars, tapFileObject, tapFileIsOpen, readVars>>

FileCall(f) ==
  \/ Lookup(f) \/ LookupFails(f) \/ OpenNotFound(f) \/ TakeExclusive(f) \/ OpenRefused(f)
  \/ OpenFinish(f) \/ DiagOpen(f) \/ Cleanup(f) \/ Close(f) \/ DiagClose(f) \/ ReleaseFile(f)

-----------------------------------------------------------------------------
(* TapDeviceRead, which takes no reference of its own                      *)

\* The read finds the device ready (otherwise it is completed at once).
ReadBegin(r, f) ==
  /\ f \in TapFiles
  /\ fileState[f] = "open"
  /\ ndisPc[device[f]] \notin {"release", "gone"}
  /\ readPc[r] = "idle"
  /\ r \notin readIrps
  /\ readPc' = [readPc EXCEPT ![r] = "ready"]
  /\ readFile' = [readFile EXCEPT ![r] = f]
  /\ readContext' = [readContext EXCEPT ![r] = device[f]]
  /\ readIrps' = readIrps \cup {r}
  /\ UNCHANGED <<ndisVars, refVars, fileVars>>

\* The buffer cannot be mapped, and the read is completed at once.
ReadRefused(r) ==
  /\ readPc[r] = "ready"
  /\ readPc' = [readPc EXCEPT ![r] = "idle"]
  /\ readIrps' = readIrps \ {r}
  /\ UNCHANGED <<ndisVars, refVars, fileVars, readFile, readContext>>

\* The IRP is queued; the call goes on with tapProcessSendPacketQueue.
ReadQueued(r) ==
  /\ readPc[r] = "ready"
  /\ readPc' = [readPc EXCEPT ![r] = "process"]
  /\ UNCHANGED <<ndisVars, refVars, fileVars, readFile, readContext, readIrps>>

ReadEnd(r) ==
  /\ readPc[r] = "process"
  /\ readPc' = [readPc EXCEPT ![r] = "idle"]
  /\ UNCHANGED <<ndisVars, refVars, fileVars, readFile, readContext, readIrps>>

\* A queued IRP is answered by a frame, or cancelled.
ReadCompleted(r) ==
  /\ r \in readIrps
  /\ readPc[r] # "ready"
  /\ readIrps' = readIrps \ {r}
  /\ UNCHANGED <<ndisVars, refVars, fileVars, readPc, readFile, readContext>>

ReadCall(r) == ReadRefused(r) \/ ReadQueued(r) \/ ReadEnd(r)

-----------------------------------------------------------------------------
Init ==
  /\ ndisPc = [a \in Adapters |-> "none"]
  /\ context = [a \in Adapters |-> "none"]
  /\ refCount = [a \in Adapters |-> 0]
  /\ globalList = {}
  /\ deviceHandle = {}
  /\ diagDeviceHandle = {}
  /\ instanceId = {}
  /\ tapFileObject = [a \in Adapters |-> NoFile]
  /\ tapFileIsOpen = {}
  /\ fileState = [f \in Files |-> "closed"]
  /\ device = [f \in Files |-> NoAdapter]
  /\ readPc = [r \in Readers |-> "idle"]
  /\ readFile = [r \in Readers |-> NoFile]
  /\ readContext = [r \in Readers |-> NoAdapter]
  /\ readIrps = {}

Next ==
  \/ \E a \in Adapters : CreateBegin(a) \/ RemoveFromGlobalList(a) \/ NdisCall(a)
  \/ \E f \in Files : FileCall(f) \/ \E a \in Adapters : OpenRequest(f, a)
  \/ \E r \in Readers :
       ReadCall(r) \/ ReadCompleted(r) \/ \E f \in TapFiles : ReadBegin(r, f)

Spec == Init /\ [][Next]_vars

\* Calls go on; an application closes its handles in the end, which lets the I/O
\* manager clean up and close the file; and a read left behind is cancelled with
\* the thread that issued it.
Fairness ==
  /\ \A a \in Adapters : WF_vars(NdisCall(a))
  /\ \A f \in Files : WF_vars(FileCall(f))
  /\ \A r \in Readers : WF_vars(ReadCall(r)) /\ WF_vars(ReadCompleted(r))

FairSpec == Spec /\ Fairness

-----------------------------------------------------------------------------
(* Correctness                                                             *)

NdisLabels ==
  {"none", "configured", "tapDevice", "registered", "created", "destroy", "release", "gone"}
FileLabels ==
  {"closed", "lookup", "notFound", "found", "reset", "open", "cleaned", "release"}

\* The type of every variable.
TypeOK ==
  /\ ndisPc \in [Adapters -> NdisLabels]
  /\ context \in [Adapters -> {"none", "live", "freed"}]
  /\ refCount \in [Adapters -> Int]
  /\ globalList \subseteq Adapters
  /\ deviceHandle \subseteq Adapters
  /\ diagDeviceHandle \subseteq Adapters
  /\ instanceId \subseteq Adapters
  /\ tapFileObject \in [Adapters -> TapFiles \cup {NoFile}]
  /\ tapFileIsOpen \subseteq Adapters
  /\ fileState \in [Files -> FileLabels]
  /\ device \in [Files -> Adapters \cup {NoAdapter}]
  /\ \A f \in Files : fileState[f] # "closed" => device[f] \in Adapters
  /\ readPc \in [Readers -> {"idle", "ready", "process"}]
  /\ readFile \in [Readers -> TapFiles \cup {NoFile}]
  /\ readContext \in [Readers -> Adapters \cup {NoAdapter}]
  /\ readIrps \subseteq Readers
  /\ \A r \in readIrps : readFile[r] # NoFile

HoldsRef == {"found", "reset", "open", "cleaned", "release"}

\* Who owns a reference to a context: AdapterCreate until AdapterHalt (or a failed
\* AdapterCreate) ends, the global list, and every file from the lookup of its
\* open to the end of its close.
OwnersOf(a) ==
  {o \in {NdisRef} : ndisPc[a] \notin {"none", "gone"}}
  \cup {o \in {ListRef} : a \in globalList}
  \cup {f \in Files : fileState[f] \in HoldsRef /\ device[f] = a}

\* The reference count is exact while opens, closes and halts of several files and
\* adapters overlap, and the context is freed with the last reference.
RefCountExact ==
  \A a \in Adapters :
    /\ refCount[a] = Cardinality(OwnersOf(a))
    /\ context[a] = "live" <=> OwnersOf(a) # {}
    /\ context[a] = "none" <=> ndisPc[a] = "none"

\* Exclusive access: TapFileObject is the one file that is open, being opened or
\* not yet closed, however opens and closes race (the assertions of
\* TapDeviceClose); and TapFileIsOpen tells that it is ready for use.
ExclusiveOpen ==
  \A a \in Adapters, f \in TapFiles :
    /\ tapFileObject[a] = f <=> device[f] = a /\ fileState[f] \in {"reset", "open", "cleaned"}
    /\ device[f] = a /\ fileState[f] = "open" => a \in tapFileIsOpen
    /\ a \in tapFileIsOpen => tapFileObject[a] # NoFile /\ fileState[tapFileObject[a]] = "open"

\* A context on the list is live and its device registered: an open that finds it
\* can use it, and tapAdapterContextFree never meets a listed context.
ListedIsUsable ==
  \A a \in globalList : context[a] = "live" /\ a \in deviceHandle

\* A file is not closed while one of its reads is outstanding or has not yet queued
\* its IRP, so that the context such a read works on is live.
ReadsHoldFile ==
  \A r \in readIrps : /\ fileState[readFile[r]] \in {"open", "cleaned"}
                      /\ context[device[readFile[r]]] = "live"

Ownership ==
  INSTANCE TapOwnership
  WITH Contexts <- Adapters, Owners <- Files \cup {NdisRef, ListRef},
       life <- context, owners <- [a \in Adapters |-> OwnersOf(a)]

\* The reference count implements ownership: only a live context gets new owners,
\* and it is freed with the last one, once.
OwnershipRefinement == Ownership!OwnershipSpec

HasFile(a, state) == \E f \in TapFiles : device[f] = a /\ fileState[f] = state

HandleOf(a) ==
  CASE HasFile(a, "open") -> "open"
    [] HasFile(a, "cleaned") -> "cleaned"
    [] OTHER -> "closed"

Handle(a) ==
  INSTANCE TapHandle
  WITH Requests <- Readers, handle <- HandleOf(a),
       outstanding <- {r \in readIrps : readContext[r] = a}

\* However the opens and closes of several files race with each other and with a halt,
\* each device has one handle at a time: it is opened after the one before was
\* closed, reads are made on it while it is open, and it is closed after them.  This is what
\* the models of the send and the receive path take for granted.
HandleRefinement ==
  /\ \A a \in Adapters : Handle(a)!HandleInit
  /\ [][\A a \in Adapters : [Handle(a)!HandleNext]_(Handle(a)!handleVars)]_vars

\* A halted adapter's context is freed once the applications have closed it.
HaltedIsFreed == \A a \in Adapters : ndisPc[a] = "destroy" ~> context[a] = "freed"

\* "Insure that adapter exists" (TapDeviceCreate asserts it): the lookup finds the
\* context.  It need not, between the registration of the device and the listing of
\* its context, and between the end of the one and of the other.
OpenFindsAdapter == \A f \in Files : fileState[f] # "notFound"

\* "Subsequent device registration will fail if NetCfgInstanceId has not been
\* successfully read" (AdapterCreate).  It need not fail: the status is overwritten.
RegisteredWithInstanceId == deviceHandle \subseteq instanceId

\* "Flush IRP queues. Wait for pending I/O. Etc." (DestroyTapDevice): a read call
\* runs on a live context until it returns.
ReadsUseLiveContext ==
  \A r \in Readers : readPc[r] # "idle" => context[readContext[r]] = "live"
=============================================================================
