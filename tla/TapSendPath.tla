----------------------------- MODULE TapSendPath -----------------------------
(***************************************************************************)
(* The transmit side of the TAP-Windows adapter: the frames the host sends *)
(* (AdapterSendNetBufferLists), the packet queue and the flow control that *)
(* hold them, and the reads of the application (TapDeviceRead) that take   *)
(* them; with everything that may run at the same time: open, cleanup and  *)
(* close of the device, cancellation of reads, media and power changes,    *)
(* pause, restart and halt of the miniport.                                *)
(*                                                                         *)
(* Every thread is a program counter.  A step is one access to shared      *)
(* state that another thread can observe: an unlocked read, an unlocked    *)
(* write, or the body of one spin lock.                                    *)
(*                                                                         *)
(* A net buffer list (NBL) stands for the whole chain passed to one send   *)
(* call, a frame for one of its net buffers.  All frames have the same     *)
(* size, so that TotalBytes and TAP_BUFFER_SIZE are counted in frames.     *)
(***************************************************************************)
EXTENDS Naturals, Sequences, FiniteSets, SequencesExt

CONSTANTS
  Senders,       \* threads in which NDIS calls AdapterSendNetBufferLists
  Readers,       \* read IRPs, each with the thread that dispatches it
  App,           \* the thread that opens, cleans up and closes the device
  Halter,        \* the thread in which NDIS calls AdapterHalt
  Nbls,          \* chains of net buffer lists
  NbCount,       \* the number of net buffers of each chain
  TAP_BUFFER_SIZE,            \* the flow control threshold, in frames
  MediaStateAlwaysConnected,  \* the registry setting of that name
  Events,        \* which of the events AllEvents the environment may cause
  NoThread, NoNbl             \* "nobody" and "nothing"

ASSUME ThreadsAssumption ==
  /\ Senders \cap Readers = {}
  /\ {App, Halter} \cap (Senders \cup Readers) = {}
  /\ App # Halter
  /\ NoThread \notin Senders \cup Readers \cup {App, Halter}

ASSUME SendersFinite == IsFiniteSet(Senders)

AllEvents == {"cancel", "media", "power", "pause", "halt"}

ASSUME NblsAssumption ==
  /\ NbCount \in [Nbls -> Nat \ {0}]
  /\ NoNbl \notin Nbls

ASSUME SizesAssumption ==
  /\ TAP_BUFFER_SIZE \in Nat
  /\ MediaStateAlwaysConnected \in BOOLEAN
  /\ Events \subseteq AllEvents

VARIABLES
  adapterState,           \* Adapter->Locked.AdapterState
  tapDeviceCreated,       \* Adapter->TapDeviceCreated
  tapFileObject,          \* Adapter->TapFileObject # NULL
  tapFileIsOpen,          \* Adapter->TapFileIsOpen
  logicalMediaState,      \* Adapter->LogicalMediaState
  powerD0,                \* Adapter->CurrentPowerState = NdisDeviceStateD0
  sendPacketQueue,        \* Adapter->SendPacketQueue.Queue
  queueLock,              \* holder of Adapter->SendPacketQueue.QueueLock
  pendingReadIrpQueue,    \* Adapter->PendingReadIrpQueue
  flowControlList,        \* Adapter->FlowControlList
  flowControlHasPackets,  \* Adapter->FlowControlHasPackets
  owned,                  \* the NBLs NDIS has passed down and not got back
  pc,                     \* where each thread is
  nbl,                    \* the NBL each sender is working on
  nb,                     \* the net buffer of it that is transmitted next
  inHand,                 \* the <<IRP, frame>> a thread is about to complete
  completing              \* the NBLs a thread took off FlowControlList

adapterVars == <<adapterState, tapDeviceCreated, tapFileObject, tapFileIsOpen,
                 logicalMediaState, powerD0>>
queueVars == <<sendPacketQueue, queueLock, pendingReadIrpQueue, inHand>>
nblVars == <<flowControlList, flowControlHasPackets, owned, nbl, nb, completing>>
vars == <<adapterVars, queueVars, nblVars, pc>>

Threads == Senders \cup Readers \cup {App, Halter}
Frames == UNION {{n} \X (1 .. NbCount[n]) : n \in Nbls}

-----------------------------------------------------------------------------
(* Helpers                                                                 *)

Goto(t, label) == pc' = [pc EXCEPT ![t] = label]
Step(t, from, to) == pc[t] = from /\ Goto(t, to)

\* tapAdapterReadAndWriteReady: five reads, none of them under a lock.
ReadAndWriteReady ==
  /\ tapDeviceCreated
  /\ tapFileObject
  /\ tapFileIsOpen
  /\ logicalMediaState
  /\ powerD0

\* tapAdapterSendAndReceiveReady, but for ResetInProgress (see SendReject).
SendAndReceiveReady ==
  /\ logicalMediaState
  /\ powerD0
  /\ adapterState \notin {"pausing", "paused", "halted"}

\* SendPacketQueue.TotalBytes, in frames.
TotalBytes == Len(sendPacketQueue)

\* Where a thread goes when a procedure it called returns to it.
ReturnLabel(t) == IF t \in {App, Halter} THEN "assertPackets" ELSE "idle"

IrpOutstanding(r) ==
  \/ r \in ToSet(pendingReadIrpQueue)
  \/ \E t \in Threads : inHand[t] # <<>> /\ inHand[t][1] = r

-----------------------------------------------------------------------------
(* AdapterSendNetBufferLists                                               *)

\* tapSendNetBufferListsComplete of the whole chain the sender holds.
SendComplete(s) ==
  /\ owned' = owned \ {nbl[s]}
  /\ nbl' = [nbl EXCEPT ![s] = NoNbl]

\* NDIS passes a chain down (never once the miniport is halted).  While
\* TapFileObject is NULL it comes straight back, a "lying send" that changes
\* nothing.
SendBegin(s, n) ==
  /\ adapterState # "halted"
  /\ n \notin owned
  /\ tapFileObject
  /\ Step(s, "idle", "readyCheck")
  /\ owned' = owned \cup {n}
  /\ nbl' = [nbl EXCEPT ![s] = n]
  /\ UNCHANGED <<adapterVars, queueVars, flowControlList, flowControlHasPackets,
                 nb, completing>>

\* The adapter is not ready, a reset is in progress, or a length is invalid.
SendReject(s) ==
  /\ Step(s, "readyCheck", "idle")
  /\ SendComplete(s)
  /\ UNCHANGED <<adapterVars, queueVars, flowControlList, flowControlHasPackets,
                 nb, completing>>

SendAccept(s) ==
  /\ SendAndReceiveReady
  /\ Step(s, "readyCheck", "transmit")
  /\ nb' = [nb EXCEPT ![s] = 1]
  /\ UNCHANGED <<adapterVars, queueVars, flowControlList, flowControlHasPackets,
                 owned, nbl, completing>>

\* Mutant: the loop runs one net buffer too far.
NextNbTooFar(s) ==
  IF nb[s] <= NbCount[nbl[s]]
  THEN nb' = [nb EXCEPT ![s] = @ + 1] /\ Goto(s, "transmit")
  ELSE nb' = [nb EXCEPT ![s] = 0] /\ Goto(s, "flowCheck")

\* The loop over the net buffers of the chain.
NextNb(s) ==
  IF nb[s] < NbCount[nbl[s]]
  THEN nb' = [nb EXCEPT ![s] = @ + 1] /\ Goto(s, "transmit")
  ELSE nb' = [nb EXCEPT ![s] = 0] /\ Goto(s, "flowCheck")

\* tapAdapterTransmit does not queue the frame: no memory, a DHCP, ARP or
\* neighbour request answered by the driver itself, a protocol that point to
\* point mode does not carry, or the device is not ready for reads.
TransmitDrop(s) ==
  /\ pc[s] = "transmit"
  /\ NextNb(s)
  /\ UNCHANGED <<adapterVars, queueVars, flowControlList, flowControlHasPackets,
                 owned, nbl, completing>>

\* tapAdapterTransmit finds the device ready; nothing keeps it so.
TransmitReady(s) ==
  /\ ReadAndWriteReady
  /\ Step(s, "transmit", "insert")
  /\ UNCHANGED <<adapterVars, queueVars, nblVars>>

\* tapPacketQueueInsertTail
InsertTail(s) ==
  /\ pc[s] = "insert"
  /\ queueLock = NoThread
  /\ sendPacketQueue' = Append(sendPacketQueue, <<nbl[s], nb[s]>>)
  /\ NextNb(s)
  /\ UNCHANGED <<adapterVars, queueLock, pendingReadIrpQueue, inHand,
                 flowControlList, flowControlHasPackets, owned, nbl, completing>>

\* The unlocked read of TotalBytes after all frames are transmitted.
FlowComplete(s) ==
  /\ TotalBytes <= TAP_BUFFER_SIZE
  /\ Step(s, "flowCheck", "process")
  /\ SendComplete(s)
  /\ UNCHANGED <<adapterVars, queueVars, flowControlList, flowControlHasPackets,
                 nb, completing>>

FlowExceeded(s) ==
  /\ TotalBytes > TAP_BUFFER_SIZE
  /\ Step(s, "flowCheck", "defer")
  /\ UNCHANGED <<adapterVars, queueVars, nblVars>>

\* Mutant: a send call that parks its chain returns without processing the queue.
DeferAndReturn(s) ==
  /\ Step(s, "defer", "idle")
  /\ flowControlList' = flowControlList \cup {nbl[s]}
  /\ flowControlHasPackets' = TRUE
  /\ nbl' = [nbl EXCEPT ![s] = NoNbl]
  /\ UNCHANGED <<adapterVars, queueVars, owned, nb, completing>>

\* Under FlowControlLock: the chain is parked instead of completed.
Defer(s) ==
  /\ Step(s, "defer", "process")
  /\ flowControlList' = flowControlList \cup {nbl[s]}
  /\ flowControlHasPackets' = TRUE
  /\ nbl' = [nbl EXCEPT ![s] = NoNbl]
  /\ UNCHANGED <<adapterVars, queueVars, owned, nb, completing>>

Send(s) ==
  \/ SendReject(s) \/ SendAccept(s)
  \/ TransmitDrop(s) \/ TransmitReady(s) \/ InsertTail(s)
  \/ FlowComplete(s) \/ FlowExceeded(s) \/ Defer(s)

-----------------------------------------------------------------------------
(* tapProcessSendPacketQueue, called by senders and readers                *)

ProcessBegin(t) ==
  /\ queueLock = NoThread
  /\ Step(t, "process", "loop")
  /\ queueLock' = t
  /\ UNCHANGED <<adapterVars, sendPacketQueue, pendingReadIrpQueue, inHand, nblVars>>

\* Mutant: the IRP is peeked at and stays in its queue.
TakeNextPeek(t) ==
  /\ sendPacketQueue # <<>>
  /\ pendingReadIrpQueue # <<>>
  /\ Step(t, "loop", "deliver")
  /\ inHand' = [inHand EXCEPT ![t] = <<Head(pendingReadIrpQueue), Head(sendPacketQueue)>>]
  /\ sendPacketQueue' = Tail(sendPacketQueue)
  /\ UNCHANGED <<adapterVars, queueLock, pendingReadIrpQueue, nblVars>>

\* Mutant: QueueLock is released while the IRP is completed.
TakeNextUnlocked(t) ==
  /\ sendPacketQueue # <<>>
  /\ pendingReadIrpQueue # <<>>
  /\ Step(t, "loop", "deliver")
  /\ inHand' = [inHand EXCEPT ![t] = <<Head(pendingReadIrpQueue), Head(sendPacketQueue)>>]
  /\ sendPacketQueue' = Tail(sendPacketQueue)
  /\ pendingReadIrpQueue' = Tail(pendingReadIrpQueue)
  /\ queueLock' = NoThread
  /\ UNCHANGED <<adapterVars, nblVars>>

\* IoCsqRemoveNextIrp, then tapPacketRemoveHeadLocked, the queue lock held.
TakeNext(t) ==
  /\ sendPacketQueue # <<>>
  /\ pendingReadIrpQueue # <<>>
  /\ Step(t, "loop", "deliver")
  /\ inHand' = [inHand EXCEPT ![t] = <<Head(pendingReadIrpQueue), Head(sendPacketQueue)>>]
  /\ sendPacketQueue' = Tail(sendPacketQueue)
  /\ pendingReadIrpQueue' = Tail(pendingReadIrpQueue)
  /\ UNCHANGED <<adapterVars, queueLock, nblVars>>

\* The frame is copied to the IRP (or is lost, the IRP's buffer being too
\* small) and the IRP is completed, the queue lock still held.
CompletePendingReadIrp(t) ==
  /\ Step(t, "deliver", "loop")
  /\ inHand' = [inHand EXCEPT ![t] = <<>>]
  /\ UNCHANGED <<adapterVars, sendPacketQueue, queueLock, pendingReadIrpQueue, nblVars>>

\* Mutant: the parked NBLs are not looked at after the queue is processed.
ProcessEndOnly(t) ==
  /\ sendPacketQueue = <<>> \/ pendingReadIrpQueue = <<>>
  /\ Step(t, "loop", "idle")
  /\ queueLock' = NoThread
  /\ UNCHANGED <<adapterVars, sendPacketQueue, pendingReadIrpQueue, inHand, nblVars>>

ProcessEnd(t) ==
  /\ sendPacketQueue = <<>> \/ pendingReadIrpQueue = <<>>
  /\ Step(t, "loop", "checkHas")
  /\ queueLock' = NoThread
  /\ UNCHANGED <<adapterVars, sendPacketQueue, pendingReadIrpQueue, inHand, nblVars>>

\* tapCheckFlowControl: two unlocked reads, one after the other.
CheckHasPackets(t) ==
  /\ pc[t] = "checkHas"
  /\ Goto(t, IF flowControlHasPackets THEN "checkBytes" ELSE "idle")
  /\ UNCHANGED <<adapterVars, queueVars, nblVars>>

CheckTotalBytes(t) ==
  /\ pc[t] = "checkBytes"
  /\ Goto(t, IF TotalBytes < TAP_BUFFER_SIZE THEN "take" ELSE "idle")
  /\ UNCHANGED <<adapterVars, queueVars, nblVars>>

Process(t) ==
  \/ ProcessBegin(t) \/ TakeNext(t) \/ CompletePendingReadIrp(t) \/ ProcessEnd(t)
  \/ CheckHasPackets(t) \/ CheckTotalBytes(t)

-----------------------------------------------------------------------------
(* tapCompleteFlowControlPackets, called by all threads                    *)

\* Mutant: the list is not emptied under the lock.
TakeFlowControlListKept(t) ==
  /\ Step(t, "take", "complete")
  /\ completing' = [completing EXCEPT ![t] = flowControlList]
  /\ flowControlHasPackets' = FALSE
  /\ UNCHANGED <<adapterVars, queueVars, flowControlList, owned, nbl, nb>>

\* Mutant: one chain is taken off the list and the flag is reset all the same.
TakeFlowControlOne(t) ==
  /\ Step(t, "take", "complete")
  /\ \E some \in SUBSET flowControlList :
       /\ Cardinality(some) = IF flowControlList = {} THEN 0 ELSE 1
       /\ completing' = [completing EXCEPT ![t] = some]
       /\ flowControlList' = flowControlList \ some
  /\ flowControlHasPackets' = FALSE
  /\ UNCHANGED <<adapterVars, queueVars, owned, nbl, nb>>

TakeFlowControlList(t) ==
  /\ Step(t, "take", "complete")
  /\ completing' = [completing EXCEPT ![t] = flowControlList]
  /\ flowControlList' = {}
  /\ flowControlHasPackets' = FALSE
  /\ UNCHANGED <<adapterVars, queueVars, owned, nbl, nb>>

CompleteFlowControlPackets(t) ==
  /\ Step(t, "complete", ReturnLabel(t))
  /\ owned' = owned \ completing[t]
  /\ completing' = [completing EXCEPT ![t] = {}]
  /\ UNCHANGED <<adapterVars, queueVars, flowControlList, flowControlHasPackets, nbl, nb>>

-----------------------------------------------------------------------------
(* TapDeviceRead and cancellation of a pending read                        *)

\* The application issues a read on its open handle and the device is ready
\* for it; nothing keeps it so.  A read that is refused (STATUS_CANCELLED, or
\* a buffer that cannot be mapped) is completed at once and changes nothing.
ReadReady(r) ==
  /\ pc[App] = "open"
  /\ ~IrpOutstanding(r)
  /\ ReadAndWriteReady
  /\ Step(r, "idle", "insertIrp")
  /\ UNCHANGED <<adapterVars, queueVars, nblVars>>

\* Mutant: the read is left pending and the queue not processed.
InsertIrpOnly(r) ==
  /\ Step(r, "insertIrp", "idle")
  /\ pendingReadIrpQueue' = Append(pendingReadIrpQueue, r)
  /\ UNCHANGED <<adapterVars, sendPacketQueue, queueLock, inHand, nblVars>>

\* IoCsqInsertIrp
InsertIrp(r) ==
  /\ Step(r, "insertIrp", "process")
  /\ pendingReadIrpQueue' = Append(pendingReadIrpQueue, r)
  /\ UNCHANGED <<adapterVars, sendPacketQueue, queueLock, inHand, nblVars>>

\* The I/O manager cancels a queued IRP: tapIrpCsqRemoveIrp, then
\* tapIrpCsqCompleteCanceledIrp.
CancelIrp(r) ==
  /\ "cancel" \in Events
  /\ \E i \in DOMAIN pendingReadIrpQueue :
       /\ pendingReadIrpQueue[i] = r
       /\ pendingReadIrpQueue' = RemoveAt(pendingReadIrpQueue, i)
  /\ UNCHANGED <<adapterVars, sendPacketQueue, queueLock, inHand, nblVars, pc>>

-----------------------------------------------------------------------------
(* TapDeviceCreate, TapDeviceCleanup, TapDeviceClose                       *)

\* The compare-and-exchange of TapFileObject; a halted adapter is no longer
\* in the global list and cannot be opened.
Open ==
  /\ adapterState # "halted"
  /\ ~tapFileObject
  /\ Step(App, "closed", "opening")
  /\ tapFileObject' = TRUE
  /\ UNCHANGED <<adapterState, tapDeviceCreated, tapFileIsOpen, logicalMediaState,
                 powerD0, queueVars, nblVars>>

OpenFinish ==
  /\ Step(App, "opening", "open")
  /\ tapFileIsOpen' = TRUE
  /\ UNCHANGED <<adapterState, tapDeviceCreated, tapFileObject, logicalMediaState,
                 powerD0, queueVars, nblVars>>

\* The last handle is closed.  Calls on the handle may still be running.
CleanupBegin ==
  /\ Step(App, "open", "mediaOff")
  /\ tapFileIsOpen' = FALSE
  /\ UNCHANGED <<adapterState, tapDeviceCreated, tapFileObject, logicalMediaState,
                 powerD0, queueVars, nblVars>>

\* tapSetMediaConnectStatus(adapter, FALSE)
CleanupMedia ==
  /\ Step(App, "mediaOff", "flush")
  /\ logicalMediaState' = (logicalMediaState /\ MediaStateAlwaysConnected)
  /\ UNCHANGED <<adapterState, tapDeviceCreated, tapFileObject, tapFileIsOpen,
                 powerD0, queueVars, nblVars>>

\* Mutant: only the first frame is flushed.
FlushPacketsOne(t) ==
  /\ queueLock = NoThread
  /\ Step(t, "flush", "take")
  /\ sendPacketQueue' = IF sendPacketQueue = <<>> THEN <<>> ELSE Tail(sendPacketQueue)
  /\ UNCHANGED <<adapterVars, queueLock, pendingReadIrpQueue, inHand, nblVars>>

\* Mutant: the frames are flushed and the parked NBLs forgotten.
FlushPacketsOnly(t) ==
  /\ queueLock = NoThread
  /\ Step(t, "flush", "assertPackets")
  /\ sendPacketQueue' = <<>>
  /\ UNCHANGED <<adapterVars, queueLock, pendingReadIrpQueue, inHand, nblVars>>

\* Mutant: QueueLock is not released.
FlushPacketsLocked(t) ==
  /\ queueLock = NoThread
  /\ Step(t, "flush", "take")
  /\ sendPacketQueue' = <<>>
  /\ queueLock' = t
  /\ UNCHANGED <<adapterVars, pendingReadIrpQueue, inHand, nblVars>>

\* tapFlushSendPacketQueue, up to the release of the lock.
FlushPackets(t) ==
  /\ queueLock = NoThread
  /\ Step(t, "flush", "take")
  /\ sendPacketQueue' = <<>>
  /\ UNCHANGED <<adapterVars, queueLock, pendingReadIrpQueue, inHand, nblVars>>

\* ASSERT(SendPacketQueue.Count == 0): no effect in a free build.
AssertPackets(t) ==
  /\ Step(t, "assertPackets", "flushIrps")
  /\ UNCHANGED <<adapterVars, queueVars, nblVars>>

\* tapIrpCsqFlush: one IRP at a time, the lock released in between.
FlushIrp(t) ==
  /\ pc[t] = "flushIrps"
  /\ pendingReadIrpQueue # <<>>
  /\ pendingReadIrpQueue' = Tail(pendingReadIrpQueue)
  /\ UNCHANGED <<adapterVars, sendPacketQueue, queueLock, inHand, nblVars, pc>>

FlushIrpsDone(t) ==
  /\ pendingReadIrpQueue = <<>>
  /\ Step(t, "flushIrps", "assertIrps")
  /\ UNCHANGED <<adapterVars, queueVars, nblVars>>

\* ASSERT(PendingReadIrpQueue.Count == 0); the caller returns.
AssertIrps(t) ==
  /\ Step(t, "assertIrps", IF t = App THEN "cleaned" ELSE "halted")
  /\ UNCHANGED <<adapterVars, queueVars, nblVars>>

FlushAll(t) ==
  \/ FlushPackets(t) \/ AssertPackets(t) \/ FlushIrp(t) \/ FlushIrpsDone(t) \/ AssertIrps(t)

\* The I/O manager closes the file object once no IRP refers to it; the thread of
\* a read that is already completed may still be processing the queue.
Close ==
  /\ \A r \in Readers : pc[r] # "insertIrp" /\ ~IrpOutstanding(r)
  /\ Step(App, "cleaned", "closed")
  /\ tapFileObject' = FALSE
  /\ UNCHANGED <<adapterState, tapDeviceCreated, tapFileIsOpen, logicalMediaState,
                 powerD0, queueVars, nblVars>>

-----------------------------------------------------------------------------
(* What the miniport is told: media, power, pause, restart, halt           *)

\* TAP_WIN_IOCTL_SET_MEDIA_STATUS, on an open file; the call may still be running
\* when the file is cleaned up.
SetMedia ==
  /\ "media" \in Events
  /\ ~MediaStateAlwaysConnected
  /\ pc[App] \notin {"closed", "opening"}
  /\ logicalMediaState' = ~logicalMediaState
  /\ UNCHANGED <<adapterState, tapDeviceCreated, tapFileObject, tapFileIsOpen,
                 powerD0, queueVars, nblVars, pc>>

\* OID_PNP_SET_POWER
SetPower ==
  /\ "power" \in Events
  /\ adapterState # "halted"
  /\ powerD0' = ~powerD0
  /\ UNCHANGED <<adapterState, tapDeviceCreated, tapFileObject, tapFileIsOpen,
                 logicalMediaState, queueVars, nblVars, pc>>

\* AdapterPause and AdapterRestart: two locked assignments each.  The wait for
\* receive NBLs between those of AdapterPause is the business of the receive path.
NextAdapterState ==
  [running |-> "pausing", pausing |-> "paused", paused |-> "restarting",
   restarting |-> "running"]

PauseRestart ==
  /\ "pause" \in Events
  /\ adapterState # "halted"
  /\ adapterState' = NextAdapterState[adapterState]
  /\ UNCHANGED <<tapDeviceCreated, tapFileObject, tapFileIsOpen, logicalMediaState,
                 powerD0, queueVars, nblVars, pc>>

\* AdapterHalt: NDIS calls it on a paused miniport with no send call running.
Halt ==
  /\ "halt" \in Events
  /\ adapterState = "paused"
  /\ \A s \in Senders : pc[s] = "idle"
  /\ Step(Halter, "attached", "destroy")
  /\ adapterState' = "halted"
  /\ UNCHANGED <<tapDeviceCreated, tapFileObject, tapFileIsOpen, logicalMediaState,
                 powerD0, queueVars, nblVars>>

\* DestroyTapDevice, up to the flushes.
DestroyTapDevice ==
  /\ Step(Halter, "destroy", "flush")
  /\ tapDeviceCreated' = FALSE
  /\ UNCHANGED <<adapterState, tapFileObject, tapFileIsOpen, logicalMediaState,
                 powerD0, queueVars, nblVars>>

-----------------------------------------------------------------------------
Init ==
  /\ adapterState = IF "pause" \in Events THEN "paused" ELSE "running"
  /\ tapDeviceCreated = TRUE
  /\ tapFileObject = FALSE
  /\ tapFileIsOpen = FALSE
  /\ logicalMediaState = MediaStateAlwaysConnected
  /\ powerD0 = TRUE
  /\ sendPacketQueue = <<>>
  /\ queueLock = NoThread
  /\ pendingReadIrpQueue = <<>>
  /\ flowControlList = {}
  /\ flowControlHasPackets = FALSE
  /\ owned = {}
  /\ pc = [t \in Threads |-> IF t = App THEN "closed"
                             ELSE IF t = Halter THEN "attached" ELSE "idle"]
  /\ nbl = [s \in Senders |-> NoNbl]
  /\ nb = [s \in Senders |-> 0]
  /\ inHand = [t \in Threads |-> <<>>]
  /\ completing = [t \in Threads |-> {}]

\* The steps of a call once it has begun.
CallStep(t) ==
  \/ t \in Senders /\ Send(t)
  \/ t \in Readers /\ InsertIrp(t)
  \/ t \in Senders \cup Readers /\ Process(t)
  \/ TakeFlowControlList(t)
  \/ CompleteFlowControlPackets(t)
  \/ t \in {App, Halter} /\ FlushAll(t)
  \/ t = App /\ (OpenFinish \/ CleanupMedia)
  \/ t = Halter /\ DestroyTapDevice

\* What the environment does of its own accord.
Environment ==
  \/ \E s \in Senders, n \in Nbls : SendBegin(s, n)
  \/ \E r \in Readers : ReadReady(r) \/ CancelIrp(r)
  \/ Open \/ CleanupBegin \/ Close
  \/ SetMedia \/ SetPower \/ PauseRestart \/ Halt

Next == Environment \/ \E t \in Threads : CallStep(t)

Spec == Init /\ [][Next]_vars

\* A call that has begun goes on: its thread is scheduled, and a spin lock that
\* is released again and again (its holders never block) is acquired in the end.
Fairness ==
  /\ \A t \in Threads : WF_vars(CallStep(t))
  /\ \A s \in Senders : SF_vars(InsertTail(s))
  /\ \A t \in Senders \cup Readers : SF_vars(ProcessBegin(t))
  /\ \A t \in {App, Halter} : SF_vars(FlushPackets(t))

FairSpec == Spec /\ Fairness

\* An application that keeps reading, as OpenVPN does.
ReadingSpec == FairSpec /\ \A r \in Readers : WF_vars(ReadReady(r))

-----------------------------------------------------------------------------
(* Correctness                                                             *)

\* Where a send call still has its NBL.
HoldingLabels == {"readyCheck", "transmit", "insert", "flowCheck", "defer"}
SenderLabels == {"idle"} \cup HoldingLabels
ProcessLabels == {"process", "loop", "deliver", "checkHas", "checkBytes", "take", "complete"}
FlushLabels == {"flush", "take", "complete", "assertPackets", "flushIrps", "assertIrps"}
ReaderLabels == {"idle", "insertIrp"}
AppLabels == {"closed", "opening", "open", "mediaOff", "cleaned"}
HalterLabels == {"attached", "destroy", "halted"}
Labels ==
  SenderLabels \cup ReaderLabels \cup ProcessLabels \cup FlushLabels \cup AppLabels \cup HalterLabels

AdapterTypeOK ==
  /\ adapterState \in {"running", "pausing", "paused", "restarting", "halted"}
  /\ tapDeviceCreated \in BOOLEAN
  /\ tapFileObject \in BOOLEAN
  /\ tapFileIsOpen \in BOOLEAN
  /\ logicalMediaState \in BOOLEAN
  /\ powerD0 \in BOOLEAN

QueueTypeOK ==
  /\ sendPacketQueue \in Seq(Frames)
  /\ queueLock \in Senders \cup Readers \cup {NoThread}
  /\ pendingReadIrpQueue \in Seq(Readers)
  /\ inHand \in [Threads -> {<<>>} \cup (Readers \X Frames)]

NblTypeOK ==
  /\ flowControlList \subseteq Nbls
  /\ flowControlHasPackets \in BOOLEAN
  /\ owned \subseteq Nbls
  /\ nbl \in [Senders -> Nbls \cup {NoNbl}]
  /\ nb \in [Senders -> Nat]
  /\ completing \in [Threads -> SUBSET Nbls]
  /\ \A s \in Senders : pc[s] \in HoldingLabels => nbl[s] \in Nbls
  /\ \A s \in Senders : pc[s] \in {"transmit", "insert"} => nb[s] \in 1 .. NbCount[nbl[s]]

PcTypeOK ==
  /\ pc \in [Threads -> Labels]
  /\ \A s \in Senders : pc[s] \in SenderLabels \cup ProcessLabels
  /\ \A r \in Readers : pc[r] \in ReaderLabels \cup ProcessLabels
  /\ pc[App] \in AppLabels \cup FlushLabels
  /\ pc[Halter] \in HalterLabels \cup FlushLabels

\* The type of every variable: the program points of each kind of thread, the
\* contents of the two queues, and the net buffer index, which never runs past
\* the chain a sender is transmitting.
TypeOK == AdapterTypeOK /\ QueueTypeOK /\ NblTypeOK /\ PcTypeOK

Parked(n) == n \in flowControlList
WithSender(n) == \E s \in Senders : nbl[s] = n
BeingCompleted(n) == \E t \in Threads : n \in completing[t]

\* Every NBL the driver has got from NDIS is in exactly one place: with the send
\* call that brought it, on FlowControlList, or with the one thread that took it
\* off that list.  So none is lost and none is completed twice
\* (AdapterSendNetBufferLists, tapCompleteFlowControlPackets).
NblCustody ==
  /\ \A n \in Nbls : n \in owned <=> Parked(n) \/ WithSender(n) \/ BeingCompleted(n)
  /\ \A n \in Nbls : ~(Parked(n) /\ WithSender(n)) /\ ~(WithSender(n) /\ BeingCompleted(n))
  /\ \A n \in Nbls : ~(Parked(n) /\ BeingCompleted(n))
  /\ \A s1, s2 \in Senders : s1 # s2 /\ nbl[s1] = nbl[s2] => nbl[s1] = NoNbl
  /\ \A t1, t2 \in Threads : t1 # t2 => completing[t1] \cap completing[t2] = {}

\* A read IRP is queued at most once and never both queued and in the hands of a
\* thread that completes it, so that it is completed once (tapProcessSendPacketQueue,
\* tapIrpCsqFlush, cancellation).
IrpCustody ==
  /\ IsInjective(pendingReadIrpQueue)
  /\ \A t \in Threads : inHand[t] # <<>> => inHand[t][1] \notin ToSet(pendingReadIrpQueue)
  /\ \A t1, t2 \in Threads : t1 # t2 /\ inHand[t1] # <<>> /\ inHand[t2] # <<>>
       => inHand[t1][1] # inHand[t2][1]

\* What a thread at each point holds: the two uses of QueueLock, the NBL of a
\* send call, the IRP and frame taken out of their queues, the NBLs taken off
\* FlowControlList; and FlowControlHasPackets tells whether that list is empty.
HoldsInv ==
  /\ \A t \in Threads : queueLock = t <=> pc[t] \in {"loop", "deliver"}
  /\ \A t \in Threads : inHand[t] # <<>> <=> pc[t] = "deliver"
  /\ \A t \in Threads : completing[t] # {} => pc[t] = "complete"
  /\ \A s \in Senders : nbl[s] # NoNbl <=> pc[s] \in HoldingLabels
  /\ \A r \in Readers : pc[r] = "insertIrp" => ~IrpOutstanding(r)
  /\ flowControlHasPackets <=> flowControlList # {}

\* While a frame and a read IRP both wait, some call has yet to process the queue.
ServeInv ==
  sendPacketQueue # <<>> /\ pendingReadIrpQueue # <<>> =>
    \E t \in Senders \cup Readers :
      pc[t] \in {"transmit", "insert", "flowCheck", "defer", "process", "loop", "deliver"}

\* While NBLs are parked below the threshold, some thread has yet to look at them.
ReleaseInv ==
  flowControlList # {} /\ TotalBytes < TAP_BUFFER_SIZE =>
    \E t \in Threads :
      pc[t] \in {"process", "loop", "deliver", "checkHas", "checkBytes", "take"}

\* From AdapterHalt on no send call runs, so that what DestroyTapDevice flushed
\* out of the packet queue stays out.
HaltInv ==
  pc[Halter] # "attached" =>
    /\ adapterState = "halted"
    /\ \A s \in Senders : pc[s] = "idle"
    /\ pc[Halter] \in {"take", "complete", "assertPackets"} => sendPacketQueue = <<>>

\* The inductive invariant behind the safety properties below.
SendPathInv == HoldsInv /\ ServeInv /\ ReleaseInv /\ HaltInv

\* No call is running.
Quiescent ==
  /\ \A t \in Senders \cup Readers : pc[t] = "idle"
  /\ pc[App] \in {"closed", "opening", "open", "cleaned"}
  /\ pc[Halter] \in {"attached", "halted"}

\* No lost wakeup of a read: when no call is running, a frame and a read IRP are
\* not both waiting.  Sender and reader each queue their own and then look for
\* the other's (AdapterSendNetBufferLists, TapDeviceRead).
NoLostRead ==
  Quiescent => sendPacketQueue = <<>> \/ pendingReadIrpQueue = <<>>

\* No lost release of parked NBLs: when no call is running, NBLs are parked only
\* while the queue holds at least TAP_BUFFER_SIZE, although FlowControlHasPackets
\* and TotalBytes are read without their locks (tapCheckFlowControl).
NoLostRelease ==
  Quiescent /\ flowControlList # {} => TotalBytes >= TAP_BUFFER_SIZE

\* Closing the device gives every parked NBL back to NDIS, unless so many send
\* calls are caught in the middle that the frames they still queue fill the buffer
\* (64 calls at TAP_BUFFER_SIZE 4 MB and 64 KB frames): TapDeviceCleanup.
NblsReturnedAfterCleanup ==
  Quiescent /\ pc[App] \in {"cleaned", "closed"} /\ Cardinality(Senders) < TAP_BUFFER_SIZE
    => owned = {}

\* ASSERT(Adapter->SendPacketQueue.Count == 0) in DestroyTapDevice.
DestroyFlushedPackets == pc[Halter] = "assertPackets" => sendPacketQueue = <<>>

\* ASSERT(adapter->SendPacketQueue.Count == 0) in TapDeviceCleanup.  It can fail, as
\* CleanupFlushedIrps can: a call that was found ready before queues its frame now.
CleanupFlushedPackets == pc[App] = "assertPackets" => sendPacketQueue = <<>>

\* ASSERT(adapter->PendingReadIrpQueue.Count == 0) in TapDeviceCleanup.
CleanupFlushedIrps == pc[App] = "assertIrps" => pendingReadIrpQueue = <<>>

\* "The driver never claims ownership of any send NBL" (AdapterPause), so that a
\* paused miniport, with no send call running, holds none.
PausedOwnsNoSend ==
  adapterState = "paused" /\ (\A s \in Senders : pc[s] = "idle") => owned = {}

\* The send path is a FIFO tunnel between frames and reads.  The frame and the
\* IRP in the hands of the thread that holds the queue lock still count.
DeliveringThreads == {t \in Threads : inHand[t] # <<>>}
InHand == inHand[CHOOSE t \in DeliveringThreads : TRUE]
TunnelChan ==
  (IF DeliveringThreads = {} THEN <<>> ELSE <<InHand[2]>>) \o sendPacketQueue
TunnelWaiting ==
  (IF DeliveringThreads = {} THEN <<>> ELSE <<InHand[1]>>) \o pendingReadIrpQueue

Tunnel == INSTANCE TapTunnel WITH Reads <- Readers, chan <- TunnelChan, waiting <- TunnelWaiting

\* The send path implements the tunnel: the oldest frame answers the oldest read,
\* one frame per read, none skipped, duplicated or overtaken.
TunnelRefinement == Tunnel!TunnelSpec

\* And its progress: a frame and a read do not wait for each other for ever.
TunnelDelivers == Tunnel!TunnelFairness

\* A cleanup that has begun ends, whatever senders and readers do meanwhile.
CleanupEnds == pc[App] = "mediaOff" ~> pc[App] = "cleaned"

\* Once the host pauses its sends and the device stays ready for an application
\* that keeps reading, NDIS gets back every NBL.
ParkedNblsReturn ==
  <>[](ReadAndWriteReady /\ \A s \in Senders : pc[s] = "idle") => <>[](owned = {})
=============================================================================
