# A TLA+ model of the TAP-Windows driver

This directory models `tap-windows6`, an NDIS 6 miniport driver that looks like an
Ethernet adapter to Windows and like a character device to one application (usually
OpenVPN). A frame the host transmits on the adapter answers a read of the
application; a buffer the application writes is a frame the adapter receives.

The driver is a few thousand lines of C whose difficulty is not in any one function.
NDIS, the I/O manager and several applications call it on their own threads, most of
its state is read without a lock, and the order of small steps decides whether a
frame, a request or a wake-up is lost. That is what the modules model: the control of
each path at the grain at which another thread can see it.

Contents: 1 the system; 2 the modules; 3 the runs; 4 fairness; 5 the proofs; 6 where
code and its own statements disagree; 7 what is not modelled, and why.

## 1. The system

| component | state it keeps | operations | interacts with |
|---|---|---|---|
| **Send path** `txpath.c`, `mem.c` | `SendPacketQueue` with `QueueLock` and `TotalBytes`, `PendingReadIrpQueue` (a cancel-safe queue), `FlowControlList`, `FlowControlHasPackets`, `FlowControlLock` | `AdapterSendNetBufferLists`, `tapAdapterTransmit`, `tapProcessSendPacketQueue`, `tapCheckFlowControl`, `TapDeviceRead`, the flushes, read cancellation | device (cleanup flushes it), readiness checks, NDIS (owns the NBLs), the I/O manager (owns the IRPs) |
| **Receive path** `rxpath.c` | `ReceiveNblInFlightCount`, `ReceiveNblInFlightCountZeroEvent`, the NBLs at the host | `TapDeviceWrite`, `IndicateReceivePacket`, `AdapterReturnNetBufferLists`, `tapWaitForReceiveNblInFlightCountZeroEvent` | `AdapterPause` waits for it; writes keep the file open |
| **Adapter context** `adapter.c`, `adapter.h` | `RefCount`, `GlobalData.AdapterList` | `AdapterCreate`, `AdapterHalt`, reference and dereference, list lookup | every open holds a reference |
| **TAP device, diagnostic device** `device.c` | `DeviceHandle`, `DiagDeviceHandle`, `TapDeviceCreated`, `TapFileObject`, `TapFileIsOpen` | create, cleanup, close, IOCTLs, `CreateTapDevice`, `DestroyTapDevice` | all paths read its flags without a lock |
| **Media state** `device.c` | `LogicalMediaState`, `MediaStateAlwaysConnected` | `tapSetMediaConnectStatus` from both devices and from cleanup | readiness checks; indications to NDIS |
| **Miniport state** `adapter.c` | `Locked.AdapterState`, `ResetInProgress`, `CurrentPowerState` | create, halt, pause, restart, reset, shutdown, hang check, readiness checks | every path |
| **Tunnel and DHCP configuration** `device.c` | `m_tun`, `m_localIP`, `m_remoteNetwork`, `m_remoteNetmask`, header templates, `m_dhcp_*` | the `CONFIG_*` IOCTLs, `tapResetAdapterState`, `CheckIfDhcpAndTunMode` | read frame by frame by the send and write paths |
| **DHCP masquerade** `dhcp.c` | `m_dhcp_received_discover`, `m_dhcp_bad_requests` | `ProcessDHCP`, `SendDHCPMsg`, option building | send path calls it; it injects replies |
| **ARP and neighbour discovery** `txpath.c` | none | `ProcessARP`, `HandleIPv6NeighborDiscovery` | as above |
| **OID requests** `oidrequest.c` | `PacketFilter`, `MCList` and `ulMCListSize`, power state, statistics | `AdapterOidRequest`, `tapSetInformation`, `tapQueryInformation` | readiness checks; `TapDeviceWrite` judges frames by filter and list (`tapGetRawPacketFrameType`) |
| **Registry configuration** `adapter.c` | MTU, MAC, instance id, non-admin flag | `tapReadConfiguration` | `AdapterCreate` |
| **Driver entry** `tapdrvr.c` | `GlobalData` | `DriverEntry`, `TapDriverUnload` | global list and lock |
| **Debug log** `error.c` | `g_Debug`, a buffer of text | `MyDebugPrint`, `GetDebugLine` | none: `MyDebugInit` and `MyDebugFree` have no caller, so that the log is never enabled |
| **MAC addresses** `macinfo.c` | none | `ParseMAC`, `GenerateRandomMac`, `GenerateRelatedMAC` | configuration |
| **Installer library** `msm/installation.c` | the list of adapters it disabled | `InstallOrUpdate`, `Uninstall` and their steps | Windows device installation, the driver store |
| **MSI glue** `msm/msi.c` | three values of a registry key | `MsiEvaluate`, `MsiProcess` | Windows Installer calls it; it calls the library |
| **Scripts** `buildtap.py`, `installer/`, `sign/` | none | build, package, sign | none |

How they interact. NDIS calls `AdapterSendNetBufferLists` on any number of threads; each
copies its frames into `SendPacketQueue`, gives the NBL chain back or parks it on
`FlowControlList`, and then tries to match frames with the reads that wait in
`PendingReadIrpQueue`. The application's `TapDeviceRead` queues its IRP and tries the
same. The application's `TapDeviceWrite` wraps its buffer in an NBL and indicates it; the
IRP stays pending until the host returns the NBL. `AdapterPause` waits for those NBLs.
Opening the device finds the adapter context on a global list and takes a reference;
closing drops it; `AdapterHalt` takes the context off the list, flushes the queues,
deregisters the devices and drops its own reference.

What is hard, and the property that makes each part correct:

- *send path*: a frame and a read must not both be left waiting, whichever comes first;
  NBLs parked behind a full queue must be released whoever drains it; frames must reach
  reads in order; no NBL and no IRP may be completed twice or lost; cleanup must end
  and flush everything;
- *receive path*: the in-flight count must be exact and a pause must be woken; a write
  is completed once; nothing is indicated to a paused miniport;
- *context*: the reference count is exact under races of opens, closes and halts; one
  file at a time has the device; nothing runs on a freed context;
- *media state*: the host and the driver agree on it;
- *configuration*: a frame is judged by one configuration, not by half of two;
- *DHCP*: a client that asks gets its address; replies fit their buffer;
- *writes and OIDs*: a frame is judged by the settings of one instant, not by half of two; what is
  allocated for it is freed on every path, and the host gets all of it; a query that is repeated with
  the length asked for succeeds;
- *installer*: adapters that were disabled are enabled again on every path; an update reaches all of them;
  a package is skipped only if what is there is no older.

`PROJECT.json` lists the hazards line by line.

## 2. The modules

| module | models | uses |
|---|---|---|
| `TapTunnel` | abstract: a FIFO between frames and reads | |
| `TapSendPath` | the send path, reads, cleanup, halt and what changes the readiness of the adapter | implements `TapTunnel` |
| `TapHandle` | abstract: the life of the one handle of a device, and of the requests made on it | |
| `TapLoan` | abstract: the buffers of writes, lent to the host | `TapHandle` |
| `TapReceivePath` | writes, injected frames, returned NBLs, pause and restart, and the file as writes see it | implements `TapLoan` |
| `TapOwnership` | abstract: what a reference count promises | |
| `TapLifecycle` | create and halt, the global list, opens and closes of both devices, reads as users of the context | implements `TapOwnership` and, for each device, `TapHandle` |
| `TapFilter` | the packet filter and the multicast list, as OID requests set them and writes read them; the NBL of a written frame | |
| `TapOid` | the lengths of the answers to OID queries, as operators | |
| `TapMedia` | `tapSetMediaConnectStatus` and its callers | |
| `TapConfig` | the configuration IOCTLs, the resets of open and cleanup, the answers to ARP | |
| `TapDhcp` | the DHCP masquerade and a DHCP client, while the device is configured | extends and implements `TapConfig` |
| `MsmInstall` | the installer library and the MSI custom actions, with Windows' failures | |
| `*_proofs` | the theorems of each (that of `TapOid` is in `TapFilter_proofs`) | `TLAPS` |
| `MC*` | symmetry sets, chain sizes and inputs of the IOCTLs for the runs | |

Every thread is a value of `pc` (or `ndisPc`, `fileState`, `readPc` in `TapLifecycle`),
and each label is a point in the C function at which other threads may run. A step
is one access to shared state that they can observe: an unlocked read, an unlocked
write, an interlocked instruction, or the body of one lock.

**`TapSendPath`.** A chain of NBLs passed to one send call is an element of `Nbls`, a
frame is one of its net buffers, and all frames have one size, so that `TotalBytes` is
the length of the queue and `TAP_BUFFER_SIZE` is counted in frames. `SendBegin`,
`SendReject`, `SendAccept` are the checks at the head of `AdapterSendNetBufferLists`;
`TransmitDrop`, `TransmitReady`, `InsertTail` are `tapAdapterTransmit`, in which the
readiness check and the insertion are two steps, as in the code; `FlowComplete`, `Defer`
decide between completing and parking. `ProcessBegin`, `TakeNext`,
`CompletePendingReadIrp`, `ProcessEnd` are `tapProcessSendPacketQueue`, which keeps
`QueueLock` while it completes an IRP. `CheckHasPackets`, `CheckTotalBytes`,
`TakeFlowControlList`, `CompleteFlowControlPackets` are `tapCheckFlowControl`, whose two
tests are unlocked. `CleanupBegin` to `AssertIrps` are `TapDeviceCleanup`. The
frames the driver drops or answers by itself (ARP, DHCP, filters) are the
nondeterministic `TransmitDrop`.

**`TapReceivePath`.** `Accept`, `CountNbl`, `Indicate` are the three steps of
`TapSharedSendPacket` and of `IndicateReceivePacket`; `CompleteIrp`, `Decrement`,
`SetEvent`, `FreeNbl` are `tapCompleteIrpAndFreeReceiveNetBufferList`, in the order of the
code; `Bias`, `ResetEvent`, `Unbias`, `WaitDone` are the wait of `AdapterPause`, whose
bias of one NBL makes the reset of the event safe. `owed` is a history variable: the NBLs the
host had when the pause began.

**`TapFilter`** is what happens to a frame before and after `TapReceivePath` counts it, at the grain of single
reads. `TestTap` to `TestType` are the judgement in `TapDeviceWrite`: `m_tun` is read twice, the filter up to three
times, the multicast list entry by entry: for each one the size is read again (`TestSize`) and the address is
compared in the two halves of `ETH_COMPARE_NETWORK_ADDRESSES_EQ`. `tapSetMulticastList` zeroes the array, copies the new
list (`NdisZeroMemory`, `NdisMoveMemory`: by halves, in any order) and then sets the size; no lock keeps a write out.
`Build` to `AllocateNbl` are `TapSharedSendPacket`: the test for overflow, the copy of a short frame to a
buffer of its own, the MDL of a header put before the frame, with each allocation failing or not;
`ReturnNbl` frees what the flag of the NBL says. Histories: `seen` collects what the settings would
have made of the frame at each instant of the call (`Verdict`, the reference definition); `disturbed` says that `m_tun` or the
promiscuous bit changed meanwhile, or that the list was being rewritten while a multicast frame was judged; `inForce` is
the list of the latest request that is complete.

**`TapOid`.** `Reply` is `tapQueryInformation` without the values: which length the answer has, which status and
`BytesNeeded`. The frame counts answer a short buffer with a ULONG and report 8 bytes as needed when they fit; structures
check against their declared size (`TooShortForStructure`) and answer with their first revision.

**`MsmInstall`.** The machine is the adapters present and enabled, the package each was set up with, the driver
store, whether the driver is loaded, and the registry. `MsiEvaluate` decides; `OpenDevices`, `DisableOurAdapters`,
`RemoveDriver`, `InstallDriver`, `SetupCopyOEMInf`, `UpdateDriverForPlugAndPlayDevices`, `EnableOurAdapters` and
`WriteRegKeys` are the phases of an installation, each loop one adapter, package or hardware id at a time, in any order; `RemoveOurAdapters`,
`RemoveDriver` and `DeleteKey` those of an uninstallation. Every call of Windows may fail, with the consequence
that the code gives it (often none). A session may be killed at any step; meanwhile other programs add adapters.
Histories: `before` is what was enabled at the start, `enableFailed` what Windows would not enable again, `flawless`
that no call failed, `astray` that registry and driver store may have parted, because a session was killed, failed, or succeeded
without noticing a failure (of `RegDeleteKeyEx`, or of `PathCombine` after the old packages were removed) since the last one that
set both.

**`TapLifecycle`.** A context is `none`, `live` or `freed`. `AdapterCreate` is the path
`none` to `created` (with `CreateFails` at its two failing registrations), `AdapterHalt`
the path `created` to `gone`. A file goes through `lookup`, `found`, `reset`, `open`,
`cleaned`, `release`; a section under `GlobalData.Lock` is a step. Read calls are here
only as users of the context pointer that they take from `FsContext`.

**`TapMedia`.** The five steps of `tapSetMediaConnectStatus`. States are the byte that a
`BOOLEAN` is, made of the ULONG of the IOCTL by a cast (`ToBoolean`): 256 is 0, 2 is
2. `plain` is a history variable: calls have not overlapped so far and passed only 0 and 1.

**`TapConfig`.** Each IOCTL, and `tapResetAdapterState`, is a sequence of numbered assignments
(`TunAssign`, `DhcpAssign`, `OptAssign`, `ResetAssign`) to the record `cfg` of the context's fields; a caller
makes one at a time, with others in between, and `CONFIG_TUN` and `CONFIG_DHCP_MASQ` go on with the five
steps of `CheckIfDhcpAndTunMode` (`CheckTun`, `CheckDhcp`, `CompareSubnet`, `CopyMac`, `ClearArp`). No lock protects any of it. A network and its mask stand for the set
of addresses they enclose. `ArpReply` is what `ProcessARP` answers, called for the masquerade and then for
the tunnel as in `tapAdapterTransmit`. `session` is a history variable: how often each mode was configured in this
open, and whether the cleanup overtook an IOCTL.

**`TapDhcp`** adds the send path's handling of DHCP messages: `ProcessDHCP` decides (by the address, the note of the discover and
the count, each read in a step), `SendDHCPMsg` answers
(reading the configuration again), `RememberDiscover`, `RememberRequest` and `CountBad` note what the next message will be judged
by, and the increment of the count is a read and a write. `SendNothing` is a reply that is lost, for want of memory or
because the miniport is paused. The client is the environment: it discovers, requests, renews by broadcast or to the MAC address it
learned, times out, restarts with or without its lease. It sends its next message as soon as it has an answer, on
another thread, which is how a message overtakes the notes of the one before.

## 3. The runs

| run | instance | shows |
|---|---|---|
| `send_flow` | 2 senders, 2 chains of one frame, 1 read, threshold 1 | `TypeOK`, `NblCustody`, `NoLostRead`, `NoLostRelease` |
| `send_events` | 1 sender, 1 chain, 2 reads; cancel, media, power, pause, halt | `IrpCustody`, `DestroyFlushedPackets`, `TunnelRefinement` |
| `send_live` | 1 sender, a chain of two frames, 1 read, threshold 2, media changes, fair | `CleanupEnds`, `TunnelDelivers`, `ParkedNblsReturn`, `NblsReturnedAfterCleanup` |
| `rx` | 1 write, 1 injected frame, 2 returning threads, 2 NBLs, fair | `InFlightCount`, `PauseWoken`, `WriteCustody`, `PauseDrainsUnlessRaced`, `LoanRefinement`, `PauseEnds`, `WritesComplete` |
| `life` | 1 adapter, 2 TAP files, 1 diagnostic file, 2 reads, fair | `RefCountExact`, `ExclusiveOpen`, `ListedIsUsable`, `OwnershipRefinement`, `HandleRefinement`, `HaltedIsFreed` |
| `media` | 3 callers, the ULONGs 0, 1, 2, 256, both settings | `AgreesWhenPlain`, `AlwaysConnected` |
| `config` | 3 callers, 4 IOCTLs; a peer that is the server, a subnet without it, a bad network; 2 leases | `PublishedWhole`, `OpenStartsPlain`, `PeersReachable` |
| `dhcp` | 1 caller, 2 IOCTLs, 2 handlers, threshold 3, any number of messages and reopens, fair | `TypeOK`, `ClientBound`, `ConfigRefinement` |
| `filter` | 1 write, 5 frames, 3 filters, 3 lists (one too long), lists of 2, a ULONG up to 100 | `SearchInArray`, `VerdictJustified`, `NothingLeaks`, `IndicatedWhole`; and `RetrySucceeds` of `TapOid`, as an `ASSUME`, for buffers of 0 to 25 bytes |
| `install` | 2 adapters of ours, one of each hardware id, 1 foreign, 2 builds of one version | `TypeOK`, `AdaptersAsBefore`, `UpToDate`, `SkipOnlyIfThere` |
| `send_v_CleanupFlushedIrps`, `rx_v_PausedHasNoneOut` | as small as the case allows | each finds its one property violated: section 6 |

Why the bounds are enough to be interesting. The races of the send path are between
one sender and one reader, or two senders; a third adds no new pair. Threshold 1
makes the first frame exceed it, so that parking happens all the time; at threshold 2
a chain of two exceeds it together with a frame that an earlier call left, and there is room for the
straggler that `NblsReturnedAfterCleanup` excludes from its promise. Order needs two frames
(`send_flow`) or two reads (`send_events`) in the queues at once. In the receive path two returning
threads race for the last decrement and a list of two NBLs is returned at once. In the life
cycle two files race for exclusive access while the adapter is halted, and a third (diagnostic)
holds a reference that does not exclude the others. In `config` two IOCTLs race while a third thread closes
and reopens the device, and four IOCTLs are two sessions with both modes or one session with a mode
configured again. In `dhcp` two messages overlap, three bad requests reach the threshold, and two IOCTLs
are a configuration and a change of it, of its options, or the tunnel's beside it. In `filter` one write
races the OID requests (writes share nothing but what they read, and the proofs speak of any number); the frames are one
too short in either mode, one too short as an IP packet only, one that a header brings to the least length exactly, one that
is left with the least length when its tag is removed, and one that a header would push over the largest ULONG; the lists hold an address in the first place, in the second, and one that
shares a half with another. In `install` the two adapters are the two hardware ids `InstallDriver` visits, the foreign one must be left alone, and of two
builds of one version only the build time tells which is newer. All state spaces are
explored completely. The proofs of section 5 lift the safety properties to any numbers.

`MaxCalls` bounds the IOCTLs of a behaviour (module `TapConfig`), and `session` counts to two. `ULONG_MAX` and `TAP_MAX_MCAST_LIST` are
small in the runs and any number in the proofs. No other
counter needs a bound: the queues hold at most the frames and reads that exist, an element of `Nbls` or `Readers`
is reused only when it has come back, and the count of bad requests is not told apart above
its threshold, so that runs are unbounded in length and finite in states.

Some invariants are proved and in no run, because they follow from what the runs check or add only the types of
variables to it: `TypeOK` of `TapReceivePath` (its claim that the count is not negative is part of `InFlightCount`), of
`TapLifecycle`, of `TapMedia` and of `TapFilter` (its claim of substance is `SearchInArray`); `ConfigTypeOK`, which is part of `TypeOK` in `dhcp`; `LentBuffersHeld`, a consequence of `LoanRefinement`;
`ReadsHoldFile`, of `HandleRefinement` and `RefCountExact`; `OffersWhole`, of `PublishedWhole` and `ConfigRefinement`.

Deadlock is checked in all passing runs but `send_events` and `life`, where the system really stops: after
`AdapterHalt` nothing need ever happen again.

Symmetry is used only in runs without liveness properties.

## 4. Fairness

*Send path* (`FairSpec`): weak fairness of every call in progress, because a thread that
has entered the driver is scheduled; strong fairness of taking `QueueLock`, because
spin locks are held for short sections that never block, so that a waiter that finds
the lock free again and again gets it. Nothing makes the host send, the application
open or cleanup begin. `ReadingSpec` adds weak fairness of `ReadReady`: the application
keeps issuing reads while the device is ready, as OpenVPN does; without it
`ParkedNblsReturn` would be false, since the queue then never drains.

*Receive path*: weak fairness of the calls in progress and of the pause; strong fairness
of `HostReturn` for each NBL, the NDIS contract that protocol drivers return what they were given
(strong, since the returning thread may be busy with other NBLs again and again); weak
fairness of `Close`, the I/O manager's own duty once no IRP refers to the file.

*Life cycle*: weak fairness of calls in progress and of the files' steps, which include
`Cleanup` and `DiagClose`: an application closes its handles in the end, at the latest when it
exits. `AdapterHalt` itself is not fair: `HaltedIsFreed` speaks of adapters that are halted.

*DHCP*: weak fairness of the handlers and of the client's taking of answers and time-outs; strong fairness of sending for
a client that can send (its thread may be one of those still in a handler), which broadcasts its
renewals in the end; strong fairness of each type of reply, so that memory is not short, nor the miniport paused,
at every reply of a type. Nothing makes the application configure, open or close: `ClientBound` speaks
of behaviours in which the device is at last configured and left alone.

## 5. The proofs

The theorems hold for any values of the constants that satisfy the modules' `ASSUME`s:
the kinds of threads are disjoint and "nobody" is none of them; every chain has at least
one net buffer; `Nbls` of the receive path, and the files, are finite sets (so that they
can be counted); the values given to the media IOCTL are natural numbers; 0.0.0.0 is not among the addresses that
configurations use; senders are finitely many; the sizes of structures are positive, and their declared size covers their
first revision (the code's `C_ASSERT`). Every safety, action and refinement property that a run checks is proved; the liveness
properties are not.

**`TapSendPath_proofs`.** `TypeCorrect` first. Then four invariants, each inductive relative
to the ones before: `HoldsInv` (what a thread at each label holds: the lock, an IRP and a frame,
parked NBLs), `ServeInv` (while a frame and a read both wait, some call has yet to process the
queue), `ReleaseInv` (while NBLs are parked below the threshold, some thread has yet to
look), `HaltInv` (from `AdapterHalt` on no send call runs). The properties follow: with no call
running, `ServeInv` is `NoLostRead` and `ReleaseInv` is `NoLostRelease`. They are not inductive as they
stand, because between the queueing of a frame and the processing of the queue the promise is held
only by the thread that will do it. `NblCustody` and `IrpCustody` use `HoldsInv`
and lemmas on what the operations of a queue do to its elements (`RemoveAtProperties`, `QueueSets`,
`QueueInjective`). `DestroyFlushesPackets` is the assertion of `DestroyTapDevice` that holds. `ReturnedAfterCleanup` counts: from
the flush of a cleanup to the next open the file is not open, so that no further send is found ready, and the frames
queued plus the senders about to queue one are at most the senders (`CleanupInv`); below the threshold `ReleaseInv` leaves
nothing parked. The conjunction of the first four is `SendPathInv`.

`TunnelImplemented` is the refinement: the frame and the IRP in the hands of the thread that holds `QueueLock`
(`OneDeliverer`: there is one such thread at most) are put in front of the two queues. Then `TakeNext` is a stutter,
`CompletePendingReadIrp` the delivery, a cancelled or flushed IRP a withdrawal further back (`FrontRemoveAt`), and a flush of the
packet queue, which takes the lock, finds nobody with a frame in hand, so that it empties the whole channel.
`Read` needs the part of `HoldsInv` that a read that is about to be queued is nowhere else.

**`TapReceivePath_proofs`.** `HoldersInv` (every NBL is with the one thread that its state names) gives
`InFlightCount` (the count is the cardinality of the NBLs in flight plus the bias), and this gives
`TypeOK`'s claim that the count is never negative. `PauseWoken` needs in addition that
the bias keeps everybody from setting the event while it is reset: until the `Unbias` the count is positive.
`WriteCustody` follows the IRP from its call to its NBL.

`DrainsUnlessRaced` says what the pause is worth. Two overtakings defeat it: a call that
passed its readiness check counts its NBL after the pause found the count at zero (`LateCount`), and a thread that
took the count to zero earlier sets the event between the pause's reset and its wait (`StaleSignal`). A behaviour in
which neither ever happens leaves a paused miniport with no NBL out. `DrainInv` is what the pause relies on
then: while it waits with the event reset, a thread about to set the event means the count is zero, and from the
moment the event is set the count stays zero. It is inductive only where neither overtaking occurs in the step, so that the
theorem carries both as a hypothesis on the whole behaviour; TLC finds `PausedHasNoneOut` violated when either is left out.

`LoanImplemented` is the refinement of `TapLoan`: the handle is the file, the outstanding requests are the pending writes, and an
NBL is lent while the host has it or has given it back to a thread that has not yet completed its IRP. `Indicate` lends,
`CompleteIrp` gives back; the counting, the event and the pause are stutters, which is to say that nothing of the
pause takes a buffer from the host. It needs `WriteCustody` (one NBL per write) and that a file with a write outstanding is not
closed (`PendingHoldsFile`). `LentBuffersAreHeld` follows from the same two.

**`TapLifecycle_proofs`.** `CountInv` ties the program points of create and halt to the list and the
owners; with it every step changes the set of owners of at most one context by at most one
element, so that the count equals the cardinality (`RefCountCorrect`) and the module implements `TapOwnership`
(`OwnershipImplemented`: initial states map to initial states, and by `StepsOfOwnership` every step
to an allocation, a share, a drop or a stutter). `ExclusiveCorrect` and
`ReadsHoldFileCorrect` each have an invariant of their own. `HandleImplemented` shows that each device has the life of one
handle (`TapHandle`), whatever files race for it: the handle is open or cleaned up if some file is, which
`HandleIsFile` makes a function of `TapFileObject`, by `ExclusiveOpen`; a read takes its file's context (`ReadsOpenCorrect`),
so that no request is outstanding when the next open gets the device.

**`TapMedia_proofs`.** `AlwaysInv` (no call of an always connected adapter reaches the assignment) and
`PlainInv` (one call at a time, whose indication under way matches the state).

**`TapConfig_proofs`.** `ControlInv` says which calls run together: a reset is alone during an open, and during a
cleanup that overtook nothing. `DataInv` strengthens `PublishedWhole` by what each
call in progress can rely on: a reset on what it has cleared so far (`ResetInv`), an IOCTL on what it has written so far,
whatever other IOCTLs write on top of it (`IoctlInv`; `NothingLost` is the lemma behind it: no IOCTL sets an
address or a MAC address back to nothing), and an unconfigured open on a plain configuration (`FreshInv`). `WholePublished` and `OpensPlain`
follow. The step is proved assignment by assignment (`TunEffect`, `DhcpEffect`, `ResetEffect`, `OtherEffects`). `PeersReached` needs
what the two calls of `CheckIfDhcpAndTunMode` promise each other, `ReachInv`: a mode configured once has one
call, which is where its count says (`OnceInv`); a call between the comparison and its two writes acts on what is
still the case (`CompareInv`); and while both modes are on, the server is answered for with the peer's MAC address, or
a call that will see to it has yet to compare (`ServerInv`).

**`TapDhcp_proofs`.** `TalkNotes` is the one fact about the conversation: a step of it leaves the configuration as it is but for
the two notes `received_discover` and `bad_requests`. So with the notes blanked out (`Settings`) it is a stutter of `TapConfig`, and a step of an
IOCTL is the same step there (`SameAssigns`, `SameCalls`, since no assignment reads a note): `ConfigImplemented`. The theorems of `TapConfig` then hold in
the middle of conversations (`WholeWhileTalking`, `OpensPlainWhileTalking`, `PeersReachedWhileTalking`), without another
induction. `OffersAreWhole` combines the first with `SendDHCPMsg`: it does not matter that the address is read after the decision, because
whatever is read while the masquerade is on is whole. `RoomForOptions` computes the reply's options for every length: it
overflows exactly from 235 bytes on, a refusal never.

**`TapFilter_proofs`.** `TypeCorrect` has the one claim about types that is not obvious, `SearchInArray` (`SearchCorrect`): `entry` runs to the size
read last, which never exceeds the array, so that an entry that passed the test stays within the array whatever the size is by the time it is read. `LeakFree` and `FrameWhole` tie what is held, and
what the NBL says, to the point of the call and to `stripped` and `prefix`. `VerdictCorrect` says of every point of an
undisturbed judgement what it knows: which tests some settings in `seen` satisfy, and, for a multicast frame, whose list no request
touches meanwhile, that the entries passed are not its address. `disturbed` is exactly what the proof needs:
without it a frame can be judged by two settings at once.

It also holds `RetryOK` (of `TapOid`), by the three kinds of OIDs.

**`MsmInstall_proofs`.** `AdaptersRestored` by `AdaptersKept`: until the loop that enables comes to it, an adapter that was enabled is
enabled or on the list; nothing else is on the list. `SkipCorrect` by `RegistryInv`: unless `astray`, what the
registry says was written in full for a package that is in the driver store. `UpdateReaches` by
`Updated`: in a flawless session the adapters of the hardware ids visited have the new package, and the list is not
empty if an adapter was enabled.

Only model-checked: the liveness properties `CleanupEnds`, `TunnelDelivers`, `ParkedNblsReturn`, `PauseEnds`, `WritesComplete`, `HaltedIsFreed` and
`ClientBound` (fairness and `ENABLED` are out of the prover's reach). The provers cannot do induction over data or
recursive operators either; no definition here is recursive.

## 6. Where the code and its own statements disagree

Each of these two is a run in which TLC finds the statement violated.

1. `ASSERT(adapter->PendingReadIrpQueue.Count == 0)` in `TapDeviceCleanup` (`device.c:831`): a read
   that was found ready before the cleanup queues its IRP after the flush. The file object is then not closed until the
   read is cancelled or answered (`send_v_CleanupFlushedIrps`). The assertion on the packet queue (`device.c:824`) fails in the same way
   (`CleanupFlushedPackets` in the module).
2. "Wait here for all in-flight receive indications to be returned" (`adapter.c:1092`) and "While in the Pause state it is
   forbidden for the miniport to indicate receive NBLs" (`rxpath.c:63`): a write checks that the adapter is
   ready, counts its NBL and indicates it in three steps, and the pause can find the count zero before the second
   (`rx_v_PausedHasNoneOut`). This, and the late `NdisSetEvent` below, are the only ways: `PauseDrainsUnlessRaced`.

Nine more are formulas in the modules that no run lists. TLC finds a counterexample to each when it
is put in place of the properties of the run named:

- `PausedOwnsNoSend` (`send_events`): "the driver never claims ownership of any send NBL" in `AdapterPause` (`adapter.c:1104`); it owns
  those parked by flow control, and pauses without completing them;
- `MediaAgrees` (`media`): "Tell Windows whether the TAP device should be considered ..." (`device.c:207`); of two racing calls, one can
  indicate what it found before the other changed it, so that Windows is left with the opposite of what the driver goes by (a
  value other than 0 and 1 breaks the agreement without a race);
- `BadRequestsTolerated` (`dhcp`): "How many bad DHCPREQUESTs do we receive before we return a NAK?" (`dhcp.h:29`); the first is answered with
  a NAK already, and from the third on every request is, good or bad, until the device is reopened;
- `NoIndicationWhilePaused` (`rx`): the second statement of 2, by itself;
- `PausedOwesNone` (`rx`): the first statement of 2, for NBLs the host had before the pause: a returning thread that is preempted
  between its decrement and `NdisSetEvent` (`rxpath.c:312`) ends the wait of a later pause;
- `ReadsUseLiveContext` (`life`): "Flush IRP queues. Wait for pending I/O. Etc." in `DestroyTapDevice` (`device.c:1475`); a read call
  goes on with the packet queue after its IRP was completed, and nothing waits for it;
- `OpenFindsAdapter` (`life`): "Insure that adapter exists. ASSERT(adapter);" (`device.c:128`); the device is
  registered before the context is listed;
- `RegisteredWithInstanceId` (`life`): "Subsequent device registration will fail if NetCfgInstanceId has not
  been successfully read" (`adapter.c:653`); the status is overwritten at `adapter.c:691`. What NDIS makes of a device name without the
  id is not in this repository;
- `AcceptedOptionsFit` (`dhcp`): the IOCTL accepts 256 bytes of options and the reply has a buffer of 256 for these and
  22 bytes of its own (`dhcp.h:42`); with more than 234 no offer is ever sent (`RoomForOptions` proves that bound exact).

Seen while modelling, and not in any formula:

- `OID_GEN_XMIT_OK` and `OID_GEN_RCV_OK` "always report that only 8 bytes are required" (`oidrequest.c`), but a buffer of 1 to 3
  bytes is told 4 (`FrameCountLength`); "Simply succeed this" of `OID_PNP_QUERY_POWER` fails for a short buffer;
- `AdapterReset` completes no pending send, against the comment at its head (`adapter.c`);
- a 802.1Q tag is written and read in host byte order (`txpath.c:569`, `rxpath.c:375`), and a frame that was given one is not recognised by
  the DHCP masquerade, though it is to "catch both DHCP requests and ARP queries" (`txpath.c:594`); `PRIORITY_BEHAVIOR` outlives the
  session that set it;
- zeroing the multicast list first makes a frame to an address of both the old and the new list be dropped during the change;
- `RemoveDriver` reports success after an enumeration that failed, `InstallDriver` when `PathCombine` fails after the directory was
  made; adapters that were disabled are not updated when none was enabled (`UpToDate` says so); a property of the
  package that cannot be read makes `Newer` answer FALSE, so that the installation is skipped without a word; whether the registry key could be
  deleted is not looked at; loops over devices end only at `ERROR_NO_MORE_ITEMS`; `Uninstall` never destroys its `DeviceInfoSet`.

## 7. What is not modelled, and why

Abstracted in what is modelled: the contents of frames and buffers (their lengths too, outside `TapFilter`); memory
that cannot be had, other than as a nondeterministic drop, refusal or failed allocation;
`ResetInProgress`, which only `AdapterReset` sets, within one call; memory reordering between
processors (every unlocked access is a step, in program order); IRQLs; the contents of DHCP messages but
for type and `ciaddr`; the halves of a set of addresses that one IOCTL writes, which a frame in between could mix; in
the installer the temporary copies of the package, the certificate, the request to reboot, the log and the text of `CustomActionData`.

Unlocked reads that are merged into one step, since no checked property turns on the moments between them: the five of
`tapAdapterReadAndWriteReady` (`adapter.c:1229`-`1257`). In the code a call may find each flag up at its own time although they were never all up at once, which no model has.
What such a call goes on to do is what a call does that was found ready before some flag went down, and this the models have: its next step may come at any
later time, after a cleanup, a pause or the next open; `m_dhcp_enabled` with the server's MAC address when a message is taken for the masquerade (`SendDhcp`); the
address with the first half of the increment after a bad request (`RememberRequest`); the three fields that
`CompareSubnet` compares. `ReturnNbl` leaves out the test of a mapped buffer for NULL (`rxpath.c:287`-`292`): the MDL of an injected NBL is of
non-paged pool, which is always mapped.

Not modelled:

- *header templates in use*: a write in point-to-point mode lends the host an MDL over the live `m_UserToTap`, which an IOCTL may
  rewrite meanwhile. `TapFilter` has the NBL and `TapConfig` the assignments; which header such a frame must carry
  the repository does not say, so that there is nothing to check;
- *neighbour discovery* and its checksum, `ParseMAC`, MAC generation, registry values: pure functions of byte strings whose
  difficulty is in the bytes, which the models abstract; tests over bytes reach them better;
- *frames longer than a read's buffer*: the read fails with `STATUS_BUFFER_OVERFLOW` and the frame is gone, one branch (in `TapSendPath` it is part of
  `CompletePendingReadIrp`); *802.1Q tags on transmit*: one branch on a stored number;
- *statistics*: counters incremented without interlocked instructions can lose counts (`rxpath.c:223`), and nothing
  but a query reads them; the values of queries are constants otherwise;
- *reset, shutdown, hang check, device PnP notifications*: each works within one call and touches nothing the other modules
  read, but for the state that `AdapterShutdownEx` sets when the machine goes down;
- *driver entry and unload*: run before the first and after the last entry point;
- *debug log*: dead code, since nothing enables it;
- *NSIS script, `buildtap.py`, signing*: sequences of tool calls with no state of their own.

How the modules fit together. `TapSendPath` and `TapLifecycle` both have the open, cleanup and close of the device and the reads, in different
detail, and `TapReceivePath` and `TapFilter` both have a write. Their product is beyond TLC at any size where something new could
happen; what they share is the life of a file and of its requests. `TapHandle` states that: `TapLifecycle` is proved to give
each device such a handle, however files, halts and creates race, and `TapReceivePath` takes one file to stand for the device and is proved to implement `TapLoan`, which
rests on the same `TapHandle`. `TapSendPath` has the open, cleanup and close of one file, too, but is not shown to
implement it. `TapDhcp` and `TapConfig` are composed by `ConfigRefinement`.
