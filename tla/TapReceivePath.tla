---------------------------- MODULE TapReceivePath ----------------------------
(***************************************************************************)
(* The receive side of the adapter: the frames the application writes      *)
(* (TapDeviceWrite) and those the driver injects as answers of its own     *)
(* (IndicateReceivePacket) are indicated to the host in net buffer lists,  *)
(* which the host returns when it likes (AdapterReturnNetBufferLists).  A  *)
(* write IRP stays pending until its NBL is returned, and AdapterPause     *)
(* waits until the count of NBLs in flight is zero.                        *)
(*                                                                         *)
(* The count is changed by interlocked instructions and the event by calls *)
(* of their own, so that each of them is a step.                           *)
(***************************************************************************)
EXTENDS Integers, FiniteSets

CONSTANTS
  Writers,      \* write IRPs, each with the thread that dispatches it
  Injectors,    \* threads that inject an answer to a frame of the host
  Returners,    \* threads in which NDIS calls AdapterReturnNetBufferLists
  Pauser,       \* the thread in which NDIS calls AdapterPause and AdapterRestart
  Nbls,         \* the net buffer lists of ReceiveNblPool
  NoIrp, NoNbl  \* "no IRP" (an injected frame) and "no NBL"

Sources == Writers \cup Injectors
Threads == Sources \cup Returners \cup {Pauser}

ASSUME ThreadsAssumption ==
  /\ Writers \cap Injectors = {} /\ Sources \cap Returners = {}
  /\ Pauser \notin Sources \cup Returners
  /\ NoIrp \notin Writers

ASSUME NblsAssumption == IsFiniteSet(Nbls) /\ NoNbl \notin Nbls

VARIABLES
  adapterState,             \* Adapter->Locked.AdapterState
  fileState,                \* the application's file: closed, open or cleaned up
  linkReady,                \* LogicalMediaState, CurrentPowerState, not ResetInProgress
  receiveNblInFlightCount,  \* Adapter->ReceiveNblInFlightCount
  zeroEvent,                \* Adapter->ReceiveNblInFlightCountZeroEvent is signalled
  nblState,                 \* where each NBL is
  irpOf,                    \* NetBufferList->MiniportReserved[0]
  pending,                  \* the write IRPs not yet completed
  pc,                       \* where each thread is
  nbl,                      \* the NBL each source or returner is working on
  returning,                \* the rest of the list a returner was called with
  owed                      \* history: NBLs the host had when AdapterPause began

nblVars == <<nblState, irpOf, nbl, returning>>
countVars == <<receiveNblInFlightCount, zeroEvent>>
envVars == <<adapterState, fileState, linkReady>>
vars == <<envVars, countVars, nblVars, pending, pc, owed>>

Goto(t, label) == pc' = [pc EXCEPT ![t] = label]
Step(t, from, to) == pc[t] = from /\ Goto(t, to)
Move(n, state) == nblState' = [nblState EXCEPT ![n] = state]

\* tapAdapterSendAndReceiveReady, under AdapterLock.
SendAndReceiveReady ==
  linkReady /\ adapterState \notin {"pausing", "paused", "halted"}

-----------------------------------------------------------------------------
(* TapDeviceWrite and IndicateReceivePacket                                *)

\* A write on the open file, the device being ready for it (otherwise its IRP is
\* completed at once with STATUS_CANCELLED).
WriteReady(w) ==
  /\ fileState = "open"
  /\ linkReady
  /\ w \notin pending
  /\ Step(w, "idle", "readyCheck")
  /\ pending' = pending \cup {w}
  /\ UNCHANGED <<envVars, countVars, nblVars, owed>>

\* The send path answers a frame of the host by itself.
InjectBegin(i) ==
  /\ Step(i, "idle", "readyCheck")
  /\ UNCHANGED <<envVars, countVars, nblVars, pending, owed>>

\* The frame is dropped and the write completed: a "lying send" while the
\* adapter is not ready, a frame the packet filter does not want, a bad size, or
\* no memory.
Refuse(s) ==
  /\ Step(s, "readyCheck", "idle")
  /\ pending' = pending \ {s}
  /\ UNCHANGED <<envVars, countVars, nblVars, owed>>

\* The adapter is ready and an NBL is built; nothing keeps the adapter ready.
Accept(s, n) ==
  /\ SendAndReceiveReady
  /\ nblState[n] = "free"
  /\ Step(s, "readyCheck", "count")
  /\ Move(n, "built")
  /\ irpOf' = [irpOf EXCEPT ![n] = IF s \in Writers THEN s ELSE NoIrp]
  /\ nbl' = [nbl EXCEPT ![s] = n]
  /\ UNCHANGED <<envVars, countVars, pending, returning, owed>>

\* Mutant: injected frames are not counted.
CountWrites(s) ==
  /\ Step(s, "count", "indicate")
  /\ receiveNblInFlightCount' = receiveNblInFlightCount + (IF s \in Writers THEN 1 ELSE 0)
  /\ Move(nbl[s], "counted")
  /\ UNCHANGED <<envVars, zeroEvent, irpOf, nbl, returning, pending, owed>>

CountNbl(s) ==
  /\ Step(s, "count", "indicate")
  /\ receiveNblInFlightCount' = receiveNblInFlightCount + 1
  /\ Move(nbl[s], "counted")
  /\ UNCHANGED <<envVars, zeroEvent, irpOf, nbl, returning, pending, owed>>

\* Mutant: the write is completed although its IRP was marked pending.
IndicateAndComplete(s) ==
  /\ Step(s, "indicate", "idle")
  /\ Move(nbl[s], "host")
  /\ nbl' = [nbl EXCEPT ![s] = NoNbl]
  /\ pending' = pending \ {s}
  /\ UNCHANGED <<envVars, countVars, irpOf, returning, owed>>

\* NdisMIndicateReceiveNetBufferLists; the call returns STATUS_PENDING.
Indicate(s) ==
  /\ Step(s, "indicate", "idle")
  /\ Move(nbl[s], "host")
  /\ nbl' = [nbl EXCEPT ![s] = NoNbl]
  /\ UNCHANGED <<envVars, countVars, irpOf, returning, pending, owed>>

SourceStep(s) ==
  \/ Refuse(s) \/ CountNbl(s) \/ Indicate(s)
  \/ \E n \in Nbls : Accept(s, n)

-----------------------------------------------------------------------------
(* AdapterReturnNetBufferLists                                             *)

\* The host gives back a list of NBLs.
HostReturn(t, list) ==
  /\ list # {}
  /\ \A n \in list : nblState[n] = "host"
  /\ Step(t, "idle", "complete")
  /\ returning' = [returning EXCEPT ![t] = list]
  /\ nblState' = [n \in Nbls |-> IF n \in list THEN "returned" ELSE nblState[n]]
  /\ UNCHANGED <<envVars, countVars, irpOf, nbl, pending, owed>>

\* Mutant: the NBL is taken back and its write left pending.
CompleteIrpNot(t) ==
  /\ Step(t, "complete", "decrement")
  /\ \E n \in returning[t] :
       /\ nbl' = [nbl EXCEPT ![t] = n]
       /\ returning' = [returning EXCEPT ![t] = @ \ {n}]
       /\ Move(n, "completed")
  /\ UNCHANGED <<envVars, countVars, irpOf, pending, owed>>

\* tapCompleteIrpAndFreeReceiveNetBufferList: the IRP is completed first.
CompleteIrp(t) ==
  /\ Step(t, "complete", "decrement")
  /\ \E n \in returning[t] :
       /\ nbl' = [nbl EXCEPT ![t] = n]
       /\ returning' = [returning EXCEPT ![t] = @ \ {n}]
       /\ Move(n, "completed")
       /\ pending' = pending \ {irpOf[n]}
  /\ UNCHANGED <<envVars, countVars, irpOf, owed>>

\* Mutant: the count before the decrement is compared with zero.
DecrementOld(t) ==
  /\ pc[t] = "decrement"
  /\ receiveNblInFlightCount' = receiveNblInFlightCount - 1
  /\ Goto(t, IF receiveNblInFlightCount = 0 THEN "setEvent" ELSE "free")
  /\ Move(nbl[t], "discounted")
  /\ owed' = owed \ {nbl[t]}
  /\ UNCHANGED <<envVars, zeroEvent, irpOf, nbl, returning, pending>>

Decrement(t) ==
  /\ pc[t] = "decrement"
  /\ receiveNblInFlightCount' = receiveNblInFlightCount - 1
  /\ Goto(t, IF receiveNblInFlightCount' = 0 THEN "setEvent" ELSE "free")
  /\ Move(nbl[t], "discounted")
  /\ owed' = owed \ {nbl[t]}
  /\ UNCHANGED <<envVars, zeroEvent, irpOf, nbl, returning, pending>>

SetEvent(t) ==
  /\ Step(t, "setEvent", "free")
  /\ zeroEvent' = TRUE
  /\ UNCHANGED <<envVars, receiveNblInFlightCount, nblVars, pending, owed>>

\* Mutant: only the first NBL of the list is processed.
FreeNblOnly(t) ==
  /\ Step(t, "free", "idle")
  /\ Move(nbl[t], "free")
  /\ nbl' = [nbl EXCEPT ![t] = NoNbl]
  /\ UNCHANGED <<envVars, countVars, irpOf, returning, pending, owed>>

\* The NBL goes back to its pool; on to the next one of the list.
FreeNbl(t) ==
  /\ pc[t] = "free"
  /\ Goto(t, IF returning[t] = {} THEN "idle" ELSE "complete")
  /\ Move(nbl[t], "free")
  /\ nbl' = [nbl EXCEPT ![t] = NoNbl]
  /\ UNCHANGED <<envVars, countVars, irpOf, returning, pending, owed>>

ReturnStep(t) == CompleteIrp(t) \/ Decrement(t) \/ SetEvent(t) \/ FreeNbl(t)

-----------------------------------------------------------------------------
(* AdapterPause, with tapWaitForReceiveNblInFlightCountZeroEvent, and      *)
(* AdapterRestart                                                          *)

PauseBegin ==
  /\ Step(Pauser, "running", "bias")
  /\ adapterState' = "pausing"
  /\ owed' = {n \in Nbls : nblState[n] \in {"host", "returned", "completed"}}
  /\ UNCHANGED <<fileState, linkReady, countVars, nblVars, pending>>

\* Mutant: no bias is added before the event is reset.
BiasNone ==
  /\ Step(Pauser, "bias", "reset")
  /\ UNCHANGED <<envVars, countVars, nblVars, pending, owed>>

\* One NBL more, so that nobody sets the event while it is reset.
Bias ==
  /\ Step(Pauser, "bias", "reset")
  /\ receiveNblInFlightCount' = receiveNblInFlightCount + 1
  /\ UNCHANGED <<envVars, zeroEvent, nblVars, pending, owed>>

ResetEvent ==
  /\ Step(Pauser, "reset", "unbias")
  /\ zeroEvent' = FALSE
  /\ UNCHANGED <<envVars, receiveNblInFlightCount, nblVars, pending, owed>>

Unbias ==
  /\ pc[Pauser] = "unbias"
  /\ receiveNblInFlightCount' = receiveNblInFlightCount - 1
  /\ Goto(Pauser, IF receiveNblInFlightCount' = 0 THEN "drained" ELSE "wait")
  /\ UNCHANGED <<envVars, zeroEvent, nblVars, pending, owed>>

\* A wait that times out is repeated.
WaitDone ==
  /\ zeroEvent
  /\ Step(Pauser, "wait", "drained")
  /\ UNCHANGED <<envVars, countVars, nblVars, pending, owed>>

EnterPaused ==
  /\ Step(Pauser, "drained", "paused")
  /\ adapterState' = "paused"
  /\ UNCHANGED <<fileState, linkReady, countVars, nblVars, pending, owed>>

PauseStep == Bias \/ ResetEvent \/ Unbias \/ WaitDone \/ EnterPaused

RestartBegin ==
  /\ Step(Pauser, "paused", "restarting")
  /\ adapterState' = "restarting"
  /\ owed' = {}
  /\ UNCHANGED <<fileState, linkReady, countVars, nblVars, pending>>

RestartEnd ==
  /\ Step(Pauser, "restarting", "running")
  /\ adapterState' = "running"
  /\ UNCHANGED <<fileState, linkReady, countVars, nblVars, pending, owed>>

-----------------------------------------------------------------------------
(* The device file, as far as writes see it                                *)

Open ==
  /\ fileState = "closed"
  /\ fileState' = "open"
  /\ UNCHANGED <<adapterState, linkReady, countVars, nblVars, pending, pc, owed>>

\* TapDeviceCleanup leaves the writes in flight alone.
Cleanup ==
  /\ fileState = "open"
  /\ fileState' = "cleaned"
  /\ UNCHANGED <<adapterState, linkReady, countVars, nblVars, pending, pc, owed>>

\* The I/O manager closes the file object once no IRP refers to it.
Close ==
  /\ fileState = "cleaned"
  /\ pending = {}
  /\ fileState' = "closed"
  /\ UNCHANGED <<adapterState, linkReady, countVars, nblVars, pending, pc, owed>>

SetLink ==
  /\ linkReady' = ~linkReady
  /\ UNCHANGED <<adapterState, fileState, countVars, nblVars, pending, pc, owed>>

-----------------------------------------------------------------------------
Init ==
  /\ adapterState = "paused"
  /\ fileState = "closed"
  /\ linkReady = FALSE
  /\ receiveNblInFlightCount = 0
  /\ zeroEvent = FALSE
  /\ nblState = [n \in Nbls |-> "free"]
  /\ irpOf = [n \in Nbls |-> NoIrp]
  /\ pending = {}
  /\ pc = [t \in Threads |-> IF t = Pauser THEN "paused" ELSE "idle"]
  /\ nbl = [t \in Sources \cup Returners |-> NoNbl]
  /\ returning = [t \in Returners |-> {}]
  /\ owed = {}

Next ==
  \/ \E w \in Writers : WriteReady(w)
  \/ \E i \in Injectors : InjectBegin(i)
  \/ \E s \in Sources : SourceStep(s)
  \/ \E t \in Returners : ReturnStep(t) \/ \E list \in SUBSET Nbls : HostReturn(t, list)
  \/ PauseBegin \/ PauseStep \/ RestartBegin \/ RestartEnd
  \/ Open \/ Cleanup \/ Close \/ SetLink

Spec == Init /\ [][Next]_vars

\* Calls go on, the host returns every NBL in the end (it may return others first,
\* again and again, so that this is strong fairness), and a pause goes on.
Fairness ==
  /\ \A s \in Sources : WF_vars(SourceStep(s))
  /\ \A t \in Returners : WF_vars(ReturnStep(t))
  /\ \A n \in Nbls :
       SF_vars(\E t \in Returners : \E list \in SUBSET Nbls : n \in list /\ HostReturn(t, list))
  /\ WF_vars(PauseStep) /\ WF_vars(Close)

FairSpec == Spec /\ Fairness

-----------------------------------------------------------------------------
(* Correctness                                                             *)

SourceLabels == {"idle", "readyCheck", "count", "indicate"}
ReturnerLabels == {"idle", "complete", "decrement", "setEvent", "free"}
PauserLabels ==
  {"running", "bias", "reset", "unbias", "wait", "drained", "paused", "restarting"}
NblStates ==
  {"free", "built", "counted", "host", "returned", "completed", "discounted"}

EnvTypes ==
  /\ adapterState \in {"running", "pausing", "paused", "restarting"}
  /\ fileState \in {"closed", "open", "cleaned"}
  /\ linkReady \in BOOLEAN
  /\ zeroEvent \in BOOLEAN

NblTypes ==
  /\ nblState \in [Nbls -> NblStates]
  /\ irpOf \in [Nbls -> Writers \cup {NoIrp}]
  /\ nbl \in [Sources \cup Returners -> Nbls \cup {NoNbl}]
  /\ returning \in [Returners -> SUBSET Nbls]
  /\ pending \subseteq Writers
  /\ owed \subseteq Nbls

PcTypes ==
  /\ pc \in [Threads -> SourceLabels \cup ReturnerLabels \cup PauserLabels]
  /\ \A s \in Sources : pc[s] \in SourceLabels
  /\ \A t \in Returners : pc[t] \in ReturnerLabels
  /\ pc[Pauser] \in PauserLabels

Types == EnvTypes /\ NblTypes /\ PcTypes /\ receiveNblInFlightCount \in Int

\* Every variable has its type, and the count of NBLs in flight never goes below
\* zero however the increments and decrements of its threads interleave.
TypeOK == Types /\ receiveNblInFlightCount >= 0

\* Who has an NBL that is neither free nor with the host: its source until it is
\* indicated, then the one returner that was called with it.
HoldersInv ==
  /\ \A s \in Sources :
       /\ pc[s] = "count" => nbl[s] \in Nbls /\ nblState[nbl[s]] = "built"
       /\ pc[s] = "indicate" => nbl[s] \in Nbls /\ nblState[nbl[s]] = "counted"
       /\ pc[s] \in {"idle", "readyCheck"} => nbl[s] = NoNbl
  /\ \A t \in Returners :
       /\ pc[t] = "decrement" => nbl[t] \in Nbls /\ nblState[nbl[t]] = "completed"
       /\ pc[t] \in {"setEvent", "free"} => nbl[t] \in Nbls /\ nblState[nbl[t]] = "discounted"
       /\ pc[t] \in {"idle", "complete"} => nbl[t] = NoNbl
       /\ pc[t] = "idle" => returning[t] = {}
       /\ \A n \in returning[t] : nblState[n] = "returned"
  /\ \A t1, t2 \in Sources \cup Returners :
       t1 # t2 /\ nbl[t1] = nbl[t2] => nbl[t1] = NoNbl
  /\ \A t1, t2 \in Returners : t1 # t2 => returning[t1] \cap returning[t2] = {}

\* The NBLs ReceiveNblInFlightCount should count.
InFlight == {n \in Nbls : nblState[n] \in {"counted", "host", "returned", "completed"}}
BiasAdded == IF pc[Pauser] \in {"reset", "unbias"} THEN 1 ELSE 0

\* ReceiveNblInFlightCount counts the NBLs between their increment and their
\* decrement, plus the bias of a pause that is resetting the event, although it
\* is changed one interlocked instruction at a time by many threads.
InFlightCount == receiveNblInFlightCount = Cardinality(InFlight) + BiasAdded

\* A pause that waits is woken: the event is set, about to be set, or an NBL is
\* still to come back whose return will set it.
PauseWoken ==
  pc[Pauser] = "wait" =>
    zeroEvent \/ receiveNblInFlightCount > 0 \/ \E t \in Returners : pc[t] = "setEvent"

Carries(n, w) == irpOf[n] = w /\ nblState[n] \in {"built", "counted", "host", "returned"}

\* A write IRP is completed exactly once: while it is outstanding either its call
\* is still deciding about it or exactly one NBL carries it
\* (TapDeviceWrite, tapCompleteIrpAndFreeReceiveNetBufferList).
WriteCustody ==
  /\ \A w \in Writers : w \in pending <=> pc[w] = "readyCheck" \/ \E n \in Nbls : Carries(n, w)
  /\ \A w \in Writers, n \in Nbls : Carries(n, w) => pc[w] # "readyCheck"
  /\ \A w \in Writers, n1, n2 \in Nbls : Carries(n1, w) /\ Carries(n2, w) => n1 = n2

\* AdapterPause ends although writes and injected frames race with it.
PauseEnds == pc[Pauser] = "bias" ~> pc[Pauser] = "paused"

\* Every write is completed in the end.
WritesComplete == \A w \in Writers : w \in pending ~> w \notin pending

\* "In the Pausing and Paused state tapAdapterSendAndReceiveReady will prevent new
\* calls to NdisMIndicateReceiveNetBufferLists" (AdapterPause).
NoIndicationWhilePaused ==
  [][\A s \in Sources : Indicate(s) => adapterState \notin {"pausing", "paused"}]_vars

\* "Once ... all recieve NBLs have returned to the miniport, the miniport enters
\* the Paused state" (AdapterPause), for the NBLs the host had when it began.
PausedOwesNone == adapterState = "paused" => owed = {}

\* "Wait here for all in-flight receive indications to be returned" (AdapterPause), so
\* that in the Paused state none is with the host, nor about to be.
PausedHasNoneOut == adapterState = "paused" => InFlight = {}

\* A call that was found ready before the pause counts its NBL only after the pause
\* has looked at the count.
LateCount ==
  pc[Pauser] \in {"wait", "drained", "paused"} /\ \E s \in Sources : pc[s] = "count"

\* A thread that saw the count at zero before the pause sets the event only after the
\* pause has reset it.
StaleSignal == pc[Pauser] = "unbias" /\ \E t \in Returners : pc[t] = "setEvent"

\* AdapterPause does what it says, and a paused miniport has no NBL out, unless one of two
\* calls is overtaken by it: a write or an injection between the readiness check
\* and the increment of the count, or a return between the decrement and the setting of the
\* event (tapWaitForReceiveNblInFlightCountZeroEvent).  There is no third way.
PauseDrainsUnlessRaced == []~(LateCount \/ StaleSignal) => []PausedHasNoneOut

\* The host may read a frame until its NBL is taken back.
LentTo(n) == nblState[n] \in {"host", "returned"}

\* A frame of the application is read by the host in the buffer of the write: as long
\* as the host has it, the write is pending and the file it was made on not closed,
\* although cleanups, pauses and returns of other NBLs go on meanwhile.
LentBuffersHeld ==
  \A n \in Nbls : LentTo(n) /\ irpOf[n] # NoIrp => irpOf[n] \in pending /\ fileState # "closed"

Loan ==
  INSTANCE TapLoan
  WITH Requests <- Writers, Buffers <- Nbls, NoWrite <- NoIrp,
       handle <- fileState, outstanding <- pending,
       lent <- {<<n, irpOf[n]>> : n \in {m \in Nbls : LentTo(m)}}

\* The receive path implements the loan of buffers: each accepted write lends its buffer
\* once, and is complete at the very step that takes the NBL back.
LoanRefinement == Loan!LoanSpec
=============================================================================
