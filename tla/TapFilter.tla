------------------------------ MODULE TapFilter ------------------------------
(***************************************************************************)
(* The packet filter and the multicast list, which NDIS sets by OID        *)
(* requests (tapSetInformation), and the writes of the application         *)
(* (TapDeviceWrite), whose frames are judged by them, given a net buffer   *)
(* list (TapSharedSendPacket) and freed when the host returns it.          *)
(*                                                                         *)
(* Neither side takes a lock: a write reads m_tun twice, the packet filter *)
(* up to three times and the multicast list address by address, each in    *)
(* two halves (ETH_COMPARE_NETWORK_ADDRESSES_EQ), while an OID request     *)
(* zeroes the list, copies the new one and then sets its size.             *)
(***************************************************************************)
EXTENDS Integers, Sequences

CONSTANTS
  Writers,             \* write IRPs, each with the thread that dispatches it
  Frames,              \* what the application may write
  Addresses,           \* Ethernet addresses, in halves
  Filters,             \* the packet filters NDIS may set
  Lists,               \* the multicast lists NDIS may set
  NullAddress,         \* the zeroed address, which is not a multicast one
  TAP_MAX_MCAST_LIST,  \* the longest multicast list
  ULONG_MAX            \* the largest length

ETHERNET_HEADER_SIZE == 14
IP_HEADER_SIZE == 20
VLAN_TAG_SIZE == 4
TAP_MIN_FRAME_SIZE == 60

Kinds == {"broadcast", "multicast", "own", "foreign"}
FilterBits == {"directed", "multicast", "broadcast", "allMulticast", "promiscuous"}
Halves == {"head", "tail"}

\* An address has two halves; a frame is written to an address and is tagged with an
\* 802.1Q header or not.
ASSUME AddressesAssumption ==
  /\ \A a \in Addresses \cup {NullAddress} : DOMAIN a = Halves /\ a = [h \in Halves |-> a[h]]
  /\ \A a \in Addresses : a.head # NullAddress.head

ASSUME FramesAssumption == \A f \in Frames :
  f.kind \in Kinds /\ f.to \in Addresses /\ f.tagged \in BOOLEAN /\ f.length \in 0 .. ULONG_MAX

ASSUME RequestsAssumption == Filters \subseteq SUBSET FilterBits /\ Lists \subseteq Seq(Addresses)

ASSUME BoundsAssumption ==
  /\ TAP_MAX_MCAST_LIST \in Nat
  /\ ULONG_MAX \in Nat /\ ULONG_MAX >= TAP_MIN_FRAME_SIZE

VARIABLES
  tun,           \* Adapter->m_tun
  packetFilter,  \* Adapter->PacketFilter
  mcList,        \* Adapter->MCList, by entry and half
  ulMCListSize,  \* Adapter->ulMCListSize
  oidAt,         \* the OID request in progress: where it is,
  oidLeft,       \*   the halves of the list it has still to write
  oidList,       \*   and the list it sets
  at,            \* where each write is
  frame,         \* the frame it writes,
  stripped,      \* whether its 802.1Q header has been removed,
  prefix,        \* the length of the header put before it
  type,          \* frameType
  entry,         \* the entry of the multicast list it looks at
  held,          \* what has been allocated for it: buffer, MDL, NBL
  nbl,           \* the flag, offset and length of its NBL
  verdict,       \* history: what became of the latest frame,
  seen,          \* what the settings would have made of it, at each instant,
  disturbed,     \* and whether they changed in a way that may confuse a write
  inForce        \* history: the list of the latest completed request

settings == <<tun, packetFilter, mcList, ulMCListSize>>
oidVars == <<oidAt, oidLeft, oidList, inForce>>
frameVars == <<frame, stripped, prefix>>
judgeVars == <<type, entry, verdict>>
buildVars == <<held, nbl>>
vars == <<settings, oidVars, at, frameVars, judgeVars, buildVars, seen, disturbed>>

Goto(w, label) == at' = [at EXCEPT ![w] = label]
Step(w, from, to) == at[w] = from /\ Goto(w, to)

\* The end of the judgement of a frame, and of the whole call unless it is wanted.
Judge(w, v) ==
  /\ Goto(w, IF v = "accepted" THEN "build" ELSE "idle")
  /\ verdict' = [verdict EXCEPT ![w] = v]

Cells == (1 .. TAP_MAX_MCAST_LIST) \X Halves

-----------------------------------------------------------------------------
(* What the settings make of a frame (the reference the writes are held to) *)

FrameType(list, f) ==
  IF f.kind = "broadcast" THEN {"broadcast"}
  ELSE IF f.kind = "own" THEN {"directed"}
  ELSE IF f.kind = "foreign" THEN {}
  ELSE IF \E i \in 1 .. Len(list) : list[i] = f.to THEN {"multicast", "allMulticast"}
  ELSE {"allMulticast"}

\* In TUN mode every packet is directed to the adapter.
Wanted(isTun, filter, list, f) ==
  \/ "promiscuous" \in filter
  \/ filter \cap (IF isTun THEN {"directed"} ELSE FrameType(list, f)) # {}

Verdict(isTun, filter, list, f) ==
  IF f.length < (IF isTun THEN IP_HEADER_SIZE ELSE ETHERNET_HEADER_SIZE) THEN "tooSmall"
  ELSE IF Wanted(isTun, filter, list, f) THEN "accepted" ELSE "filtered"

Judging(w) == at[w] # "idle" /\ verdict[w] = "none"

\* A write can be confused when m_tun or the promiscuous bit changes under it, or the
\* multicast list is rewritten while it looks for its address there.
Confusing(w) ==
  \/ tun' # tun
  \/ ("promiscuous" \in packetFilter') # ("promiscuous" \in packetFilter)
  \/ frame'[w].kind = "multicast" /\ (oidAt # "idle" \/ oidAt' # "idle")

\* The history of the writes being judged, kept by every step.
Watch ==
  /\ seen' = [w \in Writers |->
       IF at[w] = "idle" /\ at'[w] # "idle"
         THEN {Verdict(tun', packetFilter', inForce', frame'[w])}
       ELSE IF Judging(w)
         THEN seen[w] \cup {Verdict(tun', packetFilter', inForce', frame'[w])}
       ELSE seen[w]]
  /\ disturbed' = [w \in Writers |->
       IF at[w] = "idle" /\ at'[w] # "idle" THEN Confusing(w)
       ELSE IF Judging(w) THEN disturbed[w] \/ Confusing(w)
       ELSE disturbed[w]]

-----------------------------------------------------------------------------
(* AdapterOidRequest: one request at a time; a refused one changes nothing  *)

\* OID_GEN_CURRENT_PACKET_FILTER
tapSetPacketFilter(filter) ==
  /\ oidAt = "idle"
  /\ filter \subseteq FilterBits
  /\ packetFilter' = filter
  /\ UNCHANGED <<tun, mcList, ulMCListSize, oidVars, at, frameVars, judgeVars, buildVars>>

\* Mutant: a list that is one address too long is taken.
SetLongMulticastList(list) ==
  /\ oidAt = "idle"
  /\ Len(list) <= TAP_MAX_MCAST_LIST + 1
  /\ oidAt' = "zero"
  /\ oidLeft' = Cells
  /\ oidList' = list
  /\ UNCHANGED <<settings, inForce, at, frameVars, judgeVars, buildVars>>

\* OID_802_3_MULTICAST_LIST: NDIS_STATUS_MULTICAST_FULL refuses a list that is too
\* long; otherwise the whole array is zeroed first.
tapSetMulticastList(list) ==
  /\ oidAt = "idle"
  /\ Len(list) <= TAP_MAX_MCAST_LIST
  /\ oidAt' = "zero"
  /\ oidLeft' = Cells
  /\ oidList' = list
  /\ UNCHANGED <<settings, inForce, at, frameVars, judgeVars, buildVars>>

CellsOf(list) == {c \in Cells : c[1] <= Len(list)}

\* The memory functions promise no order.
NdisZeroMemory ==
  /\ oidAt = "zero"
  /\ \E c \in oidLeft :
       /\ mcList' = [mcList EXCEPT ![c] = NullAddress[c[2]]]
       /\ oidLeft' = oidLeft \ {c}
  /\ UNCHANGED <<tun, packetFilter, ulMCListSize, oidAt, oidList, inForce,
                 at, frameVars, judgeVars, buildVars>>

NdisMoveMemory ==
  /\ oidAt = "copy"
  /\ \E c \in oidLeft :
       /\ mcList' = [mcList EXCEPT ![c] = oidList[c[1]][c[2]]]
       /\ oidLeft' = oidLeft \ {c}
  /\ UNCHANGED <<tun, packetFilter, ulMCListSize, oidAt, oidList, inForce,
                 at, frameVars, judgeVars, buildVars>>

ZeroDone ==
  /\ oidAt = "zero" /\ oidLeft = {}
  /\ oidAt' = "copy"
  /\ oidLeft' = CellsOf(oidList)
  /\ UNCHANGED <<settings, oidList, inForce, at, frameVars, judgeVars, buildVars>>

\* Mutant: the old size is kept.
KeepListSize ==
  /\ oidAt = "copy" /\ oidLeft = {}
  /\ oidAt' = "idle"
  /\ inForce' = oidList
  /\ UNCHANGED <<settings, oidLeft, oidList, at, frameVars, judgeVars, buildVars>>

SetListSize ==
  /\ oidAt = "copy" /\ oidLeft = {}
  /\ oidAt' = "idle"
  /\ ulMCListSize' = Len(oidList)
  /\ inForce' = oidList
  /\ UNCHANGED <<tun, packetFilter, mcList, oidLeft, oidList,
                 at, frameVars, judgeVars, buildVars>>

OidRequest ==
  \/ \E filter \in Filters : tapSetPacketFilter(filter)
  \/ \E list \in Lists : tapSetMulticastList(list)
  \/ NdisZeroMemory \/ ZeroDone \/ NdisMoveMemory \/ SetListSize

\* The configuration requests of the application set m_tun (see TapConfig).
SetTun ==
  /\ tun' = ~tun
  /\ UNCHANGED <<packetFilter, mcList, ulMCListSize, oidVars,
                 at, frameVars, judgeVars, buildVars>>

-----------------------------------------------------------------------------
(* TapDeviceWrite: the judgement of a frame                                *)

\* A write to an adapter that is ready (see TapReceivePath).
WriteBegin(w, f) ==
  /\ Step(w, "idle", "tap")
  /\ frame' = [frame EXCEPT ![w] = f]
  /\ stripped' = [stripped EXCEPT ![w] = FALSE]
  /\ prefix' = [prefix EXCEPT ![w] = 0]
  /\ type' = [type EXCEPT ![w] = {}]
  /\ verdict' = [verdict EXCEPT ![w] = "none"]
  /\ UNCHANGED <<settings, oidVars, entry, buildVars>>

\* TapStrip8021Q
Strips(f) == f.tagged /\ f.length >= ETHERNET_HEADER_SIZE + VLAN_TAG_SIZE

TestTap(w) ==
  /\ at[w] = "tap"
  /\ IF ~tun /\ frame[w].length >= ETHERNET_HEADER_SIZE
       THEN /\ Goto(w, "promiscuous")
            /\ stripped' = [stripped EXCEPT ![w] = Strips(frame[w])]
       ELSE Goto(w, "tun") /\ UNCHANGED stripped
  /\ UNCHANGED <<settings, oidVars, frame, prefix, judgeVars, buildVars>>

TestTun(w) ==
  /\ at[w] = "tun"
  /\ IF tun /\ frame[w].length >= IP_HEADER_SIZE
       THEN /\ Goto(w, "directed") /\ UNCHANGED verdict
            /\ prefix' = [prefix EXCEPT ![w] = ETHERNET_HEADER_SIZE]
       ELSE Judge(w, "tooSmall") /\ UNCHANGED prefix
  /\ UNCHANGED <<settings, oidVars, frame, stripped, type, entry, buildVars>>

TestDirected(w) ==
  /\ at[w] = "directed"
  /\ Judge(w, IF packetFilter \cap {"directed", "promiscuous"} # {} THEN "accepted" ELSE "filtered")
  /\ UNCHANGED <<settings, oidVars, frameVars, type, entry, buildVars>>

\* The type of the frame is only found out if it is needed.
TestPromiscuous(w) ==
  /\ at[w] = "promiscuous"
  /\ Goto(w, IF "promiscuous" \in packetFilter THEN "recheck" ELSE "classify")
  /\ UNCHANGED <<settings, oidVars, frameVars, judgeVars, buildVars>>

SetType(w, bits) == type' = [type EXCEPT ![w] = bits] /\ UNCHANGED entry

\* tapGetRawPacketFrameType
Classify(w) ==
  /\ at[w] = "classify"
  /\ \/ /\ frame[w].kind = "broadcast"
        /\ Goto(w, "recheck") /\ SetType(w, {"broadcast"})
     \/ /\ frame[w].kind = "own"
        /\ Goto(w, "recheck") /\ SetType(w, {"directed"})
     \/ /\ frame[w].kind = "foreign"
        /\ Goto(w, "recheck") /\ SetType(w, {})
     \/ /\ frame[w].kind = "multicast"
        /\ Goto(w, "size") /\ entry' = [entry EXCEPT ![w] = 1] /\ UNCHANGED type
  /\ UNCHANGED <<settings, oidVars, frameVars, verdict, buildVars>>

NextEntry(w) == Goto(w, "size") /\ entry' = [entry EXCEPT ![w] = @ + 1] /\ UNCHANGED type

\* The size is read again for every entry.
TestSize(w) ==
  /\ at[w] = "size"
  /\ IF entry[w] > ulMCListSize
       THEN Goto(w, "recheck") /\ SetType(w, {"allMulticast"})
     ELSE Goto(w, "tail") /\ UNCHANGED <<type, entry>>
  /\ UNCHANGED <<settings, oidVars, frameVars, verdict, buildVars>>

CompareTail(w) ==
  /\ at[w] = "tail"
  /\ IF mcList[<<entry[w], "tail">>] = frame[w].to.tail
       THEN Goto(w, "head") /\ UNCHANGED <<type, entry>>
     ELSE NextEntry(w)
  /\ UNCHANGED <<settings, oidVars, frameVars, verdict, buildVars>>

CompareHead(w) ==
  /\ at[w] = "head"
  /\ IF mcList[<<entry[w], "head">>] = frame[w].to.head
       THEN Goto(w, "recheck") /\ SetType(w, {"multicast", "allMulticast"})
     ELSE NextEntry(w)
  /\ UNCHANGED <<settings, oidVars, frameVars, verdict, buildVars>>

Recheck(w) ==
  /\ at[w] = "recheck"
  /\ IF "promiscuous" \in packetFilter
       THEN Judge(w, "accepted")
     ELSE Goto(w, "type") /\ UNCHANGED verdict
  /\ UNCHANGED <<settings, oidVars, frameVars, type, entry, buildVars>>

TestType(w) ==
  /\ at[w] = "type"
  /\ Judge(w, IF type[w] \cap packetFilter # {} THEN "accepted" ELSE "filtered")
  /\ UNCHANGED <<settings, oidVars, frameVars, type, entry, buildVars>>

JudgeStep(w) ==
  \/ TestTap(w) \/ TestTun(w) \/ TestDirected(w)
  \/ TestPromiscuous(w) \/ Classify(w)
  \/ TestSize(w) \/ CompareTail(w) \/ CompareHead(w)
  \/ Recheck(w) \/ TestType(w)

-----------------------------------------------------------------------------
(* TapSharedSendPacket: the NBL of a frame                                 *)

PacketLength(w) == frame[w].length - (IF stripped[w] THEN VLAN_TAG_SIZE ELSE 0)

TooLong(w) == ULONG_MAX - PacketLength(w) < prefix[w]

\* The sum of two ULONGs.
ULongSum(m, n) == IF m + n <= ULONG_MAX THEN m + n ELSE m + n - (ULONG_MAX + 1)

fullLength(w) == ULongSum(PacketLength(w), prefix[w])

\* A short frame is copied to a buffer of its own, and padded.
IsShort(w) == fullLength(w) < TAP_MIN_FRAME_SIZE

Build(w) ==
  /\ at[w] = "build"
  /\ Goto(w, IF TooLong(w) THEN "idle" ELSE IF IsShort(w) THEN "buffer"
             ELSE IF prefix[w] > 0 THEN "mdl" ELSE "nbl")
  /\ UNCHANGED <<settings, oidVars, frameVars, judgeVars, buildVars>>

\* An allocation that fails ends the call, which frees what it had got.
AllocateBuffer(w) ==
  /\ at[w] = "buffer"
  /\ \/ Goto(w, "idle") /\ UNCHANGED held
     \/ Goto(w, "mdl") /\ held' = [held EXCEPT ![w] = @ \cup {"buffer"}]
  /\ UNCHANGED <<settings, oidVars, frameVars, judgeVars, nbl>>

AllocateMdl(w) ==
  /\ at[w] = "mdl"
  /\ \/ Goto(w, "idle") /\ held' = [held EXCEPT ![w] = IF IsShort(w) THEN @ \ {"buffer"} ELSE @]
     \/ Goto(w, "nbl") /\ held' = [held EXCEPT ![w] = @ \cup {"mdl"}]
  /\ UNCHANGED <<settings, oidVars, frameVars, judgeVars, nbl>>

\* Mutant: only the MDL is freed when there is no NBL.
NblFailsKeepBuffer(w) ==
  /\ Step(w, "nbl", "idle")
  /\ held' = [held EXCEPT ![w] = @ \ {"mdl"}]
  /\ UNCHANGED <<settings, oidVars, frameVars, judgeVars, nbl>>

NblFails(w) ==
  /\ Step(w, "nbl", "idle")
  /\ held' = [held EXCEPT ![w] = @ \ (IF IsShort(w) THEN {"mdl", "buffer"} ELSE {"mdl"})]
  /\ UNCHANGED <<settings, oidVars, frameVars, judgeVars, nbl>>

\* Mutant: the NBL of a frame whose 802.1Q header was removed starts at the buffer.
DescribeFromStart(w) ==
  IF IsShort(w) THEN [flag |-> "injected", offset |-> 0, length |-> TAP_MIN_FRAME_SIZE]
  ELSE IF prefix[w] > 0 THEN [flag |-> "p2p", offset |-> 0, length |-> fullLength(w)]
  ELSE [flag |-> "none", offset |-> 0, length |-> fullLength(w)]

Describe(w) ==
  IF IsShort(w) THEN [flag |-> "injected", offset |-> 0, length |-> TAP_MIN_FRAME_SIZE]
  ELSE IF prefix[w] > 0 THEN [flag |-> "p2p", offset |-> 0, length |-> fullLength(w)]
  ELSE [flag |-> "none", offset |-> IF stripped[w] THEN VLAN_TAG_SIZE ELSE 0,
        length |-> fullLength(w)]

NoNbl == [flag |-> "none", offset |-> 0, length |-> TAP_MIN_FRAME_SIZE]

\* The NBL is indicated to the host, and the IRP pends.
AllocateNbl(w) ==
  /\ Step(w, "nbl", "host")
  /\ held' = [held EXCEPT ![w] = @ \cup {"nbl"}]
  /\ nbl' = [nbl EXCEPT ![w] = Describe(w)]
  /\ UNCHANGED <<settings, oidVars, frameVars, judgeVars>>

\* tapCompleteIrpAndFreeReceiveNetBufferList, for an NBL the host returns.  An injected
\* NBL's MDL is of non-paged pool, so that its buffer is always found mapped.
ReturnNbl(w) ==
  /\ Step(w, "host", "idle")
  /\ held' = [held EXCEPT ![w] =
       @ \ (IF nbl[w].flag = "p2p" THEN {"nbl", "mdl"}
            ELSE IF nbl[w].flag = "injected" THEN {"nbl", "mdl", "buffer"}
            ELSE {"nbl"})]
  /\ nbl' = [nbl EXCEPT ![w] = NoNbl]
  /\ UNCHANGED <<settings, oidVars, frameVars, judgeVars>>

BuildStep(w) ==
  \/ Build(w) \/ AllocateBuffer(w) \/ AllocateMdl(w)
  \/ NblFails(w) \/ AllocateNbl(w) \/ ReturnNbl(w)

-----------------------------------------------------------------------------
Init ==
  /\ tun = FALSE
  /\ packetFilter = {}
  /\ mcList = [c \in Cells |-> NullAddress[c[2]]]
  /\ ulMCListSize = 0
  /\ oidAt = "idle" /\ oidLeft = {} /\ oidList = <<>> /\ inForce = <<>>
  /\ at = [w \in Writers |-> "idle"]
  /\ frame \in [Writers -> Frames]
  /\ stripped = [w \in Writers |-> FALSE]
  /\ prefix = [w \in Writers |-> 0]
  /\ type = [w \in Writers |-> {}]
  /\ entry = [w \in Writers |-> 1]
  /\ held = [w \in Writers |-> {}]
  /\ nbl = [w \in Writers |-> NoNbl]
  /\ verdict = [w \in Writers |-> "none"]
  /\ seen = [w \in Writers |-> {}]
  /\ disturbed = [w \in Writers |-> FALSE]

Action ==
  \/ OidRequest \/ SetTun
  \/ \E w \in Writers :
       (\E f \in Frames : WriteBegin(w, f)) \/ JudgeStep(w) \/ BuildStep(w)

Next == Action /\ Watch

Spec == Init /\ [][Next]_vars

-----------------------------------------------------------------------------
(* Correctness                                                             *)

OidLabels == {"idle", "zero", "copy"}
JudgeLabels ==
  {"tap", "tun", "directed", "promiscuous", "classify", "size", "tail", "head", "recheck", "type"}
BuildLabels == {"build", "buffer", "mdl", "nbl", "host"}
Verdicts == {"tooSmall", "accepted", "filtered"}
HalfValues == {a[h] : a \in Addresses \cup {NullAddress}, h \in Halves}

SettingTypes ==
  /\ tun \in BOOLEAN
  /\ packetFilter \subseteq FilterBits
  /\ mcList \in [Cells -> HalfValues]
  /\ ulMCListSize \in 0 .. TAP_MAX_MCAST_LIST

OidTypes ==
  /\ oidAt \in OidLabels
  /\ oidLeft \subseteq (IF oidAt = "copy" THEN CellsOf(oidList) ELSE Cells)
  /\ oidList \in Seq(Addresses) /\ Len(oidList) <= TAP_MAX_MCAST_LIST
  /\ inForce \in Seq(Addresses) /\ Len(inForce) <= TAP_MAX_MCAST_LIST

CallTypes ==
  /\ at \in [Writers -> {"idle"} \cup JudgeLabels \cup BuildLabels]
  /\ frame \in [Writers -> Frames]
  /\ stripped \in [Writers -> BOOLEAN]
  /\ prefix \in [Writers -> {0, ETHERNET_HEADER_SIZE}]
  /\ type \in [Writers -> SUBSET FilterBits]
  /\ entry \in [Writers -> 1 .. TAP_MAX_MCAST_LIST + 1]
  /\ held \in [Writers -> SUBSET {"buffer", "mdl", "nbl"}]
  /\ nbl \in [Writers ->
       [flag : {"none", "p2p", "injected"}, offset : {0, VLAN_TAG_SIZE}, length : 0 .. ULONG_MAX]]

HistoryTypes ==
  /\ verdict \in [Writers -> {"none"} \cup Verdicts]
  /\ seen \in [Writers -> SUBSET Verdicts]
  /\ disturbed \in [Writers -> BOOLEAN]

\* While a write looks for an address in the multicast list, without a lock, it reads no
\* entry beyond the array, although the list, its size and what is beyond its size change
\* under it with every OID request (tapGetRawPacketFrameType, tapSetMulticastList).
SearchInArray == \A w \in Writers : at[w] \in {"tail", "head"} => entry[w] <= TAP_MAX_MCAST_LIST

\* Every variable has its type; a header is removed only from a frame that has one.
TypeOK ==
  /\ SettingTypes /\ OidTypes /\ CallTypes /\ HistoryTypes
  /\ SearchInArray
  /\ \A w \in Writers : stripped[w] => Strips(frame[w])

\* A frame is never judged by a mixture of old and new settings: its verdict is the one
\* that m_tun, the packet filter and the multicast list gave together at some instant of
\* the call, although the call reads each of them several times and without a lock.
\* Two kinds of writes are confused and left out here: those under which m_tun or the
\* promiscuous bit changes, and those to a multicast address while the list is rewritten
\* (TapDeviceWrite, tapGetRawPacketFrameType, tapSetMulticastList, tapSetPacketFilter).
VerdictJustified ==
  \A w \in Writers : verdict[w] \in Verdicts /\ ~disturbed[w] => verdict[w] \in seen[w]

\* When a call is over and its NBL is back, nothing that was allocated for the frame is
\* left, whichever allocation failed (TapSharedSendPacket,
\* tapCompleteIrpAndFreeReceiveNetBufferList).
NothingLeaks == \A w \in Writers : at[w] = "idle" => held[w] = {}

ChainLength(w) ==
  IF nbl[w].flag = "injected" THEN TAP_MIN_FRAME_SIZE ELSE prefix[w] + frame[w].length

\* The host is given the whole frame, padded to the least length, up to the end of the
\* MDL chain and no further, whether a header was put before the frame, its 802.1Q header
\* was removed, or it was copied (TapStrip8021Q, TapSharedSendPacket).
IndicatedWhole ==
  \A w \in Writers : at[w] = "host" =>
    /\ nbl[w].offset + nbl[w].length = ChainLength(w)
    /\ nbl[w].length >= TAP_MIN_FRAME_SIZE
    /\ nbl[w].length >= PacketLength(w) + prefix[w]
=============================================================================
