-------------------------- MODULE TapFilter_proofs --------------------------
(***************************************************************************)
(* Proofs about TapFilter, for any number of writes, any frames and any    *)
(* requests of NDIS, and about the answers to its queries (TapOid).        *)
(***************************************************************************)
EXTENDS TapFilter, TapOid, TLAPS

-----------------------------------------------------------------------------
(* Types                                                                   *)

LEMMA HalvesOf ==
  \A a \in Addresses \cup {NullAddress} :
    /\ \A h \in Halves : a[h] \in HalfValues
    /\ a = [h \in Halves |-> a[h]]
BY AddressesAssumption DEF HalfValues

LEMMA FrameTypeType ==
  \A list, f : FrameType(list, f) \subseteq FilterBits
BY DEF FrameType, FilterBits

LEMMA VerdictType ==
  \A isTun, filter, list, f : Verdict(isTun, filter, list, f) \in Verdicts
BY DEF Verdict, Verdicts

LEMMA WatchTypes ==
  ASSUME HistoryTypes, Watch
  PROVE  seen' \in [Writers -> SUBSET Verdicts] /\ disturbed' \in [Writers -> BOOLEAN]
<1>1. seen' \in [Writers -> SUBSET Verdicts]
  <2>1. \A w \in Writers : Verdict(tun', packetFilter', inForce', frame'[w]) \in Verdicts
    BY VerdictType
  <2> QED BY <2>1 DEF HistoryTypes, Watch
<1>2. \A w \in Writers : Confusing(w) \in BOOLEAN
  BY DEF Confusing
<1>3. disturbed' \in [Writers -> BOOLEAN]
  <2> SUFFICES ASSUME NEW w \in Writers
               PROVE (IF at[w] = "idle" /\ at'[w] # "idle" THEN Confusing(w)
                      ELSE IF Judging(w) THEN disturbed[w] \/ Confusing(w)
                      ELSE disturbed[w]) \in BOOLEAN
    BY DEF Watch
  <2>1. disturbed[w] \in BOOLEAN
    BY DEF HistoryTypes
  <2> QED BY <1>2, <2>1, Zenon
<1> QED BY <1>1, <1>3

OidStep == OidRequest \/ SetTun

LEMMA OidTyped ==
  ASSUME TypeOK, OidStep
  PROVE  SettingTypes' /\ OidTypes'
<1> USE DEF TypeOK, SettingTypes, OidTypes, OidLabels
<1>1. ASSUME NEW filter \in Filters, tapSetPacketFilter(filter) PROVE SettingTypes' /\ OidTypes'
  BY <1>1 DEF tapSetPacketFilter, oidVars
<1>2. ASSUME NEW list \in Lists, tapSetMulticastList(list) PROVE SettingTypes' /\ OidTypes'
  BY <1>2, RequestsAssumption DEF tapSetMulticastList, settings
<1>3. CASE NdisZeroMemory
  <2> PICK c \in oidLeft : mcList' = [mcList EXCEPT ![c] = NullAddress[c[2]]] /\ oidLeft' = oidLeft \ {c}
    BY <1>3 DEF NdisZeroMemory
  <2>1. c[2] \in Halves
    BY <1>3 DEF NdisZeroMemory, Cells
  <2>2. NullAddress[c[2]] \in HalfValues
    BY <2>1, HalvesOf
  <2> QED BY <1>3, <2>2 DEF NdisZeroMemory
<1>4. CASE NdisMoveMemory
  <2> PICK c \in oidLeft : mcList' = [mcList EXCEPT ![c] = oidList[c[1]][c[2]]] /\ oidLeft' = oidLeft \ {c}
    BY <1>4 DEF NdisMoveMemory
  <2>1. c[1] \in 1 .. Len(oidList) /\ c[2] \in Halves
    BY <1>4 DEF NdisMoveMemory, CellsOf, Cells
  <2>2. oidList[c[1]] \in Addresses
    BY <2>1
  <2>3. oidList[c[1]][c[2]] \in HalfValues
    BY <2>1, <2>2, HalvesOf
  <2>4. mcList' \in [Cells -> HalfValues]
    BY <2>3
  <2> QED BY <1>4, <2>4 DEF NdisMoveMemory
<1>5. CASE ZeroDone
  BY <1>5 DEF ZeroDone, settings, CellsOf
<1>6. CASE SetListSize
  BY <1>6 DEF SetListSize
<1>7. CASE SetTun
  BY <1>7 DEF SetTun, oidVars
<1> QED BY <1>1, <1>2, <1>3, <1>4, <1>5, <1>6, <1>7 DEF OidStep, OidRequest

CallStep(w) == (\E f \in Frames : WriteBegin(w, f)) \/ JudgeStep(w) \/ BuildStep(w)

LEMMA LengthTypes ==
  ASSUME TypeOK, NEW w \in Writers
  PROVE  /\ frame[w].length \in 0 .. ULONG_MAX
         /\ prefix[w] \in {0, ETHERNET_HEADER_SIZE}
         /\ PacketLength(w) \in 0 .. ULONG_MAX
         /\ Strips(frame[w]) \in BOOLEAN
<1>1. frame[w].length \in 0 .. ULONG_MAX
  BY FramesAssumption DEF TypeOK, CallTypes
<1>2. PacketLength(w) \in 0 .. ULONG_MAX
  <2>1. stripped[w] => frame[w].length >= ETHERNET_HEADER_SIZE + VLAN_TAG_SIZE
    BY DEF TypeOK, Strips
  <2> QED BY <1>1, <2>1, BoundsAssumption
          DEF TypeOK, CallTypes, PacketLength, ETHERNET_HEADER_SIZE, VLAN_TAG_SIZE
<1>3. Strips(frame[w]) \in BOOLEAN
  BY DEF Strips
<1>4. prefix[w] \in {0, ETHERNET_HEADER_SIZE}
  BY DEF TypeOK, CallTypes
<1> QED BY <1>1, <1>2, <1>3, <1>4

LEMMA DescribeType ==
  ASSUME TypeOK, NEW w \in Writers
  PROVE  Describe(w) \in [flag : {"none", "p2p", "injected"}, offset : {0, VLAN_TAG_SIZE},
                          length : 0 .. ULONG_MAX]
<1>1. fullLength(w) \in 0 .. ULONG_MAX
  BY LengthTypes, BoundsAssumption
     DEF fullLength, ULongSum, ETHERNET_HEADER_SIZE, TAP_MIN_FRAME_SIZE
<1>2. TAP_MIN_FRAME_SIZE \in 0 .. ULONG_MAX
  BY BoundsAssumption DEF TAP_MIN_FRAME_SIZE
<1> QED BY <1>1, <1>2 DEF Describe

\* The entry after one that is in the array is at most one beyond it.
LEMMA NextTyped ==
  ASSUME TypeOK, NEW w \in Writers, at[w] \in {"tail", "head"}, NextEntry(w)
  PROVE  entry' \in [Writers -> 1 .. TAP_MAX_MCAST_LIST + 1] /\ SearchInArray'
<1> USE DEF TypeOK, CallTypes, SearchInArray, NextEntry, Goto
<1>1. entry[w] + 1 \in 1 .. TAP_MAX_MCAST_LIST + 1
  BY BoundsAssumption
<1>2. entry' \in [Writers -> 1 .. TAP_MAX_MCAST_LIST + 1]
  BY <1>1
<1>3. \A v \in Writers : at'[v] \in {"tail", "head"} => at[v] = at'[v] /\ entry'[v] = entry[v]
  OBVIOUS
<1> QED BY <1>2, <1>3

LEMMA CallTyped ==
  ASSUME TypeOK, NEW w \in Writers, CallStep(w)
  PROVE  /\ CallTypes' /\ verdict' \in [Writers -> {"none"} \cup Verdicts]
         /\ SearchInArray'
         /\ \A v \in Writers : stripped'[v] => Strips(frame'[v])
<1> USE DEF TypeOK, CallTypes, HistoryTypes, SearchInArray
<1> USE DEF JudgeLabels, BuildLabels, Step, Goto, frameVars, judgeVars, buildVars
<1>1. ASSUME NEW f \in Frames, WriteBegin(w, f)
     PROVE  /\ CallTypes' /\ verdict' \in [Writers -> {"none"} \cup Verdicts]
            /\ SearchInArray'
            /\ \A v \in Writers : stripped'[v] => Strips(frame'[v])
  BY <1>1 DEF WriteBegin
<1>2. CASE TestTap(w)
  BY <1>2, LengthTypes DEF TestTap
<1>3. CASE TestTun(w)
  BY <1>3 DEF TestTun, Judge, Verdicts
<1>4. CASE TestDirected(w)
  BY <1>4 DEF TestDirected, Judge, Verdicts
<1>5. CASE TestPromiscuous(w)
  BY <1>5 DEF TestPromiscuous
<1>6. CASE Classify(w)
  <2>1. 1 \in 1 .. TAP_MAX_MCAST_LIST + 1
    BY BoundsAssumption
  <2>2. type' \in [Writers -> SUBSET FilterBits] /\ entry' \in [Writers -> 1 .. TAP_MAX_MCAST_LIST + 1]
    BY <1>6, <2>1 DEF Classify, SetType, FilterBits
  <2>3. /\ at' \in [Writers -> {"idle"} \cup JudgeLabels \cup BuildLabels]
        /\ at'[w] \notin {"tail", "head"}
    BY <1>6 DEF Classify
  <2>4. \A v \in Writers : at'[v] \in {"tail", "head"} => at[v] = at'[v] /\ entry'[v] = entry[v]
    BY <1>6, <2>3 DEF Classify, SetType
  <2> QED BY <1>6, <2>2, <2>3, <2>4 DEF Classify
<1>7. CASE CompareTail(w)
  <2>1. /\ at' \in [Writers -> {"idle"} \cup JudgeLabels \cup BuildLabels] /\ type' = type
        /\ UNCHANGED <<frame, stripped, prefix, verdict, held, nbl>>
    BY <1>7 DEF CompareTail, NextEntry
  <2>2. CASE Goto(w, "head") /\ entry' = entry
    <3>1. SearchInArray'
      BY <1>7, <2>2 DEF CompareTail
    <3> QED BY <2>1, <2>2, <3>1
  <2>3. CASE NextEntry(w)
    <3>1. entry' \in [Writers -> 1 .. TAP_MAX_MCAST_LIST + 1] /\ SearchInArray'
      BY <1>7, <2>3, NextTyped DEF CompareTail
    <3> QED BY <2>1, <3>1
  <2> QED BY <1>7, <2>2, <2>3 DEF CompareTail
<1>8. CASE CompareHead(w)
  <2>1. /\ at' \in [Writers -> {"idle"} \cup JudgeLabels \cup BuildLabels]
        /\ UNCHANGED <<frame, stripped, prefix, verdict, held, nbl>>
    BY <1>8 DEF CompareHead, NextEntry
  <2>2. type' \in [Writers -> SUBSET FilterBits]
    BY <1>8 DEF CompareHead, NextEntry, SetType, FilterBits
  <2>3. CASE Goto(w, "recheck") /\ entry' = entry
    <3>1. SearchInArray'
      BY <2>1, <2>3
    <3> QED BY <2>1, <2>2, <2>3, <3>1
  <2>4. CASE NextEntry(w)
    <3>1. entry' \in [Writers -> 1 .. TAP_MAX_MCAST_LIST + 1] /\ SearchInArray'
      BY <1>8, <2>4, NextTyped DEF CompareHead
    <3> QED BY <2>1, <2>2, <3>1
  <2> QED BY <1>8, <2>3, <2>4 DEF CompareHead, SetType
<1>9. CASE Recheck(w)
  BY <1>9 DEF Recheck, Judge, Verdicts
<1>10. CASE TestType(w)
  BY <1>10 DEF TestType, Judge, Verdicts
<1>11. CASE Build(w)
  BY <1>11 DEF Build
<1>12. CASE AllocateBuffer(w)
  <2>1. held' \in [Writers -> SUBSET {"buffer", "mdl", "nbl"}]
    BY <1>12 DEF AllocateBuffer
  <2>2. at' \in [Writers -> {"idle"} \cup JudgeLabels \cup BuildLabels]
        /\ at'[w] \notin {"tail", "head"}
    BY <1>12 DEF AllocateBuffer
  <2>3. \A v \in Writers : at'[v] \in {"tail", "head"} => at[v] = at'[v]
    BY <1>12, <2>2 DEF AllocateBuffer
  <2> QED BY <1>12, <2>1, <2>2, <2>3 DEF AllocateBuffer
<1>13. CASE AllocateMdl(w)
  <2>1. held' \in [Writers -> SUBSET {"buffer", "mdl", "nbl"}]
    BY <1>13 DEF AllocateMdl
  <2>2. at' \in [Writers -> {"idle"} \cup JudgeLabels \cup BuildLabels]
        /\ at'[w] \notin {"tail", "head"}
    BY <1>13 DEF AllocateMdl
  <2>3. \A v \in Writers : at'[v] \in {"tail", "head"} => at[v] = at'[v]
    BY <1>13, <2>2 DEF AllocateMdl
  <2> QED BY <1>13, <2>1, <2>2, <2>3 DEF AllocateMdl
<1>14. CASE NblFails(w)
  BY <1>14 DEF NblFails
<1>15. CASE AllocateNbl(w)
  <2>1. held' \in [Writers -> SUBSET {"buffer", "mdl", "nbl"}]
    BY <1>15 DEF AllocateNbl
  <2>2. nbl' \in [Writers -> [flag : {"none", "p2p", "injected"}, offset : {0, VLAN_TAG_SIZE},
                             length : 0 .. ULONG_MAX]]
    BY <1>15, DescribeType DEF AllocateNbl
  <2>3. \A v \in Writers : at'[v] \in {"tail", "head"} => at[v] = at'[v]
    BY <1>15 DEF AllocateNbl
  <2> QED BY <1>15, <2>1, <2>2, <2>3 DEF AllocateNbl
<1>16. CASE ReturnNbl(w)
  <2>1. held' \in [Writers -> SUBSET {"buffer", "mdl", "nbl"}]
    BY <1>16 DEF ReturnNbl
  <2>2. NoNbl \in [flag : {"none", "p2p", "injected"}, offset : {0, VLAN_TAG_SIZE},
                   length : 0 .. ULONG_MAX]
    BY BoundsAssumption DEF NoNbl, TAP_MIN_FRAME_SIZE
  <2>3. \A v \in Writers : at'[v] \in {"tail", "head"} => at[v] = at'[v]
    BY <1>16 DEF ReturnNbl
  <2> QED BY <1>16, <2>1, <2>2, <2>3 DEF ReturnNbl
<1>17. CASE TestSize(w)
  <2>1. ~(entry[w] > ulMCListSize) => entry[w] <= TAP_MAX_MCAST_LIST
    BY BoundsAssumption DEF SettingTypes
  <2>2. /\ type' \in [Writers -> SUBSET FilterBits]
        /\ UNCHANGED <<frame, stripped, prefix, entry, verdict, held, nbl>>
    BY <1>17 DEF TestSize, SetType, FilterBits
  <2>3. CASE Goto(w, "recheck")
    BY <2>2, <2>3
  <2>4. CASE ~(entry[w] > ulMCListSize) /\ Goto(w, "tail")
    BY <2>1, <2>2, <2>4
  <2> QED BY <1>17, <2>3, <2>4 DEF TestSize
<1> QED BY <1>1, <1>2, <1>3, <1>4, <1>5, <1>6, <1>7, <1>8, <1>9, <1>10, <1>11, <1>12, <1>13,
           <1>14, <1>15, <1>16, <1>17 DEF CallStep, JudgeStep, BuildStep

\* Every variable has its type, which includes where the searches are in the array.
THEOREM TypeCorrect == Spec => []TypeOK
<1>1. Init => TypeOK
  <2> SUFFICES ASSUME Init PROVE TypeOK
    OBVIOUS
  <2>1. SettingTypes
    <3>1. mcList \in [Cells -> HalfValues]
      <4>1. \A c \in Cells : NullAddress[c[2]] \in HalfValues
        BY HalvesOf DEF Cells
      <4> QED BY <4>1 DEF Init
    <3>2. 0 \in 0 .. TAP_MAX_MCAST_LIST
      BY BoundsAssumption
    <3> QED BY <3>1, <3>2 DEF Init, SettingTypes
  <2>2. OidTypes
    BY BoundsAssumption DEF Init, OidTypes, OidLabels
  <2>3. CallTypes
    <3>1. NoNbl \in [flag : {"none", "p2p", "injected"}, offset : {0, VLAN_TAG_SIZE},
                     length : 0 .. ULONG_MAX]
      BY BoundsAssumption DEF NoNbl, TAP_MIN_FRAME_SIZE
    <3>2. 1 \in 1 .. TAP_MAX_MCAST_LIST + 1
      BY BoundsAssumption
    <3> QED BY <3>1, <3>2 DEF Init, CallTypes
  <2>4. HistoryTypes
    BY DEF Init, HistoryTypes
  <2> QED BY <2>1, <2>2, <2>3, <2>4 DEF Init, TypeOK, SearchInArray
<1>2. TypeOK /\ [Next]_vars => TypeOK'
  <2> SUFFICES ASSUME TypeOK, [Next]_vars PROVE TypeOK'
    OBVIOUS
  <2>1. ASSUME Watch, OidStep PROVE TypeOK'
    <3>1. UNCHANGED <<at, frame, stripped, prefix, type, entry, verdict, held, nbl>>
      BY <2>1 DEF OidStep, OidRequest, tapSetPacketFilter, tapSetMulticastList, NdisZeroMemory,
         NdisMoveMemory, ZeroDone, SetListSize, SetTun, frameVars, judgeVars, buildVars
    <3>2. CallTypes' /\ verdict' \in [Writers -> {"none"} \cup Verdicts]
      BY <3>1 DEF TypeOK, CallTypes, HistoryTypes
    <3>3. HistoryTypes'
      BY <2>1, <3>2, WatchTypes DEF TypeOK, HistoryTypes
    <3>4. SettingTypes' /\ OidTypes'
      BY <2>1, OidTyped
    <3> QED BY <3>1, <3>2, <3>3, <3>4 DEF TypeOK, SearchInArray, Strips
  <2>2. ASSUME Watch, NEW w \in Writers, CallStep(w) PROVE TypeOK'
    <3>1. UNCHANGED <<settings, oidVars>>
      BY <2>2 DEF CallStep, JudgeStep, BuildStep, WriteBegin, TestTap, TestTun, TestDirected,
         TestPromiscuous, Classify, TestSize, CompareTail, CompareHead, Recheck, TestType, Build,
         AllocateBuffer, AllocateMdl, NblFails, AllocateNbl, ReturnNbl
    <3>2. SettingTypes' /\ OidTypes'
      BY <3>1 DEF TypeOK, SettingTypes, OidTypes, settings, oidVars, CellsOf
    <3>3. HistoryTypes'
      BY <2>2, CallTyped, WatchTypes DEF TypeOK, HistoryTypes
    <3> QED BY <2>2, <3>2, <3>3, CallTyped DEF TypeOK
  <2>3. CASE UNCHANGED vars
    BY <2>3 DEF vars, TypeOK, SearchInArray, SettingTypes, OidTypes, CallTypes, HistoryTypes, settings, oidVars,
       frameVars, judgeVars, buildVars, CellsOf, Strips
  <2> QED BY <2>1, <2>2, <2>3 DEF Next, Action, OidStep, CallStep
<1> QED BY <1>1, <1>2, PTL DEF Spec

\* No write reads an address beyond the array of the multicast list, however the list and
\* its size change under it.
THEOREM SearchCorrect == Spec => []SearchInArray
<1>1. TypeOK => SearchInArray
  BY DEF TypeOK
<1> QED BY <1>1, TypeCorrect, PTL

-----------------------------------------------------------------------------
(* What is allocated for a frame                                           *)

\* What hangs on the NBL of a frame.
Attached(w) == IF IsShort(w) THEN {"buffer", "mdl"} ELSE IF prefix[w] > 0 THEN {"mdl"} ELSE {}

\* What is held at each point, which the flag of the NBL has to tell again when the host
\* returns it; a header is put before a frame only if none was removed from it.
HeldAt(w) ==
  /\ at[w] \in {"idle", "build", "buffer"} \cup JudgeLabels => held[w] = {}
  /\ at[w] = "buffer" => IsShort(w)
  /\ at[w] = "mdl" => /\ held[w] = (IF IsShort(w) THEN {"buffer"} ELSE {})
                      /\ IsShort(w) \/ prefix[w] > 0
  /\ at[w] = "nbl" => held[w] = Attached(w)
  /\ at[w] = "host" => held[w] = Attached(w) \cup {"nbl"} /\ nbl[w] = Describe(w)
  /\ at[w] \in {"buffer", "mdl", "nbl", "host"} => ~TooLong(w)
  /\ at[w] \in {"tap", "tun", "directed"} => ~stripped[w]
  /\ at[w] \in JudgeLabels \ {"directed"} => prefix[w] = 0
  /\ prefix[w] = 0 \/ ~stripped[w]

HeldInv == \A w \in Writers : HeldAt(w)

\* Nothing about a frame's NBL depends on anything but the frame's own variables.
LEMMA SameFrame ==
  ASSUME NEW w, frame'[w] = frame[w], stripped'[w] = stripped[w], prefix'[w] = prefix[w]
  PROVE  /\ IsShort(w)' = IsShort(w) /\ TooLong(w)' = TooLong(w)
         /\ Describe(w)' = Describe(w) /\ Attached(w)' = Attached(w)
BY DEF IsShort, TooLong, Describe, Attached, fullLength, ULongSum, PacketLength

LEMMA SameHeld ==
  ASSUME NEW w, HeldAt(w), frame'[w] = frame[w], stripped'[w] = stripped[w], prefix'[w] = prefix[w],
         at'[w] = at[w], held'[w] = held[w], nbl'[w] = nbl[w]
  PROVE  HeldAt(w)'
BY SameFrame DEF HeldAt

LEMMA HeldJudge ==
  ASSUME TypeOK, NEW w \in Writers, HeldAt(w), JudgeStep(w)
  PROVE  HeldAt(w)'
<1> USE DEF TypeOK, CallTypes, JudgeLabels, Step, Goto, frameVars, judgeVars, buildVars, Judge
<1>1. CASE TestTap(w)
  BY <1>1, LengthTypes DEF TestTap, HeldAt
<1>2. CASE TestTun(w)
  BY <1>2 DEF TestTun, HeldAt
<1>3. CASE TestDirected(w)
  BY <1>3 DEF TestDirected, HeldAt
<1>4. CASE TestPromiscuous(w)
  BY <1>4 DEF TestPromiscuous, HeldAt
<1>5. CASE Classify(w)
  BY <1>5 DEF Classify, HeldAt
<1>6. CASE CompareTail(w)
  BY <1>6 DEF CompareTail, NextEntry, HeldAt
<1>7. CASE CompareHead(w)
  BY <1>7 DEF CompareHead, NextEntry, HeldAt
<1>8. CASE Recheck(w)
  BY <1>8 DEF Recheck, HeldAt
<1>9. CASE TestType(w)
  BY <1>9 DEF TestType, HeldAt
<1>10. CASE TestSize(w)
  BY <1>10 DEF TestSize, HeldAt
<1> QED BY <1>1, <1>2, <1>3, <1>4, <1>5, <1>6, <1>7, <1>8, <1>9, <1>10 DEF JudgeStep

LEMMA HeldBuild ==
  ASSUME TypeOK, NEW w \in Writers, HeldAt(w), BuildStep(w)
  PROVE  HeldAt(w)'
<1> USE DEF TypeOK, CallTypes, JudgeLabels, Step, Goto, frameVars, judgeVars, buildVars
<1>0. /\ IsShort(w)' = IsShort(w) /\ TooLong(w)' = TooLong(w)
      /\ Describe(w)' = Describe(w) /\ Attached(w)' = Attached(w)
  <2>1. UNCHANGED <<frame, stripped, prefix>>
    BY DEF BuildStep, Build, AllocateBuffer, AllocateMdl, NblFails, AllocateNbl, ReturnNbl
  <2> QED BY <2>1, SameFrame
<1>1. CASE Build(w)
  BY <1>0, <1>1, LengthTypes DEF Build, HeldAt, Attached
<1>2. CASE AllocateBuffer(w)
  BY <1>0, <1>2 DEF AllocateBuffer, HeldAt
<1>3. CASE AllocateMdl(w)
  <2>1. /\ at[w] = "mdl" /\ held[w] = (IF IsShort(w) THEN {"buffer"} ELSE {})
        /\ IsShort(w) \/ prefix[w] > 0
        /\ UNCHANGED <<frame, stripped, prefix, nbl>>
    BY <1>3 DEF AllocateMdl, HeldAt
  <2>2. CASE at'[w] = "idle"
    <3>1. held'[w] = {}
      BY <1>3, <2>1, <2>2 DEF AllocateMdl
    <3> QED BY <2>1, <2>2, <3>1 DEF HeldAt
  <2>3. CASE at'[w] = "nbl"
    <3>1. held'[w] = Attached(w)
      BY <1>3, <2>1, <2>3 DEF AllocateMdl, Attached
    <3> QED BY <1>0, <2>1, <2>3, <3>1 DEF HeldAt
  <2> QED BY <1>3, <2>2, <2>3 DEF AllocateMdl
<1>4. CASE NblFails(w)
  BY <1>0, <1>4 DEF NblFails, HeldAt, Attached
<1>5. CASE AllocateNbl(w)
  BY <1>0, <1>5 DEF AllocateNbl, HeldAt
<1>6. CASE ReturnNbl(w)
  BY <1>0, <1>6 DEF ReturnNbl, HeldAt, Attached, Describe
<1> QED BY <1>1, <1>2, <1>3, <1>4, <1>5, <1>6 DEF BuildStep

LEMMA HeldCorrect == Spec => []HeldInv
<1>1. Init => HeldInv
  BY DEF Init, HeldInv, HeldAt, JudgeLabels
<1>2. TypeOK /\ HeldInv /\ [Next]_vars => HeldInv'
  <2> SUFFICES ASSUME TypeOK, HeldInv, [Next]_vars, NEW v \in Writers PROVE HeldAt(v)'
    BY DEF HeldInv
  <2>0. HeldAt(v)
    BY DEF HeldInv
  <2>1. CASE OidStep \/ UNCHANGED vars
    <3>1. UNCHANGED <<at, frame, stripped, prefix, held, nbl>>
      BY <2>1 DEF OidStep, OidRequest, tapSetPacketFilter, tapSetMulticastList, NdisZeroMemory,
         NdisMoveMemory, ZeroDone, SetListSize, SetTun, frameVars, judgeVars, buildVars, vars
    <3> QED BY <2>0, <3>1, SameHeld
  <2>2. ASSUME NEW w \in Writers, CallStep(w), w # v PROVE HeldAt(v)'
    <3>1. /\ at'[v] = at[v] /\ frame'[v] = frame[v] /\ stripped'[v] = stripped[v]
          /\ prefix'[v] = prefix[v] /\ held'[v] = held[v] /\ nbl'[v] = nbl[v]
      BY <2>2 DEF CallStep, JudgeStep, BuildStep, WriteBegin, TestTap, TestTun, TestDirected,
         TestPromiscuous, Classify, TestSize, CompareTail, CompareHead, NextEntry, Recheck, TestType, Build,
         AllocateBuffer, AllocateMdl, NblFails, AllocateNbl, ReturnNbl, Step, Goto, Judge,
         frameVars, judgeVars, buildVars, TypeOK, CallTypes
    <3> QED BY <2>0, <3>1, SameHeld
  <2>3. ASSUME NEW f \in Frames, WriteBegin(v, f) PROVE HeldAt(v)'
    BY <2>0, <2>3 DEF WriteBegin, HeldAt, JudgeLabels, Step, Goto, buildVars, TypeOK, CallTypes
  <2> QED BY <2>0, <2>1, <2>2, <2>3, HeldJudge, HeldBuild DEF Next, Action, OidStep, CallStep
<1> QED BY <1>1, <1>2, TypeCorrect, PTL DEF Spec

\* Nothing is left when a call is over, whichever allocation failed.
THEOREM LeakFree == Spec => []NothingLeaks
<1>1. HeldInv => NothingLeaks
  BY DEF HeldInv, HeldAt, NothingLeaks
<1> QED BY <1>1, HeldCorrect, PTL

\* The host is given the whole frame and nothing else.
THEOREM FrameWhole == Spec => []IndicatedWhole
<1>1. TypeOK /\ HeldInv => IndicatedWhole
  <2> SUFFICES ASSUME TypeOK, HeldInv, NEW w \in Writers, at[w] = "host"
               PROVE  /\ nbl[w].offset + nbl[w].length = ChainLength(w)
                      /\ nbl[w].length >= TAP_MIN_FRAME_SIZE
                      /\ nbl[w].length >= PacketLength(w) + prefix[w]
    BY DEF IndicatedWhole
  <2>1. nbl[w] = Describe(w) /\ ~TooLong(w) /\ (prefix[w] = 0 \/ ~stripped[w])
    BY DEF HeldInv, HeldAt
  <2>2. fullLength(w) = PacketLength(w) + prefix[w]
    BY <2>1, LengthTypes, BoundsAssumption DEF TooLong, fullLength, ULongSum, ETHERNET_HEADER_SIZE
  <2>3. fullLength(w) \in Nat
    BY <2>2, LengthTypes DEF ETHERNET_HEADER_SIZE
  <2>4. CASE IsShort(w)
    BY <2>1, <2>2, <2>3, <2>4 DEF Describe, ChainLength, IsShort, TAP_MIN_FRAME_SIZE
  <2>5. CASE ~IsShort(w)
    BY <2>1, <2>2, <2>3, <2>5, LengthTypes
       DEF Describe, ChainLength, IsShort, PacketLength, TAP_MIN_FRAME_SIZE, ETHERNET_HEADER_SIZE,
           VLAN_TAG_SIZE
  <2> QED BY <2>4, <2>5
<1> QED BY <1>1, TypeCorrect, HeldCorrect, PTL

-----------------------------------------------------------------------------
(* Verdicts                                                                *)

\* The array holds the list in force unless a request is changing it, and a request that
\* copies leaves the new list behind.
ListInv ==
  /\ oidAt = "idle" =>
       /\ ulMCListSize = Len(inForce)
       /\ \A c \in CellsOf(inForce) : mcList[c] = inForce[c[1]][c[2]]
  /\ oidAt = "copy" => \A c \in CellsOf(oidList) \ oidLeft : mcList[c] = oidList[c[1]][c[2]]

LEMMA ListCorrect == Spec => []ListInv
<1>1. Init => ListInv
  BY DEF Init, ListInv, CellsOf, Cells
<1>2. TypeOK /\ ListInv /\ [Next]_vars => ListInv'
  <2> SUFFICES ASSUME TypeOK, ListInv, [Next]_vars PROVE ListInv'
    OBVIOUS
  <2> USE DEF TypeOK, SettingTypes, OidTypes
  <2>1. ASSUME NEW filter \in Filters, tapSetPacketFilter(filter) PROVE ListInv'
    BY <2>1 DEF tapSetPacketFilter, oidVars, ListInv, CellsOf
  <2>2. ASSUME NEW list \in Lists, tapSetMulticastList(list) PROVE ListInv'
    BY <2>2 DEF tapSetMulticastList, ListInv
  <2>3. CASE NdisZeroMemory
    BY <2>3 DEF NdisZeroMemory, ListInv
  <2>4. CASE NdisMoveMemory
    BY <2>4 DEF NdisMoveMemory, ListInv, CellsOf
  <2>5. CASE ZeroDone
    BY <2>5 DEF ZeroDone, ListInv, CellsOf
  <2>6. CASE SetListSize
    BY <2>6 DEF SetListSize, ListInv, CellsOf
  <2>7. CASE SetTun
    BY <2>7 DEF SetTun, oidVars, ListInv, CellsOf
  <2>8. CASE (\E w \in Writers : CallStep(w)) \/ UNCHANGED vars
    <3>1. UNCHANGED <<settings, oidVars>>
      BY <2>8 DEF CallStep, JudgeStep, BuildStep, WriteBegin, TestTap, TestTun, TestDirected,
         TestPromiscuous, Classify, TestSize, CompareTail, CompareHead, Recheck, TestType, Build,
         AllocateBuffer, AllocateMdl, NblFails, AllocateNbl, ReturnNbl, vars
    <3> QED BY <3>1 DEF settings, oidVars, ListInv, CellsOf
  <2> QED BY <2>1, <2>2, <2>3, <2>4, <2>5, <2>6, <2>7, <2>8
          DEF Next, Action, OidStep, OidRequest, CallStep
<1> QED BY <1>1, <1>2, TypeCorrect, PTL DEF Spec

Now(w) == Verdict(tun, packetFilter, inForce, frame[w])

\* What an undisturbed write knows at each point of its judgement.
Knows(w) ==
  /\ frame[w].kind = "multicast" => oidAt = "idle"
  /\ at[w] = "tun" => tun \/ frame[w].length < ETHERNET_HEADER_SIZE
  /\ at[w] = "directed" => tun /\ frame[w].length >= IP_HEADER_SIZE
  /\ at[w] \in JudgeLabels \ {"tap", "tun", "directed"} =>
       ~tun /\ frame[w].length >= ETHERNET_HEADER_SIZE
  /\ at[w] \in {"classify", "size", "tail", "head", "type"} => "promiscuous" \notin packetFilter
  /\ at[w] \in {"size", "tail", "head"} =>
       /\ frame[w].kind = "multicast"
       /\ \A j \in 1 .. Len(inForce) : j < entry[w] => inForce[j] # frame[w].to
  /\ at[w] \in {"tail", "head"} => entry[w] <= Len(inForce)
  /\ at[w] = "head" => inForce[entry[w]]["tail"] = frame[w].to["tail"]
  /\ at[w] \in {"recheck", "type"} =>
       "promiscuous" \in packetFilter \/ type[w] = FrameType(inForce, frame[w])

JudgeAt(w) ==
  /\ at[w] \in JudgeLabels => verdict[w] = "none"
  /\ at[w] \in BuildLabels => verdict[w] = "accepted"
  /\ at[w] \in JudgeLabels => Now(w) \in seen[w] /\ (disturbed[w] \/ Knows(w))
  /\ verdict[w] \in Verdicts => disturbed[w] \/ verdict[w] \in seen[w]

JudgeInv == \A w \in Writers : JudgeAt(w)

\* What the history makes of a write that is being judged.
LEMMA Watched ==
  ASSUME TypeOK, Watch, NEW w \in Writers, JudgeAt(w), at[w] \in JudgeLabels
  PROVE  /\ seen'[w] = seen[w] \cup {Now(w)'}
         /\ disturbed'[w] = (disturbed[w] \/ Confusing(w))
<1>1. Judging(w)
  BY DEF Judging, JudgeAt, JudgeLabels
<1>2. at[w] # "idle"
  BY DEF JudgeLabels
<1>3. seen'[w] = seen[w] \cup {Now(w)'}
  BY <1>1, <1>2 DEF Watch, Now
<1>4. disturbed'[w] = (disturbed[w] \/ Confusing(w))
  BY <1>1, <1>2, Zenon DEF Watch
<1> QED BY <1>3, <1>4

\* Once a frame is judged its history stays.
LEMMA Unwatched ==
  ASSUME TypeOK, Watch, NEW w \in Writers, JudgeAt(w), at[w] \notin JudgeLabels,
         at[w] # "idle" \/ at'[w] = "idle"
  PROVE  seen'[w] = seen[w] /\ disturbed'[w] = disturbed[w]
<1>1. ~Judging(w)
  <2>1. at[w] \in {"idle"} \cup BuildLabels
    BY DEF TypeOK, CallTypes
  <2> QED BY <2>1 DEF Judging, JudgeAt
<1>2. seen'[w] = seen[w]
  BY <1>1 DEF Watch
<1>3. disturbed'[w] = disturbed[w]
  BY <1>1, Zenon DEF Watch
<1> QED BY <1>2, <1>3

LEMMA SettingsKept ==
  ASSUME NEW w \in Writers, CallStep(w)
  PROVE  UNCHANGED <<tun, packetFilter, mcList, ulMCListSize, oidAt, oidLeft, oidList, inForce>>
BY DEF CallStep, JudgeStep, BuildStep, WriteBegin, TestTap, TestTun, TestDirected,
   TestPromiscuous, Classify, TestSize, CompareTail, CompareHead, Recheck, TestType, Build,
   AllocateBuffer, AllocateMdl, NblFails, AllocateNbl, ReturnNbl, settings, oidVars

LEMMA JudgeBegin ==
  ASSUME TypeOK, Watch, NEW w \in Writers, NEW f \in Frames, WriteBegin(w, f)
  PROVE  JudgeAt(w)'
<1>1. at[w] = "idle" /\ at'[w] = "tap" /\ verdict'[w] = "none"
  BY DEF WriteBegin, Step, Goto, TypeOK, CallTypes, HistoryTypes
<1>2. seen'[w] = {Now(w)'} /\ disturbed'[w] = Confusing(w)
  <2>1. seen'[w] = {Now(w)'}
    BY <1>1 DEF Watch, Now
  <2>2. disturbed'[w] = Confusing(w)
    BY <1>1, Zenon DEF Watch
  <2> QED BY <2>1, <2>2
<1>3. Confusing(w) \/ Knows(w)'
  BY <1>1 DEF Confusing, Knows, JudgeLabels
<1> QED BY <1>1, <1>2, <1>3 DEF JudgeAt, JudgeLabels, BuildLabels, Verdicts

\* A step that changes nothing a write reads, and nothing of the write.
LEMMA JudgeOther ==
  ASSUME TypeOK, Watch, NEW w \in Writers, JudgeAt(w),
         UNCHANGED <<tun, packetFilter, inForce, oidAt>>,
         at'[w] = at[w], frame'[w] = frame[w], type'[w] = type[w], entry'[w] = entry[w],
         verdict'[w] = verdict[w]
  PROVE  JudgeAt(w)'
<1>1. Now(w)' = Now(w) /\ (Knows(w) => Knows(w)')
  BY DEF Now, Verdict, Wanted, Knows
<1>2. CASE at[w] \in JudgeLabels
  <2>1. seen'[w] = seen[w] \cup {Now(w)'} /\ disturbed'[w] = (disturbed[w] \/ Confusing(w))
    BY <1>2, Watched
  <2>2. Now(w)' \in seen'[w] /\ (disturbed'[w] \/ Knows(w)')
    BY <1>1, <1>2, <2>1 DEF JudgeAt
  <2>3. verdict'[w] \notin Verdicts /\ at'[w] \notin BuildLabels
    BY <1>2 DEF JudgeAt, JudgeLabels, BuildLabels, Verdicts
  <2> QED BY <1>2, <2>2, <2>3 DEF JudgeAt
<1>3. CASE at[w] \notin JudgeLabels
  <2>1. seen'[w] = seen[w] /\ disturbed'[w] = disturbed[w]
    BY <1>3, Unwatched
  <2> QED BY <1>3, <2>1 DEF JudgeAt
<1> QED BY <1>2, <1>3

\* The multicast list matters for frames to multicast addresses only.
LEMMA TypeOfOthers ==
  \A list1, list2, f : f.kind # "multicast" /\ f.kind \in Kinds =>
    FrameType(list1, f) = FrameType(list2, f)
BY DEF FrameType, Kinds

\* A request that does not confuse a write leaves what the write knows as it was.
LEMMA JudgeOid ==
  ASSUME TypeOK, Watch, ListInv, OidStep, NEW w \in Writers, JudgeAt(w)
  PROVE  JudgeAt(w)'
<1>1. UNCHANGED <<at, frame, type, entry, verdict>>
  BY DEF OidStep, OidRequest, tapSetPacketFilter, tapSetMulticastList, NdisZeroMemory,
     NdisMoveMemory, ZeroDone, SetListSize, SetTun, frameVars, judgeVars
<1>2. CASE at[w] \in JudgeLabels
  <2>1. seen'[w] = seen[w] \cup {Now(w)'} /\ disturbed'[w] = (disturbed[w] \/ Confusing(w))
    BY <1>2, Watched
  <2>2. ASSUME ~disturbed[w], ~Confusing(w) PROVE Knows(w)'
    <3>1. Knows(w)
      BY <1>2, <2>2 DEF JudgeAt
    <3>2. tun' = tun /\ ("promiscuous" \in packetFilter' <=> "promiscuous" \in packetFilter)
      BY <2>2 DEF Confusing
    <3>3. CASE frame[w].kind = "multicast"
      <4>1. oidAt = "idle" /\ oidAt' = "idle"
        BY <1>1, <2>2, <3>3 DEF Confusing
      <4>2. inForce' = inForce
        BY <4>1 DEF OidStep, OidRequest, tapSetPacketFilter, tapSetMulticastList, NdisZeroMemory,
           NdisMoveMemory, ZeroDone, SetListSize, SetTun, oidVars
      <4> QED BY <1>1, <3>1, <3>2, <4>1, <4>2 DEF Knows
    <3>4. CASE frame[w].kind # "multicast"
      <4>1. FrameType(inForce', frame[w]) = FrameType(inForce, frame[w])
        BY <3>4, TypeOfOthers, FramesAssumption DEF TypeOK, CallTypes
      <4>2. at[w] \notin {"size", "tail", "head"}
        BY <3>1, <3>4 DEF Knows
      <4> QED BY <1>1, <3>1, <3>2, <3>4, <4>1, <4>2 DEF Knows
    <3> QED BY <3>3, <3>4
  <2>3. verdict'[w] \notin Verdicts /\ at'[w] \notin BuildLabels /\ verdict'[w] = "none"
    BY <1>1, <1>2 DEF JudgeAt, JudgeLabels, BuildLabels, Verdicts
  <2>4. Now(w)' \in seen'[w]
    BY <2>1
  <2> QED BY <1>1, <2>1, <2>2, <2>3, <2>4 DEF JudgeAt
<1>3. CASE at[w] \notin JudgeLabels
  <2>1. seen'[w] = seen[w] /\ disturbed'[w] = disturbed[w]
    BY <1>1, <1>3, Unwatched
  <2> QED BY <1>1, <1>3, <2>1 DEF JudgeAt
<1> QED BY <1>2, <1>3

LEMMA JudgeBuild ==
  ASSUME TypeOK, Watch, NEW w \in Writers, JudgeAt(w), BuildStep(w)
  PROVE  JudgeAt(w)'
<1>1. /\ at[w] \in BuildLabels /\ at'[w] \in BuildLabels \cup {"idle"}
      /\ verdict'[w] = verdict[w]
  BY DEF BuildStep, Build, AllocateBuffer, AllocateMdl, NblFails, AllocateNbl, ReturnNbl, Step,
     Goto, judgeVars, BuildLabels, TypeOK, CallTypes
<1>2. at[w] \notin JudgeLabels /\ at'[w] \notin JudgeLabels /\ at[w] # "idle"
  BY <1>1 DEF BuildLabels, JudgeLabels
<1>3. seen'[w] = seen[w] /\ disturbed'[w] = disturbed[w]
  BY <1>2, Unwatched
<1> QED BY <1>1, <1>2, <1>3 DEF JudgeAt

\* A step that judges a frame gives it the verdict of this instant, if the write knows
\* what it should.
LEMMA JudgeEnd ==
  ASSUME TypeOK, Watch, NEW w \in Writers, JudgeAt(w), at[w] \in JudgeLabels,
         CallStep(w), frame'[w] = frame[w],
         NEW v \in Verdicts, Judge(w, v), Knows(w) => v = Now(w)
  PROVE  JudgeAt(w)'
<1>1. at'[w] \in {"build", "idle"} /\ verdict'[w] = v /\ (at'[w] = "build" => v = "accepted")
  BY DEF Judge, Goto, TypeOK, CallTypes, HistoryTypes, JudgeLabels
<1>2. seen'[w] = seen[w] \cup {Now(w)'} /\ disturbed'[w] = (disturbed[w] \/ Confusing(w))
  BY Watched
<1>3. Now(w)' = Now(w)
  BY SettingsKept DEF Now
<1>4. disturbed'[w] \/ v \in seen'[w]
  BY <1>2, <1>3 DEF JudgeAt
<1> QED BY <1>1, <1>4 DEF JudgeAt, JudgeLabels, BuildLabels

\* A step that goes on.
LEMMA JudgeOn ==
  ASSUME TypeOK, Watch, NEW w \in Writers, JudgeAt(w), at[w] \in JudgeLabels,
         CallStep(w), frame'[w] = frame[w], verdict'[w] = verdict[w], at'[w] \in JudgeLabels,
         Knows(w) => Knows(w)'
  PROVE  JudgeAt(w)'
<1>1. seen'[w] = seen[w] \cup {Now(w)'} /\ disturbed'[w] = (disturbed[w] \/ Confusing(w))
  BY Watched
<1>2. disturbed'[w] \/ Knows(w)'
  BY <1>1 DEF JudgeAt
<1>3. verdict'[w] = "none"
  BY DEF JudgeAt
<1> QED BY <1>1, <1>2, <1>3 DEF JudgeAt, JudgeLabels, BuildLabels, Verdicts

LEMMA JudgeSteps ==
  ASSUME TypeOK, Watch, ListInv, NEW w \in Writers, JudgeAt(w), JudgeStep(w)
  PROVE  JudgeAt(w)'
<1>0. /\ CallStep(w) /\ UNCHANGED <<tun, packetFilter, mcList, ulMCListSize, oidAt, inForce>>
      /\ frame' = frame
  <2>1. CallStep(w)
    BY DEF CallStep
  <2>2. frame' = frame
    BY DEF JudgeStep, TestTap, TestTun, TestDirected, TestPromiscuous, Classify, TestSize, CompareTail,
       CompareHead, Recheck, TestType, frameVars
  <2> QED BY <2>1, <2>2, SettingsKept
<1>t. /\ frame[w] \in Frames /\ frame[w].length \in 0 .. ULONG_MAX /\ frame[w].kind \in Kinds
      /\ frame[w].to \in Addresses
  BY FramesAssumption DEF TypeOK, CallTypes
<1> USE <1>0 DEF JudgeLabels
<1>1. CASE TestTap(w)
  <2>1. at[w] = "tap" /\ at'[w] \in {"promiscuous", "tun"} /\ verdict'[w] = verdict[w]
    BY <1>1 DEF TestTap, Goto, judgeVars, TypeOK, CallTypes
  <2>2. Knows(w) => Knows(w)'
    BY <1>1, <1>t, <2>1 DEF TestTap, Goto, Knows, TypeOK, CallTypes, ETHERNET_HEADER_SIZE
  <2> QED BY <2>1, <2>2, JudgeOn
<1>2. CASE TestTun(w)
  <2>1. at[w] = "tun"
    BY <1>2 DEF TestTun
  <2>2. CASE tun /\ frame[w].length >= IP_HEADER_SIZE
    <3>1. at'[w] = "directed" /\ verdict'[w] = verdict[w]
      BY <1>2, <2>2 DEF TestTun, Goto, TypeOK, CallTypes
    <3>2. Knows(w) => Knows(w)'
      BY <2>2, <3>1 DEF Knows
    <3> QED BY <2>1, <3>1, <3>2, JudgeOn
  <2>3. CASE ~(tun /\ frame[w].length >= IP_HEADER_SIZE)
    <3>1. Judge(w, "tooSmall")
      BY <1>2, <2>3 DEF TestTun
    <3>2. Knows(w) => Now(w) = "tooSmall"
      BY <1>t, <2>1, <2>3 DEF Knows, Now, Verdict, IP_HEADER_SIZE, ETHERNET_HEADER_SIZE
    <3>3. "tooSmall" \in Verdicts
      BY DEF Verdicts
    <3> QED BY <2>1, <3>1, <3>2, <3>3, JudgeEnd
  <2> QED BY <2>2, <2>3
<1>3. CASE TestDirected(w)
  <2> DEFINE v == IF packetFilter \cap {"directed", "promiscuous"} # {} THEN "accepted" ELSE "filtered"
  <2>1. at[w] = "directed" /\ Judge(w, v) /\ v \in Verdicts
    BY <1>3 DEF TestDirected, Verdicts
  <2>2. Knows(w) => v = Now(w)
    BY <1>t, <2>1 DEF Knows, Now, Verdict, Wanted, IP_HEADER_SIZE
  <2> QED BY <2>1, <2>2, JudgeEnd
<1>4. CASE TestPromiscuous(w)
  <2>1. /\ at[w] = "promiscuous" /\ at'[w] \in {"recheck", "classify"} /\ verdict'[w] = verdict[w]
        /\ at'[w] = "recheck" <=> "promiscuous" \in packetFilter
    BY <1>4 DEF TestPromiscuous, Goto, judgeVars, TypeOK, CallTypes
  <2>2. Knows(w) => Knows(w)'
    BY <2>1 DEF Knows
  <2> QED BY <2>1, <2>2, JudgeOn
<1>5. CASE Classify(w)
  <2>1. at[w] = "classify" /\ at'[w] \in {"recheck", "size"} /\ verdict'[w] = verdict[w]
    BY <1>5 DEF Classify, Goto, TypeOK, CallTypes
  <2>2. at'[w] = "recheck" => type'[w] = FrameType(inForce, frame[w])
    BY <1>5 DEF Classify, Goto, SetType, FrameType, TypeOK, CallTypes
  <2>3. at'[w] = "size" => frame[w].kind = "multicast" /\ entry'[w] = 1
    BY <1>5 DEF Classify, Goto, SetType, TypeOK, CallTypes
  <2>4. Knows(w) => Knows(w)'
    BY <2>1, <2>2, <2>3 DEF Knows
  <2> QED BY <2>1, <2>4, JudgeOn
<1>6. CASE CompareTail(w)
  <2>1. at[w] = "tail" /\ at'[w] \in {"head", "size"} /\ verdict'[w] = verdict[w]
    BY <1>6 DEF CompareTail, NextEntry, Goto, TypeOK, CallTypes
  <2>2. ASSUME Knows(w) PROVE Knows(w)'
    <3>1. /\ frame[w].kind = "multicast" /\ oidAt = "idle" /\ entry[w] <= Len(inForce)
          /\ \A j \in 1 .. Len(inForce) : j < entry[w] => inForce[j] # frame[w].to
      BY <2>1, <2>2 DEF Knows
    <3>2. /\ entry[w] \in 1 .. TAP_MAX_MCAST_LIST + 1 /\ Len(inForce) \in Nat
          /\ Len(inForce) <= TAP_MAX_MCAST_LIST
      BY DEF TypeOK, CallTypes, OidTypes
    <3>3. <<entry[w], "tail">> \in CellsOf(inForce)
      BY <3>1, <3>2, BoundsAssumption DEF CellsOf, Cells, Halves
    <3>4. mcList[<<entry[w], "tail">>] = inForce[entry[w]]["tail"]
      BY <3>1, <3>3 DEF ListInv
    <3>5. CASE mcList[<<entry[w], "tail">>] = frame[w].to.tail
      <4>1. at'[w] = "head" /\ entry'[w] = entry[w]
        BY <1>6, <3>5 DEF CompareTail, Goto, TypeOK, CallTypes
      <4> QED BY <2>1, <2>2, <3>1, <3>4, <3>5, <4>1 DEF Knows
    <3>6. CASE mcList[<<entry[w], "tail">>] # frame[w].to.tail
      <4>1. at'[w] = "size" /\ entry'[w] = entry[w] + 1
        BY <1>6, <3>6 DEF CompareTail, NextEntry, Goto, TypeOK, CallTypes
      <4>2. inForce[entry[w]] # frame[w].to
        BY <3>4, <3>6
      <4>3. \A j \in 1 .. Len(inForce) : j < entry[w] + 1 => inForce[j] # frame[w].to
        BY <3>1, <3>2, <4>2, BoundsAssumption
      <4> QED BY <2>1, <2>2, <4>1, <4>3 DEF Knows
    <3> QED BY <3>5, <3>6
  <2> QED BY <2>1, <2>2, JudgeOn
<1>7. CASE CompareHead(w)
  <2>1. at[w] = "head" /\ at'[w] \in {"recheck", "size"} /\ verdict'[w] = verdict[w]
    BY <1>7 DEF CompareHead, NextEntry, Goto, TypeOK, CallTypes
  <2>2. ASSUME Knows(w) PROVE Knows(w)'
    <3>1. /\ frame[w].kind = "multicast" /\ oidAt = "idle" /\ entry[w] <= Len(inForce)
          /\ \A j \in 1 .. Len(inForce) : j < entry[w] => inForce[j] # frame[w].to
          /\ inForce[entry[w]]["tail"] = frame[w].to["tail"]
      BY <2>1, <2>2 DEF Knows
    <3>2. /\ entry[w] \in 1 .. TAP_MAX_MCAST_LIST + 1 /\ Len(inForce) \in Nat
          /\ Len(inForce) <= TAP_MAX_MCAST_LIST /\ inForce \in Seq(Addresses)
      BY DEF TypeOK, CallTypes, OidTypes
    <3>3. <<entry[w], "head">> \in CellsOf(inForce)
      BY <3>1, <3>2, BoundsAssumption DEF CellsOf, Cells, Halves
    <3>4. mcList[<<entry[w], "head">>] = inForce[entry[w]]["head"]
      BY <3>1, <3>3 DEF ListInv
    <3>5. entry[w] \in 1 .. Len(inForce)
      BY <3>1, <3>2, BoundsAssumption
    <3>6. inForce[entry[w]] \in Addresses
      BY <3>2, <3>5
    <3>7. CASE mcList[<<entry[w], "head">>] = frame[w].to.head
      <4>1. at'[w] = "recheck" /\ type'[w] = {"multicast", "allMulticast"}
        BY <1>7, <3>7 DEF CompareHead, SetType, Goto, TypeOK, CallTypes
      <4>2. inForce[entry[w]] = frame[w].to
        <5>1. \A h \in Halves : inForce[entry[w]][h] = frame[w].to[h]
          BY <3>1, <3>4, <3>7 DEF Halves
        <5>2. /\ inForce[entry[w]] = [h \in Halves |-> inForce[entry[w]][h]]
              /\ frame[w].to = [h \in Halves |-> frame[w].to[h]]
          BY <1>t, <3>6, HalvesOf
        <5> QED BY <5>1, <5>2
      <4>3. type'[w] = FrameType(inForce, frame[w])
        BY <3>1, <3>5, <4>1, <4>2 DEF FrameType
      <4> QED BY <2>1, <2>2, <4>1, <4>3 DEF Knows
    <3>8. CASE mcList[<<entry[w], "head">>] # frame[w].to.head
      <4>1. at'[w] = "size" /\ entry'[w] = entry[w] + 1
        BY <1>7, <3>8 DEF CompareHead, NextEntry, Goto, TypeOK, CallTypes
      <4>2. inForce[entry[w]] # frame[w].to
        BY <3>4, <3>8
      <4>3. \A j \in 1 .. Len(inForce) : j < entry[w] + 1 => inForce[j] # frame[w].to
        BY <3>1, <3>2, <4>2, BoundsAssumption
      <4> QED BY <2>1, <2>2, <4>1, <4>3 DEF Knows
    <3> QED BY <3>7, <3>8
  <2> QED BY <2>1, <2>2, JudgeOn
<1>8. CASE Recheck(w)
  <2>1. at[w] = "recheck"
    BY <1>8 DEF Recheck
  <2>2. CASE "promiscuous" \in packetFilter
    <3>1. Judge(w, "accepted") /\ "accepted" \in Verdicts
      BY <1>8, <2>2 DEF Recheck, Verdicts
    <3>2. Knows(w) => Now(w) = "accepted"
      BY <1>t, <2>1, <2>2 DEF Knows, Now, Verdict, Wanted, ETHERNET_HEADER_SIZE
    <3> QED BY <2>1, <3>1, <3>2, JudgeEnd
  <2>3. CASE "promiscuous" \notin packetFilter
    <3>1. at'[w] = "type" /\ verdict'[w] = verdict[w] /\ type'[w] = type[w]
      BY <1>8, <2>3 DEF Recheck, Goto, TypeOK, CallTypes
    <3>2. Knows(w) => Knows(w)'
      BY <2>1, <2>3, <3>1 DEF Knows
    <3> QED BY <2>1, <3>1, <3>2, JudgeOn
  <2> QED BY <2>2, <2>3
<1>9. CASE TestType(w)
  <2> DEFINE v == IF type[w] \cap packetFilter # {} THEN "accepted" ELSE "filtered"
  <2>1. at[w] = "type" /\ Judge(w, v) /\ v \in Verdicts
    BY <1>9 DEF TestType, Verdicts
  <2>2. Knows(w) => v = Now(w)
    BY <1>t, <2>1 DEF Knows, Now, Verdict, Wanted, ETHERNET_HEADER_SIZE
  <2> QED BY <2>1, <2>2, JudgeEnd
<1>10. CASE TestSize(w)
  <2>1. at[w] = "size" /\ at'[w] \in {"recheck", "tail"} /\ verdict'[w] = verdict[w]
    BY <1>10 DEF TestSize, Goto, TypeOK, CallTypes
  <2>2. ASSUME Knows(w) PROVE Knows(w)'
    <3>1. /\ frame[w].kind = "multicast" /\ ulMCListSize = Len(inForce)
          /\ \A j \in 1 .. Len(inForce) : j < entry[w] => inForce[j] # frame[w].to
      BY <2>1, <2>2 DEF Knows, ListInv
    <3>2. entry[w] \in 1 .. TAP_MAX_MCAST_LIST + 1 /\ Len(inForce) \in Nat
      BY DEF TypeOK, CallTypes, OidTypes
    <3>3. CASE entry[w] > Len(inForce)
      <4>1. at'[w] = "recheck" /\ type'[w] = {"allMulticast"}
        BY <1>10, <3>1, <3>3 DEF TestSize, SetType, Goto, TypeOK, CallTypes
      <4>2. ~\E j \in 1 .. Len(inForce) : inForce[j] = frame[w].to
        BY <3>1, <3>2, <3>3, BoundsAssumption
      <4>3. type'[w] = FrameType(inForce, frame[w])
        BY <3>1, <4>1, <4>2 DEF FrameType
      <4> QED BY <2>1, <2>2, <4>1, <4>3 DEF Knows
    <3>4. CASE entry[w] <= Len(inForce)
      <4>1. ~(entry[w] > ulMCListSize)
        BY <3>1, <3>2, <3>4, BoundsAssumption
      <4>2. at'[w] = "tail" /\ entry'[w] = entry[w]
        BY <1>10, <4>1 DEF TestSize, Goto, TypeOK, CallTypes
      <4> QED BY <2>1, <2>2, <3>4, <4>2 DEF Knows
    <3> QED BY <3>2, <3>3, <3>4, BoundsAssumption
  <2> QED BY <2>1, <2>2, JudgeOn
<1> QED BY <1>1, <1>2, <1>3, <1>4, <1>5, <1>6, <1>7, <1>8, <1>9, <1>10 DEF JudgeStep

LEMMA JudgeCorrect == Spec => []JudgeInv
<1>1. Init => JudgeInv
  BY DEF Init, JudgeInv, JudgeAt, JudgeLabels, BuildLabels, Verdicts
<1>2. TypeOK /\ ListInv /\ JudgeInv /\ [Next]_vars => JudgeInv'
  <2> SUFFICES ASSUME TypeOK, ListInv, JudgeInv, [Next]_vars, NEW v \in Writers PROVE JudgeAt(v)'
    BY DEF JudgeInv
  <2>0. JudgeAt(v)
    BY DEF JudgeInv
  <2>1. CASE OidStep /\ Watch
    BY <2>0, <2>1, JudgeOid
  <2>2. ASSUME Watch, NEW w \in Writers, CallStep(w), w # v PROVE JudgeAt(v)'
    <3>1. /\ at'[v] = at[v] /\ frame'[v] = frame[v] /\ type'[v] = type[v]
          /\ entry'[v] = entry[v] /\ verdict'[v] = verdict[v]
      BY <2>2 DEF CallStep, JudgeStep, BuildStep, WriteBegin, TestTap, TestTun, TestDirected,
         TestPromiscuous, Classify, TestSize, CompareTail, CompareHead, NextEntry, SetType, Recheck, TestType,
         Build, AllocateBuffer, AllocateMdl, NblFails, AllocateNbl, ReturnNbl, Step, Goto, Judge,
         frameVars, judgeVars, TypeOK, CallTypes, HistoryTypes
    <3> QED BY <2>0, <2>2, <3>1, SettingsKept, JudgeOther
  <2>3. ASSUME Watch, CallStep(v) PROVE JudgeAt(v)'
    BY <2>0, <2>3, JudgeBegin, JudgeSteps, JudgeBuild DEF CallStep
  <2>4. CASE UNCHANGED vars
    BY <2>0, <2>4 DEF vars, settings, oidVars, frameVars, judgeVars, buildVars, JudgeAt, Now,
       Verdict, Wanted, Knows
  <2> QED BY <2>1, <2>2, <2>3, <2>4 DEF Next, Action, OidStep, CallStep
<1> QED BY <1>1, <1>2, TypeCorrect, ListCorrect, PTL DEF Spec

\* No frame is judged by a mixture of settings, unless the write is confused in one of the
\* two ways told at the property.
THEOREM VerdictCorrect == Spec => []VerdictJustified
<1>1. JudgeInv => VerdictJustified
  BY DEF JudgeInv, JudgeAt, VerdictJustified
<1> QED BY <1>1, JudgeCorrect, PTL

-----------------------------------------------------------------------------
(* The answers to queries (TapOid)                                         *)

\* Asking again with the length asked for always succeeds, whatever the sizes are.
THEOREM RetryOK == RetrySucceeds
<1> SUFFICES ASSUME NEW oid \in Oids, NEW length \in BufferLengths,
                    Reply(oid, length).status # "success"
             PROVE  /\ Reply(oid, Reply(oid, length).needed).status = "success"
                    /\ Reply(oid, Reply(oid, length).needed).written <= Reply(oid, length).needed
  BY DEF RetrySucceeds
<1>0. length \in Nat
  BY LengthsAssumption
<1>1. CASE oid \in StructureOids
  <2>1. oid \notin FrameCountOids
    BY <1>1, OidsAssumption
  <2>2. /\ StructureSize[oid] \in Nat /\ RevisionSize[oid] \in Nat
        /\ StructureSize[oid] >= RevisionSize[oid]
    BY <1>1, SizesAssumption DEF Sizes
  <2>3. \A n : ulInfoLen(oid, n) = RevisionSize[oid]
    BY <1>1, <2>1 DEF ulInfoLen
  <2>4. length < StructureSize[oid] /\ Reply(oid, length).needed = StructureSize[oid]
    BY <1>0, <1>1, <2>2, <2>3 DEF Reply, TooShortForStructure
  <2> QED BY <1>0, <1>1, <2>2, <2>3, <2>4 DEF Reply, TooShortForStructure
<1>2. CASE oid \in FrameCountOids
  <2>1. oid \notin StructureOids
    BY <1>2, OidsAssumption
  <2>2. \A n : ulInfoLen(oid, n) = FrameCountLength(n)
    BY <1>2 DEF ulInfoLen
  <2>3. Reply(oid, length).needed = FrameCountLength(length)
    BY <1>0, <2>1, <2>2 DEF Reply, TooShortForStructure
  <2>4. FrameCountLength(length) \in {4, 8}
    BY DEF FrameCountLength, SizeofULong, SizeofULong64
  <2>5. FrameCountLength(4) = 4 /\ FrameCountLength(8) = 8
    BY DEF FrameCountLength, SizeofULong, SizeofULong64
  <2> QED BY <2>1, <2>2, <2>3, <2>4, <2>5 DEF Reply, TooShortForStructure
<1>3. CASE oid \notin StructureOids \cup FrameCountOids
  <2>1. \A n : ulInfoLen(oid, n) = ulInfoLen(oid, length)
    BY <1>3 DEF ulInfoLen
  <2>2. ulInfoLen(oid, length) \in Nat
    BY <1>3, SizesAssumption DEF ulInfoLen, SizeofULong, Sizes
  <2>3. Reply(oid, length).needed = ulInfoLen(oid, length)
    BY <1>0, <1>3, <2>2 DEF Reply, TooShortForStructure
  <2> QED BY <1>3, <2>1, <2>2, <2>3 DEF Reply, TooShortForStructure
<1> QED BY <1>1, <1>2, <1>3
=============================================================================
