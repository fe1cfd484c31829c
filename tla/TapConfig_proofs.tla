-------------------------- MODULE TapConfig_proofs --------------------------
(***************************************************************************)
(* Proofs about TapConfig, for any callers, addresses and number of calls. *)
(***************************************************************************)
EXTENDS TapConfig, TLAPS

configVars == <<cfg, callVars>>

\* The calls a caller can be in.
Resets == {[kind |-> "open"], [kind |-> "cleanup"]}
Calls == Requests \cup Resets

\* A call that makes assignments is one of these and has not made its last one.
CallInv ==
  \A c \in Callers : at[c] = "assign" => call[c] \in Calls /\ next[c] \in 1 .. LastOf(call[c])

TypeInv == ConfigTypeOK /\ CallInv

\* Where a call can be: none at all when idle, and a reset only makes assignments.
PlaceInv ==
  \A c \in Callers :
    /\ at[c] = "idle" <=> call[c] = NoCall
    /\ call[c] \in Resets => at[c] = "assign"

\* Which calls run together: a reset is alone in an open, and in a cleanup too unless
\* that came while an IOCTL was at work.
PhaseInv ==
  /\ \A c \in Callers : call[c] = [kind |-> "open"] => file = "opening"
  /\ \A c \in Callers : call[c] = [kind |-> "cleanup"] => file = "cleaning"
  /\ \A c, d \in Callers : call[c] \in Resets /\ call[d] \in Resets => c = d
  /\ file = "open" => ~session.raced
  /\ file \in {"closed", "opening"} \/ (file # "open" /\ ~session.raced) =>
       \A c \in Callers : call[c] \in Resets \cup {NoCall}

\* What a reset that is alone has cleared before its i-th assignment.
ResetUpTo(i) ==
  /\ i >= 2 => ~cfg.m_tun
  /\ i >= 3 => cfg.localIP = NoAddress /\ cfg.remote = AnyAddress /\ cfg.TapToUser = "none"
  /\ i >= 4 => ~cfg.dhcp_enabled
  /\ i >= 5 => /\ ~cfg.dhcp_server_arp /\ cfg.options_len = 0
               /\ cfg.dhcp_addr = NoAddress /\ cfg.dhcp_server_ip = NoAddress
  /\ i >= 6 => ~cfg.received_discover

ResetInv ==
  \A c \in Callers :
    call[c] \in Resets /\ (file = "opening" \/ ~session.raced) => ResetUpTo(next[c])

\* What an IOCTL that no cleanup overtakes has written before its i-th assignment is
\* still there then, whatever other IOCTLs write: they write no less.
TunUpTo(i) ==
  /\ i >= 3 => cfg.localIP # NoAddress
  /\ i >= 4 => cfg.TapToUser = "peer"

DhcpUpTo(i) ==
  /\ i >= 5 => cfg.dhcp_addr # NoAddress /\ cfg.dhcp_server_ip # NoAddress
  /\ i >= 6 => cfg.dhcp_server_mac # "none"

HasPeer == cfg.TapToUser = "peer"

IoctlInv ==
  ~session.raced => \A c \in Callers :
    /\ call[c].kind = "tun" /\ at[c] = "assign" => TunUpTo(next[c])
    /\ call[c].kind = "dhcp" /\ at[c] = "assign" => DhcpUpTo(next[c])
    /\ at[c] \in {"checkDhcp", "compare", "copyMac"} => HasPeer

\* What PublishedWhole says of the configuration.
Whole ==
  /\ cfg.dhcp_enabled =>
       cfg.dhcp_addr # NoAddress /\ cfg.dhcp_server_ip # NoAddress /\ cfg.dhcp_server_mac # "none"
  /\ cfg.m_tun => cfg.localIP # NoAddress /\ cfg.TapToUser = "peer"

\* No IOCTL takes away what another one needs.
NothingLost ==
  /\ \A i \in 1 .. 7 : TunUpTo(i) => TunUpTo(i)'
  /\ \A i \in 1 .. 7 : DhcpUpTo(i) => DhcpUpTo(i)'
  /\ HasPeer => HasPeer'

\* The device has been opened and not been configured since.
FreshInv ==
  file = "open" /\ session = NewSession =>
    cfg = PlainConfig /\ \A c \in Callers : call[c] = NoCall

ControlInv == PlaceInv /\ PhaseInv
DataInv == (~session.raced => Whole) /\ ResetInv /\ IoctlInv /\ FreshInv

\* What calls there are, and how many assignments each makes.
LEMMA CallKinds ==
  ASSUME NEW k \in Calls
  PROVE  \/ k.kind = "tun" /\ k.arg \in TunArg /\ LastOf(k) = 4
         \/ k.kind = "dhcp" /\ k.arg \in DhcpArg /\ LastOf(k) = 7
         \/ k.kind = "opt" /\ k.arg \in Nat /\ LastOf(k) = 2
         \/ k.kind \in {"open", "cleanup"} /\ LastOf(k) = 6
<1>1. CASE k \in [kind : {"tun"}, arg : TunArgs]
  BY <1>1, ConfigAssumption DEF LastOf
<1>2. CASE k \in [kind : {"dhcp"}, arg : DhcpArgs]
  BY <1>2, ConfigAssumption DEF LastOf
<1>3. CASE k \in [kind : {"opt"}, arg : OptLengths]
  <2>1. k.kind = "opt" /\ k.arg \in OptLengths
    BY <1>3
  <2>2. LastOf(k) = 2
    BY <2>1 DEF LastOf
  <2>3. k.arg \in Nat
    BY <2>1, ConfigAssumption
  <2> QED
    BY <2>1, <2>2, <2>3
<1>4. CASE k = [kind |-> "open"]
  BY <1>4 DEF LastOf
<1>5. CASE k = [kind |-> "cleanup"]
  BY <1>5 DEF LastOf
<1> QED
  BY <1>1, <1>2, <1>3, <1>4, <1>5 DEF Calls, Requests, Resets

\* An assignment of CONFIG_DHCP_MASQ leaves a configuration.
LEMMA DhcpAssignType ==
  ASSUME cfg \in ConfigTypes, NEW a \in DhcpArg, NEW i, DhcpAssign(a, i)
  PROVE  cfg' \in ConfigTypes
<1> USE DEF ConfigTypes
<1>1. CASE cfg' = [cfg EXCEPT !.dhcp_enabled = FALSE]
  BY <1>1
<1>2. CASE cfg' = [cfg EXCEPT !.dhcp_server_arp = FALSE]
  BY <1>2
<1>3. CASE cfg' = [cfg EXCEPT !.options_len = 0]
  BY <1>3
<1>4. CASE cfg' = [cfg EXCEPT !.dhcp_addr = a.addr, !.dhcp_server_ip = a.server]
  BY <1>4 DEF DhcpArg, AnyAddress
<1>5. CASE cfg' = [cfg EXCEPT !.dhcp_server_mac = "server"]
  BY <1>5 DEF Macs
<1>6. CASE cfg' = [cfg EXCEPT !.dhcp_enabled = TRUE]
  BY <1>6
<1>7. CASE cfg' = [cfg EXCEPT !.dhcp_server_arp = TRUE]
  BY <1>7
<1> QED
  BY <1>1, <1>2, <1>3, <1>4, <1>5, <1>6, <1>7 DEF DhcpAssign

\* An assignment of a reset leaves a configuration.
LEMMA ResetAssignType ==
  ASSUME cfg \in ConfigTypes, NEW i, ResetAssign(i)
  PROVE  cfg' \in ConfigTypes
<1> USE DEF ConfigTypes
<1>1. CASE cfg' = [cfg EXCEPT !.m_tun = FALSE]
  BY <1>1
<1>2. CASE cfg' = [cfg EXCEPT !.localIP = NoAddress, !.remote = AnyAddress, !.TapToUser = "none"]
  BY <1>2 DEF AnyAddress, Macs
<1>3. CASE cfg' = [cfg EXCEPT !.dhcp_enabled = FALSE]
  BY <1>3
<1>4. CASE cfg' = [cfg EXCEPT !.dhcp_server_arp = FALSE, !.options_len = 0,
                             !.dhcp_addr = NoAddress, !.dhcp_server_ip = NoAddress]
  BY <1>4 DEF AnyAddress
<1>5. CASE cfg' = [cfg EXCEPT !.received_discover = FALSE]
  BY <1>5
<1>6. CASE cfg' = [cfg EXCEPT !.bad_requests = 0, !.dhcp_server_mac = "none"]
  <2>1. 0 \in 0 .. BAD_DHCPREQUEST_NAK_THRESHOLD
    BY ConfigAssumption
  <2> QED
    BY <1>6, <2>1 DEF Macs
<1> QED
  BY <1>1, <1>2, <1>3, <1>4, <1>5, <1>6 DEF ResetAssign

\* An assignment leaves a configuration.
LEMMA AssignsType ==
  ASSUME cfg \in ConfigTypes, NEW k \in Calls, NEW i \in 1 .. LastOf(k), Assigns(k, i)
  PROVE  cfg' \in ConfigTypes
<1>1. CASE k.kind = "tun" /\ k.arg \in TunArg /\ TunAssign(k.arg, i)
  <2>1. k.arg.local \in AnyAddress /\ k.arg.remote \in SUBSET AnyAddress
    BY <1>1 DEF TunArg, AnyAddress
  <2> QED
    BY <1>1, <2>1 DEF ConfigTypes, Macs, TunAssign
<1>2. CASE k.kind = "dhcp" /\ k.arg \in DhcpArg /\ DhcpAssign(k.arg, i)
  BY <1>2, DhcpAssignType
<1>3. CASE k.kind = "opt" /\ k.arg \in Nat /\ OptAssign(k.arg, i)
  BY <1>3 DEF ConfigTypes, OptAssign
<1>4. CASE ResetAssign(i)
  BY <1>4, ResetAssignType
<1> QED
  BY <1>1, <1>2, <1>3, <1>4, CallKinds DEF Assigns

-----------------------------------------------------------------------------
(* Types                                                                   *)

\* Every variable keeps its type, and no caller makes an assignment too many.
LEMMA TypeInvStep == TypeInv /\ [ConfigNext]_configVars => TypeInv'
<1> SUFFICES ASSUME TypeInv, [ConfigNext]_configVars PROVE TypeInv'
  OBVIOUS
<1> USE DEF TypeInv, ConfigTypeOK, CallInv, Busy, Return
<1>1. ASSUME UNCHANGED configVars PROVE TypeInv'
  BY <1>1 DEF configVars, callVars
<1>2. ASSUME Close PROVE TypeInv'
  BY <1>2 DEF Close
<1>3. ASSUME NEW c \in Callers, NEW k \in Requests, Ioctl(c, k) PROVE TypeInv'
  <2>1. k \in Calls /\ 1 \in 1 .. LastOf(k)
    BY CallKinds DEF Calls
  <2>2. calls' \in 0 .. MaxCalls
    BY <1>3, ConfigAssumption DEF Ioctl
  <2>3. session' \in [tuns : 0 .. 2, dhcps : 0 .. 2, raced : BOOLEAN]
    <3>1. UpToTwo(session.tuns) \in 0 .. 2 /\ UpToTwo(session.dhcps) \in 0 .. 2
      BY DEF UpToTwo
    <3>2. CASE k.kind = "tun"
      BY <1>3, <3>1, <3>2 DEF Ioctl
    <3>3. CASE k.kind = "dhcp"
      BY <1>3, <3>1, <3>3 DEF Ioctl
    <3>4. CASE k.kind \notin {"tun", "dhcp"}
      BY <1>3, <3>4 DEF Ioctl
    <3> QED
      BY <3>2, <3>3, <3>4
  <2> QED
    BY <1>3, <2>1, <2>2, <2>3 DEF Ioctl, Begin
<1>4. ASSUME NEW c \in Callers, Open(c) \/ Cleanup(c) PROVE TypeInv'
  <2>1. \A k \in Resets : k \in Calls /\ 1 \in 1 .. LastOf(k)
    BY DEF Calls, Resets, LastOf
  <2>2. session' \in [tuns : 0 .. 2, dhcps : 0 .. 2, raced : BOOLEAN]
    <3>1. CASE Open(c)
      BY <3>1 DEF Open
    <3>2. CASE Cleanup(c)
      <4>1. session' = [tuns |-> 0, dhcps |-> 0, raced |-> (\E d \in Callers : Busy(d))]
        BY <3>2 DEF Cleanup, NewSession
      <4> QED
        BY <4>1
    <3> QED
      BY <1>4, <3>1, <3>2
  <2> QED
    BY <1>4, <2>1, <2>2 DEF Open, Cleanup, Begin, Resets
<1>5. ASSUME NEW c \in Callers, CallStep(c) PROVE TypeInv'
  <2>1. CASE RefuseTun(c)
    BY <2>1 DEF RefuseTun
  <2>2. CASE Assign(c)
    <3>1. call[c] \in Calls /\ next[c] \in 1 .. LastOf(call[c]) /\ next[c] < LastOf(call[c])
      BY <2>2 DEF Assign
    <3>2. cfg' \in ConfigTypes
      BY <2>2, <3>1, AssignsType DEF Assign
    <3>3. next[c] + 1 \in 1 .. 7 /\ next[c] + 1 \in 1 .. LastOf(call[c])
      BY <3>1, CallKinds
    <3> QED
      BY <2>2, <3>2, <3>3 DEF Assign
  <2>3. ASSUME LastAssign(c) PROVE cfg' \in ConfigTypes
    BY <2>3, AssignsType DEF LastAssign
  <2>4. CASE FinishConfig(c)
    BY <2>4, <2>3 DEF FinishConfig
  <2>5. CASE FinishOpt(c)
    BY <2>5, <2>3 DEF FinishOpt
  <2>6. CASE FinishOpen(c)
    BY <2>6, <2>3 DEF FinishOpen, NewSession
  <2>7. CASE FinishCleanup(c)
    BY <2>7, <2>3 DEF FinishCleanup
  <2>8. CASE CheckModes(c)
    BY <2>8 DEF CheckModes, CheckTun, CheckDhcp
  <2>9. CASE CompareSubnet(c)
    BY <2>9 DEF CompareSubnet
  <2>10. CASE CopyMac(c)
    BY <2>10 DEF CopyMac, ConfigTypes
  <2>11. CASE ClearArp(c)
    <3>1. cfg' \in ConfigTypes
      BY <2>11 DEF ClearArp, ConfigTypes
    <3> QED
      BY <2>11, <3>1 DEF ClearArp
  <2> QED
    BY <1>5, <2>1, <2>2, <2>4, <2>5, <2>6, <2>7, <2>8, <2>9, <2>10, <2>11 DEF CallStep
<1> QED
  BY <1>1, <1>2, <1>3, <1>4, <1>5 DEF ConfigNext

\* The initial values have their types.
LEMMA TypeInvInit == ConfigInit => TypeInv
  BY ConfigAssumption
     DEF ConfigInit, TypeInv, ConfigTypeOK, CallInv, ConfigTypes, PlainConfig, AnyAddress, Macs, NewSession

\* Every variable keeps its type, whatever calls run and however they interleave.
THEOREM TypeCorrect == ConfigSpec => []ConfigTypeOK
<1>1. TypeInv => ConfigTypeOK
  BY DEF TypeInv
<1> QED
  BY <1>1, TypeInvInit, TypeInvStep, PTL DEF ConfigSpec, configVars

-----------------------------------------------------------------------------
(* Control                                                                 *)

\* The requests, the resets and no call at all are different things.
LEMMA KindsDiffer ==
  /\ \A k \in Requests : k \notin Resets /\ k # NoCall /\ k.kind \in {"tun", "dhcp", "opt"}
  /\ NoCall \notin Resets /\ NoCall.kind = "none"
  /\ [kind |-> "open"] # [kind |-> "cleanup"]
  /\ \A k \in Resets : k.kind \in {"open", "cleanup"}
<1>1. \A k \in Requests : k.kind \in {"tun", "dhcp", "opt"}
  BY DEF Requests
<1>2. NoCall.kind = "none" /\ \A k \in Resets : k.kind \in {"open", "cleanup"}
  BY DEF NoCall, Resets
<1>3. [kind |-> "open"].kind = "open" /\ [kind |-> "cleanup"].kind = "cleanup"
  OBVIOUS
<1> QED
  BY <1>1, <1>2, <1>3

\* At first no call runs.
LEMMA ControlInit == ConfigInit => ControlInv
<1> SUFFICES ASSUME ConfigInit PROVE ControlInv
  OBVIOUS
<1>1. \A c \in Callers : call[c] = NoCall /\ at[c] = "idle"
  BY DEF ConfigInit
<1>2. file = "closed"
  BY DEF ConfigInit
<1> QED
  BY <1>1, <1>2, KindsDiffer DEF ControlInv, PlaceInv, PhaseInv, Resets

\* No step lets a call run beside a reset, except a cleanup that is marked as raced.
LEMMA ControlStep == TypeInv /\ ControlInv /\ [ConfigNext]_configVars => ControlInv'
<1> SUFFICES ASSUME TypeInv, ControlInv, [ConfigNext]_configVars PROVE ControlInv'
  OBVIOUS
<1> USE KindsDiffer DEF TypeInv, ConfigTypeOK, ControlInv, PlaceInv, PhaseInv, Busy, Return
<1>1. ASSUME UNCHANGED configVars PROVE ControlInv'
  BY <1>1 DEF configVars, callVars
<1>2. ASSUME Close PROVE ControlInv'
  BY <1>2 DEF Close
<1>3. ASSUME NEW c \in Callers, NEW k \in Requests, Ioctl(c, k) PROVE ControlInv'
  <2>1. session'.raced = session.raced
    BY <1>3 DEF Ioctl
  <2> QED
    BY <1>3, <2>1 DEF Ioctl, Begin
<1>4. ASSUME NEW c \in Callers, Open(c) PROVE ControlInv'
  <2>1. [kind |-> "open"] \in Resets
    BY DEF Resets
  <2> QED
    BY <1>4, <2>1 DEF Open, Begin
<1>5. ASSUME NEW c \in Callers, Cleanup(c) PROVE ControlInv'
  <2>1. [kind |-> "cleanup"] \in Resets
    BY DEF Resets
  <2>2. session'.raced = (\E d \in Callers : Busy(d))
    BY <1>5 DEF Cleanup, NewSession
  <2>3. \A d \in Callers : call[d] \notin Resets
    BY <1>5 DEF Cleanup, Resets
  <2> QED
    BY <1>5, <2>1, <2>2, <2>3 DEF Cleanup, Begin
<1>6. ASSUME NEW c \in Callers, CallStep(c) PROVE ControlInv'
  <2>1. CASE RefuseTun(c)
    BY <2>1 DEF RefuseTun
  <2>2. CASE Assign(c)
    BY <2>2 DEF Assign
  <2>3. CASE FinishConfig(c)
    BY <2>3 DEF FinishConfig, LastAssign
  <2>4. CASE FinishOpt(c)
    BY <2>4 DEF FinishOpt
  <2>5. CASE FinishOpen(c)
    BY <2>5 DEF FinishOpen, LastAssign, NewSession
  <2>6. CASE FinishCleanup(c)
    <3>1. call[c] \in Resets /\ file = "cleaning" /\ at[c] = "assign"
      BY <2>6 DEF FinishCleanup, LastAssign, TypeInv, CallInv, Calls
    <3>2. \A d \in Callers \ {c} : call[d] \notin Resets /\ call'[d] = call[d] /\ at'[d] = at[d]
      BY <2>6, <3>1 DEF FinishCleanup
    <3>3. call'[c] = NoCall /\ at'[c] = "idle"
      BY <2>6 DEF FinishCleanup
    <3>4. file' = "cleaned" /\ session' = session
      BY <2>6 DEF FinishCleanup
    <3>5. \A d \in Callers : call'[d] \notin Resets
      BY <3>2, <3>3
    <3>6. ~session.raced => \A d \in Callers : call'[d] = NoCall
      BY <3>1, <3>2, <3>3
    <3> QED
      BY <3>2, <3>3, <3>4, <3>5, <3>6 DEF Resets
  <2>7. CASE CheckModes(c) \/ CompareSubnet(c)
    BY <2>7 DEF CheckModes, CheckTun, CheckDhcp, CompareSubnet
  <2>8. CASE CopyMac(c) \/ ClearArp(c)
    BY <2>8 DEF CopyMac, ClearArp
  <2> QED
    BY <1>6, <2>1, <2>2, <2>3, <2>4, <2>5, <2>6, <2>7, <2>8 DEF CallStep
<1> QED
  BY <1>1, <1>2, <1>3, <1>4, <1>5, <1>6 DEF ConfigNext

-----------------------------------------------------------------------------
(* What an assignment does to the configuration                            *)

\* CONFIG_TUN and CONFIG_POINT_TO_POINT.
LEMMA TunEffect ==
  ASSUME cfg \in ConfigTypes, Whole, NEW a \in TunArg, NEW i \in 1 .. 4, TunUpTo(i), TunAssign(a, i)
  PROVE  Whole' /\ NothingLost /\ TunUpTo(i + 1)'
<1> USE DEF ConfigTypes, Whole, NothingLost, TunUpTo, DhcpUpTo, HasPeer
<1>1. CASE i = 1 /\ cfg' = [cfg EXCEPT !.m_tun = FALSE]
  BY <1>1
<1>2. CASE i = 2 /\ cfg' = [cfg EXCEPT !.localIP = a.local, !.remote = a.remote]
  <2>1. a.local # NoAddress
    BY ConfigAssumption DEF TunArg
  <2> QED
    BY <1>2, <2>1
<1>3. CASE i = 3 /\ cfg' = [cfg EXCEPT !.TapToUser = "peer"]
  BY <1>3
<1>4. CASE i = 4 /\ cfg' = [cfg EXCEPT !.m_tun = TRUE]
  BY <1>4
<1> QED
  BY <1>1, <1>2, <1>3, <1>4 DEF TunAssign

\* CONFIG_DHCP_MASQ.
LEMMA DhcpEffect ==
  ASSUME cfg \in ConfigTypes, Whole, NEW a \in DhcpArg, NEW i \in 1 .. 7, DhcpUpTo(i), DhcpAssign(a, i)
  PROVE  Whole' /\ NothingLost /\ DhcpUpTo(i + 1)'
<1> USE DEF ConfigTypes, Whole, NothingLost, TunUpTo, DhcpUpTo, HasPeer
<1>1. CASE i = 1 /\ cfg' = [cfg EXCEPT !.dhcp_enabled = FALSE]
  BY <1>1
<1>2. CASE i = 2 /\ cfg' = [cfg EXCEPT !.dhcp_server_arp = FALSE]
  BY <1>2
<1>3. CASE i = 3 /\ cfg' = [cfg EXCEPT !.options_len = 0]
  BY <1>3
<1>4. CASE i = 4 /\ cfg' = [cfg EXCEPT !.dhcp_addr = a.addr, !.dhcp_server_ip = a.server]
  <2>1. a.addr # NoAddress /\ a.server # NoAddress
    BY ConfigAssumption DEF DhcpArg
  <2> QED
    BY <1>4, <2>1
<1>5. CASE i = 5 /\ cfg' = [cfg EXCEPT !.dhcp_server_mac = "server"]
  BY <1>5
<1>6. CASE i = 6 /\ cfg' = [cfg EXCEPT !.dhcp_enabled = TRUE]
  BY <1>6
<1>7. CASE i = 7 /\ cfg' = [cfg EXCEPT !.dhcp_server_arp = TRUE]
  BY <1>7
<1> QED
  BY <1>1, <1>2, <1>3, <1>4, <1>5, <1>6, <1>7 DEF DhcpAssign

\* CONFIG_DHCP_SET_OPT, and the end of CheckIfDhcpAndTunMode.
LEMMA OtherEffects ==
  ASSUME cfg \in ConfigTypes, Whole,
         \/ \E n \in Nat, i \in 1 .. 2 : OptAssign(n, i)
         \/ HasPeer /\ cfg' = [cfg EXCEPT !.dhcp_server_mac = cfg.TapToUser]
         \/ cfg' = [cfg EXCEPT !.dhcp_server_arp = FALSE]
  PROVE  Whole' /\ NothingLost
<1> USE DEF ConfigTypes, Whole, NothingLost, TunUpTo, DhcpUpTo, HasPeer
<1>1. ASSUME NEW n \in Nat, cfg' = [cfg EXCEPT !.options_len = n] PROVE Whole' /\ NothingLost
  BY <1>1
<1>2. CASE HasPeer /\ cfg' = [cfg EXCEPT !.dhcp_server_mac = cfg.TapToUser]
  BY <1>2
<1>3. CASE cfg' = [cfg EXCEPT !.dhcp_server_arp = FALSE]
  BY <1>3
<1> QED
  BY <1>1, <1>2, <1>3 DEF OptAssign

\* tapResetAdapterState.
LEMMA ResetEffect ==
  ASSUME cfg \in ConfigTypes, NEW i \in 1 .. 6, ResetUpTo(i), ResetAssign(i)
  PROVE  ResetUpTo(i + 1)' /\ (Whole => Whole') /\ (i = 6 => cfg' = PlainConfig)
<1> USE DEF ConfigTypes, Whole, ResetUpTo
<1>1. CASE i = 1 /\ cfg' = [cfg EXCEPT !.m_tun = FALSE]
  BY <1>1
<1>2. CASE i = 2 /\ cfg' = [cfg EXCEPT !.localIP = NoAddress, !.remote = AnyAddress, !.TapToUser = "none"]
  BY <1>2
<1>3. CASE i = 3 /\ cfg' = [cfg EXCEPT !.dhcp_enabled = FALSE]
  BY <1>3
<1>4. CASE i = 4 /\ cfg' = [cfg EXCEPT !.dhcp_server_arp = FALSE, !.options_len = 0,
                                       !.dhcp_addr = NoAddress, !.dhcp_server_ip = NoAddress]
  BY <1>4
<1>5. CASE i = 5 /\ cfg' = [cfg EXCEPT !.received_discover = FALSE]
  BY <1>5
<1>6. CASE i = 6 /\ cfg' = [cfg EXCEPT !.bad_requests = 0, !.dhcp_server_mac = "none"]
  <2>1. ResetUpTo(7)' /\ (Whole => Whole')
    BY <1>6
  <2>2. cfg' = PlainConfig
    <3>1. cfg = [m_tun |-> cfg.m_tun, localIP |-> cfg.localIP, remote |-> cfg.remote,
                 TapToUser |-> cfg.TapToUser, dhcp_enabled |-> cfg.dhcp_enabled,
                 dhcp_server_arp |-> cfg.dhcp_server_arp, options_len |-> cfg.options_len,
                 dhcp_addr |-> cfg.dhcp_addr, dhcp_server_ip |-> cfg.dhcp_server_ip,
                 dhcp_server_mac |-> cfg.dhcp_server_mac,
                 received_discover |-> cfg.received_discover, bad_requests |-> cfg.bad_requests]
      OBVIOUS
    <3>2. /\ cfg.m_tun = FALSE /\ cfg.localIP = NoAddress /\ cfg.remote = AnyAddress
          /\ cfg.TapToUser = "none" /\ cfg.dhcp_enabled = FALSE /\ cfg.dhcp_server_arp = FALSE
          /\ cfg.options_len = 0 /\ cfg.dhcp_addr = NoAddress /\ cfg.dhcp_server_ip = NoAddress
      BY <1>6
    <3>3. cfg.received_discover = FALSE
      BY <1>6
    <3> QED
      BY <1>6, <3>1, <3>2, <3>3 DEF PlainConfig
  <2> QED
    BY <1>6, <2>1, <2>2
<1> QED
  BY <1>1, <1>2, <1>3, <1>4, <1>5, <1>6 DEF ResetAssign

-----------------------------------------------------------------------------
(* Data                                                                    *)

\* The driver starts with a plain configuration.
LEMMA DataInit == ConfigInit => DataInv
<1> SUFFICES ASSUME ConfigInit PROVE DataInv
  OBVIOUS
<1>1. cfg.dhcp_enabled = FALSE /\ cfg.m_tun = FALSE
  BY DEF ConfigInit, PlainConfig
<1>2. \A c \in Callers : call[c] = NoCall /\ at[c] = "idle"
  BY DEF ConfigInit
<1>3. file = "closed"
  BY DEF ConfigInit
<1> QED
  BY <1>1, <1>2, <1>3, KindsDiffer DEF DataInv, Whole, ResetInv, IoctlInv, FreshInv

\* An IOCTL's own assignment, or the end of its CheckIfDhcpAndTunMode, keeps what the
\* other calls need.
LEMMA IoctlKeeps ==
  ASSUME TypeInv, ControlInv, DataInv, NEW c \in Callers, call[c] \in Requests,
         ~session.raced => Whole' /\ NothingLost,
         ~session.raced /\ at'[c] = "assign" =>
           /\ call[c].kind = "tun" => TunUpTo(next[c])'
           /\ call[c].kind = "dhcp" => DhcpUpTo(next[c])',
         at'[c] \in {"checkDhcp", "compare", "copyMac"} => at[c] \in {"checkDhcp", "compare", "copyMac"},
         call'[c] \in {call[c], NoCall}, call'[c] = NoCall => at'[c] = "idle",
         \A d \in Callers \ {c} : call'[d] = call[d] /\ at'[d] = at[d] /\ next'[d] = next[d],
         UNCHANGED <<file, session>>
  PROVE  DataInv'
<1> USE KindsDiffer DEF TypeInv, ConfigTypeOK, ControlInv, PlaceInv, PhaseInv
<1>1. CASE session.raced
  BY <1>1 DEF DataInv, ResetInv, IoctlInv, FreshInv
<1>2. CASE ~session.raced
  <2>1. file = "open"
    BY <1>2
  <2>2. (~session.raced => Whole)'
    BY <1>2
  <2>3. ResetInv'
    BY <2>1 DEF ResetInv
  <2>4. IoctlInv'
    <3> SUFFICES ASSUME NEW d \in Callers
                 PROVE /\ call'[d].kind = "tun" /\ at'[d] = "assign" => TunUpTo(next[d])'
                       /\ call'[d].kind = "dhcp" /\ at'[d] = "assign" => DhcpUpTo(next[d])'
                       /\ at'[d] \in {"checkDhcp", "compare", "copyMac"} => HasPeer'
      BY DEF IoctlInv
    <3>1. NothingLost
      BY <1>2
    <3>2. at'[d] \in {"checkDhcp", "compare", "copyMac"} => HasPeer'
      BY <1>2, <3>1 DEF DataInv, IoctlInv, NothingLost
    <3>3. CASE d = c
      BY <1>2, <3>2, <3>3
    <3>4. CASE d # c
      <4>1. next[d] \in 1 .. 7 /\ next'[d] = next[d] /\ call'[d] = call[d] /\ at'[d] = at[d]
        BY <3>4
      <4>2. call[d].kind = "tun" /\ at[d] = "assign" => TunUpTo(next[d])
        BY <1>2 DEF DataInv, IoctlInv
      <4>3. call[d].kind = "dhcp" /\ at[d] = "assign" => DhcpUpTo(next[d])
        BY <1>2 DEF DataInv, IoctlInv
      <4> QED
        BY <3>1, <3>2, <4>1, <4>2, <4>3 DEF NothingLost, TunUpTo, DhcpUpTo
    <3> QED
      BY <3>3, <3>4
  <2>5. FreshInv'
    BY <2>1 DEF DataInv, FreshInv
  <2> QED
    BY <2>2, <2>3, <2>4, <2>5 DEF DataInv
<1> QED
  BY <1>1, <1>2

\* The beginning of a call, and the close of the device, change no configuration.
LEMMA BeginKeeps ==
  ASSUME TypeInv, ControlInv, DataInv,
         \/ UNCHANGED configVars
         \/ Close
         \/ \E c \in Callers : Open(c) \/ Cleanup(c) \/ \E k \in Requests : Ioctl(c, k)
  PROVE  DataInv'
<1> USE KindsDiffer DEF TypeInv, ConfigTypeOK, ControlInv, PlaceInv, PhaseInv, DataInv, Busy
<1>1. CASE UNCHANGED configVars
  BY <1>1 DEF configVars, callVars, Whole, ResetInv, ResetUpTo, IoctlInv, TunUpTo, DhcpUpTo,
              HasPeer, FreshInv
<1>2. CASE Close
  BY <1>2 DEF Close, Whole, ResetInv, ResetUpTo, IoctlInv, TunUpTo, DhcpUpTo, HasPeer, FreshInv
<1>3. ASSUME NEW c \in Callers, Open(c) PROVE DataInv'
  <2>1. \A d \in Callers : d # c => call'[d] = NoCall /\ at'[d] = "idle"
    BY <1>3 DEF Open, Begin, Resets
  <2>2. call'[c] = [kind |-> "open"] /\ call'[c].kind = "open" /\ at'[c] = "assign" /\ next'[c] = 1
    BY <1>3 DEF Open, Begin
  <2>3. cfg' = cfg /\ file' = "opening" /\ session' = session
    BY <1>3 DEF Open
  <2> QED
    BY <2>1, <2>2, <2>3 DEF Whole, ResetInv, ResetUpTo, IoctlInv, FreshInv
<1>4. ASSUME NEW c \in Callers, Cleanup(c) PROVE DataInv'
  <2>1. call'[c] = [kind |-> "cleanup"] /\ call'[c].kind = "cleanup" /\ at'[c] = "assign" /\ next'[c] = 1
    BY <1>4 DEF Cleanup, Begin
  <2>2. cfg' = cfg /\ file' = "cleaning" /\ file = "open"
    BY <1>4 DEF Cleanup
  <2>3. session'.raced = \E d \in Callers : Busy(d)
    BY <1>4 DEF Cleanup, NewSession
  <2>4. \A d \in Callers : d # c => call'[d] = call[d] /\ at'[d] = at[d]
    BY <1>4 DEF Cleanup, Begin
  <2>5. \A d \in Callers : call[d] \notin Resets
    BY <2>2 DEF Resets
  <2>6. CASE \E d \in Callers : Busy(d)
    BY <2>2, <2>3, <2>6 DEF ResetInv, IoctlInv, FreshInv
  <2>7. CASE \A d \in Callers : ~Busy(d)
    <3>1. \A d \in Callers : d # c => call'[d] = NoCall /\ at'[d] = "idle"
      BY <2>4, <2>7
    <3> QED
      BY <2>1, <2>2, <3>1 DEF Whole, ResetInv, ResetUpTo, IoctlInv, FreshInv
  <2> QED
    BY <2>6, <2>7
<1>5. ASSUME NEW c \in Callers, NEW k \in Requests, Ioctl(c, k) PROVE DataInv'
  <2>1. cfg' = cfg /\ file' = "open" /\ file = "open" /\ session'.raced = session.raced
    BY <1>5 DEF Ioctl
  <2>2. call'[c] = k /\ at'[c] = "assign" /\ next'[c] = 1
    BY <1>5 DEF Ioctl, Begin
  <2>3. \A d \in Callers : d # c => call'[d] = call[d] /\ at'[d] = at[d] /\ next'[d] = next[d]
    BY <1>5 DEF Ioctl, Begin
  <2>4. Whole' = Whole
    BY <2>1 DEF Whole
  <2>5. ResetInv'
    BY <2>1, <2>2, <2>3 DEF ResetInv, Resets
  <2>6. IoctlInv'
    BY <2>1, <2>2, <2>3 DEF IoctlInv, TunUpTo, DhcpUpTo, HasPeer
  <2>7. FreshInv'
    <3> SUFFICES session' # NewSession
      BY DEF FreshInv
    <3>1. CASE k.kind = "opt"
      <4>1. cfg # PlainConfig
        <5>1. cfg.dhcp_enabled
          BY <1>5, <3>1 DEF Ioctl
        <5>2. ~PlainConfig.dhcp_enabled
          BY DEF PlainConfig
        <5> QED
          BY <5>1, <5>2
      <4>2. session' = session
        BY <1>5, <3>1 DEF Ioctl
      <4> QED
        BY <2>1, <4>1, <4>2 DEF FreshInv
    <3>2. CASE k.kind \in {"tun", "dhcp"}
      <4>1. session'.tuns = UpToTwo(session.tuns) \/ session'.dhcps = UpToTwo(session.dhcps)
        BY <1>5, <3>2 DEF Ioctl
      <4>2. UpToTwo(session.tuns) # 0 /\ UpToTwo(session.dhcps) # 0
        BY DEF UpToTwo
      <4> QED
        BY <4>1, <4>2 DEF NewSession
    <3> QED
      BY <3>1, <3>2
  <2> QED
    BY <2>1, <2>4, <2>5, <2>6, <2>7
<1> QED
  BY <1>1, <1>2, <1>3, <1>4, <1>5

\* An assignment of a reset clears what the ones before it left, if it is alone.
LEMMA ResetKeeps ==
  ASSUME TypeInv, ControlInv, DataInv, NEW c \in Callers, call[c] \in Resets,
         next[c] \in 1 .. 6, ResetAssign(next[c]),
         Assign(c) \/ FinishOpen(c) \/ FinishCleanup(c)
  PROVE  DataInv'
<1> USE KindsDiffer DEF TypeInv, ConfigTypeOK, ControlInv, PlaceInv, PhaseInv, DataInv, Return
<1>1. CASE file # "opening" /\ session.raced
  <2>1. ~FinishOpen(c)
    BY <1>1 DEF FinishOpen, LastAssign, Resets
  <2>2. file' # "open" /\ file' # "opening" /\ session' = session
    BY <1>1, <2>1 DEF Assign, FinishCleanup
  <2> QED
    BY <1>1, <2>2 DEF ResetInv, IoctlInv, FreshInv
<1>2. CASE file = "opening" \/ ~session.raced
  <2>1. PICK i \in 1 .. 6 : i = next[c]
    OBVIOUS
  <2>2. ResetUpTo(i)
    BY <1>2, <2>1 DEF ResetInv, ResetUpTo
  <2>3. ResetUpTo(i + 1)' /\ (Whole => Whole') /\ (i = 6 => cfg' = PlainConfig)
    BY <2>1, <2>2, ResetEffect
  <2>4. \A d \in Callers : d # c =>
          call'[d] = NoCall /\ at'[d] = "idle"
    BY <1>2 DEF Assign, FinishOpen, FinishCleanup, Resets
  <2>5. CASE Assign(c)
    <3>1. next'[c] = i + 1 /\ call'[c] = call[c] /\ at'[c] = "assign" /\ UNCHANGED <<file, session>>
      BY <2>1, <2>5 DEF Assign
    <3>2. call[c].kind \notin {"tun", "dhcp"}
      OBVIOUS
    <3> QED
      BY <2>3, <2>4, <3>1, <3>2 DEF ResetInv, ResetUpTo, IoctlInv, FreshInv, Resets
  <2>6. CASE FinishOpen(c) \/ FinishCleanup(c)
    <3>1. i = 6
      BY <2>1, <2>6 DEF FinishOpen, FinishCleanup, LastAssign, LastOf
    <3>2. \A d \in Callers : call'[d] = NoCall /\ at'[d] = "idle"
      BY <2>4, <2>6 DEF FinishOpen, FinishCleanup
    <3>3. Whole'
      BY <2>3, <3>1 DEF Whole, PlainConfig
    <3> QED
      BY <2>3, <3>1, <3>2, <3>3 DEF ResetInv, IoctlInv, FreshInv
  <2> QED
    BY <2>5, <2>6 DEF ResetInv
<1> QED
  BY <1>1, <1>2

\* No step of a call loses what the configuration must hold.
LEMMA CallKeeps ==
  ASSUME TypeInv, ControlInv, DataInv, NEW c \in Callers, CallStep(c)
  PROVE  DataInv'
<1> USE DEF TypeInv, ConfigTypeOK, CallInv
<1>1. call[c] \in Calls
  <2>1. at[c] # "idle"
    BY DEF CallStep, RefuseTun, Assign, FinishConfig, FinishOpt, FinishOpen, FinishCleanup,
       LastAssign, CheckModes, CheckTun, CheckDhcp, CompareSubnet, CopyMac, ClearArp
  <2>2. call[c] # NoCall
    BY <2>1 DEF ControlInv, PlaceInv
  <2> QED
    BY <2>2 DEF Calls, Resets
<1>2. CASE call[c] \in Resets
  <2>1. at[c] = "assign" /\ call[c].kind \in {"open", "cleanup"} /\ LastOf(call[c]) = 6
    BY <1>1, <1>2, CallKinds, KindsDiffer DEF ControlInv, PlaceInv
  <2>2. next[c] \in 1 .. 6
    BY <1>1, <2>1
  <2>3. Assign(c) \/ FinishOpen(c) \/ FinishCleanup(c)
    BY <2>1 DEF CallStep, RefuseTun, Refused, FinishConfig, FinishOpt, CheckModes, CheckTun,
                CheckDhcp, CompareSubnet,
       CopyMac, ClearArp
  <2>4. ResetAssign(next[c])
    BY <2>1, <2>3 DEF Assign, FinishOpen, FinishCleanup, LastAssign, Assigns
  <2> QED
    BY <1>2, <2>2, <2>3, <2>4, ResetKeeps
<1>3. CASE call[c] \in Requests
  <2> USE <1>3, KindsDiffer
  <2>1. /\ \A d \in Callers \ {c} : call'[d] = call[d] /\ at'[d] = at[d] /\ next'[d] = next[d]
        /\ call'[c] \in {call[c], NoCall} /\ (call'[c] = NoCall => at'[c] = "idle")
        /\ UNCHANGED <<file, session>>
    BY DEF CallStep, RefuseTun, Assign, FinishConfig, FinishOpt, FinishOpen, FinishCleanup,
       CheckModes, CheckTun, CheckDhcp, CompareSubnet, CopyMac, ClearArp, LastAssign, Return
  <2>2. CASE Assign(c) \/ FinishConfig(c) \/ FinishOpt(c)
    <3>1. /\ at[c] = "assign" /\ next[c] \in 1 .. LastOf(call[c]) /\ Assigns(call[c], next[c])
          /\ at'[c] = "assign" => next'[c] = next[c] + 1
          /\ at'[c] \notin {"checkDhcp", "compare", "copyMac"}
      BY <1>1, <2>2 DEF Assign, FinishConfig, FinishOpt, LastAssign, Return
    <3>2. PICK i \in 1 .. LastOf(call[c]) : i = next[c]
      BY <3>1
    <3>3. ~session.raced => Whole /\ IoctlInv
      BY DEF DataInv
    <3>4. CASE call[c].kind = "tun"
      <4>1. call[c].arg \in TunArg /\ i \in 1 .. 4 /\ TunAssign(call[c].arg, i)
        BY <1>1, <3>1, <3>2, <3>4, CallKinds DEF Assigns
      <4>2. ~session.raced => Whole' /\ NothingLost /\ TunUpTo(i + 1)'
        <5>1. ~session.raced => TunUpTo(i)
          BY <3>1, <3>2, <3>3, <3>4 DEF IoctlInv, TunUpTo
        <5> QED
          BY <3>3, <4>1, <5>1, TunEffect
      <4>3. ~session.raced /\ at'[c] = "assign" => TunUpTo(next[c])'
        BY <3>1, <3>2, <4>2 DEF TunUpTo
      <4> QED
        BY <2>1, <3>1, <3>4, <4>2, <4>3, IoctlKeeps
    <3>5. CASE call[c].kind = "dhcp"
      <4>1. call[c].arg \in DhcpArg /\ i \in 1 .. 7 /\ DhcpAssign(call[c].arg, i)
        BY <1>1, <3>1, <3>2, <3>5, CallKinds DEF Assigns
      <4>2. ~session.raced => Whole' /\ NothingLost /\ DhcpUpTo(i + 1)'
        <5>1. ~session.raced => DhcpUpTo(i)
          BY <3>1, <3>2, <3>3, <3>5 DEF IoctlInv, DhcpUpTo
        <5> QED
          BY <3>3, <4>1, <5>1, DhcpEffect
      <4>3. ~session.raced /\ at'[c] = "assign" => DhcpUpTo(next[c])'
        BY <3>1, <3>2, <4>2 DEF DhcpUpTo
      <4> QED
        BY <2>1, <3>1, <3>5, <4>2, <4>3, IoctlKeeps
    <3>6. CASE call[c].kind = "opt"
      <4>1. call[c].arg \in Nat /\ i \in 1 .. 2 /\ OptAssign(call[c].arg, i)
        BY <1>1, <3>1, <3>2, <3>6, CallKinds DEF Assigns
      <4>2. ~session.raced => Whole' /\ NothingLost
        BY <3>3, <4>1, OtherEffects
      <4> QED
        BY <2>1, <3>1, <3>6, <4>2, IoctlKeeps
    <3> QED
      BY <3>4, <3>5, <3>6
  <2>3. CASE RefuseTun(c) \/ CheckModes(c) \/ CompareSubnet(c)
    <3>1. cfg' = cfg
      BY <2>3 DEF RefuseTun, CheckModes, CheckTun, CheckDhcp, CompareSubnet
    <3>2. at'[c] # "assign"
      BY <2>3 DEF RefuseTun, CheckModes, CheckTun, CheckDhcp, CompareSubnet, Return
    <3>3. Whole' = Whole /\ NothingLost /\ HasPeer' = HasPeer
      BY <3>1 DEF Whole, NothingLost, TunUpTo, DhcpUpTo, HasPeer
    <3>4. CASE at'[c] \in {"checkDhcp", "compare", "copyMac"} => at[c] \in {"checkDhcp", "compare", "copyMac"}
      BY <2>1, <3>2, <3>3, <3>4, IoctlKeeps DEF DataInv
    <3>5. CASE CheckTun(c) /\ at'[c] = "checkDhcp"
      <4>1. cfg.m_tun
        BY <3>5 DEF CheckModes, CheckTun, CheckDhcp, Return
      <4>2. ~session.raced => HasPeer
        BY <4>1 DEF DataInv, Whole, HasPeer
      <4>3. IoctlInv'
        BY <2>1, <3>1, <3>2, <4>2 DEF DataInv, IoctlInv, TunUpTo, DhcpUpTo, HasPeer
      <4>4. ResetInv'
        BY <2>1, <3>1, <3>5 DEF DataInv, ResetInv, ResetUpTo, CheckModes, CheckTun, CheckDhcp, Return
      <4>5. FreshInv'
        BY <2>1, <3>1, <3>5 DEF DataInv, FreshInv, CheckModes, CheckTun, CheckDhcp, Return
      <4> QED
        BY <2>1, <3>3, <4>3, <4>4, <4>5 DEF DataInv
    <3> QED
      BY <2>3, <3>4, <3>5 DEF RefuseTun, CheckModes, CheckTun, CheckDhcp, CompareSubnet, Return
  <2>4. CASE CopyMac(c) \/ ClearArp(c)
    <3>1. at'[c] \in {"clearArp", "idle"}
      BY <2>4 DEF CopyMac, ClearArp, Return
    <3>2. ~session.raced => Whole' /\ NothingLost
      BY <2>4, OtherEffects DEF CopyMac, ClearArp, DataInv, IoctlInv
    <3> QED
      BY <2>1, <3>1, <3>2, IoctlKeeps
  <2>5. ~FinishOpen(c) /\ ~FinishCleanup(c)
    BY DEF FinishOpen, FinishCleanup
  <2> QED
    BY <2>2, <2>3, <2>4, <2>5 DEF CallStep
<1> QED
  BY <1>1, <1>2, <1>3 DEF Calls

-----------------------------------------------------------------------------
(* Theorems                                                                *)

ConfigInv == TypeInv /\ ControlInv /\ DataInv

\* All of it holds in every state.
LEMMA ConfigInvariant == ConfigSpec => []ConfigInv
<1>1. ConfigInit => ConfigInv
  BY TypeInvInit, ControlInit, DataInit DEF ConfigInv
<1>2. ConfigInv /\ [ConfigNext]_configVars => ConfigInv'
  <2> SUFFICES ASSUME ConfigInv, [ConfigNext]_configVars PROVE ConfigInv'
    OBVIOUS
  <2>1. TypeInv' /\ ControlInv'
    BY TypeInvStep, ControlStep DEF ConfigInv
  <2>2. DataInv'
    BY BeginKeeps, CallKeeps DEF ConfigInv, ConfigNext
  <2> QED
    BY <2>1, <2>2 DEF ConfigInv
<1> QED
  BY <1>1, <1>2, PTL DEF ConfigSpec, configVars

\* A mode that is switched on has its whole configuration at every instant, whatever
\* IOCTLs run at once, unless a cleanup overtook one of them.
THEOREM WholePublished == ConfigSpec => []PublishedWhole
<1>1. ConfigInv => PublishedWhole
  BY DEF ConfigInv, DataInv, Whole, PublishedWhole
<1> QED
  BY <1>1, ConfigInvariant, PTL

\* A device that is open and not yet configured has a plain configuration, whatever the
\* sessions before it did.
THEOREM OpensPlain == ConfigSpec => []OpenStartsPlain
<1>1. [PlainConfig EXCEPT !.received_discover = FALSE, !.bad_requests = 0] = PlainConfig
  <2>1. PlainConfig.bad_requests = 0 /\ PlainConfig.received_discover = FALSE
    BY DEF PlainConfig
  <2>2. PlainConfig = [x \in DOMAIN PlainConfig |-> PlainConfig[x]]
    BY DEF PlainConfig
  <2> QED
    BY <2>1, <2>2
<1>2. ConfigInv => OpenStartsPlain
  BY <1>1 DEF ConfigInv, DataInv, FreshInv, OpenStartsPlain
<1> QED
  BY <1>2, ConfigInvariant, PTL

-----------------------------------------------------------------------------
(* Reachability: what CheckIfDhcpAndTunMode leaves behind                  *)

TunCall(c) == call[c].kind = "tun"
DhcpCall(c) == call[c].kind = "dhcp"
InSubnet == Encloses(cfg.remote, cfg.dhcp_server_ip)

\* In a session that configures each mode at most once there is one call for each, and
\* until its last assignment but one the mode is off.
OnceInv ==
  /\ \A c, d \in Callers : TunCall(c) /\ TunCall(d) => c = d
  /\ \A c, d \in Callers : DhcpCall(c) /\ DhcpCall(d) => c = d
  /\ \A c \in Callers : TunCall(c) => session.tuns # 0 /\ (at[c] = "assign" => ~cfg.m_tun)
  /\ \A c \in Callers :
       DhcpCall(c) => session.dhcps # 0 /\ (at[c] = "assign" /\ next[c] # 7 => ~cfg.dhcp_enabled)
  /\ session.tuns = 0 => ~cfg.m_tun
  /\ session.dhcps = 0 => ~cfg.dhcp_enabled

\* A mode that a call has found on stays on while the call compares.
CompareInv ==
  \A c \in Callers :
    /\ at[c] = "checkDhcp" => cfg.m_tun
    /\ at[c] \in {"compare", "copyMac", "clearArp"} => cfg.m_tun /\ cfg.dhcp_enabled
    /\ at[c] \in {"copyMac", "clearArp"} => InSubnet

\* A call of CONFIG_DHCP_MASQ is about to let the server be asked for.
AboutToAnswer(c) == DhcpCall(c) /\ at[c] = "assign" /\ next[c] = 7

\* A server in the tunnel's subnet has the peer's MAC address, or some call will still
\* compare; and only such a server is not asked for by itself.
ServerInv ==
  /\ cfg.m_tun /\ cfg.dhcp_enabled /\ InSubnet =>
       \/ cfg.dhcp_server_mac = "peer"
       \/ \E c \in Callers : at[c] \in {"check", "checkDhcp", "compare", "copyMac"} \/ AboutToAnswer(c)
  /\ cfg.dhcp_enabled /\ ~cfg.dhcp_server_arp =>
       (cfg.m_tun /\ InSubnet) \/ \E c \in Callers : AboutToAnswer(c)

Reach == OnceInv /\ CompareInv /\ ServerInv
ReachInv == file = "open" /\ Once => Reach

\* A step of CONFIG_TUN.
LEMMA TunReach ==
  ASSUME TypeInv, ControlInv, DataInv, Reach, file = "open",
         NEW c \in Callers, call[c] \in Requests, TunCall(c),
         Assign(c) \/ FinishConfig(c)
  PROVE  Reach'
<1> USE DEF Reach, TunCall, DhcpCall
<1>1. /\ at[c] = "assign" /\ next[c] \in 1 .. 4 /\ TunAssign(call[c].arg, next[c])
      /\ call' = call /\ session' = session
      /\ \A d \in Callers \ {c} : at'[d] = at[d] /\ next'[d] = next[d]
      /\ next[c] # 4 => at'[c] = "assign"
      /\ next[c] = 4 => at'[c] = "check"
      /\ at'[c] \in {"assign", "check"}
  <2>1. LastOf(call[c]) = 4
    BY DEF LastOf
  <2>2. at[c] = "assign" /\ next[c] \in 1 .. LastOf(call[c]) /\ Assigns(call[c], next[c])
    BY DEF Assign, FinishConfig, LastAssign, TypeInv, CallInv
  <2> QED
    BY <2>1, <2>2 DEF Assign, FinishConfig, LastAssign, Assigns, TypeInv, ConfigTypeOK
<1>2. ~cfg.m_tun /\ cfg \in ConfigTypes
  BY <1>1 DEF OnceInv, TypeInv, ConfigTypeOK
<1>3. \A d \in Callers : at[d] \notin {"checkDhcp", "compare", "copyMac", "clearArp"}
  BY <1>2 DEF CompareInv
<1>4. \A d \in Callers : AboutToAnswer(d)' = AboutToAnswer(d)
  BY <1>1 DEF AboutToAnswer
<1>5. /\ cfg'.dhcp_enabled = cfg.dhcp_enabled /\ cfg'.dhcp_server_arp = cfg.dhcp_server_arp
      /\ next[c] # 4 => ~cfg'.m_tun
  BY <1>1, <1>2 DEF TunAssign, ConfigTypes
<1>6. OnceInv'
  BY <1>1, <1>2, <1>5 DEF OnceInv
<1>7. CompareInv'
  BY <1>1, <1>3 DEF CompareInv
<1>8. ServerInv'
  BY <1>1, <1>2, <1>4, <1>5 DEF ServerInv
<1> QED
  BY <1>6, <1>7, <1>8

\* A step of CONFIG_DHCP_MASQ.
LEMMA DhcpReach ==
  ASSUME TypeInv, ControlInv, DataInv, Reach, file = "open",
         NEW c \in Callers, call[c] \in Requests, DhcpCall(c),
         Assign(c) \/ FinishConfig(c)
  PROVE  Reach'
<1> USE DEF Reach, TunCall, DhcpCall
<1>1. /\ at[c] = "assign" /\ next[c] \in 1 .. 7 /\ DhcpAssign(call[c].arg, next[c])
      /\ call' = call /\ session' = session
      /\ \A d \in Callers \ {c} : at'[d] = at[d] /\ next'[d] = next[d]
      /\ next[c] # 7 => at'[c] = "assign" /\ next'[c] = next[c] + 1
      /\ next[c] = 7 => at'[c] = "check"
      /\ at'[c] \in {"assign", "check"}
  <2>1. LastOf(call[c]) = 7
    BY DEF LastOf
  <2>2. at[c] = "assign" /\ next[c] \in 1 .. LastOf(call[c]) /\ Assigns(call[c], next[c])
    BY DEF Assign, FinishConfig, LastAssign, TypeInv, CallInv
  <2> QED
    BY <2>1, <2>2 DEF Assign, FinishConfig, LastAssign, Assigns, TypeInv, ConfigTypeOK
<1>2. cfg \in ConfigTypes /\ cfg'.m_tun = cfg.m_tun
  BY <1>1 DEF DhcpAssign, ConfigTypes, TypeInv, ConfigTypeOK
<1>3. CASE next[c] # 7
  <2>1. ~cfg.dhcp_enabled
    BY <1>1, <1>3 DEF OnceInv
  <2>2. \A d \in Callers : at[d] \notin {"compare", "copyMac", "clearArp"}
    BY <2>1 DEF CompareInv
  <2>3. next[c] # 6 => ~cfg'.dhcp_enabled
    BY <1>1, <1>2, <1>3, <2>1 DEF DhcpAssign, ConfigTypes
  <2>4. next[c] = 6 => AboutToAnswer(c)'
    BY <1>1 DEF AboutToAnswer
  <2>5. OnceInv'
    BY <1>1, <1>2, <1>3, <2>1, <2>3 DEF OnceInv
  <2>6. CompareInv'
    BY <1>1, <1>2, <1>3, <2>2 DEF CompareInv
  <2>7. ServerInv'
    BY <2>3, <2>4 DEF ServerInv
  <2> QED
    BY <2>5, <2>6, <2>7
<1>4. CASE next[c] = 7
  <2>1. cfg' = [cfg EXCEPT !.dhcp_server_arp = TRUE]
    BY <1>1, <1>4 DEF DhcpAssign
  <2>2. /\ cfg'.dhcp_enabled = cfg.dhcp_enabled /\ cfg'.dhcp_server_arp
        /\ InSubnet' = InSubnet
    BY <1>2, <2>1 DEF ConfigTypes, InSubnet, Encloses
  <2>3. OnceInv'
    BY <1>1, <1>2, <1>4, <2>2 DEF OnceInv
  <2>4. CompareInv'
    BY <1>1, <1>2, <1>4, <2>2 DEF CompareInv
  <2>5. ServerInv'
    BY <1>1, <1>4, <2>2 DEF ServerInv
  <2> QED
    BY <2>3, <2>4, <2>5
<1> QED
  BY <1>3, <1>4

\* The other steps of an IOCTL: options, a refused CONFIG_TUN, CheckIfDhcpAndTunMode.
LEMMA CheckReach ==
  ASSUME TypeInv, ControlInv, DataInv, Reach, file = "open",
         NEW c \in Callers, call[c] \in Requests,
         \/ call[c].kind = "opt" /\ (Assign(c) \/ FinishOpt(c))
         \/ RefuseTun(c) \/ CheckModes(c) \/ CompareSubnet(c) \/ CopyMac(c) \/ ClearArp(c)
  PROVE  Reach'
<1> USE DEF Reach, TunCall, DhcpCall, Return
<1>1. cfg \in ConfigTypes
  BY DEF TypeInv, ConfigTypeOK
<1>2. /\ \A d \in Callers \ {c} : call'[d] = call[d] /\ at'[d] = at[d] /\ next'[d] = next[d]
      /\ (call'[c] = call[c] \/ (call'[c] = NoCall /\ at'[c] = "idle")) /\ session' = session
      /\ at'[c] = "assign" => at[c] = "assign" /\ call[c].kind = "opt"
  BY DEF Assign, FinishOpt, LastAssign, RefuseTun, CheckModes, CheckTun, CheckDhcp, CompareSubnet,
         CopyMac, ClearArp,
         TypeInv, ConfigTypeOK
<1>3. ~AboutToAnswer(c)
  BY DEF AboutToAnswer, RefuseTun, Refused, CheckModes, CheckTun, CheckDhcp, CompareSubnet,
         CopyMac, ClearArp
<1>4. \A d \in Callers : AboutToAnswer(d)' = AboutToAnswer(d)
  BY <1>2, <1>3, KindsDiffer DEF AboutToAnswer
<1>5. /\ cfg'.m_tun = cfg.m_tun /\ cfg'.dhcp_enabled = cfg.dhcp_enabled /\ InSubnet' = InSubnet
      /\ ~ClearArp(c) => cfg'.dhcp_server_arp = cfg.dhcp_server_arp
      /\ ~CopyMac(c) => cfg'.dhcp_server_mac = cfg.dhcp_server_mac
  <2>1. CASE call[c].kind = "opt" /\ (Assign(c) \/ FinishOpt(c))
    BY <1>1, <2>1 DEF Assign, FinishOpt, LastAssign, Assigns, OptAssign, ConfigTypes, InSubnet, Encloses
  <2>2. CASE RefuseTun(c) \/ CheckModes(c) \/ CompareSubnet(c)
    BY <2>2 DEF RefuseTun, CheckModes, CheckTun, CheckDhcp, CompareSubnet, InSubnet, Encloses
  <2>3. CASE CopyMac(c) \/ ClearArp(c)
    BY <1>1, <2>3 DEF CopyMac, ClearArp, ConfigTypes, InSubnet, Encloses
  <2> QED
    BY <2>1, <2>2, <2>3
<1>6. OnceInv'
  BY <1>2, <1>5, KindsDiffer DEF OnceInv
<1>7. CompareInv'
  <2>1. /\ at'[c] = "checkDhcp" => cfg.m_tun
        /\ at'[c] \in {"compare", "copyMac", "clearArp"} => cfg.m_tun /\ cfg.dhcp_enabled
    BY <1>2 DEF CompareInv, Assign, FinishOpt, RefuseTun, CheckModes, CheckTun, CheckDhcp,
                CompareSubnet, CopyMac, ClearArp,
                TypeInv, ConfigTypeOK
  <2>2. at'[c] \in {"copyMac", "clearArp"} => InSubnet
    BY <1>2 DEF CompareInv, Assign, FinishOpt, RefuseTun, CheckModes, CheckTun, CheckDhcp,
                CompareSubnet, CopyMac, ClearArp,
                TypeInv, ConfigTypeOK, InSubnet
  <2> QED
    BY <1>2, <1>5, <2>1, <2>2 DEF CompareInv
<1>8. ServerInv'
  <2>1. cfg'.dhcp_enabled /\ ~cfg'.dhcp_server_arp =>
          (cfg'.m_tun /\ InSubnet') \/ \E d \in Callers : AboutToAnswer(d)'
    BY <1>4, <1>5 DEF ServerInv, CompareInv, ClearArp
  <2>2. cfg'.m_tun /\ cfg'.dhcp_enabled /\ InSubnet' =>
          \/ cfg'.dhcp_server_mac = "peer"
          \/ \E d \in Callers : at'[d] \in {"check", "checkDhcp", "compare", "copyMac"} \/ AboutToAnswer(d)'
    <3>1. CASE CopyMac(c)
      <4>1. cfg.m_tun
        BY <3>1 DEF CopyMac, CompareInv
      <4>2. cfg.TapToUser = "peer"
        BY <4>1 DEF DataInv, Whole, ControlInv, PhaseInv
      <4> QED
        BY <1>1, <3>1, <4>2 DEF CopyMac, ConfigTypes
    <3>2. CASE ~CopyMac(c)
      <4>1. at[c] \in {"check", "checkDhcp", "compare", "copyMac"} /\ cfg.m_tun /\ cfg.dhcp_enabled /\ InSubnet =>
              at'[c] \in {"check", "checkDhcp", "compare", "copyMac"}
        BY <3>2 DEF Assign, FinishOpt, LastAssign, RefuseTun, CheckModes, CheckTun, CheckDhcp,
                    CompareSubnet, ClearArp, InSubnet,
                    TypeInv, ConfigTypeOK
      <4> QED
        BY <1>2, <1>4, <1>5, <3>2, <4>1 DEF ServerInv
    <3> QED
      BY <3>1, <3>2
  <2> QED
    BY <2>1, <2>2 DEF ServerInv
<1> QED
  BY <1>6, <1>7, <1>8

\* An IOCTL begins.
LEMMA IoctlReach ==
  ASSUME TypeInv, ControlInv, Reach, NEW c \in Callers, NEW k \in Requests, Ioctl(c, k), Once'
  PROVE  Reach'
<1> USE DEF Reach, TunCall, DhcpCall
<1>1. /\ cfg' = cfg /\ call'[c] = k /\ at'[c] = "assign" /\ next'[c] = 1
      /\ \A d \in Callers \ {c} : call'[d] = call[d] /\ at'[d] = at[d] /\ next'[d] = next[d]
      /\ call[c] = NoCall /\ at[c] = "idle"
  BY DEF Ioctl, Begin, Busy, ControlInv, PlaceInv, TypeInv, ConfigTypeOK
<1>2. session.tuns \in 0 .. 2 /\ session.dhcps \in 0 .. 2
  BY DEF TypeInv, ConfigTypeOK
<1>3. /\ k.kind = "tun" => session'.tuns = UpToTwo(session.tuns)
      /\ k.kind # "tun" => session'.tuns = session.tuns
      /\ k.kind = "dhcp" => session'.dhcps = UpToTwo(session.dhcps)
      /\ k.kind # "dhcp" => session'.dhcps = session.dhcps
  BY DEF Ioctl, TypeInv, ConfigTypeOK
<1>4. /\ k.kind = "tun" => session.tuns = 0 /\ session'.tuns # 0
      /\ k.kind = "dhcp" => session.dhcps = 0 /\ session'.dhcps # 0
  BY <1>2, <1>3 DEF Once, UpToTwo
<1>5. OnceInv'
  <2>1. k.kind = "tun" => ~cfg.m_tun /\ \A d \in Callers : ~TunCall(d)
    BY <1>4 DEF OnceInv
  <2>2. k.kind = "dhcp" => ~cfg.dhcp_enabled /\ \A d \in Callers : ~DhcpCall(d)
    BY <1>4 DEF OnceInv
  <2> QED
    BY <1>1, <1>3, <1>4, <2>1, <2>2 DEF OnceInv
<1>6. CompareInv'
  BY <1>1 DEF CompareInv, InSubnet, Encloses
<1>7. ServerInv'
  BY <1>1 DEF ServerInv, InSubnet, Encloses, AboutToAnswer
<1> QED
  BY <1>5, <1>6, <1>7

\* The invariant of the reachable addresses is kept by every step.
LEMMA ReachStep ==
  ASSUME ConfigInv, ConfigInv', ReachInv, [ConfigNext]_configVars
  PROVE  ReachInv'
<1> SUFFICES ASSUME file' = "open", Once' PROVE Reach'
  BY DEF ReachInv
<1> USE DEF ConfigInv
<1>1. ASSUME UNCHANGED configVars PROVE Reach'
  BY <1>1 DEF configVars, callVars, ReachInv, Once, Reach, OnceInv, CompareInv, ServerInv, TunCall,
              DhcpCall, AboutToAnswer, InSubnet, Encloses
<1>2. ASSUME NEW c \in Callers, NEW k \in Requests, Ioctl(c, k) PROVE Reach'
  <2>1. file = "open" /\ Once
    <3>1. session.tuns \in 0 .. 2 /\ session.dhcps \in 0 .. 2
      BY DEF TypeInv, ConfigTypeOK
    <3>2. session'.tuns \in {session.tuns, UpToTwo(session.tuns)}
          /\ session'.dhcps \in {session.dhcps, UpToTwo(session.dhcps)}
      BY <1>2 DEF Ioctl, TypeInv, ConfigTypeOK
    <3> QED
      BY <1>2, <3>1, <3>2 DEF Ioctl, Once, UpToTwo
  <2> QED
    BY <1>2, <2>1, IoctlReach DEF ReachInv
<1>3. ASSUME NEW c \in Callers, FinishOpen(c) PROVE Reach'
  <2>1. session' = NewSession
    BY <1>3 DEF FinishOpen
  <2>2. cfg' = PlainConfig /\ \A d \in Callers : call'[d] = NoCall
    BY <2>1 DEF DataInv, FreshInv
  <2>3. \A d \in Callers : at'[d] = "idle"
    BY <2>2 DEF ControlInv, PlaceInv
  <2>4. cfg'.m_tun = FALSE /\ cfg'.dhcp_enabled = FALSE
    BY <2>2 DEF PlainConfig
  <2> QED
    BY <2>2, <2>3, <2>4, KindsDiffer
    DEF Reach, OnceInv, CompareInv, ServerInv, TunCall, DhcpCall
<1>4. ASSUME NEW c \in Callers, CallStep(c), ~FinishOpen(c) PROVE Reach'
  <2>1. file = "open" /\ session' = session
    BY <1>4 DEF CallStep, RefuseTun, Assign, FinishConfig, FinishOpt, FinishCleanup, CheckModes,
                CheckTun, CheckDhcp,
                CompareSubnet, CopyMac, ClearArp
  <2>2. Reach
    BY <2>1 DEF ReachInv, Once
  <2>3. call[c] \in Requests
    <3>1. call[c] \notin Resets
      BY <2>1 DEF ControlInv, PhaseInv, Resets
    <3>2. at[c] # "idle"
      BY <1>4 DEF CallStep, RefuseTun, Assign, FinishConfig, FinishOpt, FinishCleanup,
                  LastAssign, CheckModes, CheckTun, CheckDhcp, CompareSubnet, CopyMac, ClearArp
    <3>3. call[c] # NoCall
      BY <3>2 DEF ControlInv, PlaceInv
    <3> QED
      BY <3>1, <3>3 DEF TypeInv, ConfigTypeOK, Resets
  <2>4. ~FinishCleanup(c) /\ call[c].kind \in {"tun", "dhcp", "opt"}
    BY <2>3, KindsDiffer DEF FinishCleanup
  <2>5. CASE TunCall(c) /\ (Assign(c) \/ FinishConfig(c))
    BY <2>1, <2>2, <2>3, <2>5, TunReach
  <2>6. CASE DhcpCall(c) /\ (Assign(c) \/ FinishConfig(c))
    BY <2>1, <2>2, <2>3, <2>6, DhcpReach
  <2>7. CASE \/ call[c].kind = "opt" /\ (Assign(c) \/ FinishOpt(c))
             \/ RefuseTun(c) \/ CheckModes(c) \/ CompareSubnet(c) \/ CopyMac(c) \/ ClearArp(c)
    BY <2>1, <2>2, <2>3, <2>7, CheckReach
  <2> QED
    BY <1>4, <2>4, <2>5, <2>6, <2>7 DEF CallStep, TunCall, DhcpCall, FinishConfig, FinishOpt
<1>5. ASSUME NEW c \in Callers, Open(c) \/ Cleanup(c) PROVE Reach'
  BY <1>5 DEF Open, Cleanup
<1>6. ASSUME Close PROVE Reach'
  BY <1>6 DEF Close
<1> QED
  BY <1>1, <1>2, <1>3, <1>4, <1>5, <1>6 DEF ConfigNext

\* The answers to ARP, once no call is left that may compare.
LEMMA QuietReach ==
  ASSUME ConfigInv, ReachInv
  PROVE  PeersReachable
<1> SUFFICES ASSUME file = "open", Quiet, Once PROVE PeersReachable
  BY DEF PeersReachable, ServerReachable, SubnetReachable
<1>1. \A c \in Callers : at[c] = "idle"
  BY DEF Quiet, Busy
<1>2. Whole
  BY DEF ConfigInv, DataInv, ControlInv, PhaseInv
<1>3. cfg.m_tun /\ cfg.dhcp_enabled /\ InSubnet => cfg.dhcp_server_mac = "peer"
  BY <1>1 DEF ReachInv, Reach, ServerInv, AboutToAnswer
<1>4. cfg.dhcp_enabled /\ ~cfg.dhcp_server_arp => cfg.m_tun /\ InSubnet
  BY <1>1 DEF ReachInv, Reach, ServerInv, AboutToAnswer
<1>5. ServerReachable
  <2> SUFFICES ASSUME cfg.dhcp_enabled, cfg.dhcp_addr # cfg.dhcp_server_ip,
                      cfg.m_tun => cfg.localIP = cfg.dhcp_addr
               PROVE  ArpReply(cfg.dhcp_addr, cfg.dhcp_server_ip) = cfg.dhcp_server_mac
    BY DEF ServerReachable
  <2>1. CASE cfg.dhcp_server_arp
    BY <1>2, <2>1 DEF Whole, ArpReply, Answers, Encloses
  <2>2. CASE ~cfg.dhcp_server_arp
    BY <1>2, <1>3, <1>4, <2>2 DEF Whole, ArpReply, Answers, Encloses, InSubnet
  <2> QED
    BY <2>1, <2>2
<1>6. SubnetReachable
  <2> SUFFICES ASSUME cfg.m_tun, NEW ip \in cfg.remote \ {cfg.localIP}
               PROVE  ArpReply(cfg.localIP, ip) = cfg.TapToUser
    BY DEF SubnetReachable
  <2>1. CASE cfg.dhcp_enabled /\ cfg.dhcp_server_arp /\ ip = cfg.dhcp_server_ip
    BY <1>2, <1>3, <2>1 DEF Whole, ArpReply, Answers, Encloses, InSubnet
  <2>2. CASE ~(cfg.dhcp_enabled /\ cfg.dhcp_server_arp /\ ip = cfg.dhcp_server_ip)
    BY <1>2, <2>2 DEF Whole, ArpReply, Answers, Encloses
  <2> QED
    BY <2>1, <2>2
<1> QED
  BY <1>5, <1>6 DEF PeersReachable

\* Whatever the order of the two configurations, and if they run at once, the answers to
\* ARP lead to the server and to every peer.
THEOREM PeersReached == ConfigSpec => []PeersReachable
<1>1. ConfigInit => ReachInv
  BY DEF ConfigInit, ReachInv
<1>2. ConfigInv /\ ConfigInv' /\ ReachInv /\ [ConfigNext]_configVars => ReachInv'
  BY ReachStep
<1>3. ConfigInv /\ ReachInv => PeersReachable
  BY QuietReach
<1> QED
  BY <1>1, <1>2, <1>3, ConfigInvariant, PTL DEF ConfigSpec, configVars

=============================================================================
